-------------------------- MODULE MuxDialerProofs --------------------------
(***************************************************************************)
(* Proofs about MuxDialer for any number of dials and addresses, and any   *)
(* dialers of the kinds that there are.                                    *)
(***************************************************************************)
EXTENDS MuxDialer, ChainRoute, TrafficLimiter, SequenceTheorems, SubsequenceProofs, FiniteSetTheorems

(* A dialer in a behaviour is one of the kinds that are looked at. *)
LEMMA KindOK ==
  ASSUME kind \in Kinds
  PROVE  /\ kind \in Kind
         /\ kind.shakes => kind.checks /\ kind.connIs # "entry"
BY MuxDialerAssumption

(* The types of what is in the two functions of records. *)
LEMMA SessType ==
  ASSUME TypeOK, NEW i \in 1..Len(sess)
  PROVE  /\ sess[i] \in SessRecord /\ sess[i].addr \in Addrs
         /\ sess[i].made \in BOOLEAN /\ sess[i].up \in BOOLEAN /\ sess[i].seen \in BOOLEAN
<1>1. sess[i] \in SessRecord
  BY DEF TypeOK
<1> QED
  BY <1>1 DEF SessRecord

LEMMA DialType ==
  ASSUME TypeOK, NEW d \in Dials
  PROVE  /\ dials[d] \in DialRecord /\ dials[d].addr \in Addrs \cup {"none"}
         /\ dials[d].conn \in 0..Len(sess) /\ dials[d].calm \in BOOLEAN
<1>1. dials[d] \in DialRecord
  BY DEF TypeOK
<1>2. dials[d].conn \in Nat /\ Len(sess) \in Nat /\ dials[d].conn <= Len(sess)
  BY <1>1 DEF TypeOK, DialRecord
<1> QED
  BY <1>1, <1>2 DEF DialRecord

(* Closing a connection changes nothing but that it is up no longer. *)
LEMMA KillEffect ==
  ASSUME TypeOK, NEW k \in 1..Len(sess), sess' = Kill(k)
  PROVE  /\ sess' \in Seq(SessRecord) /\ Len(sess') = Len(sess)
         /\ ~sess'[k].up
         /\ sess'[k].addr = sess[k].addr /\ sess'[k].made = sess[k].made
         /\ sess'[k].seen = sess[k].seen
         /\ \A i \in 1..Len(sess) : i # k => sess'[i] = sess[i]
<1>1. sess \in Seq(SessRecord) /\ sess[k] \in SessRecord
  BY SessType DEF TypeOK
<1> DEFINE r == [sess[k] EXCEPT !.up = FALSE]
<1>2. /\ r \in SessRecord /\ r.up = FALSE
      /\ r.addr = sess[k].addr /\ r.made = sess[k].made /\ r.seen = sess[k].seen
  BY <1>1 DEF SessRecord
<1>3. sess' = [sess EXCEPT ![k] = r]
  BY DEF Kill
<1> HIDE DEF r
<1>4. sess' \in Seq(SessRecord) /\ Len(sess') = Len(sess)
  BY <1>1, <1>2, <1>3
<1>5. sess'[k] = r /\ \A i \in 1..Len(sess) : i # k => sess'[i] = sess[i]
  BY <1>1, <1>3
<1> QED
  BY <1>2, <1>4, <1>5

(* Dials at an address are calm no longer, and otherwise as before. *)
LEMMA DisturbEffect ==
  ASSUME TypeOK, NEW a \in Addrs
  PROVE  /\ Disturb(a) \in [Dials -> DialRecord]
         /\ \A e \in Dials :
              /\ Disturb(a)[e].pc = dials[e].pc /\ Disturb(a)[e].addr = dials[e].addr
              /\ Disturb(a)[e].conn = dials[e].conn
              /\ Disturb(a)[e].calm => dials[e].calm /\ dials[e].addr # a
<1>1. \A e \in Dials : dials[e] \in DialRecord /\ dials[e].calm \in BOOLEAN
  BY DialType
<1> QED
  BY <1>1 DEF Disturb, DialRecord

LEMMA InitOK == Init => IInv
<1> SUFFICES ASSUME Init PROVE IInv
  OBVIOUS
<1>1. TypeOK
  BY MuxDialerAssumption DEF Init, TypeOK, NoDial, DialRecord, Busy
<1> QED
  BY <1>1 DEF Init, IInv, LiveIsShared, PendingHasDialer, SessOK, DialOK, CalmOK, CalmAt, QuietOK, NoDial

(* The types of the parts that one step refers to. *)
LEMMA Shapes ==
  ASSUME IInv
  PROVE  /\ TypeOK /\ Len(sess) \in Nat /\ slot \in [Addrs -> 0..Len(sess)]
         /\ \A i \in 1..Len(sess) : sess[i].addr \in Addrs
         /\ \A e \in Dials : dials[e].conn \in 0..Len(sess)
         /\ \A e \in Dials : dials[e].pc # "idle" =>
              /\ dials[e].conn \in 1..Len(sess) /\ dials[e].addr \in Addrs
              /\ Split \/ sess[dials[e].conn].addr = dials[e].addr
<1>1. TypeOK
  BY DEF IInv, LiveIsShared
<1>2. /\ Len(sess) \in Nat /\ slot \in [Addrs -> 0..Len(sess)]
      /\ \A i \in 1..Len(sess) : sess[i].addr \in Addrs
      /\ \A e \in Dials : dials[e].conn \in 0..Len(sess)
  BY <1>1, SessType, DialType DEF TypeOK
<1>3. \A e \in Dials : dials[e].pc # "idle" => dials[e].conn # 0 /\ dials[e].addr \in Addrs
  BY <1>1 DEF IInv, DialOK, TypeOK
<1> QED
  BY <1>1, <1>2, <1>3 DEF IInv, DialOK

(* What Handshake looks at is the entry of the name, and there is no other address
   unless the node has a resolver or hosts. *)
LEMMA HomeFacts ==
  ASSUME IInv, NEW i \in 1..Len(sess)
  PROVE  /\ sess[i].addr \in Addrs /\ Home(sess[i].addr) \in Addrs
         /\ Home(Home(sess[i].addr)) = Home(sess[i].addr)
         /\ kind.shakes => Home(sess[i].addr) = Name
         /\ ~Split => Home(sess[i].addr) = sess[i].addr
<1>1. /\ mapped \in BOOLEAN /\ Name \in Addrs /\ sess[i].addr \in Addrs
  BY Shapes, MuxDialerAssumption DEF TypeOK
<1>2. mapped \/ sess[i].addr = Name
  BY DEF IInv, SessOK
<1>3. CASE kind.shakes
  BY <1>1, <1>2, <1>3 DEF Home, Split
<1>4. CASE ~kind.shakes
  BY <1>1, <1>2, <1>4 DEF Home, Split
<1> QED
  BY <1>3, <1>4

(* Only what works on one connection d is about changes. *)
LEMMA StateEffect ==
  ASSUME TypeOK, NEW d \in Dials, NEW p \in Busy \cup {"idle", "open"}, NEW c \in BOOLEAN,
         dials' = [dials EXCEPT ![d].pc = p, ![d].calm = c]
  PROVE  /\ dials' \in [Dials -> DialRecord]
         /\ dials'[d].pc = p /\ dials'[d].calm = c
         /\ dials'[d].addr = dials[d].addr /\ dials'[d].conn = dials[d].conn
         /\ \A e \in Dials : e # d => dials'[e] = dials[e]
<1>1. dials \in [Dials -> DialRecord] /\ dials[d] \in DialRecord
  BY DEF TypeOK
<1> DEFINE r == [[dials[d] EXCEPT !.pc = p] EXCEPT !.calm = c]
<1>2. r \in DialRecord /\ r.pc = p /\ r.calm = c /\ r.addr = dials[d].addr /\ r.conn = dials[d].conn
  BY <1>1 DEF DialRecord
<1>3. dials' = [dials EXCEPT ![d] = r]
  BY <1>1
<1> HIDE DEF r
<1> QED
  BY <1>1, <1>2, <1>3

LEMMA PcEffect ==
  ASSUME TypeOK, NEW d \in Dials, NEW p \in Busy \cup {"idle", "open"},
         dials' = [dials EXCEPT ![d].pc = p]
  PROVE  /\ dials' \in [Dials -> DialRecord]
         /\ dials'[d].pc = p /\ dials'[d].calm = dials[d].calm
         /\ dials'[d].addr = dials[d].addr /\ dials'[d].conn = dials[d].conn
         /\ \A e \in Dials : e # d => dials'[e] = dials[e]
<1>1. dials \in [Dials -> DialRecord] /\ dials[d] \in DialRecord
  BY DEF TypeOK
<1> DEFINE r == [dials[d] EXCEPT !.pc = p]
<1>2. /\ r \in DialRecord /\ r.pc = p /\ r.calm = dials[d].calm
      /\ r.addr = dials[d].addr /\ r.conn = dials[d].conn
  BY <1>1 DEF DialRecord
<1>3. dials' = [dials EXCEPT ![d] = r]
  BY <1>1
<1> HIDE DEF r
<1> QED
  BY <1>1, <1>2, <1>3

LEMMA IdleEffect ==
  ASSUME TypeOK, NEW d \in Dials, dials' = [dials EXCEPT ![d] = NoDial]
  PROVE  /\ dials' \in [Dials -> DialRecord]
         /\ dials'[d].pc = "idle" /\ ~dials'[d].calm /\ dials'[d].conn = 0
         /\ \A e \in Dials : e # d => dials'[e] = dials[e]
BY DEF TypeOK, NoDial, DialRecord, Busy

----------------------------------------------------------------------------
(* The sessions are those there were, to the same addresses. *)
SameSessions ==
  /\ Len(sess') = Len(sess)
  /\ \A i \in 1..Len(sess) : /\ sess'[i].addr = sess[i].addr
                             /\ sess[i].made => sess'[i].made
                             /\ sess'[i].seen => ~sess'[i].up

LEMMA TypeStep ==
  ASSUME TypeOK, kind' = kind, mapped' = mapped, sess' \in Seq(SessRecord),
         slot' \in [Addrs -> 0..Len(sess')], dials' \in [Dials -> DialRecord],
         \A e \in Dials : dials'[e].conn \in 0..Len(sess'), quiet' \in [Addrs -> 0..MaxFailed]
  PROVE  TypeOK'
<1>1. \A e \in Dials : dials'[e].conn <= Len(sess')
  OBVIOUS
<1> QED
  BY <1>1 DEF TypeOK

(* An entry that is kept, or is a session to the address, is right. *)
LEMMA SessStep ==
  ASSUME IInv, SameSessions, kind' = kind, mapped' = mapped,
         \A b \in Addrs : slot'[b] # 0 =>
           slot'[b] = slot[b] \/ (slot'[b] \in 1..Len(sess) /\ (Split \/ sess[slot'[b]].addr = b))
  PROVE  SessOK'
<1>1. \A b \in Addrs : slot'[b] # 0 => Split \/ sess'[slot'[b]].addr = b
  BY Shapes DEF IInv, SessOK, SameSessions
<1>2. \A i \in 1..Len(sess) : /\ sess'[i].seen => ~sess'[i].up
                              /\ ~kind.shakes => sess'[i].made
                              /\ mapped \/ sess'[i].addr = Name
  BY DEF IInv, SessOK, SameSessions
<1> QED
  BY <1>1, <1>2 DEF SessOK, SameSessions, Split

(* A dial that goes on with its connection is right. *)
LEMMA DialStep ==
  ASSUME IInv, SameSessions, kind' = kind, mapped' = mapped,
         \A e \in Dials : dials'[e].pc # "idle" =>
           /\ dials'[e].conn \in 1..Len(sess) /\ dials'[e].addr \in Addrs
           /\ Split \/ sess[dials'[e].conn].addr = dials'[e].addr
           /\ dials'[e].pc \in {"shake", "failing"} => kind.shakes
  PROVE  DialOK'
BY DEF DialOK, SameSessions, Split

(* What lives now did before, and its entry was not touched; or it is the entry. *)
LEMMA LiveStep ==
  ASSUME IInv, TypeOK', SameSessions, kind' = kind, mapped' = mapped,
         \A i \in 1..Len(sess) : Live(i)' /\ ~kind.foreignDrops /\ kind.connIs # "entry" =>
           \/ slot'[Home(sess[i].addr)] = i
           \/ Live(i) /\ slot'[Home(sess[i].addr)] = slot[Home(sess[i].addr)]
  PROVE  LiveIsShared'
<1> SUFFICES ASSUME NEW i \in 1..Len(sess'), Live(i)', ~kind.foreignDrops, kind.connIs # "entry"
             PROVE  /\ slot'[Home(sess[i].addr)'] = i
                    /\ ~Split => slot'[sess'[i].addr] = i
  BY DEF LiveIsShared, Split
<1>1. i \in 1..Len(sess) /\ sess'[i].addr = sess[i].addr
  BY DEF SameSessions
<1>2. slot'[Home(sess[i].addr)] = i
  BY <1>1 DEF IInv, LiveIsShared
<1>3. Home(sess[i].addr)' = Home(sess[i].addr)
  BY <1>1 DEF Home
<1>4. ~Split => Home(sess[i].addr) = sess[i].addr
  BY <1>1, HomeFacts
<1> QED
  BY <1>1, <1>2, <1>3, <1>4

(* An entry without a session is an old one, and its dialer still at work. *)
LEMMA PendingStep ==
  ASSUME IInv, kind' = kind, mapped' = mapped,
         \A b \in Addrs : slot'[b] # 0 /\ ~sess'[slot'[b]].made =>
           \/ Split /\ b # Name
           \/ /\ slot'[b] = slot[b] /\ ~sess[slot[b]].made
              /\ \A e \in Dials : dials[e].pc = "shake" /\ dials[e].conn = slot[b] =>
                   dials'[e].pc = "shake" /\ dials'[e].conn = slot[b]
  PROVE  PendingHasDialer'
BY DEF IInv, PendingHasDialer, Split

(***************************************************************************)
(* What happens at address a leaves the calm dials to other addresses as   *)
(* they are.                                                               *)
(***************************************************************************)
LEMMA CalmStep ==
  ASSUME IInv, ~Split, NEW a \in Addrs,
         \A b \in Addrs : b # a => slot'[b] = slot[b],
         \A i \in 1..Len(sess) : sess[i].addr # a => sess'[i].up = sess[i].up,
         \A e \in Dials :
           /\ dials'[e].pc \in Busy /\ dials'[e].addr # a =>
                dials[e].pc \in Busy /\ dials[e].addr = dials'[e].addr
           /\ dials'[e].calm /\ dials'[e].addr # a =>
                /\ dials[e].calm /\ dials'[e].pc = dials[e].pc
                /\ dials'[e].addr = dials[e].addr /\ dials'[e].conn = dials[e].conn
           /\ dials'[e].calm /\ dials'[e].addr = a => CalmAt(e)'
  PROVE  CalmOK'
<1> SUFFICES ASSUME NEW e \in Dials, dials'[e].calm, dials'[e].addr # a
             PROVE  CalmAt(e)'
  BY DEF CalmOK
<1>1. /\ dials'[e].pc = dials[e].pc /\ dials'[e].addr = dials[e].addr
      /\ dials'[e].conn = dials[e].conn /\ CalmAt(e)
  BY DEF IInv, CalmOK
<1>2. dials[e].pc = "shake" => /\ dials[e].conn \in 1..Len(sess) /\ dials[e].addr \in Addrs
                               /\ sess[dials[e].conn].addr = dials[e].addr
  BY Shapes
<1>3. dials'[e].pc # "failing"
  BY <1>1 DEF CalmAt
<1>4. dials'[e].pc \in Busy => \A f \in Dials \ {e} :
        dials'[f].addr = dials'[e].addr => dials'[f].pc \notin Busy
  BY <1>1 DEF CalmAt
<1>5. dials'[e].pc = "shake" =>
        slot'[dials'[e].addr] = dials'[e].conn /\ sess'[dials'[e].conn].up
  BY <1>1, <1>2 DEF CalmAt
<1> QED
  BY <1>3, <1>4, <1>5 DEF CalmAt

(* The step of a dial under way that touches only its own address. *)
LEMMA CalmLocal ==
  ASSUME IInv, ~Split, NEW a \in Addrs, NEW d \in Dials, dials[d].pc \in Busy, dials[d].addr = a,
         \A e \in Dials : e # d => dials'[e] = dials[e],
         dials'[d].pc \in Busy => dials'[d].addr = a,
         dials'[d].calm => /\ dials[d].calm /\ dials'[d].addr = a
                           /\ dials'[d].pc \notin {"failing", "shake"},
         \A b \in Addrs : b # a => slot'[b] = slot[b],
         \A i \in 1..Len(sess) : sess[i].addr # a => sess'[i].up = sess[i].up
  PROVE  CalmOK'
<1>1. \A e \in Dials :
        /\ dials'[e].pc \in Busy /\ dials'[e].addr # a =>
             dials[e].pc \in Busy /\ dials[e].addr = dials'[e].addr
        /\ dials'[e].calm /\ dials'[e].addr # a =>
             /\ dials[e].calm /\ dials'[e].pc = dials[e].pc
             /\ dials'[e].addr = dials[e].addr /\ dials'[e].conn = dials[e].conn
  OBVIOUS
<1>2. \A e \in Dials : dials'[e].calm /\ dials'[e].addr = a => CalmAt(e)'
  <2> SUFFICES ASSUME NEW e \in Dials, dials'[e].calm, dials'[e].addr = a
               PROVE  CalmAt(e)'
    OBVIOUS
  <2>1. CASE e = d
    <3>1. \A f \in Dials \ {d} : dials[f].addr = a => dials[f].pc \notin Busy
      BY <2>1 DEF IInv, CalmOK, CalmAt
    <3> QED
      BY <2>1, <3>1 DEF CalmAt
  <2>2. CASE e # d
    <3>1. CalmAt(e) /\ dials[e].pc \notin Busy
      BY <2>2 DEF IInv, CalmOK, CalmAt
    <3> QED
      BY <2>2, <3>1 DEF CalmAt, Busy
  <2> QED
    BY <2>1, <2>2
<1> QED
  BY <1>1, <1>2, CalmStep

(* The count stays, and so does the entry, or both start again. *)
LEMMA QuietStep ==
  ASSUME IInv, kind' = kind, mapped' = mapped,
         \A b \in Addrs : ~Split /\ quiet'[b] # 0 =>
           /\ quiet'[b] = quiet[b]
           /\ slot'[b] # 0 => slot'[b] = slot[b] /\ (sess[slot[b]].up => sess'[slot[b]].up)
  PROVE  QuietOK'
BY DEF IInv, QuietOK, Split

LEMMA ShakesQuiet == IInv /\ ~Split /\ kind.shakes => \A b \in Addrs : quiet[b] = 0
<1> SUFFICES ASSUME IInv, ~Split, kind.shakes PROVE kind.checks
  BY DEF IInv, QuietOK
<1> QED
  BY KindOK, Shapes DEF TypeOK

(* A session that works is an entry that Dial goes on with. *)
LEMMA LiveUsable ==
  ASSUME IInv, NEW i \in 1..Len(sess), Live(i), slot[Home(sess[i].addr)] = i
  PROVE  Usable(Home(sess[i].addr))
<1>1. sess[i].addr \in Addrs /\ Home(Home(sess[i].addr)) = Home(sess[i].addr)
  BY HomeFacts
<1>2. ~sess[i].seen /\ sess[i].made /\ i # 0
  BY DEF Live, IInv, SessOK
<1> QED
  BY <1>1, <1>2 DEF Usable, IsClosed, Holds

----------------------------------------------------------------------------
LEMMA NewOK ==
  ASSUME IInv, NEW d \in Dials, NEW a \in Addrs, DialNew(d, a)
  PROVE  IInv'
<1> DEFINE n == Len(sess) + 1
<1>1. TypeOK /\ kind' = kind /\ mapped' = mapped /\ quiet' = quiet
  BY DEF IInv, LiveIsShared, DialNew
<1>2. /\ sess' \in Seq(SessRecord) /\ Len(sess') = n
      /\ sess'[n] = NewSess(a, ~kind.shakes)
      /\ \A i \in 1..Len(sess) : sess'[i] = sess[i]
  BY <1>1, KindOK DEF DialNew, TypeOK, NewSess, SessRecord, Kind
<1>3. slot' = [slot EXCEPT ![a] = n] /\ slot' \in [Addrs -> 0..n]
  BY <1>1 DEF DialNew, TypeOK
<1>4. /\ dials' \in [Dials -> DialRecord]
      /\ dials'[d].pc = IF kind.shakes THEN "shake" ELSE "connect"
      /\ dials'[d].addr = a /\ dials'[d].conn = n /\ (dials'[d].calm => Calm(d, a))
      /\ \A e \in Dials \ {d} :
           /\ dials'[e].pc = dials[e].pc /\ dials'[e].addr = dials[e].addr
           /\ dials'[e].conn = dials[e].conn
           /\ dials'[e].calm => dials[e].calm /\ dials[e].addr # a
  <2> DEFINE r == [pc |-> IF kind.shakes THEN "shake" ELSE "connect", addr |-> a,
                   conn |-> n, calm |-> Calm(d, a)]
  <2>1. /\ r \in DialRecord /\ r.pc = IF kind.shakes THEN "shake" ELSE "connect"
        /\ r.addr = a /\ r.conn = n /\ r.calm = Calm(d, a)
    BY <1>1 DEF TypeOK, DialRecord, Busy, Calm
  <2>2. dials' = [Disturb(a) EXCEPT ![d] = r]
    BY DEF DialNew
  <2> HIDE DEF r
  <2> QED
    BY <1>1, <2>1, <2>2, DisturbEffect
<1>5. /\ Len(sess) \in Nat /\ slot \in [Addrs -> 0..Len(sess)]
      /\ \A i \in 1..Len(sess) : sess[i].addr \in Addrs
      /\ \A e \in Dials : dials[e].conn \in 0..Len(sess)
  BY <1>1, SessType, DialType DEF TypeOK
<1>6. TypeOK'
  <2>1. \A e \in Dials : dials'[e].conn <= n
    BY <1>4, <1>5
  <2> QED
    BY <1>1, <1>2, <1>3, <1>4, <2>1 DEF TypeOK
<1>7. /\ sess'[n].addr = a /\ sess'[n].made = ~kind.shakes
      /\ sess'[n].up /\ ~sess'[n].seen
  BY <1>2 DEF NewSess
<1>8. SessOK'
  <2>1. \A b \in Addrs : slot'[b] # 0 => Split \/ sess'[slot'[b]].addr = b
    <3> SUFFICES ASSUME NEW b \in Addrs, slot'[b] # 0
                 PROVE  Split \/ sess'[slot'[b]].addr = b
      OBVIOUS
    <3>1. CASE b = a
      BY <1>3, <1>5, <1>7, <3>1
    <3>2. CASE b # a
      BY <1>2, <1>3, <1>5, <3>2 DEF IInv, SessOK
    <3> QED
      BY <3>1, <3>2
  <2>2. \A i \in 1..n : /\ sess'[i].seen => ~sess'[i].up
                        /\ ~kind.shakes => sess'[i].made
                        /\ mapped \/ sess'[i].addr = Name
    <3>1. /\ sess'[n].seen => ~sess'[n].up
          /\ ~kind.shakes => sess'[n].made
          /\ mapped \/ sess'[n].addr = Name
      BY <1>7 DEF DialNew, Target
    <3>2. \A i \in 1..Len(sess) : /\ sess'[i].seen => ~sess'[i].up
                                  /\ ~kind.shakes => sess'[i].made
                                  /\ mapped \/ sess'[i].addr = Name
      BY <1>2 DEF IInv, SessOK
    <3>3. \A i \in 1..n : i = n \/ i \in 1..Len(sess)
      BY <1>5
    <3> QED
      BY <3>1, <3>2, <3>3, Zenon
  <2>3. Len(sess') = n /\ (Split' <=> Split)
    BY <1>1, <1>2 DEF Split
  <2> HIDE DEF n
  <2> QED
    BY <1>1, <2>1, <2>2, <2>3 DEF SessOK, Split
<1>9. LiveIsShared'
  <2> SUFFICES ASSUME ~kind.foreignDrops, kind.connIs # "entry",
                      NEW i \in 1..n, Live(i)'
               PROVE  /\ slot'[Home(sess[i].addr)'] = i
                      /\ ~Split => slot'[sess'[i].addr] = i
    BY <1>1, <1>2, <1>6 DEF LiveIsShared, Split
  <2>1. CASE i = n
    <3>1. ~kind.shakes
      BY <1>7, <2>1 DEF Live
    <3>2. sess'[i].addr = a /\ Home(sess[i].addr)' = a
      BY <1>1, <1>7, <2>1, <3>1 DEF Home
    <3> QED
      BY <1>3, <1>5, <2>1, <3>2
  <2>2. CASE i # n
    <3>1. i \in 1..Len(sess) /\ sess'[i] = sess[i] /\ Live(i)
      BY <1>2, <1>5, <2>2 DEF Live
    <3>2. slot[Home(sess[i].addr)] = i /\ Home(sess[i].addr) \in Addrs
      BY <1>5, <3>1, HomeFacts DEF IInv, LiveIsShared
    <3>3. Home(sess[i].addr) # a
      <4> SUFFICES ASSUME Home(sess[i].addr) = a PROVE FALSE
        OBVIOUS
      <4> QED
        BY <3>1, <3>2, LiveUsable DEF DialNew
    <3>4. slot'[Home(sess[i].addr)] = i
      BY <1>3, <1>5, <3>2, <3>3
    <3>5. /\ Home(sess[i].addr)' = Home(sess[i].addr) /\ sess'[i].addr = sess[i].addr
          /\ ~Split => Home(sess[i].addr) = sess[i].addr
      BY <1>1, <3>1, HomeFacts DEF Home
    <3> QED
      BY <3>4, <3>5
  <2> QED
    BY <2>1, <2>2
<1>10. PendingHasDialer'
  <2> SUFFICES ASSUME NEW b \in Addrs, slot'[b] # 0, ~sess'[slot'[b]].made, ~(Split /\ b # Name)
               PROVE  \E e \in Dials : dials'[e].pc = "shake" /\ dials'[e].conn = slot'[b]
    BY <1>1 DEF PendingHasDialer, Split
  <2>1. CASE b = a
    BY <1>3, <1>4, <1>5, <1>7, <2>1
  <2>2. CASE b # a
    <3>1. slot'[b] = slot[b] /\ slot[b] \in 1..Len(sess) /\ sess'[slot[b]] = sess[slot[b]]
      BY <1>2, <1>3, <1>5, <2>2
    <3>2. PICK e \in Dials : dials[e].pc = "shake" /\ dials[e].conn = slot[b]
      BY <3>1 DEF IInv, PendingHasDialer
    <3> QED
      BY <1>4, <3>1, <3>2 DEF DialNew
  <2> QED
    BY <2>1, <2>2
<1>11. DialOK'
  <2>1. /\ dials'[d].conn # 0 /\ dials'[d].addr \in Addrs /\ sess'[n].addr = dials'[d].addr
        /\ dials'[d].pc \in {"shake", "failing"} => kind.shakes
    BY <1>4, <1>5, <1>7
  <2>2. ASSUME NEW e \in Dials \ {d}, dials'[e].pc # "idle"
        PROVE  /\ dials'[e].conn # 0 /\ dials'[e].addr \in Addrs
               /\ Split \/ sess'[dials'[e].conn].addr = dials'[e].addr
               /\ dials'[e].pc \in {"shake", "failing"} => kind.shakes
    <3>1. dials[e].conn \in 1..Len(sess) /\ sess'[dials[e].conn] = sess[dials[e].conn]
      BY <1>2, <1>4, <2>2, Shapes
    <3> QED
      BY <1>4, <2>2, <3>1 DEF IInv, DialOK
  <2>3. Split' <=> Split
    BY <1>1 DEF Split
  <2> HIDE DEF n
  <2> QED
    BY <1>1, <1>4, <2>1, <2>2, <2>3 DEF DialOK
<1>12. CalmOK'
  <2> SUFFICES ASSUME ~Split, NEW e \in Dials, dials'[e].calm
               PROVE  /\ dials'[e].pc # "failing"
                      /\ dials'[e].pc \in Busy => \A f \in Dials \ {e} :
                           dials'[f].addr = dials'[e].addr => dials'[f].pc \notin Busy
                      /\ dials'[e].pc = "shake" =>
                           /\ slot'[dials'[e].addr] = dials'[e].conn
                           /\ sess'[dials'[e].conn].up
    BY <1>1 DEF CalmOK, CalmAt, Split
  <2>1. CASE e = d
    <3>1. \A f \in Dials \ {d} : dials[f].addr = a => dials[f].pc \notin Busy
      BY <1>4, <2>1 DEF Calm
    <3> QED
      BY <1>3, <1>4, <1>5, <1>7, <2>1, <3>1
  <2>2. CASE e # d
    <3>1. dials[e].calm /\ dials[e].addr # a
      BY <1>4, <2>2
    <3>2. /\ dials[e].pc # "failing"
          /\ dials[e].pc \in Busy => \A f \in Dials \ {e} :
               dials[f].addr = dials[e].addr => dials[f].pc \notin Busy
          /\ dials[e].pc = "shake" =>
               /\ slot[dials[e].addr] = dials[e].conn
               /\ sess[dials[e].conn].up
      BY <3>1 DEF IInv, CalmOK, CalmAt
    <3>3. dials[e].pc = "shake" => dials[e].addr \in Addrs /\ dials[e].conn \in 1..Len(sess)
      BY <1>5 DEF IInv, DialOK
    <3> QED
      BY <1>2, <1>3, <1>4, <1>5, <2>2, <3>1, <3>2, <3>3 
  <2> QED
    BY <2>1, <2>2
<1>13. QuietOK'
  <2> SUFFICES ASSUME ~Split, NEW b \in Addrs, quiet'[b] # 0
               PROVE  /\ ~kind.checks /\ quiet'[b] = 1
                      /\ slot'[b] # 0 => sess'[slot'[b]].up
    BY <1>1 DEF QuietOK, Split
  <2>1. ~kind.checks /\ quiet[b] = 1 /\ (slot[b] # 0 => sess[slot[b]].up)
    BY <1>1 DEF IInv, QuietOK
  <2>2. CASE b = a
    BY <1>1, <1>3, <1>5, <1>7, <2>1, <2>2
  <2>3. CASE b # a
    BY <1>1, <1>2, <1>3, <1>5, <2>1, <2>3
  <2> QED
    BY <2>2, <2>3
<1> QED
  BY <1>6, <1>8, <1>9, <1>10, <1>11, <1>12, <1>13 DEF IInv

LEMMA DialErrorOK ==
  ASSUME IInv, NEW d \in Dials, NEW a \in Addrs, DialError(d, a)
  PROVE  IInv'
<1>1. TypeOK /\ kind' = kind /\ mapped' = mapped /\ sess' = sess /\ quiet' = quiet /\ slot' = [slot EXCEPT ![a] = 0]
  BY Shapes DEF DialError
<1>2. /\ dials' \in [Dials -> DialRecord]
      /\ \A e \in Dials : /\ dials'[e].pc = dials[e].pc /\ dials'[e].addr = dials[e].addr
                          /\ dials'[e].conn = dials[e].conn
                          /\ dials'[e].calm => dials[e].calm /\ dials[e].addr # a
  BY <1>1, DisturbEffect DEF DialError
<1>3. SameSessions
  BY <1>1 DEF SameSessions, IInv, SessOK
<1>4. TypeOK'
  <2>1. \A e \in Dials : dials'[e].conn \in 0..Len(sess')
    BY <1>1, <1>2, Shapes
  <2>2. sess \in Seq(SessRecord) /\ quiet \in [Addrs -> 0..MaxFailed] /\ slot' \in [Addrs -> 0..Len(sess')]
    BY <1>1, Shapes DEF TypeOK
  <2> QED
    BY <1>1, <1>2, <2>1, <2>2, TypeStep
<1>5. SessOK'
  BY <1>1, <1>3, Shapes, SessStep
<1>6. DialOK'
  BY <1>1, <1>2, <1>3, Shapes, DialStep DEF IInv, DialOK
<1>7. LiveIsShared'
  <2> SUFFICES ASSUME NEW i \in 1..Len(sess), Live(i)', ~kind.foreignDrops, kind.connIs # "entry"
               PROVE  Live(i) /\ slot'[Home(sess[i].addr)] = slot[Home(sess[i].addr)]
    BY <1>1, <1>3, <1>4, LiveStep
  <2>1. Live(i) /\ slot[Home(sess[i].addr)] = i /\ Home(sess[i].addr) \in Addrs
    BY <1>1, Shapes, HomeFacts DEF Live, IInv, LiveIsShared
  <2>2. Home(sess[i].addr) # a
    BY <2>1, LiveUsable DEF DialError
  <2> QED
    BY <1>1, <2>1, <2>2, Shapes
<1>8. PendingHasDialer'
  BY <1>1, <1>2, Shapes, PendingStep
<1>9. CalmOK'
  <2> SUFFICES ASSUME ~Split PROVE CalmOK'
    BY <1>1 DEF CalmOK, Split
  <2> QED
    BY <1>1, <1>2, Shapes, CalmStep
<1>10. QuietOK'
  BY <1>1, Shapes, QuietStep
<1> QED
  BY <1>5, <1>6, <1>7, <1>8, <1>9, <1>10 DEF IInv

LEMMA RenewErrorOK ==
  ASSUME IInv, NEW d \in Dials, NEW a \in Addrs, RenewError(d, a)
  PROVE  IInv'
<1>1. TypeOK /\ kind' = kind /\ mapped' = mapped /\ sess' = sess /\ quiet' = quiet /\ slot' = slot
  BY Shapes DEF RenewError
<1>2. /\ dials' \in [Dials -> DialRecord]
      /\ \A e \in Dials : /\ dials'[e].pc = dials[e].pc /\ dials'[e].addr = dials[e].addr
                          /\ dials'[e].conn = dials[e].conn
                          /\ dials'[e].calm => dials[e].calm /\ dials[e].addr # a
  BY <1>1, DisturbEffect DEF RenewError
<1>3. SameSessions
  BY <1>1 DEF SameSessions, IInv, SessOK
<1>4. TypeOK'
  <2>1. \A e \in Dials : dials'[e].conn \in 0..Len(sess')
    BY <1>1, <1>2, Shapes
  <2>2. sess \in Seq(SessRecord) /\ quiet \in [Addrs -> 0..MaxFailed] /\ slot' \in [Addrs -> 0..Len(sess')]
    BY <1>1, Shapes DEF TypeOK
  <2> QED
    BY <1>1, <1>2, <2>1, <2>2, TypeStep
<1>5. SessOK'
  BY <1>1, <1>3, Shapes, SessStep
<1>6. DialOK'
  BY <1>1, <1>2, <1>3, Shapes, DialStep DEF IInv, DialOK
<1>7. LiveIsShared'
  BY <1>1, <1>3, <1>4, LiveStep DEF Live
<1>8. PendingHasDialer'
  BY <1>1, <1>2, Shapes, PendingStep
<1>9. CalmOK'
  <2> SUFFICES ASSUME ~Split PROVE CalmOK'
    BY <1>1 DEF CalmOK, Split
  <2> QED
    BY <1>1, <1>2, Shapes, CalmStep
<1>10. QuietOK'
  BY <1>1, Shapes, QuietStep
<1> QED
  BY <1>5, <1>6, <1>7, <1>8, <1>9, <1>10 DEF IInv

LEMMA SharedOK ==
  ASSUME IInv, NEW d \in Dials, NEW a \in Addrs, DialShared(d, a)
  PROVE  IInv'
<1>1. /\ TypeOK /\ kind' = kind /\ mapped' = mapped /\ sess' = sess /\ quiet' = quiet /\ slot' = slot
      /\ kind.shakes /\ kind.checks /\ slot[a] \in 1..Len(sess)
      /\ Split \/ (sess[slot[a]].addr = a /\ a = Name)
  BY Shapes, KindOK DEF DialShared, Usable, TypeOK, IInv, SessOK, Target, Split
<1>2. /\ dials' \in [Dials -> DialRecord]
      /\ dials'[d].pc = "shake" /\ dials'[d].addr = a /\ dials'[d].conn = slot[a]
      /\ (dials'[d].calm => Calm(d, a))
      /\ \A e \in Dials \ {d} :
           /\ dials'[e].pc = dials[e].pc /\ dials'[e].addr = dials[e].addr
           /\ dials'[e].conn = dials[e].conn
           /\ dials'[e].calm => dials[e].calm /\ dials[e].addr # a
  <2> DEFINE r == [pc |-> "shake", addr |-> a, conn |-> slot[a], calm |-> Calm(d, a)]
  <2>1. /\ r \in DialRecord /\ r.pc = "shake"
        /\ r.addr = a /\ r.conn = slot[a] /\ r.calm = Calm(d, a)
    BY <1>1 DEF DialRecord, Busy, Calm
  <2>2. dials' = [Disturb(a) EXCEPT ![d] = r]
    BY DEF DialShared
  <2> HIDE DEF r
  <2> QED
    BY <1>1, <2>1, <2>2, DisturbEffect
<1>3. SameSessions
  BY <1>1 DEF SameSessions, IInv, SessOK
<1>4. TypeOK'
  <2>1. \A e \in Dials : dials'[e].conn \in 0..Len(sess')
    BY <1>1, <1>2, Shapes
  <2>2. sess \in Seq(SessRecord) /\ quiet \in [Addrs -> 0..MaxFailed] /\ slot' \in [Addrs -> 0..Len(sess')]
    BY <1>1, Shapes DEF TypeOK
  <2> QED
    BY <1>1, <1>2, <2>1, <2>2, TypeStep
<1>5. SessOK'
  BY <1>1, <1>3, Shapes, SessStep
<1>6. DialOK'
  <2> SUFFICES ASSUME NEW e \in Dials, dials'[e].pc # "idle"
               PROVE  /\ dials'[e].conn \in 1..Len(sess) /\ dials'[e].addr \in Addrs
                      /\ Split \/ sess[dials'[e].conn].addr = dials'[e].addr
                      /\ dials'[e].pc \in {"shake", "failing"} => kind.shakes
    BY <1>1, <1>3, DialStep
  <2>1. CASE e = d
    BY <1>1, <1>2, <2>1
  <2>2. CASE e # d
    BY <1>1, <1>2, <2>2, Shapes
  <2> QED
    BY <2>1, <2>2
<1>7. LiveIsShared'
  BY <1>1, <1>3, <1>4, LiveStep DEF Live
<1>8. PendingHasDialer'
  BY <1>1, <1>2, Shapes, PendingStep DEF DialShared
<1>9. ASSUME ~Split, Calm(d, a) PROVE CalmAt(d)'
  <2>1. \A e \in Dials \ {d} : dials'[e].addr = a => dials'[e].pc \notin Busy
    BY <1>2, <1>9 DEF Calm
  <2>2. sess[slot[a]].made
    <3> SUFFICES ASSUME ~sess[slot[a]].made PROVE FALSE
      OBVIOUS
    <3>1. PICK e \in Dials : dials[e].pc = "shake" /\ dials[e].conn = slot[a]
      BY <1>1, <1>9 DEF IInv, PendingHasDialer
    <3>2. dials[e].addr = a /\ e # d
      BY <1>1, <1>9, <3>1, Shapes DEF DialShared
    <3> QED
      BY <1>9, <3>1, <3>2 DEF Calm, Busy
  <2>3. sess[slot[a]].up
    BY <1>1, <1>9, <2>2 DEF Calm, Unseen, DialShared, Usable, IsClosed, Holds, Home
  <2> QED
    BY <1>1, <1>2, <2>1, <2>3 DEF CalmAt
<1>10. CalmOK'
  <2> SUFFICES ASSUME ~Split PROVE CalmOK'
    BY <1>1 DEF CalmOK, Split
  <2>1. \A e \in Dials :
          /\ dials'[e].pc \in Busy /\ dials'[e].addr # a =>
               dials[e].pc \in Busy /\ dials[e].addr = dials'[e].addr
          /\ dials'[e].calm /\ dials'[e].addr # a =>
               /\ dials[e].calm /\ dials'[e].pc = dials[e].pc
               /\ dials'[e].addr = dials[e].addr /\ dials'[e].conn = dials[e].conn
    BY <1>2
  <2>2. \A e \in Dials : dials'[e].calm /\ dials'[e].addr = a => CalmAt(e)'
    BY <1>2, <1>9
  <2> QED
    BY <1>1, <2>1, <2>2, CalmStep
<1>11. QuietOK'
  BY <1>1, Shapes, QuietStep
<1> QED
  BY <1>5, <1>6, <1>7, <1>8, <1>10, <1>11 DEF IInv

----------------------------------------------------------------------------
(* A dial in its Handshake, or that failed there, has a connection. *)
LEMMA ShakeFacts ==
  ASSUME IInv, NEW d \in Dials, dials[d].pc \in {"shake", "failing"}
  PROVE  /\ TypeOK /\ kind.shakes /\ kind.connIs # "entry" /\ dials[d].pc \in Busy
         /\ dials[d].conn \in 1..Len(sess) /\ dials[d].addr \in Addrs /\ Name \in Addrs
         /\ dials[d].calm \in BOOLEAN
         /\ \A i \in 1..Len(sess) : Home(sess[i].addr) = Name
         /\ ~Split => /\ sess[dials[d].conn].addr = Name /\ dials[d].addr = Name
                      /\ \A b \in Addrs : quiet[b] = 0
<1>1. TypeOK /\ kind.shakes
  BY Shapes DEF IInv, DialOK
<1>2. kind.connIs # "entry"
  BY <1>1, KindOK DEF TypeOK
<1>3. /\ dials[d].conn \in 1..Len(sess) /\ dials[d].addr \in Addrs
      /\ Split \/ sess[dials[d].conn].addr = dials[d].addr
  BY Shapes
<1>4. \A i \in 1..Len(sess) : Home(sess[i].addr) = Name
  BY <1>1, HomeFacts
<1>5. ~Split => sess[dials[d].conn].addr = Name
  BY <1>3, <1>4, HomeFacts
<1> QED
  BY <1>1, <1>2, <1>3, <1>4, <1>5, ShakesQuiet, DialType, MuxDialerAssumption DEF Busy

LEMMA ForeignOK ==
  ASSUME IInv, NEW d \in Dials, HandshakeForeign(d)
  PROVE  IInv'
<1> DEFINE a == Name
           k == dials[d].conn
<1>1. /\ TypeOK /\ kind.shakes /\ k \in 1..Len(sess) /\ a \in Addrs
      /\ \A i \in 1..Len(sess) : Home(sess[i].addr) = a
      /\ ~Split => /\ sess[k].addr = a /\ dials[d].addr = a
                   /\ \A b \in Addrs : quiet[b] = 0
      /\ kind' = kind /\ mapped' = mapped /\ quiet' = quiet /\ dials[d].pc = "shake" /\ dials[d].pc \in Busy
      /\ slot[a] \notin {0, k} /\ slot[a] \in 1..Len(sess)
  BY ShakeFacts, Shapes DEF HandshakeForeign
<1>2. /\ dials' \in [Dials -> DialRecord]
      /\ dials'[d].pc = "failing" /\ dials'[d].calm = dials[d].calm
      /\ dials'[d].addr = dials[d].addr /\ dials'[d].conn = k
      /\ \A e \in Dials : e # d => dials'[e] = dials[e]
  BY <1>1, PcEffect DEF HandshakeForeign, Busy
<1>3. /\ sess' \in Seq(SessRecord) /\ Len(sess') = Len(sess) /\ ~sess'[k].up
      /\ sess'[k].addr = sess[k].addr /\ sess'[k].made = sess[k].made
      /\ \A i \in 1..Len(sess) : i # k => sess'[i] = sess[i]
  BY <1>1, KillEffect DEF HandshakeForeign
<1>4. /\ slot' \in [Addrs -> 0..Len(sess)]
      /\ \A b \in Addrs : slot'[b] # slot[b] => b = a /\ slot'[b] = 0 /\ kind.foreignDrops
  BY <1>1, Shapes DEF HandshakeForeign
<1>5. SameSessions
  BY <1>1, <1>3 DEF SameSessions, IInv, SessOK
<1>6. TypeOK'
  BY <1>1, <1>2, <1>3, <1>4, Shapes, TypeStep DEF TypeOK
<1>7. SessOK'
  BY <1>1, <1>4, <1>5, Shapes, SessStep
<1>8. DialOK'
  <2> SUFFICES ASSUME NEW e \in Dials, dials'[e].pc # "idle"
               PROVE  /\ dials'[e].conn \in 1..Len(sess) /\ dials'[e].addr \in Addrs
                      /\ Split \/ sess[dials'[e].conn].addr = dials'[e].addr
                      /\ dials'[e].pc \in {"shake", "failing"} => kind.shakes
    BY <1>1, <1>5, DialStep
  <2> QED
    BY <1>1, <1>2, Shapes
<1>9. LiveIsShared'
  <2> SUFFICES ASSUME NEW i \in 1..Len(sess), Live(i)', ~kind.foreignDrops
               PROVE  Live(i) /\ slot'[Home(sess[i].addr)] = slot[Home(sess[i].addr)]
    BY <1>1, <1>5, <1>6, LiveStep
  <2> QED
    BY <1>3, <1>4, Shapes DEF Live
<1>10. PendingHasDialer'
  <2> SUFFICES ASSUME NEW b \in Addrs, Split => b = Name, slot'[b] # 0, ~sess'[slot'[b]].made
               PROVE  /\ slot'[b] = slot[b] /\ ~sess[slot[b]].made
                      /\ \A e \in Dials : dials[e].pc = "shake" /\ dials[e].conn = slot[b] =>
                           dials'[e].pc = "shake" /\ dials'[e].conn = slot[b]
    BY <1>1, PendingStep
  <2>1. slot'[b] = slot[b] /\ ~sess[slot[b]].made
    BY <1>1, <1>3, <1>4
  <2>2. slot[b] # k
    BY <1>1, <2>1 DEF IInv, SessOK
  <2> QED
    BY <1>2, <2>1, <2>2
<1>11. CalmOK'
  <2> SUFFICES ASSUME ~Split PROVE CalmOK'
    BY <1>1 DEF CalmOK, Split
  <2>1. ~dials[d].calm
    BY <1>1 DEF IInv, CalmOK, CalmAt
  <2>2. \A b \in Addrs : b # a => slot'[b] = slot[b]
    BY <1>4
  <2>3. \A i \in 1..Len(sess) : sess[i].addr # a => sess'[i].up = sess[i].up
    BY <1>1, <1>3
  <2> QED
    BY <1>1, <1>2, <2>1, <2>2, <2>3, CalmLocal
<1>12. QuietOK'
  BY <1>1, QuietStep
<1> QED
  BY <1>7, <1>8, <1>9, <1>10, <1>11, <1>12 DEF IInv

LEMMA InitSessionOK ==
  ASSUME IInv, NEW d \in Dials, HandshakeInit(d)
  PROVE  IInv'
<1> DEFINE a == Name
           k == dials[d].conn
<1>1. /\ TypeOK /\ kind.shakes /\ k \in 1..Len(sess) /\ a \in Addrs
      /\ \A i \in 1..Len(sess) : Home(sess[i].addr) = a
      /\ ~Split => /\ sess[k].addr = a /\ dials[d].addr = a
                   /\ \A b \in Addrs : quiet[b] = 0
      /\ kind' = kind /\ mapped' = mapped /\ quiet' = quiet /\ dials[d].pc = "shake" /\ dials[d].pc \in Busy
      /\ ~sess[k].made /\ sess[k].up /\ slot[a] \in {0, k}
  BY ShakeFacts DEF HandshakeInit, Initiates
<1>2. /\ dials' \in [Dials -> DialRecord]
      /\ dials'[d].pc = "connect" /\ dials'[d].calm = dials[d].calm
      /\ dials'[d].addr = dials[d].addr /\ dials'[d].conn = k
      /\ \A e \in Dials : e # d => dials'[e] = dials[e]
  BY <1>1, PcEffect DEF HandshakeInit, Busy
<1>3. /\ sess' \in Seq(SessRecord) /\ Len(sess') = Len(sess)
      /\ sess'[k].made /\ sess'[k].up = sess[k].up /\ sess'[k].seen = sess[k].seen
      /\ sess'[k].addr = sess[k].addr
      /\ \A i \in 1..Len(sess) : i # k => sess'[i] = sess[i]
  <2>1. sess \in Seq(SessRecord) /\ sess[k] \in SessRecord
    BY <1>1, SessType DEF TypeOK
  <2> DEFINE r == [sess[k] EXCEPT !.made = TRUE]
  <2>2. r \in SessRecord /\ r.made /\ r.addr = sess[k].addr /\ r.up = sess[k].up /\ r.seen = sess[k].seen
    BY <1>1, <2>1 DEF SessRecord
  <2>3. sess' = [sess EXCEPT ![k] = r]
    BY DEF HandshakeInit
  <2> HIDE DEF r
  <2>4. sess' \in Seq(SessRecord) /\ Len(sess') = Len(sess)
    BY <1>1, <2>1, <2>2, <2>3
  <2>5. sess'[k] = r /\ \A i \in 1..Len(sess) : i # k => sess'[i] = sess[i]
    BY <1>1, <2>1, <2>3
  <2> QED
    BY <2>2, <2>4, <2>5
<1>4. slot' \in [Addrs -> 0..Len(sess)] /\ slot'[a] = k /\ \A b \in Addrs : b # a => slot'[b] = slot[b]
  BY <1>1, Shapes DEF HandshakeInit
<1>5. SameSessions
  BY <1>1, <1>3 DEF SameSessions, IInv, SessOK
<1>6. TypeOK'
  BY <1>1, <1>2, <1>3, <1>4, Shapes, TypeStep DEF TypeOK
<1>7. SessOK'
  BY <1>1, <1>4, <1>5, Shapes, SessStep
<1>8. DialOK'
  <2> SUFFICES ASSUME NEW e \in Dials, dials'[e].pc # "idle"
               PROVE  /\ dials'[e].conn \in 1..Len(sess) /\ dials'[e].addr \in Addrs
                      /\ Split \/ sess[dials'[e].conn].addr = dials'[e].addr
                      /\ dials'[e].pc \in {"shake", "failing"} => kind.shakes
    BY <1>1, <1>5, DialStep
  <2> QED
    BY <1>1, <1>2, Shapes
<1>9. LiveIsShared'
  <2> SUFFICES ASSUME NEW i \in 1..Len(sess), Live(i)', ~kind.foreignDrops, kind.connIs # "entry"
               PROVE  \/ slot'[Home(sess[i].addr)] = i
                      \/ Live(i) /\ slot'[Home(sess[i].addr)] = slot[Home(sess[i].addr)]
    BY <1>1, <1>5, <1>6, LiveStep
  <2>1. CASE i = k
    BY <1>1, <1>4, <2>1
  <2>2. CASE i # k
    <3>1. Live(i) /\ slot[Home(sess[i].addr)] = i
      BY <1>3, <2>2 DEF Live, IInv, LiveIsShared
    <3> QED
      BY <1>1, <2>2, <3>1
  <2> QED
    BY <2>1, <2>2
<1>10. PendingHasDialer'
  <2> SUFFICES ASSUME NEW b \in Addrs, Split => b = Name, slot'[b] # 0, ~sess'[slot'[b]].made
               PROVE  /\ slot'[b] = slot[b] /\ ~sess[slot[b]].made
                      /\ \A e \in Dials : dials[e].pc = "shake" /\ dials[e].conn = slot[b] =>
                           dials'[e].pc = "shake" /\ dials'[e].conn = slot[b]
    BY <1>1, PendingStep
  <2>1. slot'[b] # k
    BY <1>3
  <2>2. b # a /\ slot'[b] = slot[b] /\ slot[b] # k /\ ~sess[slot[b]].made
    BY <1>1, <1>3, <1>4, <2>1, Shapes
  <2> QED
    BY <1>2, <2>2
<1>11. CalmOK'
  <2> SUFFICES ASSUME ~Split PROVE CalmOK'
    BY <1>1 DEF CalmOK, Split
  <2>1. \A i \in 1..Len(sess) : sess[i].addr # a => sess'[i].up = sess[i].up
    BY <1>1, <1>3
  <2> QED
    BY <1>1, <1>2, <1>4, <2>1, CalmLocal
<1>12. QuietOK'
  BY <1>1, QuietStep
<1> QED
  BY <1>7, <1>8, <1>9, <1>10, <1>11, <1>12 DEF IInv

LEMMA InitFailsOK ==
  ASSUME IInv, NEW d \in Dials, HandshakeInitFails(d)
  PROVE  IInv'
<1> DEFINE a == Name
           k == dials[d].conn
           c == dials[d].calm /\ ~(sess[k].up /\ ~sess[k].made)
<1>1. /\ TypeOK /\ kind.shakes /\ k \in 1..Len(sess) /\ a \in Addrs
      /\ \A i \in 1..Len(sess) : Home(sess[i].addr) = a
      /\ ~Split => /\ sess[k].addr = a /\ dials[d].addr = a
                   /\ \A b \in Addrs : quiet[b] = 0
      /\ kind' = kind /\ mapped' = mapped /\ quiet' = quiet /\ dials[d].pc = "shake" /\ dials[d].pc \in Busy
      /\ Initiates(dials[d])
  BY ShakeFacts DEF HandshakeInitFails
<1>2. /\ dials' \in [Dials -> DialRecord]
      /\ dials'[d].pc = "failing" /\ dials'[d].calm = c
      /\ dials'[d].addr = dials[d].addr /\ dials'[d].conn = k
      /\ \A e \in Dials : e # d => dials'[e] = dials[e]
  <2>1. dials' = [dials EXCEPT ![d].pc = "failing", ![d].calm = c]
    BY <1>1 DEF HandshakeInitFails
  <2>2. c \in BOOLEAN /\ "failing" \in Busy \cup {"idle", "open"}
    BY DEF Busy
  <2> HIDE DEF c
  <2> QED
    BY <1>1, <2>1, <2>2, StateEffect
<1>3. /\ sess' \in Seq(SessRecord) /\ Len(sess') = Len(sess) /\ ~sess'[k].up
      /\ sess'[k].addr = sess[k].addr /\ sess'[k].made = sess[k].made
      /\ \A i \in 1..Len(sess) : i # k => sess'[i] = sess[i]
  BY <1>1, KillEffect DEF HandshakeInitFails
<1>4. slot' \in [Addrs -> 0..Len(sess)] /\ slot'[a] = 0 /\ \A b \in Addrs : b # a => slot'[b] = slot[b]
  BY <1>1, Shapes DEF HandshakeInitFails
<1>5. SameSessions
  BY <1>1, <1>3 DEF SameSessions, IInv, SessOK
<1>6. TypeOK'
  BY <1>1, <1>2, <1>3, <1>4, Shapes, TypeStep DEF TypeOK
<1>7. SessOK'
  BY <1>1, <1>4, <1>5, Shapes, SessStep
<1>8. DialOK'
  <2> SUFFICES ASSUME NEW e \in Dials, dials'[e].pc # "idle"
               PROVE  /\ dials'[e].conn \in 1..Len(sess) /\ dials'[e].addr \in Addrs
                      /\ Split \/ sess[dials'[e].conn].addr = dials'[e].addr
                      /\ dials'[e].pc \in {"shake", "failing"} => kind.shakes
    BY <1>1, <1>5, DialStep
  <2> QED
    BY <1>1, <1>2, Shapes
<1>9. LiveIsShared'
  <2> SUFFICES ASSUME NEW i \in 1..Len(sess), Live(i)', ~kind.foreignDrops, kind.connIs # "entry"
               PROVE  Live(i) /\ slot'[Home(sess[i].addr)] = slot[Home(sess[i].addr)]
    BY <1>1, <1>5, <1>6, LiveStep
  <2>1. i # k /\ Live(i) /\ slot[Home(sess[i].addr)] = i
    BY <1>3 DEF Live, IInv, LiveIsShared
  <2> QED
    BY <1>1, <2>1, Shapes DEF Initiates, Live
<1>10. PendingHasDialer'
  <2> SUFFICES ASSUME NEW b \in Addrs, Split => b = Name, slot'[b] # 0, ~sess'[slot'[b]].made
               PROVE  /\ slot'[b] = slot[b] /\ ~sess[slot[b]].made
                      /\ \A e \in Dials : dials[e].pc = "shake" /\ dials[e].conn = slot[b] =>
                           dials'[e].pc = "shake" /\ dials'[e].conn = slot[b]
    BY <1>1, PendingStep
  <2>1. b # a /\ slot'[b] = slot[b] /\ slot[b] # 0
    BY <1>4
  <2>2. slot[b] # k /\ ~sess[slot[b]].made
    BY <1>1, <1>3, <2>1, Shapes DEF IInv, SessOK
  <2> QED
    BY <1>2, <2>1, <2>2
<1>11. CalmOK'
  <2> SUFFICES ASSUME ~Split PROVE CalmOK'
    BY <1>1 DEF CalmOK, Split
  <2>1. ~c
    BY <1>1, Shapes DEF Initiates, IInv, CalmOK, CalmAt
  <2>2. \A i \in 1..Len(sess) : sess[i].addr # a => sess'[i].up = sess[i].up
    BY <1>1, <1>3
  <2>3. /\ dials[d].pc \in Busy /\ dials[d].addr = a /\ a \in Addrs
        /\ dials'[d].addr = a /\ ~dials'[d].calm
        /\ \A e \in Dials : e # d => dials'[e] = dials[e]
        /\ \A b \in Addrs : b # a => slot'[b] = slot[b]
    BY <1>1, <1>2, <1>4, <2>1
  <2> HIDE DEF a, k, c
  <2> QED
    BY <2>2, <2>3, CalmLocal
<1>12. QuietOK'
  BY <1>1, QuietStep
<1> QED
  BY <1>7, <1>8, <1>9, <1>10, <1>11, <1>12 DEF IInv

LEMMA StreamOK ==
  ASSUME IInv, NEW d \in Dials, HandshakeStream(d)
  PROVE  IInv'
<1> DEFINE a == Name
           k == dials[d].conn
<1>1. /\ TypeOK /\ kind.shakes /\ k \in 1..Len(sess) /\ a \in Addrs
      /\ \A i \in 1..Len(sess) : Home(sess[i].addr) = a
      /\ ~Split => /\ sess[k].addr = a /\ dials[d].addr = a
                   /\ \A b \in Addrs : quiet[b] = 0
      /\ kind' = kind /\ mapped' = mapped /\ sess' = sess /\ quiet' = quiet
      /\ dials[d].pc = "shake" /\ dials[d].pc \in Busy
      /\ slot[a] = k /\ sess[k].made /\ dials[d].calm \in BOOLEAN
  BY ShakeFacts DEF HandshakeStream
<1>2. /\ dials' \in [Dials -> DialRecord]
      /\ dials'[d].pc \in {"connect", "failing"} /\ dials'[d].addr = dials[d].addr /\ dials'[d].conn = k
      /\ ~Split /\ dials'[d].calm => dials[d].calm /\ dials'[d].pc = "connect"
      /\ \A e \in Dials : e # d => dials'[e] = dials[e]
  <2>1. CASE dials' = [dials EXCEPT ![d].pc = "connect"]
    BY <1>1, <2>1, PcEffect DEF Busy
  <2>2. CASE sess[k].seen /\ dials' = [dials EXCEPT ![d].pc = "failing"]
    <3>1. ~Split => ~dials[d].calm
      BY <1>1, <2>2 DEF IInv, CalmOK, CalmAt, SessOK
    <3> QED
      BY <1>1, <2>2, <3>1, PcEffect DEF Busy
  <2>3. CASE dials' = [dials EXCEPT ![d].pc = "failing", ![d].calm = FALSE]
    BY <1>1, <2>3, StateEffect DEF Busy
  <2> QED
    BY <2>1, <2>2, <2>3 DEF HandshakeStream
<1>3. /\ slot' \in [Addrs -> 0..Len(sess)] /\ \A b \in Addrs : b # a => slot'[b] = slot[b]
      /\ slot'[a] = k \/ (slot'[a] = 0 /\ sess[k].seen)
  BY <1>1, Shapes DEF HandshakeStream
<1>4. SameSessions
  BY <1>1 DEF SameSessions, IInv, SessOK
<1>5. TypeOK'
  BY <1>1, <1>2, <1>3, Shapes, TypeStep DEF TypeOK
<1>6. SessOK'
  BY <1>1, <1>3, <1>4, Shapes, SessStep
<1>7. DialOK'
  <2> SUFFICES ASSUME NEW e \in Dials, dials'[e].pc # "idle"
               PROVE  /\ dials'[e].conn \in 1..Len(sess) /\ dials'[e].addr \in Addrs
                      /\ Split \/ sess[dials'[e].conn].addr = dials'[e].addr
                      /\ dials'[e].pc \in {"shake", "failing"} => kind.shakes
    BY <1>1, <1>4, DialStep
  <2> QED
    BY <1>1, <1>2, Shapes
<1>8. LiveIsShared'
  <2> SUFFICES ASSUME NEW i \in 1..Len(sess), Live(i)', ~kind.foreignDrops, kind.connIs # "entry"
               PROVE  Live(i) /\ slot'[Home(sess[i].addr)] = slot[Home(sess[i].addr)]
    BY <1>1, <1>4, <1>5, LiveStep
  <2>1. Live(i) /\ slot[Home(sess[i].addr)] = i
    BY <1>1 DEF Live, IInv, LiveIsShared
  <2> QED
    BY <1>1, <1>3, <2>1, Shapes DEF Live, IInv, SessOK
<1>9. PendingHasDialer'
  <2> SUFFICES ASSUME NEW b \in Addrs, Split => b = Name, slot'[b] # 0, ~sess'[slot'[b]].made
               PROVE  /\ slot'[b] = slot[b] /\ ~sess[slot[b]].made
                      /\ \A e \in Dials : dials[e].pc = "shake" /\ dials[e].conn = slot[b] =>
                           dials'[e].pc = "shake" /\ dials'[e].conn = slot[b]
    BY <1>1, PendingStep
  <2>1. b # a /\ slot'[b] = slot[b] /\ ~sess[slot[b]].made /\ slot[b] # k
    BY <1>1, <1>3
  <2> QED
    BY <1>2, <2>1
<1>10. CalmOK'
  <2> SUFFICES ASSUME ~Split PROVE CalmOK'
    BY <1>1 DEF CalmOK, Split
  <2> QED
    BY <1>1, <1>2, <1>3, CalmLocal
<1>11. QuietOK'
  BY <1>1, QuietStep
<1> QED
  BY <1>6, <1>7, <1>8, <1>9, <1>10, <1>11 DEF IInv

LEMMA CloseDialedOK ==
  ASSUME IInv, NEW d \in Dials, CloseDialed(d)
  PROVE  IInv'
<1> DEFINE a == dials[d].addr
           k == dials[d].conn
<1>1. /\ TypeOK /\ kind.shakes /\ k \in 1..Len(sess) /\ a \in Addrs
      /\ ~Split => sess[k].addr = a /\ \A b \in Addrs : quiet[b] = 0
      /\ kind' = kind /\ mapped' = mapped /\ slot' = slot /\ dials[d].pc = "failing" /\ dials[d].pc \in Busy
  BY ShakeFacts DEF CloseDialed
<1>2. /\ dials' \in [Dials -> DialRecord]
      /\ dials'[d].pc = "idle" /\ ~dials'[d].calm /\ dials'[d].conn = 0
      /\ \A e \in Dials : e # d => dials'[e] = dials[e]
  BY <1>1, IdleEffect DEF CloseDialed
<1>3. /\ sess' \in Seq(SessRecord) /\ Len(sess') = Len(sess) /\ ~sess'[k].up
      /\ sess'[k].addr = sess[k].addr /\ sess'[k].made = sess[k].made
      /\ \A i \in 1..Len(sess) : i # k => sess'[i] = sess[i]
  BY <1>1, KillEffect DEF CloseDialed
<1>4. quiet' \in [Addrs -> 0..MaxFailed] /\ (~Split => \A b \in Addrs : quiet'[b] = 0)
  <2>1. ~Split => ~dials[d].calm
    BY <1>1 DEF IInv, CalmOK, CalmAt
  <2>2. quiet \in [Addrs -> 0..MaxFailed] /\ 0 \in 0..MaxFailed /\ MaxFailed \in Nat
    BY <1>1, MuxDialerAssumption DEF TypeOK
  <2>3. quiet' = [quiet EXCEPT ![a] = IF ~dials[d].calm THEN 0
                                      ELSE IF @ < MaxFailed THEN @ + 1 ELSE @]
    BY DEF CloseDialed, Failed
  <2> HIDE DEF a
  <2> QED
    BY <1>1, <2>1, <2>2, <2>3
<1>5. SameSessions
  BY <1>1, <1>3 DEF SameSessions, IInv, SessOK
<1>6. TypeOK'
  <2>1. \A e \in Dials : dials'[e].conn \in 0..Len(sess')
    BY <1>1, <1>2, <1>3, Shapes
  <2> QED
    BY <1>1, <1>2, <1>3, <1>4, <2>1, Shapes, TypeStep
<1>7. SessOK'
  BY <1>1, <1>5, Shapes, SessStep
<1>8. DialOK'
  BY <1>1, <1>2, <1>5, Shapes, DialStep DEF IInv, DialOK
<1>9. LiveIsShared'
  <2> SUFFICES ASSUME NEW i \in 1..Len(sess), Live(i)'
               PROVE  Live(i)
    BY <1>1, <1>5, <1>6, LiveStep
  <2> QED
    BY <1>3 DEF Live
<1>10. PendingHasDialer'
  <2> SUFFICES ASSUME NEW b \in Addrs, slot[b] # 0, ~sess'[slot[b]].made
               PROVE  /\ ~sess[slot[b]].made
                      /\ \A e \in Dials : dials[e].pc = "shake" /\ dials[e].conn = slot[b] =>
                           dials'[e].pc = "shake" /\ dials'[e].conn = slot[b]
    BY <1>1, PendingStep
  <2>1. ~sess[slot[b]].made
    BY <1>1, <1>3, Shapes
  <2>2. \A e \in Dials : dials[e].pc = "shake" => dials'[e] = dials[e]
    BY <1>1, <1>2
  <2> QED
    BY <2>1, <2>2
<1>11. CalmOK'
  <2> SUFFICES ASSUME ~Split PROVE CalmOK'
    BY <1>1 DEF CalmOK, Split
  <2>1. \A i \in 1..Len(sess) : sess[i].addr # a => sess'[i].up = sess[i].up
    BY <1>1, <1>3
  <2> QED
    BY <1>1, <1>2, <2>1, CalmLocal DEF Busy
<1>12. QuietOK'
  BY <1>1, <1>4, QuietStep
<1> QED
  BY <1>7, <1>8, <1>9, <1>10, <1>11, <1>12 DEF IInv

----------------------------------------------------------------------------
(* A dial that has its connection has it at one of the addresses. *)
LEMMA ConnFacts ==
  ASSUME IInv, NEW d \in Dials, dials[d].pc \in {"connect", "open"}
  PROVE  /\ TypeOK /\ dials[d].conn \in 1..Len(sess) /\ dials[d].addr \in Addrs
         /\ (Split \/ sess[dials[d].conn].addr = dials[d].addr) /\ kind \in Kind
         /\ kind.shakes => kind.connIs # "entry"
BY Shapes, KindOK DEF TypeOK

LEMMA ConnectorFailsOK ==
  ASSUME IInv, NEW d \in Dials, ConnectorFails(d)
  PROVE  IInv'
<1> DEFINE a == dials[d].addr
           k == dials[d].conn
<1>1. /\ TypeOK /\ k \in 1..Len(sess) /\ a \in Addrs /\ (Split \/ sess[k].addr = a)
      /\ kind' = kind /\ mapped' = mapped /\ sess' = sess /\ quiet' = quiet
      /\ dials[d].pc = "connect" /\ dials[d].pc \in Busy
      /\ kind.shakes => kind.connIs # "entry"
  BY ConnFacts DEF ConnectorFails, Busy
<1>2. /\ dials' \in [Dials -> DialRecord]
      /\ dials'[d].pc = IF kind.shakes THEN "failing" ELSE "idle"
      /\ dials'[d].pc # "idle" => dials'[d].addr = a /\ dials'[d].conn = k
      /\ ~dials'[d].calm /\ dials'[d].conn \in 0..Len(sess)
      /\ \A e \in Dials : e # d => dials'[e] = dials[e]
  <2>1. CASE kind.shakes
    <3>1. dials' = [dials EXCEPT ![d].pc = "failing", ![d].calm = FALSE]
      BY <2>1 DEF ConnectorFails
    <3>2. /\ dials' \in [Dials -> DialRecord]
          /\ dials'[d].pc = "failing" /\ dials'[d].addr = a /\ dials'[d].conn = k /\ ~dials'[d].calm
          /\ \A e \in Dials : e # d => dials'[e] = dials[e]
      BY <1>1, <3>1, StateEffect DEF Busy
    <3> QED
      BY <1>1, <2>1, <3>2, Shapes
  <2>2. CASE ~kind.shakes
    <3>1. dials' = [dials EXCEPT ![d] = NoDial]
      BY <2>2 DEF ConnectorFails
    <3>2. /\ dials' \in [Dials -> DialRecord]
          /\ dials'[d].pc = "idle" /\ dials'[d].conn = 0 /\ ~dials'[d].calm
          /\ \A e \in Dials : e # d => dials'[e] = dials[e]
      BY <1>1, <3>1, IdleEffect
    <3> QED
      BY <1>1, <2>2, <3>2, Shapes
  <2> QED
    BY <2>1, <2>2
<1>3. /\ slot' \in [Addrs -> 0..Len(sess)] /\ \A b \in Addrs : b # a => slot'[b] = slot[b]
      /\ slot'[a] \in {0, slot[a]}
      /\ slot' # slot => kind.connIs = "entry"
  BY <1>1, Shapes DEF ConnectorFails
<1>4. SameSessions
  BY <1>1 DEF SameSessions, IInv, SessOK
<1>5. TypeOK'
  <2>1. \A e \in Dials : dials'[e].conn \in 0..Len(sess')
    BY <1>1, <1>2, Shapes
  <2> QED
    BY <1>1, <1>2, <1>3, <2>1, TypeStep DEF TypeOK
<1>6. SessOK'
  BY <1>1, <1>3, <1>4, Shapes, SessStep
<1>7. DialOK'
  BY <1>1, <1>2, <1>4, Shapes, DialStep DEF IInv, DialOK
<1>8. LiveIsShared'
  BY <1>1, <1>3, <1>4, <1>5, LiveStep DEF Live
<1>9. PendingHasDialer'
  <2> SUFFICES ASSUME NEW b \in Addrs, slot'[b] # 0, ~sess'[slot'[b]].made
               PROVE  /\ slot'[b] = slot[b] /\ ~sess[slot[b]].made
                      /\ \A e \in Dials : dials[e].pc = "shake" /\ dials[e].conn = slot[b] =>
                           dials'[e].pc = "shake" /\ dials'[e].conn = slot[b]
    BY <1>1, PendingStep
  <2>1. slot'[b] = slot[b] /\ ~sess[slot[b]].made
    BY <1>1, <1>3
  <2>2. \A e \in Dials : dials[e].pc = "shake" => dials'[e] = dials[e]
    BY <1>1, <1>2
  <2> QED
    BY <2>1, <2>2
<1>10. CalmOK'
  <2> SUFFICES ASSUME ~Split PROVE CalmOK'
    BY <1>1 DEF CalmOK, Split
  <2>1. dials'[d].pc \in Busy => dials'[d].addr = a
    BY <1>2 DEF Busy
  <2> QED
    BY <1>1, <1>2, <1>3, <2>1, CalmLocal
<1>11. QuietOK'
  BY <1>1, <1>3, QuietStep
<1> QED
  BY <1>6, <1>7, <1>8, <1>9, <1>10, <1>11 DEF IInv

LEMMA SucceedOK ==
  ASSUME IInv, NEW d \in Dials, Succeed(d)
  PROVE  IInv'
<1> DEFINE a == dials[d].addr
           k == dials[d].conn
<1>1. /\ TypeOK /\ k \in 1..Len(sess) /\ a \in Addrs /\ (Split \/ sess[k].addr = a)
      /\ kind' = kind /\ mapped' = mapped /\ sess' = sess /\ slot' = slot
      /\ dials[d].pc = "connect" /\ dials[d].pc \in Busy
  BY ConnFacts DEF Succeed, Busy
<1>2. /\ dials' \in [Dials -> DialRecord]
      /\ dials'[d].pc = "open" /\ dials'[d].addr = a /\ dials'[d].conn = k /\ ~dials'[d].calm
      /\ \A e \in Dials : e # d => dials'[e] = dials[e]
  BY <1>1, StateEffect DEF Succeed, Busy
<1>3. quiet' \in [Addrs -> 0..MaxFailed] /\ \A b \in Addrs : quiet'[b] # 0 => quiet'[b] = quiet[b]
  BY <1>1, MuxDialerAssumption DEF Succeed, TypeOK
<1>4. SameSessions
  BY <1>1 DEF SameSessions, IInv, SessOK
<1>5. TypeOK'
  <2>1. \A e \in Dials : dials'[e].conn \in 0..Len(sess')
    BY <1>1, <1>2, Shapes
  <2> QED
    BY <1>1, <1>2, <1>3, <2>1, Shapes, TypeStep DEF TypeOK
<1>6. SessOK'
  BY <1>1, <1>4, Shapes, SessStep
<1>7. DialOK'
  BY <1>1, <1>2, <1>4, Shapes, DialStep DEF IInv, DialOK
<1>8. LiveIsShared'
  BY <1>1, <1>4, <1>5, LiveStep DEF Live
<1>9. PendingHasDialer'
  <2>1. \A e \in Dials : dials[e].pc = "shake" => dials'[e] = dials[e]
    BY <1>1, <1>2
  <2> QED
    BY <1>1, <2>1, PendingStep
<1>10. CalmOK'
  <2> SUFFICES ASSUME ~Split PROVE CalmOK'
    BY <1>1 DEF CalmOK, Split
  <2> QED
    BY <1>1, <1>2, CalmLocal
<1>11. QuietOK'
  BY <1>1, <1>3, QuietStep
<1> QED
  BY <1>6, <1>7, <1>8, <1>9, <1>10, <1>11 DEF IInv

LEMMA CloseOK ==
  ASSUME IInv, NEW d \in Dials, Close(d)
  PROVE  IInv'
<1>1. /\ TypeOK /\ kind' = kind /\ mapped' = mapped /\ sess' = sess /\ slot' = slot /\ quiet' = quiet
      /\ dials[d].pc = "open"
  BY Shapes DEF Close
<1>2. /\ dials' \in [Dials -> DialRecord]
      /\ dials'[d].pc = "idle" /\ ~dials'[d].calm /\ dials'[d].conn = 0
      /\ \A e \in Dials : e # d => dials'[e] = dials[e]
  BY <1>1, IdleEffect DEF Close
<1>3. SameSessions
  BY <1>1 DEF SameSessions, IInv, SessOK
<1>4. TypeOK'
  <2>1. \A e \in Dials : dials'[e].conn \in 0..Len(sess')
    BY <1>1, <1>2, Shapes
  <2> QED
    BY <1>1, <1>2, <2>1, Shapes, TypeStep DEF TypeOK
<1>5. SessOK'
  BY <1>1, <1>3, Shapes, SessStep
<1>6. DialOK'
  BY <1>1, <1>2, <1>3, Shapes, DialStep DEF IInv, DialOK
<1>7. LiveIsShared'
  BY <1>1, <1>3, <1>4, LiveStep DEF Live
<1>8. PendingHasDialer'
  <2>1. \A e \in Dials : dials[e].pc = "shake" => dials'[e] = dials[e]
    BY <1>1, <1>2
  <2> QED
    BY <1>1, <2>1, PendingStep
<1>9. CalmOK'
  <2> SUFFICES ASSUME ~Split, NEW e \in Dials, dials'[e].calm
               PROVE  CalmAt(e)'
    BY <1>1 DEF CalmOK, Split
  <2>1. dials'[e] = dials[e] /\ CalmAt(e)
    BY <1>2 DEF IInv, CalmOK
  <2>2. \A f \in Dials : dials'[f].pc \in Busy => dials'[f] = dials[f]
    BY <1>2 DEF Busy
  <2> QED
    BY <1>1, <2>1, <2>2 DEF CalmAt
<1>10. QuietOK'
  BY <1>1, QuietStep
<1> QED
  BY <1>5, <1>6, <1>7, <1>8, <1>9, <1>10 DEF IInv

LEMMA TargetFailsOK ==
  ASSUME IInv, NEW d \in Dials, TargetFails(d)
  PROVE  IInv'
<1> DEFINE a == dials[d].addr
           k == dials[d].conn
<1>1. /\ TypeOK /\ k \in 1..Len(sess) /\ a \in Addrs /\ (Split \/ sess[k].addr = a)
      /\ kind' = kind /\ mapped' = mapped /\ dials[d].pc = "open"
  BY ConnFacts DEF TargetFails
<1>2. /\ dials' \in [Dials -> DialRecord]
      /\ dials'[d].pc = "idle" /\ ~dials'[d].calm /\ dials'[d].conn = 0
      /\ \A e \in Dials : e # d =>
           /\ dials'[e].pc = dials[e].pc /\ dials'[e].addr = dials[e].addr
           /\ dials'[e].conn = dials[e].conn
           /\ dials'[e].calm => dials[e].calm
           /\ dials'[e].calm /\ dials[e].addr = a => sess' = sess
  <2>1. CASE kind.connIs = "session"
    <3>1. dials' = [Disturb(a) EXCEPT ![d] = NoDial]
      BY <2>1 DEF TargetFails
    <3>2. NoDial \in DialRecord /\ NoDial.pc = "idle" /\ ~NoDial.calm /\ NoDial.conn = 0
      BY DEF NoDial, DialRecord, Busy
    <3> HIDE DEF a
    <3> QED
      BY <1>1, <3>1, <3>2, DisturbEffect
  <2>2. CASE kind.connIs # "session"
    <3>1. dials' = [dials EXCEPT ![d] = NoDial] /\ sess' = sess
      BY <2>2 DEF TargetFails
    <3> QED
      BY <1>1, <3>1, IdleEffect
  <2> QED
    BY <2>1, <2>2
<1>3. /\ sess' \in Seq(SessRecord) /\ Len(sess') = Len(sess)
      /\ \A i \in 1..Len(sess) :
           /\ sess'[i].addr = sess[i].addr /\ sess'[i].made = sess[i].made
           /\ sess'[i].seen = sess[i].seen /\ (sess'[i].up => sess[i].up)
           /\ ~Split /\ sess[i].addr # a => sess'[i] = sess[i]
  <2>1. CASE kind.connIs = "session"
    <3>1. sess' = Kill(k)
      BY <2>1 DEF TargetFails
    <3> HIDE DEF k
    <3> QED
      BY <1>1, <3>1, KillEffect
  <2>2. CASE kind.connIs # "session"
    BY <1>1, <2>2 DEF TargetFails, TypeOK
  <2> QED
    BY <2>1, <2>2
<1>4. /\ slot' \in [Addrs -> 0..Len(sess)] /\ \A b \in Addrs : b # a => slot'[b] = slot[b]
      /\ slot'[a] \in {0, slot[a]}
      /\ slot' # slot => kind.connIs = "entry"
  BY <1>1, Shapes DEF TargetFails
<1>5. /\ quiet' \in [Addrs -> 0..MaxFailed] /\ quiet'[a] = 0
      /\ \A b \in Addrs : quiet'[b] # 0 => quiet'[b] = quiet[b]
  BY <1>1, MuxDialerAssumption DEF TargetFails, TypeOK
<1>6. SameSessions
  BY <1>3 DEF SameSessions, IInv, SessOK
<1>7. TypeOK'
  <2>1. \A e \in Dials : dials'[e].conn \in 0..Len(sess')
    BY <1>1, <1>2, <1>3, Shapes
  <2> QED
    BY <1>1, <1>2, <1>3, <1>4, <1>5, <2>1, TypeStep
<1>8. SessOK'
  BY <1>1, <1>4, <1>6, Shapes, SessStep
<1>9. DialOK'
  <2> SUFFICES ASSUME NEW e \in Dials, dials'[e].pc # "idle"
               PROVE  /\ dials'[e].conn \in 1..Len(sess) /\ dials'[e].addr \in Addrs
                      /\ Split \/ sess[dials'[e].conn].addr = dials'[e].addr
                      /\ dials'[e].pc \in {"shake", "failing"} => kind.shakes
    BY <1>1, <1>6, DialStep
  <2>1. e # d
    BY <1>2
  <2> QED
    BY <1>2, <2>1, Shapes DEF IInv, DialOK
<1>10. LiveIsShared'
  BY <1>1, <1>3, <1>4, <1>6, <1>7, LiveStep DEF Live
<1>11. PendingHasDialer'
  <2> SUFFICES ASSUME NEW b \in Addrs, slot'[b] # 0, ~sess'[slot'[b]].made
               PROVE  /\ slot'[b] = slot[b] /\ ~sess[slot[b]].made
                      /\ \A e \in Dials : dials[e].pc = "shake" /\ dials[e].conn = slot[b] =>
                           dials'[e].pc = "shake" /\ dials'[e].conn = slot[b]
    BY <1>1, PendingStep
  <2>1. slot'[b] = slot[b] /\ ~sess[slot[b]].made
    BY <1>1, <1>3, <1>4, Shapes
  <2> QED
    BY <1>1, <1>2, <2>1
<1>12. CalmOK'
  <2> SUFFICES ASSUME ~Split, NEW e \in Dials, dials'[e].calm
               PROVE  CalmAt(e)'
    BY <1>1 DEF CalmOK, Split
  <2>1. /\ e # d /\ dials'[e].pc = dials[e].pc /\ dials'[e].addr = dials[e].addr
        /\ dials'[e].conn = dials[e].conn /\ CalmAt(e)
    BY <1>2 DEF IInv, CalmOK
  <2>2. \A f \in Dials : dials'[f].pc \in Busy =>
          dials'[f].pc = dials[f].pc /\ dials'[f].addr = dials[f].addr
    BY <1>2 DEF Busy
  <2>3. dials'[e].pc # "failing"
    BY <2>1 DEF CalmAt
  <2>4. dials'[e].pc \in Busy => \A f \in Dials \ {e} :
          dials'[f].addr = dials'[e].addr => dials'[f].pc \notin Busy
    BY <2>1, <2>2 DEF CalmAt
  <2>5. dials'[e].pc = "shake" =>
          slot'[dials'[e].addr] = dials'[e].conn /\ sess'[dials'[e].conn].up
    <3> SUFFICES ASSUME dials[e].pc = "shake"
                 PROVE  slot'[dials[e].addr] = dials[e].conn /\ sess'[dials[e].conn].up
      BY <2>1
    <3>1. slot[dials[e].addr] = dials[e].conn /\ sess[dials[e].conn].up
      BY <2>1 DEF CalmAt
    <3>2. slot' = slot
      BY <1>4, ShakeFacts
    <3>3. sess'[dials[e].conn] = sess[dials[e].conn]
      BY <1>2, <1>3, <2>1, ShakeFacts
    <3> QED
      BY <3>1, <3>2, <3>3
  <2> QED
    BY <2>3, <2>4, <2>5 DEF CalmAt
<1>13. QuietOK'
  <2> SUFFICES ASSUME NEW b \in Addrs, ~Split, quiet'[b] # 0
               PROVE  /\ quiet'[b] = quiet[b]
                      /\ slot'[b] # 0 => slot'[b] = slot[b] /\ (sess[slot[b]].up => sess'[slot[b]].up)
    BY <1>1, QuietStep
  <2>1. b # a /\ quiet'[b] = quiet[b] /\ slot'[b] = slot[b]
    BY <1>4, <1>5
  <2>2. slot[b] # 0 => sess'[slot[b]] = sess[slot[b]]
    BY <1>3, <2>1, Shapes DEF IInv, SessOK
  <2> QED
    BY <2>1, <2>2
<1> QED
  BY <1>8, <1>9, <1>10, <1>11, <1>12, <1>13 DEF IInv

LEMMA BreakOK ==
  ASSUME IInv, NEW k \in 1..Len(sess), Break(k)
  PROVE  IInv'
<1> DEFINE a == sess[k].addr
<1>1. TypeOK /\ kind' = kind /\ mapped' = mapped /\ slot' = slot /\ a \in Addrs
  BY Shapes DEF Break
<1>2. /\ dials' \in [Dials -> DialRecord]
      /\ \A e \in Dials : /\ dials'[e].pc = dials[e].pc /\ dials'[e].addr = dials[e].addr
                          /\ dials'[e].conn = dials[e].conn
                          /\ dials'[e].calm => dials[e].calm /\ dials[e].addr # a
  <2>1. dials' = Disturb(a)
    BY DEF Break
  <2> HIDE DEF a
  <2> QED
    BY <1>1, <2>1, DisturbEffect
<1>3. /\ sess' \in Seq(SessRecord) /\ Len(sess') = Len(sess) /\ ~sess'[k].up
      /\ sess'[k].addr = a /\ sess'[k].made = sess[k].made
      /\ \A i \in 1..Len(sess) : i # k => sess'[i] = sess[i]
  BY <1>1, KillEffect DEF Break
<1>4. /\ quiet' \in [Addrs -> 0..MaxFailed] /\ quiet'[a] = 0
      /\ \A b \in Addrs : quiet'[b] # 0 => quiet'[b] = quiet[b]
  BY <1>1, MuxDialerAssumption DEF Break, TypeOK
<1>5. SameSessions
  BY <1>3 DEF SameSessions, IInv, SessOK
<1>6. TypeOK'
  <2>1. \A e \in Dials : dials'[e].conn \in 0..Len(sess')
    BY <1>2, <1>3, Shapes
  <2> QED
    BY <1>1, <1>2, <1>3, <1>4, <2>1, Shapes, TypeStep
<1>7. SessOK'
  BY <1>1, <1>5, Shapes, SessStep
<1>8. DialOK'
  BY <1>1, <1>2, <1>5, Shapes, DialStep DEF IInv, DialOK
<1>9. LiveIsShared'
  <2> SUFFICES ASSUME NEW i \in 1..Len(sess), Live(i)'
               PROVE  Live(i)
    BY <1>1, <1>5, <1>6, LiveStep
  <2> QED
    BY <1>3 DEF Live
<1>10. PendingHasDialer'
  <2> SUFFICES ASSUME NEW b \in Addrs, slot[b] # 0, ~sess'[slot[b]].made
               PROVE  ~sess[slot[b]].made
    BY <1>1, <1>2, PendingStep
  <2> QED
    BY <1>3, Shapes
<1>11. CalmOK'
  <2> SUFFICES ASSUME ~Split PROVE CalmOK'
    BY <1>1 DEF CalmOK, Split
  <2>1. \A i \in 1..Len(sess) : sess[i].addr # a => sess'[i].up = sess[i].up
    BY <1>3
  <2> HIDE DEF a
  <2> QED
    BY <1>1, <1>2, <2>1, CalmStep
<1>12. QuietOK'
  <2> SUFFICES ASSUME NEW b \in Addrs, ~Split, quiet'[b] # 0, slot[b] # 0
               PROVE  sess'[slot[b]] = sess[slot[b]]
    BY <1>1, <1>4, QuietStep
  <2>1. slot[b] # k
    BY <1>4 DEF IInv, SessOK
  <2> QED
    BY <1>3, <2>1, Shapes
<1> QED
  BY <1>7, <1>8, <1>9, <1>10, <1>11, <1>12 DEF IInv

LEMMA NoticeOK ==
  ASSUME IInv, NEW k \in 1..Len(sess), Notice(k)
  PROVE  IInv'
<1>1. TypeOK /\ kind' = kind /\ mapped' = mapped /\ slot' = slot /\ dials' = dials /\ quiet' = quiet /\ ~sess[k].up
  BY Shapes DEF Notice
<1>2. /\ sess' \in Seq(SessRecord) /\ Len(sess') = Len(sess) /\ sess'[k].up = sess[k].up
      /\ sess'[k].addr = sess[k].addr /\ sess'[k].made = sess[k].made
      /\ \A i \in 1..Len(sess) : i # k => sess'[i] = sess[i]
  <2>1. sess \in Seq(SessRecord) /\ sess[k] \in SessRecord
    BY <1>1, SessType DEF TypeOK
  <2> DEFINE r == [sess[k] EXCEPT !.seen = TRUE]
  <2>2. r \in SessRecord /\ r.made = sess[k].made /\ r.addr = sess[k].addr /\ r.up = sess[k].up
    BY <2>1 DEF SessRecord
  <2>3. sess' = [sess EXCEPT ![k] = r]
    BY DEF Notice
  <2> HIDE DEF r
  <2>4. sess' \in Seq(SessRecord) /\ Len(sess') = Len(sess)
    BY <2>1, <2>2, <2>3
  <2>5. sess'[k] = r /\ \A i \in 1..Len(sess) : i # k => sess'[i] = sess[i]
    BY <2>1, <2>3
  <2> QED
    BY <2>2, <2>4, <2>5
<1>3. SameSessions
  BY <1>1, <1>2 DEF SameSessions, IInv, SessOK
<1>4. TypeOK'
  BY <1>1, <1>2, Shapes, TypeStep DEF TypeOK
<1>5. SessOK'
  BY <1>1, <1>3, Shapes, SessStep
<1>6. DialOK'
  BY <1>1, <1>3, Shapes, DialStep DEF IInv, DialOK
<1>7. LiveIsShared'
  <2> SUFFICES ASSUME NEW i \in 1..Len(sess), Live(i)'
               PROVE  Live(i)
    BY <1>1, <1>3, <1>4, LiveStep
  <2> QED
    BY <1>2 DEF Live
<1>8. PendingHasDialer'
  <2> SUFFICES ASSUME NEW b \in Addrs, slot[b] # 0, ~sess'[slot[b]].made
               PROVE  ~sess[slot[b]].made
    BY <1>1, PendingStep
  <2> QED
    BY <1>2, Shapes
<1>9. CalmOK'
  <2> SUFFICES ASSUME ~Split, NEW e \in Dials, dials[e].calm
               PROVE  CalmAt(e)'
    BY <1>1 DEF CalmOK, Split
  <2>1. CalmAt(e) /\ (dials[e].pc = "shake" => dials[e].conn \in 1..Len(sess))
    BY Shapes DEF IInv, CalmOK
  <2>2. \A i \in 1..Len(sess) : sess[i].up => sess'[i].up
    BY <1>2
  <2> QED
    BY <1>1, <2>1, <2>2 DEF CalmAt
<1>10. QuietOK'
  <2> SUFFICES ASSUME NEW b \in Addrs, slot[b] # 0, sess[slot[b]].up
               PROVE  sess'[slot[b]].up
    BY <1>1, QuietStep
  <2> QED
    BY <1>2, Shapes
<1> QED
  BY <1>5, <1>6, <1>7, <1>8, <1>9, <1>10 DEF IInv

LEMMA DialStreamOK ==
  ASSUME IInv, NEW d \in Dials, NEW a \in Addrs, DialStream(d, a)
  PROVE  IInv'
<1> DEFINE k == slot[a]
           opens == kind.renews \/ ~sess[k].seen
<1>1. /\ TypeOK /\ kind' = kind /\ mapped' = mapped /\ k \in 1..Len(sess) /\ sess[k].addr = a /\ sess[k].made /\ ~Split
      /\ ~kind.shakes /\ dials[d].pc = "idle" /\ (kind.checks => ~sess[k].seen)
      /\ sess[k].seen => ~sess[k].up
  BY Shapes DEF DialStream, Usable, IsClosed, Holds, Home, Split, IInv, SessOK
<1>2. /\ dials' \in [Dials -> DialRecord]
      /\ \/ opens /\ dials'[d].pc = "connect" /\ dials'[d].addr = a /\ dials'[d].conn = k
         \/ ~opens /\ dials'[d].pc = "idle" /\ dials'[d].conn = dials[d].conn
      /\ dials'[d].calm =>
           \/ Calm(d, a) /\ dials'[d].addr = a
           \/ dials'[d].addr = dials[d].addr /\ dials[d].addr # a /\ dials[d].calm
      /\ \A e \in Dials \ {d} :
           /\ dials'[e].pc = dials[e].pc /\ dials'[e].addr = dials[e].addr
           /\ dials'[e].conn = dials[e].conn
           /\ dials'[e].calm => dials[e].calm /\ dials[e].addr # a
  <2>1. CASE opens
    <3> DEFINE r == [pc |-> "connect", addr |-> a, conn |-> k, calm |-> Calm(d, a)]
    <3>1. /\ r \in DialRecord /\ r.pc = "connect"
          /\ r.addr = a /\ r.conn = k /\ r.calm = Calm(d, a)
      BY <1>1 DEF DialRecord, Busy, Calm
    <3>2. dials' = [Disturb(a) EXCEPT ![d] = r]
      BY <2>1 DEF DialStream
    <3> HIDE DEF r, k, opens
    <3>3. dials' \in [Dials -> DialRecord] /\ dials'[d] = r
          /\ \A e \in Dials \ {d} : dials'[e] = Disturb(a)[e]
      BY <1>1, <3>1, <3>2, DisturbEffect
    <3>4. \A e \in Dials \ {d} :
            /\ dials'[e].pc = dials[e].pc /\ dials'[e].addr = dials[e].addr
            /\ dials'[e].conn = dials[e].conn
            /\ dials'[e].calm => dials[e].calm /\ dials[e].addr # a
      <4>1. TypeOK
        BY <1>1
      <4> QED
        BY <3>3, <4>1, DisturbEffect
    <3>5. /\ dials'[d].pc = "connect" /\ dials'[d].addr = a /\ dials'[d].conn = k
          /\ dials'[d].calm => Calm(d, a)
      BY <3>1, <3>3
    <3> QED
      BY <2>1, <3>3, <3>4, <3>5
  <2>2. CASE ~opens
    <3>1. dials' = Disturb(a)
      BY <2>2 DEF DialStream
    <3> HIDE DEF k, opens
    <3> QED
      BY <1>1, <2>2, <3>1, DisturbEffect
  <2> QED
    BY <2>1, <2>2
<1>3. /\ sess' \in Seq(SessRecord) /\ Len(sess') = Len(sess)
      /\ \A i \in 1..Len(sess) : i # k => sess'[i] = sess[i]
      /\ sess'[k].addr = a /\ sess'[k].made
      /\ sess'[k] = sess[k] \/ (opens /\ sess'[k].up /\ ~sess'[k].seen)
  <2>1. CASE kind.renews
    <3> DEFINE r == NewSess(a, TRUE)
    <3>1. r \in SessRecord /\ r.addr = a /\ r.made /\ r.up /\ ~r.seen
      BY DEF NewSess, SessRecord
    <3>2. sess' = [sess EXCEPT ![k] = r] /\ sess \in Seq(SessRecord)
      BY <1>1, <2>1 DEF DialStream, TypeOK
    <3> HIDE DEF r
    <3>3. sess' \in Seq(SessRecord) /\ Len(sess') = Len(sess)
      BY <1>1, <3>1, <3>2
    <3>4. sess'[k] = r /\ \A i \in 1..Len(sess) : i # k => sess'[i] = sess[i]
      BY <1>1, <3>2
    <3> QED
      BY <2>1, <3>1, <3>3, <3>4
  <2>2. CASE ~kind.renews
    BY <1>1, <2>2 DEF DialStream, TypeOK
  <2> QED
    BY <2>1, <2>2
<1>4. /\ slot' \in [Addrs -> 0..Len(sess)] /\ \A b \in Addrs : b # a => slot'[b] = slot[b]
      /\ slot'[a] = IF opens THEN k ELSE 0
  BY <1>1, Shapes DEF DialStream
<1>5. /\ quiet' \in [Addrs -> 0..MaxFailed] /\ \A b \in Addrs : b # a => quiet'[b] = quiet[b]
      /\ opens => quiet' = quiet
      /\ ~opens => quiet'[a] \in {0, 1}
  <2>1. CASE opens
    BY <1>1, <2>1 DEF DialStream, TypeOK
  <2>2. CASE ~opens
    <3>1. quiet[a] = 0
      BY <1>1, <2>2 DEF IInv, QuietOK
    <3>2. quiet' = [quiet EXCEPT ![a] = IF ~Calm(d, a) THEN 0
                                        ELSE IF @ < MaxFailed THEN @ + 1 ELSE @]
      BY <2>2 DEF DialStream, Failed
    <3>3. quiet'[a] \in 0..MaxFailed /\ quiet'[a] \in {0, 1}
      BY <1>1, <3>1, <3>2, MuxDialerAssumption DEF TypeOK
    <3> HIDE DEF opens
    <3> QED
      BY <1>1, <2>2, <3>2, <3>3 DEF TypeOK
  <2> QED
    BY <2>1, <2>2
<1> HIDE DEF opens
<1>6. SameSessions
  BY <1>1, <1>3 DEF SameSessions, IInv, SessOK
<1>7. TypeOK'
  <2>1. \A e \in Dials : dials'[e].conn \in 0..Len(sess')
    BY <1>1, <1>2, <1>3, Shapes
  <2> QED
    BY <1>1, <1>2, <1>3, <1>4, <1>5, <2>1, TypeStep
<1>8. SessOK'
  BY <1>1, <1>4, <1>6, Shapes, SessStep
<1>9. DialOK'
  <2> SUFFICES ASSUME NEW e \in Dials, dials'[e].pc # "idle"
               PROVE  /\ dials'[e].conn \in 1..Len(sess)
                      /\ dials'[e].addr \in Addrs
                      /\ Split \/ sess[dials'[e].conn].addr = dials'[e].addr
                      /\ dials'[e].pc \in {"shake", "failing"} => kind.shakes
    BY <1>1, <1>6, DialStep
  <2>1. CASE e = d
    BY <1>1, <1>2, <2>1
  <2>2. CASE e # d
    BY <1>2, <2>2, Shapes DEF IInv, DialOK
  <2> QED
    BY <2>1, <2>2
<1>10. LiveIsShared'
  <2> SUFFICES ASSUME NEW i \in 1..Len(sess), Live(i)', ~kind.foreignDrops, kind.connIs # "entry"
               PROVE  \/ slot'[Home(sess[i].addr)] = i
                      \/ Live(i) /\ slot'[Home(sess[i].addr)] = slot[Home(sess[i].addr)]
    BY <1>1, <1>6, <1>7, LiveStep
  <2>1. CASE i = k
    BY <1>1, <1>3, <1>4, <2>1, HomeFacts DEF Live, opens
  <2>2. CASE i # k
    <3>1. Live(i) /\ slot[Home(sess[i].addr)] = i
      BY <1>3, <2>2 DEF Live, IInv, LiveIsShared
    <3>2. Home(sess[i].addr) # a /\ Home(sess[i].addr) \in Addrs
      BY <2>2, <3>1, HomeFacts
    <3> QED
      BY <1>4, <3>1, <3>2
  <2> QED
    BY <2>1, <2>2
<1>11. PendingHasDialer'
  <2> SUFFICES ASSUME NEW b \in Addrs, slot'[b] # 0
               PROVE  sess'[slot'[b]].made
    BY <1>1 DEF PendingHasDialer, Split
  <2> QED
    BY <1>1, <1>3, <1>4, Shapes DEF IInv, SessOK
<1>12. CalmOK'
  <2> SUFFICES ASSUME ~Split PROVE CalmOK'
    BY <1>1 DEF CalmOK, Split
  <2>1. \A e \in Dials :
          /\ dials'[e].pc \in Busy /\ dials'[e].addr # a =>
               dials[e].pc \in Busy /\ dials[e].addr = dials'[e].addr
          /\ dials'[e].calm /\ dials'[e].addr # a =>
               /\ dials[e].calm /\ dials'[e].pc = dials[e].pc
               /\ dials'[e].addr = dials[e].addr /\ dials'[e].conn = dials[e].conn
    BY <1>1, <1>2 DEF Busy
  <2>2. \A e \in Dials : dials'[e].calm /\ dials'[e].addr = a => CalmAt(e)'
    <3> SUFFICES ASSUME dials'[d].calm, dials'[d].addr = a
                 PROVE  CalmAt(d)'
      BY <1>2
    <3>1. dials'[d].pc \in {"connect", "idle"}
      BY <1>2
    <3>2. \A f \in Dials \ {d} : dials'[f].addr = a => dials'[f].pc \notin Busy
      BY <1>2 DEF Calm
    <3> QED
      BY <3>1, <3>2 DEF CalmAt, Busy
  <2>3. \A i \in 1..Len(sess) : sess[i].addr # a => sess'[i].up = sess[i].up
    BY <1>1, <1>3
  <2> QED
    BY <1>1, <1>4, <2>1, <2>2, <2>3, CalmStep
<1>13. QuietOK'
  <2> SUFFICES ASSUME NEW b \in Addrs, quiet'[b] # 0
               PROVE  /\ ~kind.checks /\ quiet'[b] = 1
                      /\ slot'[b] # 0 => sess'[slot'[b]].up
    BY <1>1 DEF QuietOK, Split
  <2>1. CASE b # a
    <3>1. ~kind.checks /\ quiet[b] = 1 /\ quiet'[b] = 1 /\ slot'[b] = slot[b]
      BY <1>1, <1>4, <1>5, <2>1 DEF IInv, QuietOK
    <3>2. slot[b] # 0 => sess[slot[b]].up /\ sess'[slot[b]] = sess[slot[b]]
      BY <1>1, <1>3, <1>5, <2>1, Shapes DEF IInv, QuietOK, SessOK
    <3> QED
      BY <3>1, <3>2
  <2>2. CASE b = a /\ opens
    BY <1>1, <1>3, <1>4, <1>5, <2>2 DEF IInv, QuietOK
  <2>3. CASE b = a /\ ~opens
    BY <1>1, <1>4, <1>5, <2>3 DEF opens
  <2> QED
    BY <2>1, <2>2, <2>3
<1> QED
  BY <1>8, <1>9, <1>10, <1>11, <1>12, <1>13 DEF IInv

----------------------------------------------------------------------------
(* A step that changes no variable keeps what holds. *)
LEMMA StutterOK == IInv /\ UNCHANGED vars => IInv'
BY DEF vars, IInv, LiveIsShared, TypeOK, Live, Home, Split, PendingHasDialer, SessOK, DialOK,
       CalmOK, CalmAt, QuietOK

(***************************************************************************)
(* The invariant: the sessions that work are the entries, an entry that is *)
(* not ready has its dialer, and a calm dial is alone with what it works   *)
(* on.  No step of a dial, of a failing network or of a session that       *)
(* finds out that it is closed breaks it.                                  *)
(***************************************************************************)
LEMMA IInvIsInvariant == Spec => []IInv
<1>1. Init => IInv
  BY InitOK
<1>2. IInv /\ [Next]_vars => IInv'
  <2> SUFFICES ASSUME IInv, Next PROVE IInv'
    BY StutterOK
  <2>1. ASSUME NEW d \in Dials, NEW a \in Addrs,
               \/ DialError(d, a) \/ DialNew(d, a) \/ DialShared(d, a)
               \/ DialStream(d, a) \/ RenewError(d, a)
        PROVE  IInv'
    BY <2>1, DialErrorOK, NewOK, SharedOK, DialStreamOK, RenewErrorOK
  <2>2. ASSUME NEW d \in Dials,
               \/ HandshakeForeign(d) \/ HandshakeInit(d) \/ HandshakeInitFails(d)
               \/ HandshakeStream(d)
        PROVE  IInv'
    BY <2>2, ForeignOK, InitSessionOK, InitFailsOK, StreamOK
  <2>3. ASSUME NEW d \in Dials,
               \/ CloseDialed(d) \/ ConnectorFails(d) \/ Succeed(d)
               \/ TargetFails(d) \/ Close(d)
        PROVE  IInv'
    BY <2>3, CloseDialedOK, ConnectorFailsOK, SucceedOK, TargetFailsOK, CloseOK
  <2>4. ASSUME NEW i \in 1..Len(sess), Break(i) \/ Notice(i)
        PROVE  IInv'
    BY <2>4, BreakOK, NoticeOK
  <2> QED
    BY <2>1, <2>2, <2>3, <2>4 DEF Next
<1> QED
  BY <1>1, <1>2, PTL DEF Spec

(***************************************************************************)
(* A session that works is the entry that Handshake looks at, and none is  *)
(* made beside it, in mtls, mws, kcp, quic, icmp, grpc, h2, http3 and pht; *)
(* and every later Dial shares it, but in mtls and mws on a node with a    *)
(* resolver or hosts.                                                      *)
(***************************************************************************)
THEOREM LiveShared == Spec => []LiveIsShared
<1>1. IInv => LiveIsShared
  BY DEF IInv
<1> QED
  BY <1>1, IInvIsInvariant, PTL

(***************************************************************************)
(* An entry without a session has a Handshake on its way, in every dialer: *)
(* each path on which initSession fails removes the entry that it leaves.  *)
(* Only Dial's own entries of a resolved address, where Handshake goes by  *)
(* the name, are without.                                                  *)
(***************************************************************************)
THEOREM PendingOwned == Spec => []PendingHasDialer
<1>1. IInv => PendingHasDialer
  BY DEF IInv
<1> QED
  BY <1>1, IInvIsInvariant, PTL

(***************************************************************************)
(* A dial that nothing disturbs succeeds at once where Dial looks at       *)
(* IsClosed, and with its second attempt where it does not, unless Dial    *)
(* and Handshake look at different entries.                                *)
(***************************************************************************)
THEOREM QuietSucceeds == Spec => []QuietDialSucceeds
<1>1. IInv => QuietDialSucceeds
  BY DEF IInv, QuietOK, QuietDialSucceeds
<1> QED
  BY <1>1, IInvIsInvariant, PTL

----------------------------------------------------------------------------
(***************************************************************************)
(* The inductive invariant.  A dial has a node of each hop up to where it  *)
(* is, and left no hop without an alternative; a marker knows of the       *)
(* failures counted since they were forgiven; and whoever still goes to an *)
(* item with too many failures had selected it before.                     *)
(***************************************************************************)
ChainDial == [pc : {"idle", "select", "dial", "node", "target", "open", "direct"}, addr : Targets \cup {None},
         chain : Chains \cup {None}, route : Seq(Nodes), k : Nat]

ChainMark == [count : 0..(Limit + 1), recent : BOOLEAN]

ChainTyped ==
  /\ mark \in [Items -> ChainMark]
  /\ rr \in [Selectors -> 0..Period]
  /\ routed \in [Dialers -> ChainDial]
  /\ fails \in [Items -> 0..MaxCount]
  /\ strategy \in Strategies

ChainOnChain(x) == x.pc = "select" \/ Routed(x)

ChainLoneKept(x) ==
  LET next == <<x.chain, Len(x.route) + 1>>
  IN  /\ x.pc = "direct" /\ x.chain = None => Len(Group) # 1
      /\ \/ Routed(x) /\ Len(x.route) < Len(HopsOf[x.chain])
         \/ x.pc = "direct" /\ x.chain # None
         => Len(Candidates(next, x.addr)) # 1

ChainShape(x) ==
  /\ x.k <= Len(x.route)
  /\ x.pc = "node" => x.k \in 1..Len(x.route)
  /\ ChainOnChain(x) =>
       /\ x.chain \in Chains /\ x.addr \in Targets
       /\ Len(x.route) <= Len(HopsOf[x.chain])
       /\ x.pc = "select" => Len(x.route) < Len(HopsOf[x.chain])
  /\ Routed(x) => Len(x.route) > 0
  /\ ~ChainOnChain(x) => x.route = <<>>
  /\ \A i \in 1..Len(x.route) : x.route[i] \in NodesIn(HopsOf[x.chain][i])

ChainMarkOK(m, n) ==
  /\ n <= m.count \/ m.count >= Limit
  /\ n > 0 => m.recent

(* A dial may still fail at an item. *)
ChainHeads(x, y) == x.pc \in {"select", "dial", "node"}
/\ (y = x.chain \/ \E i \in 1..Len(x.route) : x.route[i] = y)

ChainPending(y) == {d \in Dialers : ChainHeads(routed[d], y)}

ChainPaid(y) == fails[y] >= Limit
=> fails[y] + Cardinality(ChainPending(y)) <= Limit - 1 + Cardinality(Dialers)

ChainIInv ==
  /\ ChainTyped
  /\ \A d \in Dialers : ChainShape(routed[d]) /\ ChainLoneKept(routed[d])
  /\ \A y \in Items : ChainMarkOK(mark[y], fails[y])
  /\ \A y \in Tracked : ChainPaid(y)

LEMMA ChainConsts ==
         /\ IsFiniteSet(Dialers) /\ Hash \in [Dialers -> Nat] /\ Group \in Seq(Chains)
         /\ HopsOf \in [Chains -> Seq(Seq(Nodes))] /\ None \notin Chains
         /\ Nodes \cap Chains = {} /\ Down \subseteq Nodes
         /\ (\A c \in Chains : Len(HopsOf[c]) \in 1..10)
         /\ (\A h \in HopIds : Len(HopsOf[h[1]][h[2]]) > 0)
         /\ Strategies \subseteq {"round", "fifo", "random", "hash"}
         /\ MaxFails \in Nat /\ MaxCount \in Nat /\ Period \in Nat \ {0}
         /\ Limit \in Nat \ {0} /\ Tracked \subseteq Items /\ <<"group", 0>> \in Selectors
         /\ Cardinality(Dialers) \in Nat
<1>1. Limit \in Nat \ {0}
  BY ChainRouteAssumption DEF Limit
<1>2. Tracked \subseteq Items
  BY ChainRouteAssumption DEF Tracked, Items
<1>3. Cardinality(Dialers) \in Nat
  BY FS_CardinalityType, ChainRouteAssumption
<1> QED BY <1>1, <1>2, <1>3, ChainRouteAssumption DEF Selectors

LEMMA ChainHopFacts ==
  ASSUME NEW c \in Chains, NEW i \in 1..Len(HopsOf[c])
  PROVE  /\ <<c, i>> \in HopIds /\ <<c, i>> \in Selectors /\ HopsOf[c][i] \in Seq(Nodes)
         /\ NodesIn(HopsOf[c][i]) \subseteq Nodes
<1>1. Len(HopsOf[c]) \in 1..10 /\ HopsOf[c] \in Seq(Seq(Nodes))
  BY ChainConsts
<1>2. i \in 1..10 /\ i <= Len(HopsOf[c])
  <2> DEFINE n == Len(HopsOf[c])
  <2>1. n \in 1..10 /\ i \in 1..n
    BY <1>1
  <2> HIDE DEF n
  <2>2. i \in 1..10 /\ i <= n
    BY <2>1
  <2> QED BY <2>2 DEF n
<1>3. HopsOf[c][i] \in Seq(Nodes)
  BY <1>1
<1>4. <<c, i>> \in HopIds
  BY <1>2 DEF HopIds
<1>5. NodesIn(HopsOf[c][i]) \subseteq Nodes
  BY <1>3 DEF NodesIn
<1> QED BY <1>3, <1>4, <1>5 DEF Selectors

(***************************************************************************)
(* What a selector may select: an item of the candidates; one that is not  *)
(* filtered for its failures, unless it is the only one; and the only one  *)
(* always.                                                                 *)
(***************************************************************************)
LEMMA ChainSelectFacts ==
  ASSUME strategy \in Strategies, rr \in [Selectors -> 0..Period],
         NEW xs \in Seq(Items), NEW sel \in Selectors, NEW d \in Dialers
  PROVE  /\ \A y \in Select(xs, sel, d) :
              /\ \E j \in 1..Len(xs) : xs[j] = y
              /\ Len(xs) # 1 => Alive(y)
         /\ Len(xs) = 1 => Select(xs, sel, d) # {}
<1> DEFINE live == {y \in Items : Alive(y)}
           ff == FailFilter(xs)
           fs == Filtered(xs)
<1>0. (Len(xs) <= 1 => Len(xs) = 0 \/ Len(xs) = 1) /\ (Len(xs) > 1 => Len(xs) # 1)
      /\ (Len(xs) = 1 => Len(xs) <= 1) /\ (~(Len(xs) <= 1) => Len(xs) > 1)
  <2> DEFINE n == Len(xs)
  <2>1. n \in Nat
    OBVIOUS
  <2> HIDE DEF n
  <2>2. (n <= 1 => n = 0 \/ n = 1) /\ (n > 1 => n # 1) /\ (n = 1 => n <= 1) /\ (~(n <= 1) => n > 1)
    BY <2>1
  <2> QED BY <2>2 DEF n
<1>1. /\ ff \in Seq(Items) /\ (Len(xs) = 1 => ff = xs)
      /\ \A k \in 1..Len(ff) : (\E j \in 1..Len(xs) : xs[j] = ff[k]) /\ (Len(xs) # 1 => Alive(ff[k]))
  <2>1. CASE Len(xs) <= 1
    <3>1. ff = xs
      BY <2>1 DEF FailFilter
    <3>2. Len(xs) # 1 => Len(xs) = 0
      BY <1>0, <2>1, Zenon
    <3> QED BY <3>1, <3>2
  <2>2. CASE Len(xs) > 1
    <3>1. ff = Keep(xs, live)
      BY <2>2 DEF FailFilter
    <3> HIDE DEF ff, live
    <3>2. /\ ff \in Seq(Items)
          /\ \A k \in 1..Len(ff) : ff[k] \in live /\ \E j \in 1..Len(xs) : xs[j] = ff[k]
      BY <3>1, KeepElements
    <3>3. \A y \in live : Alive(y)
      BY DEF live
    <3>4. Len(xs) # 1
      BY <1>0, <2>2, Zenon
    <3> QED BY <3>2, <3>3, <3>4
  <2> QED BY <1>0, <2>1, <2>2, Zenon
<1>2. /\ fs \in Seq(Items) /\ (Len(xs) = 1 => fs = xs)
      /\ \A k \in 1..Len(fs) : \E j \in 1..Len(ff) : ff[j] = fs[k]
  <2> DEFINE rest == Items \ Backup
             main == Keep(ff, rest)
  <2>1. fs = IF Len(ff) <= 1 \/ main = <<>> THEN ff ELSE main
    BY DEF Filtered, BackupFilter
  <2> HIDE DEF ff, rest
  <2>2. main \in Seq(Items) /\ \A k \in 1..Len(main) : \E j \in 1..Len(ff) : ff[j] = main[k]
    BY <1>1, KeepElements
  <2>3. Len(xs) = 1 => Len(ff) <= 1
    BY <1>0, <1>1, Zenon
  <2> HIDE DEF main, fs
  <2>4. CASE Len(ff) <= 1 \/ main = <<>>
    BY <1>1, <2>1, <2>4
  <2>5. CASE ~(Len(ff) <= 1 \/ main = <<>>)
    <3>1. fs = main
      BY <2>1, <2>5
    <3>2. Len(xs) # 1
      BY <2>3, <2>5
    <3> QED BY <2>2, <3>1, <3>2
  <2> QED BY <2>4, <2>5
<1> HIDE DEF ff, fs
<1>3. Select(xs, sel, d) = IF fs = <<>> THEN {} ELSE Apply(fs, sel, d)
  BY DEF Select, fs
<1>4. ASSUME fs # <<>>
      PROVE  Apply(fs, sel, d) # {} /\ \A y \in Apply(fs, sel, d) : \E k \in 1..Len(fs) : y = fs[k]
  <2>1. Len(fs) \in Nat \ {0}
    BY <1>2, <1>4
  <2>2. rr[sel] \in Nat /\ Hash[d] \in Nat
    BY ChainConsts
  <2>3. (rr[sel] % Len(fs)) + 1 \in 1..Len(fs) /\ (Hash[d] % Len(fs)) + 1 \in 1..Len(fs) /\ 1 \in 1..Len(fs)
    BY <2>1, <2>2
  <2>4. CASE strategy = "round"
    BY <2>3, <2>4 DEF Apply
  <2>5. CASE strategy = "fifo"
    BY <2>3, <2>5 DEF Apply
  <2>6. CASE strategy = "hash"
    BY <2>3, <2>6 DEF Apply
  <2>7. CASE strategy = "random"
    <3>1. Apply(fs, sel, d) = {fs[i] : i \in 1..Len(fs)}
      BY <2>7 DEF Apply
    <3>2. fs[1] \in Apply(fs, sel, d)
      BY <2>3, <3>1
    <3> QED BY <3>1, <3>2
  <2> QED BY <2>4, <2>5, <2>6, <2>7, ChainConsts
<1>5. ASSUME NEW y \in Select(xs, sel, d)
      PROVE  (\E j \in 1..Len(xs) : xs[j] = y) /\ (Len(xs) # 1 => Alive(y))
  <2>1. PICK k \in 1..Len(fs) : y = fs[k]
    BY <1>3, <1>4, <1>5
  <2>2. PICK j \in 1..Len(ff) : ff[j] = y
    BY <1>2, <2>1
  <2> QED BY <1>1, <2>2
<1>6. Len(xs) = 1 => Select(xs, sel, d) # {}
  <2>1. Len(xs) = 1 => fs # <<>>
    <3>1. Len(xs) = 1 => Len(fs) = 1
      BY <1>2, Zenon
    <3>2. fs = <<>> => Len(fs) = 0
      OBVIOUS
    <3>3. 0 # 1
      OBVIOUS
    <3> QED BY <3>1, <3>2, <3>3, Zenon
  <2> QED BY <1>3, <1>4, <2>1
<1> QED BY <1>5, <1>6

LEMMA ChainCountedType ==
  ASSUME rr \in [Selectors -> 0..Period], NEW sel \in Selectors, NEW xs
  PROVE  Counted(sel, xs) \in [Selectors -> 0..Period]
<1>1. rr[sel] \in Nat /\ Period \in Nat \ {0}
  BY ChainConsts
<1>2. (rr[sel] + 1) % Period \in 0..Period
  BY <1>1
<1> QED BY <1>2 DEF Counted

LEMMA ChainCandidatesFacts ==
  ASSUME NEW c \in Chains, NEW i \in 1..Len(HopsOf[c]), NEW a
  PROVE  /\ Candidates(<<c, i>>, a) \in Seq(Items)
         /\ \A k \in 1..Len(Candidates(<<c, i>>, a)) : Candidates(<<c, i>>, a)[k] \in NodesIn(HopsOf[c][i])
<1> DEFINE hop == HopsOf[c][i]
           cands == Candidates(<<c, i>>, a)
<1>1. hop \in Seq(Nodes)
  BY ChainHopFacts
<1>2. cands = <<>> \/ cands = Keep(hop, Nodes \ NodeBypass[a])
  BY DEF Candidates
<1>3. CASE cands = <<>>
  BY <1>3
<1>4. CASE cands = Keep(hop, Nodes \ NodeBypass[a])
  <2> DEFINE rest == Nodes \ NodeBypass[a]
  <2> HIDE DEF cands, hop, rest
  <2>0. cands = Keep(hop, rest)
    BY <1>4 DEF rest
  <2>1. cands \in Seq(Nodes) /\ \A k \in 1..Len(cands) : \E j \in 1..Len(hop) : hop[j] = cands[k]
    BY <1>1, <2>0, KeepElements
  <2>2. Nodes \subseteq Items
    BY DEF Items
  <2>3. cands \in Seq(Items)
    BY <2>1, <2>2
  <2>4. \A k \in 1..Len(cands) : cands[k] \in NodesIn(hop)
    BY <2>1 DEF NodesIn
  <2> QED BY <2>3, <2>4 DEF cands, hop
<1> QED BY <1>2, <1>3, <1>4

----------------------------------------------------------------------------
(* Pending dials are dials. *)
LEMMA ChainPendingFacts ==
  ASSUME NEW P \in SUBSET Dialers
  PROVE  /\ IsFiniteSet(P) /\ Cardinality(P) \in Nat /\ Cardinality(P) <= Cardinality(Dialers)
         /\ \A Q \in SUBSET P : IsFiniteSet(Q) /\ Cardinality(Q) \in Nat /\ Cardinality(Q) <= Cardinality(P)
         /\ \A d \in P : \A Q \in SUBSET (P \ {d}) : Cardinality(Q) <= Cardinality(P) - 1
<1>1. IsFiniteSet(Dialers)
  BY ChainConsts
<1>2. \A S : IsFiniteSet(S) => Cardinality(S) \in Nat
  BY FS_CardinalityType
<1>3. \A S, Q : IsFiniteSet(S) /\ Q \subseteq S => IsFiniteSet(Q) /\ Cardinality(Q) <= Cardinality(S)
  BY FS_Subset
<1>4. IsFiniteSet(P) /\ Cardinality(P) \in Nat /\ Cardinality(P) <= Cardinality(Dialers)
  BY <1>1, <1>2, <1>3
<1>5. ASSUME NEW d \in P, NEW Q \in SUBSET (P \ {d}) PROVE Cardinality(Q) <= Cardinality(P) - 1
  <2>1. IsFiniteSet(P \ {d}) /\ Cardinality(P \ {d}) = Cardinality(P) - 1
    BY <1>4, FS_RemoveElement
  <2>2. Cardinality(Q) <= Cardinality(P \ {d})
    BY <1>3, <2>1
  <2> QED BY <2>1, <2>2
<1> QED BY <1>2, <1>3, <1>4, <1>5

LEMMA ChainParts ==
  ASSUME ChainIInv, NEW d \in Dialers
  PROVE  /\ mark \in [Items -> ChainMark] /\ rr \in [Selectors -> 0..Period]
            /\ routed \in [Dialers -> ChainDial]
         /\ fails \in [Items -> 0..MaxCount] /\ strategy \in Strategies
         /\ routed[d] \in ChainDial /\ ChainShape(routed[d]) /\ ChainLoneKept(routed[d])
BY DEF ChainIInv, ChainTyped

(***************************************************************************)
(* A step of a dial that goes to y, while an item's failures stay, are     *)
(* forgiven or, where the dial had selected it and lets it go, grow by     *)
(* one.                                                                    *)
(***************************************************************************)
LEMMA ChainDialStep ==
  ASSUME ChainIInv, NEW d \in Dialers, NEW y \in ChainDial, ChainShape(y), ChainLoneKept(y),
         routed' = [routed EXCEPT ![d] = y], strategy' = strategy,
         rr' \in [Selectors -> 0..Period], mark' \in [Items -> ChainMark], fails' \in [Items -> 0..MaxCount],
         \A x \in Items : ChainMarkOK(mark'[x], fails'[x]),
         \A x \in Tracked :
           \/ fails'[x] = 0
           \/ fails'[x] = fails[x] /\ (ChainHeads(y, x) => ChainHeads(routed[d], x) \/ fails[x] < Limit)
           \/ fails'[x] <= fails[x] + 1 /\ ChainHeads(routed[d], x) /\ ~ChainHeads(y, x)
  PROVE  ChainIInv'
<1>1. ChainTyped'
  BY ChainParts DEF ChainTyped
<1>2. \A e \in Dialers : ChainShape(routed'[e]) /\ ChainLoneKept(routed'[e])
  BY ChainParts DEF ChainIInv
<1>3. ASSUME NEW x \in Tracked PROVE ChainPaid(x)'
  <2> DEFINE P == ChainPending(x)
             Q == {e \in Dialers : ChainHeads(routed'[e], x)}
             N == Cardinality(Dialers)
  <2>1. \A e \in Dialers : e # d => routed'[e] = routed[e]
    BY ChainParts
  <2>2. routed'[d] = y
    BY ChainParts
  <2>3. P \in SUBSET Dialers /\ Q \in SUBSET Dialers /\ Q \subseteq P \cup {d}
    BY <2>1 DEF ChainPending
  <2>4. /\ Limit \in Nat \ {0} /\ N \in Nat /\ Cardinality(P) \in Nat /\ Cardinality(Q) \in Nat
        /\ fails[x] \in Nat /\ fails'[x] \in Nat
    <3>1. x \in Items
      BY ChainConsts
    <3> QED BY <2>3, <3>1, ChainPendingFacts, ChainConsts, ChainParts
  <2>5. fails[x] >= Limit => fails[x] + Cardinality(P) <= Limit - 1 + N
    BY DEF ChainIInv, ChainPaid
  <2>6. CASE fails'[x] = 0
    BY <2>4, <2>6 DEF ChainPaid
  <2>7. CASE fails'[x] = fails[x] /\ fails[x] >= Limit /\ (ChainHeads(y, x) => ChainHeads(routed[d], x))
    <3>1. Q \subseteq P
      BY <2>2, <2>3, <2>7 DEF ChainPending
    <3>2. Cardinality(Q) <= Cardinality(P)
      BY <2>3, <3>1, ChainPendingFacts
    <3> HIDE DEF P, Q, N
    <3>3. fails'[x] + Cardinality(Q) <= Limit - 1 + N
      BY <2>4, <2>5, <2>7, <3>2
    <3> QED BY <3>3 DEF ChainPaid, ChainPending, Q, N
  <2>8. CASE fails'[x] = fails[x] /\ fails[x] < Limit
    BY <2>4, <2>8 DEF ChainPaid
  <2>9. CASE fails'[x] <= fails[x] + 1 /\ ChainHeads(routed[d], x) /\ ~ChainHeads(y, x)
    <3>1. d \in P /\ Q \subseteq P \ {d}
      BY <2>2, <2>3, <2>9 DEF ChainPending
    <3>2. Cardinality(Q) <= Cardinality(P) - 1 /\ Cardinality(P) <= N
      BY <2>3, <3>1, ChainPendingFacts
    <3> HIDE DEF P, Q, N
    <3>3. fails'[x] >= Limit => fails'[x] + Cardinality(Q) <= Limit - 1 + N
      BY <2>4, <2>5, <2>9, <3>2
    <3> QED BY <3>3 DEF ChainPaid, ChainPending, Q, N
  <2> QED BY <2>4, <2>6, <2>7, <2>8, <2>9
<1>4. (\A e \in Dialers : ChainShape(routed[e]) /\ ChainLoneKept(routed[e]))'
  BY <1>2 DEF ChainShape, ChainLoneKept, ChainOnChain, Routed
<1>5. (\A x \in Items : ChainMarkOK(mark[x], fails[x]))'
  BY DEF ChainMarkOK
<1>6. (\A x \in Tracked : ChainPaid(x))'
  BY <1>3
<1> QED BY <1>1, <1>4, <1>5, <1>6 DEF ChainIInv

(* An idle dial is in order, whatever it did before. *)
LEMMA ChainNoDialFacts ==
         IdleDial \in ChainDial /\ ChainShape(IdleDial) /\ ChainLoneKept(IdleDial)
         /\ \A x : ~ChainHeads(IdleDial, x)
BY DEF IdleDial, ChainDial, ChainShape, ChainLoneKept, ChainHeads, ChainOnChain, Routed

(* Whoever has an alternative is selected only when it has not failed too often. *)
LEMMA ChainAliveFails ==
  ASSUME ChainIInv, NEW x \in Items, Alive(x)
  PROVE  fails[x] < Limit
<1>1. mark[x] \in ChainMark /\ fails[x] \in Nat /\ ChainMarkOK(mark[x], fails[x]) /\ Limit \in Nat \ {0}
  BY ChainConsts DEF ChainIInv, ChainTyped
<1> QED BY <1>1 DEF Alive, ChainMarkOK, ChainMark

(* The steps that leave markers and failures alone. *)
LEMMA ChainQuietStep ==
  ASSUME ChainIInv, NEW d \in Dialers, NEW y \in ChainDial, ChainShape(y), ChainLoneKept(y),
         routed' = [routed EXCEPT ![d] = y], UNCHANGED <<mark, fails, strategy>>,
         rr' \in [Selectors -> 0..Period],
         \A x \in Tracked : ChainHeads(y, x) => ChainHeads(routed[d], x) \/ fails[x] < Limit
  PROVE  ChainIInv'
<1>1. mark' \in [Items -> ChainMark] /\ fails' \in [Items -> 0..MaxCount] /\ strategy' = strategy
  BY ChainParts
<1>2. \A x \in Items : ChainMarkOK(mark'[x], fails'[x])
  BY DEF ChainIInv
<1>3. \A x \in Tracked : fails'[x] = fails[x]
      /\ (ChainHeads(y, x) => ChainHeads(routed[d], x) \/ fails[x] < Limit)
  OBVIOUS
<1> QED BY <1>1, <1>2, <1>3, ChainDialStep

LEMMA ChainPickChainInv ==
  ASSUME ChainIInv, NEW d \in Dialers, NEW a \in Targets, PickChain(d, a)
  PROVE  ChainIInv'
<1> DEFINE sel == <<"group", 0>>
           choice == Select(Group, sel, d)
           direct == [IdleDial EXCEPT !.pc = "direct", !.addr = a]
           on(c) == [IdleDial EXCEPT !.pc = "select", !.addr = a, !.chain = c]
<1>1. Group \in Seq(Items) /\ sel \in Selectors
  BY ChainConsts DEF Items
<1>2. /\ \A y \in choice :
           /\ \E j \in 1..Len(Group) : Group[j] = y
           /\ Len(Group) # 1 => Alive(y)
      /\ Len(Group) = 1 => choice # {}
  BY <1>1, ChainSelectFacts, ChainParts
<1>3. rr' \in [Selectors -> 0..Period] /\ UNCHANGED <<mark, fails, strategy>>
  BY <1>1, ChainCountedType, ChainParts DEF PickChain
<1>4. CASE choice = {} /\ routed' = [routed EXCEPT ![d] = direct]
  <2>1. direct \in ChainDial /\ ChainShape(direct) /\ \A x : ~ChainHeads(direct, x)
    BY ChainNoDialFacts DEF IdleDial, ChainDial, ChainShape, ChainHeads, ChainOnChain, Routed
  <2>2. Len(Group) # 1
    BY <1>2, <1>4
  <2>3. ChainLoneKept(direct)
    BY <2>2 DEF ChainLoneKept, IdleDial, Routed
  <2> HIDE DEF direct
  <2> QED BY <1>3, <1>4, <2>1, <2>3, ChainQuietStep
<1>5. ASSUME NEW c \in choice, routed' = [routed EXCEPT ![d] = on(c)] PROVE ChainIInv'
  <2>1. c \in Chains
    <3>1. PICK j \in 1..Len(Group) : Group[j] = c
      BY <1>2, Zenon
    <3> QED BY <3>1, ChainConsts
  <2>2. Len(HopsOf[c]) \in 1..10
    BY <2>1, ChainConsts
  <2>0. /\ on(c).pc = "select" /\ on(c).addr = a /\ on(c).chain = c /\ on(c).route = <<>> /\ on(c).k = 0
        /\ on(c) \in ChainDial
    <3> HIDE DEF choice
    <3>1. IdleDial \in ChainDial
      BY ChainNoDialFacts
    <3>2. on(c).pc = "select" /\ on(c).addr = a /\ on(c).chain = c
      BY <3>1 DEF ChainDial
    <3>3. on(c).route = <<>> /\ on(c).k = 0
      BY DEF IdleDial
    <3>4. on(c) \in ChainDial
      BY <2>1, <3>1 DEF ChainDial
    <3> QED BY <3>2, <3>3, <3>4
  <2> HIDE DEF on
  <2>3. on(c) \in ChainDial /\ ChainLoneKept(on(c))
    BY <2>0 DEF ChainLoneKept, Routed
  <2>4. ChainShape(on(c))
    <3>0. Len(<<>>) = 0
      OBVIOUS
    <3>1. Len(on(c).route) = 0 /\ on(c).k = 0 /\ on(c).pc = "select" /\ on(c).chain = c /\ on(c).addr = a
      <4>1. on(c).route = <<>>
        BY <2>0
      <4>2. Len(on(c).route) = 0
        BY <3>0, <4>1, Zenon
      <4> QED BY <2>0, <4>2
    <3>2. 0 < Len(HopsOf[c]) /\ 0 <= Len(HopsOf[c])
      <4> DEFINE n == Len(HopsOf[c])
      <4>1. n \in 1..10
        BY <2>2
      <4> HIDE DEF n
      <4>2. 0 < n /\ 0 <= n
        BY <4>1
      <4> QED BY <4>2 DEF n
    <3>3. \A j \in 1..Len(on(c).route) : on(c).route[j] \in NodesIn(HopsOf[on(c).chain][j])
      BY <3>1
    <3> DEFINE y == on(c)
               l == Len(y.route)
    <3>4. y.k <= l /\ l <= Len(HopsOf[y.chain]) /\ l < Len(HopsOf[y.chain]) /\ ~Routed(y)
      BY <3>1, <3>2 DEF Routed
    <3>5. y.chain \in Chains /\ y.addr \in Targets /\ y.pc = "select"
      BY <2>0, <2>1
    <3> HIDE DEF y, l
    <3>6. ChainShape(y)
      BY <3>3, <3>4, <3>5 DEF ChainShape, ChainOnChain, y, l
    <3> QED BY <3>6 DEF y
  <2>5. ASSUME NEW x \in Tracked, ChainHeads(on(c), x) PROVE fails[x] < Limit
    <3>1. x = c
      BY <2>0, <2>5 DEF ChainHeads
    <3>2. x \notin Down /\ x \in Items
      BY <2>1, <3>1, ChainConsts
    <3>3. Len(Group) > 1
      BY <3>2 DEF Tracked, Broken
    <3>4. Len(Group) # 1
      <4> DEFINE n == Len(Group)
      <4>1. n > 1
        BY <3>3
      <4> HIDE DEF n
      <4>2. n # 1
        BY <4>1
      <4> QED BY <4>2 DEF n
    <3> QED BY <1>2, <3>1, <3>2, <3>4, ChainAliveFails
  <2> HIDE DEF on
  <2> QED BY <1>3, <1>5, <2>3, <2>4, <2>5, ChainQuietStep
<1> QED BY <1>4, <1>5 DEF PickChain

LEMMA ChainSelectNodeInv ==
  ASSUME ChainIInv, NEW d \in Dialers, SelectNode(d)
  PROVE  ChainIInv'
<1> DEFINE x == routed[d]
           i == Len(x.route) + 1
           hop == <<x.chain, i>>
           cands == Candidates(hop, x.addr)
           choice == IF cands = <<>> THEN {} ELSE Select(cands, hop, d)
           end == [x EXCEPT !.pc = IF x.route = <<>> THEN "direct" ELSE "dial"]
           on(n) == [x EXCEPT !.route = Append(x.route, n),
                              !.pc = IF i = Len(HopsOf[x.chain]) THEN "dial" ELSE "select"]
<1>1. x \in ChainDial /\ ChainShape(x) /\ x.pc = "select" /\ x.chain \in Chains /\ x.addr \in Targets
      /\ x.route \in Seq(Nodes) /\ x.k \in Nat /\ x.k <= Len(x.route)
      /\ \A j \in 1..Len(x.route) : x.route[j] \in NodesIn(HopsOf[x.chain][j])
  BY ChainParts DEF SelectNode, ChainShape, ChainOnChain, ChainDial
<1>2. Len(HopsOf[x.chain]) \in 1..10 /\ Len(x.route) \in Nat /\ Len(x.route) < Len(HopsOf[x.chain])
  BY <1>1, ChainConsts DEF ChainShape, ChainOnChain
<1>3. i \in 1..Len(HopsOf[x.chain])
  BY <1>2
<1>4. /\ cands \in Seq(Items)
      /\ \A k \in 1..Len(cands) : cands[k] \in NodesIn(HopsOf[x.chain][i])
  BY <1>1, <1>3, ChainCandidatesFacts
<1>5. hop \in HopIds /\ hop \in Selectors /\ NodesIn(HopsOf[x.chain][i]) \subseteq Nodes
  BY <1>1, <1>3, ChainHopFacts
<1>6. /\ \A y \in choice :
           /\ \E j \in 1..Len(cands) : cands[j] = y
           /\ Len(cands) # 1 => Alive(y)
      /\ Len(cands) = 1 => choice # {}
  <2>1. /\ \A y \in Select(cands, hop, d) :
             /\ \E j \in 1..Len(cands) : cands[j] = y
             /\ Len(cands) # 1 => Alive(y)
        /\ Len(cands) = 1 => Select(cands, hop, d) # {}
    <3> HIDE DEF cands, hop
    <3> QED BY <1>4, <1>5, ChainSelectFacts, ChainParts
  <2>2. cands = <<>> => Len(cands) = 0
    OBVIOUS
  <2>3. 0 # 1
    OBVIOUS
  <2> HIDE DEF cands, hop
  <2> QED BY <2>1, <2>2, <2>3, Zenon
<1>7. rr' \in [Selectors -> 0..Period] /\ UNCHANGED <<mark, fails, strategy>>
  <2>1. rr' = rr \/ rr' = Counted(hop, cands)
    BY DEF SelectNode
  <2>2. UNCHANGED <<mark, fails, strategy>>
    BY DEF SelectNode
  <2> HIDE DEF cands, hop
  <2> QED BY <1>5, <2>1, <2>2, ChainCountedType, ChainParts
<1>8. CASE choice = {} /\ routed' = [routed EXCEPT ![d] = end]
  <2>1. Len(cands) # 1
    BY <1>6, <1>8
  <2>2. end \in ChainDial
    BY <1>1 DEF ChainDial
  <2>3. ChainShape(end)
    BY <1>1, <1>2 DEF ChainShape, ChainOnChain, Routed
  <2>4. ChainLoneKept(end)
    BY <1>1, <2>1, ChainConsts DEF ChainLoneKept
  <2>5. \A y \in Tracked : ChainHeads(end, y) => ChainHeads(routed[d], y)
    BY <1>1 DEF ChainHeads
  <2> HIDE DEF end
  <2> QED BY <1>7, <1>8, <2>2, <2>3, <2>4, <2>5, ChainQuietStep
<1>9. ASSUME NEW n \in choice, routed' = [routed EXCEPT ![d] = on(n)] PROVE ChainIInv'
  <2>1. n \in NodesIn(HopsOf[x.chain][i]) /\ n \in Nodes
    BY <1>4, <1>5, <1>6
  <2>2. /\ Append(x.route, n) \in Seq(Nodes) /\ Len(Append(x.route, n)) = i
        /\ \A j \in 1..i : Append(x.route, n)[j] = IF j = i THEN n ELSE x.route[j]
    BY <1>1, <2>1
  <2>3. on(n) \in ChainDial
    BY <1>1, <2>2 DEF ChainDial
  <2>4. /\ on(n).route = Append(x.route, n) /\ on(n).chain = x.chain /\ on(n).k = x.k /\ on(n).addr = x.addr
        /\ on(n).pc = IF i = Len(HopsOf[x.chain]) THEN "dial" ELSE "select"
    BY <1>1 DEF ChainDial
  <2>5. \A j \in 1..i : Append(x.route, n)[j] \in NodesIn(HopsOf[x.chain][j])
    <3>1. \A j \in 1..i : j = i \/ j \in 1..Len(x.route)
      BY <1>2
    <3> QED BY <1>1, <2>1, <2>2, <3>1
  <2>6. ChainShape(on(n))
    <3> DEFINE y == on(n)
               m == Len(HopsOf[x.chain])
               l == Len(x.route)
    <3>1. y.k <= l /\ Len(y.route) = l + 1 /\ l \in Nat /\ m \in Nat /\ l < m /\ y.k \in Nat
      <4>1. y.route = Append(x.route, n) /\ y.k = x.k
        BY <2>4
      <4>2. Len(y.route) = l + 1
        BY <2>2, <4>1
      <4>3. x.k <= l /\ l \in Nat /\ m \in Nat /\ l < m /\ x.k \in Nat
        BY <1>1, <1>2
      <4> HIDE DEF y, m, l
      <4> QED BY <4>1, <4>2, <4>3
    <3>2. y.pc = "dial" \/ (y.pc = "select" /\ l + 1 # m)
      BY <2>4
    <3>3. y.chain = x.chain /\ y.addr \in Targets /\ y.chain \in Chains
      BY <1>1, <2>4
    <3>4. \A j \in 1..Len(y.route) : y.route[j] \in NodesIn(HopsOf[y.chain][j])
      BY <2>2, <2>4, <2>5
    <3>5. /\ Len(HopsOf[y.chain]) = m
      BY <3>3
    <3> HIDE DEF y, m, l
    <3>6. y.k <= Len(y.route) /\ Len(y.route) <= m /\ (y.pc = "select" => Len(y.route) < m)
          /\ Len(y.route) > 0
      BY <3>1, <3>2
    <3>7. ChainShape(y)
      BY <3>2, <3>3, <3>4, <3>5, <3>6 DEF ChainShape, ChainOnChain, Routed
    <3> QED BY <3>7 DEF y
  <2>7. ChainLoneKept(on(n))
    <3> DEFINE y == on(n)
    <3>1. Len(y.route) = i /\ y.chain = x.chain
      BY <2>2, <2>4
    <3>2. (y.pc = "dial" /\ i = Len(HopsOf[x.chain])) \/ y.pc = "select"
      BY <2>4
    <3>3. i \in Nat
      BY <1>2
    <3> HIDE DEF y, i
    <3>4. ChainLoneKept(y)
      BY <3>1, <3>2, <3>3 DEF ChainLoneKept, Routed
    <3> QED BY <3>4 DEF y
  <2>8. ASSUME NEW y \in Tracked, ChainHeads(on(n), y) PROVE ChainHeads(routed[d], y) \/ fails[y] < Limit
    <3>1. y = x.chain \/ \E j \in 1..i : Append(x.route, n)[j] = y
      BY <2>2, <2>4, <2>8 DEF ChainHeads
    <3>2. CASE y = n
      <4>1. y \in Items /\ y \notin Chains
        BY <2>1, <3>2, ChainConsts DEF Items
      <4>2. HasAlternative(y)
        BY <4>1 DEF Tracked
      <4>3. y \in NodesIn(HopsOf[hop[1]][hop[2]])
        BY <2>1, <3>2
      <4>4. Len(cands) # 1
        BY <1>1, <1>5, <4>2, <4>3 DEF HasAlternative
      <4> QED BY <1>6, <3>2, <4>1, <4>4, ChainAliveFails
    <3>3. CASE y = x.chain
      BY <1>1, <3>3 DEF ChainHeads
    <3>4. CASE y # n /\ y # x.chain
      <4>1. PICK j \in 1..i : Append(x.route, n)[j] = y
        BY <3>1, <3>4
      <4>2. j # i /\ x.route[j] = y
        BY <2>2, <3>4, <4>1
      <4>3. j \in 1..Len(x.route)
        BY <1>2, <4>2
      <4> QED BY <1>1, <4>2, <4>3 DEF ChainHeads
    <3> QED BY <3>2, <3>3, <3>4
  <2> HIDE DEF on
  <2> QED BY <1>7, <1>9, <2>3, <2>6, <2>7, <2>8, ChainQuietStep
<1>10. \/ choice = {} /\ routed' = [routed EXCEPT ![d].pc = IF x.route = <<>> THEN "direct" ELSE "dial"]
       \/ \E n \in choice :
            routed' = [routed EXCEPT ![d].route = Append(x.route, n),
                        ![d].pc = IF i = Len(HopsOf[x.chain]) THEN "dial" ELSE "select"]
  BY DEF SelectNode
<1>11. (routed' = [routed EXCEPT ![d].pc = IF x.route = <<>> THEN "direct" ELSE "dial"])
       => routed' = [routed EXCEPT ![d] = end]
  BY <1>1, ChainParts
<1>12. \A n \in choice :
         (routed' = [routed EXCEPT ![d].route = Append(x.route, n),
                        ![d].pc = IF i = Len(HopsOf[x.chain]) THEN "dial" ELSE "select"])
         => routed' = [routed EXCEPT ![d] = on(n)]
  <2> HIDE DEF choice
  <2> QED BY <1>1, ChainParts
<1> QED BY <1>8, <1>9, <1>10, <1>11, <1>12

LEMMA ChainStartConnectInv ==
  ASSUME ChainIInv, NEW d \in Dialers, StartConnect(d)
  PROVE  ChainIInv'
<1> DEFINE x == routed[d]
           on(s) == [x EXCEPT !.pc = "node", !.k = s]
<1>1. x \in ChainDial /\ ChainShape(x) /\ x.pc = "dial" /\ Len(x.route) \in Nat \ {0}
      /\ x.chain \in Chains /\ x.addr \in Targets /\ ChainLoneKept(x)
         /\ Len(x.route) <= Len(HopsOf[x.chain])
  BY ChainParts DEF StartConnect, ChainShape, ChainOnChain, Routed, ChainDial
<1>2. PICK s \in {1} \cup MuxAt(x.route) : routed' = [routed EXCEPT ![d].pc = "node", ![d].k = s]
  BY DEF StartConnect
<1>3. s \in 1..Len(x.route) /\ s \in Nat /\ s <= Len(x.route)
  BY <1>1 DEF MuxAt
<1>4. routed' = [routed EXCEPT ![d] = on(s)]
  BY <1>1, <1>2, ChainParts
<1>5. /\ on(s).pc = "node" /\ on(s).k = s /\ on(s).route = x.route /\ on(s).chain = x.chain
      /\ on(s).addr = x.addr /\ on(s) \in ChainDial
  BY <1>1, <1>3 DEF ChainDial
<1> HIDE DEF on
<1>6. ChainShape(on(s))
  BY <1>1, <1>3, <1>5 DEF ChainShape, ChainOnChain, Routed
<1>7. ChainLoneKept(on(s))
  BY <1>1, <1>5 DEF ChainLoneKept, Routed
<1>8. \A y \in Tracked : ChainHeads(on(s), y) => ChainHeads(routed[d], y)
  BY <1>1, <1>5 DEF ChainHeads
<1>9. rr' \in [Selectors -> 0..Period] /\ UNCHANGED <<mark, fails, strategy>>
  BY ChainParts DEF StartConnect
<1> QED BY <1>4, <1>5, <1>6, <1>7, <1>8, <1>9, ChainQuietStep

(* Items that are reset have neither a count nor failures. *)
LEMMA ChainConnectNodeInv ==
  ASSUME ChainIInv, NEW d \in Dialers, ConnectNode(d)
  PROVE  ChainIInv'
<1> DEFINE x == routed[d]
           done == {x.route[x.k]} \cup (IF EndsChainPart(x.route, x.k) THEN {x.chain} ELSE {})
           y == [x EXCEPT !.pc = IF x.k = Len(x.route) THEN "target" ELSE "node",
                          !.k = IF x.k = Len(x.route) THEN x.k ELSE x.k + 1]
<1>1. x \in ChainDial /\ ChainShape(x) /\ ChainLoneKept(x) /\ x.pc = "node" /\ Len(x.route) \in Nat \ {0}
      /\ x.k \in 1..Len(x.route) /\ x.chain \in Chains /\ x.addr \in Targets
  BY ChainParts DEF ConnectNode, ChainShape, ChainOnChain, Routed, ChainDial
<1>2. routed' = [routed EXCEPT ![d] = y]
  BY <1>1, ChainParts DEF ConnectNode
<1>3. /\ y.pc \in {"target", "node"} /\ y.route = x.route /\ y.chain = x.chain /\ y.addr = x.addr
      /\ y.k \in 1..Len(x.route) /\ y \in ChainDial
  <2> DEFINE l == Len(x.route)
             k == IF x.k = l THEN x.k ELSE x.k + 1
  <2>1. l \in Nat \ {0} /\ x.k \in 1..l
    BY <1>1
  <2>2. y.k = k
    BY <1>1 DEF ChainDial
  <2>3. /\ y.pc \in {"target", "node"} /\ y.route = x.route /\ y.chain = x.chain /\ y.addr = x.addr
    BY <1>1 DEF ChainDial
  <2>4. y = [x EXCEPT !.pc = y.pc, !.k = y.k]
    BY <1>1, <2>2 DEF ChainDial
  <2> HIDE DEF l, y
  <2>5. k \in 1..l /\ k \in Nat
    BY <2>1
  <2> HIDE DEF k
  <2>6. y \in ChainDial
    BY <1>1, <2>2, <2>3, <2>4, <2>5 DEF ChainDial
  <2> QED BY <2>2, <2>3, <2>5, <2>6 DEF l
<1>4. mark' = [z \in Items |-> IF z \in done THEN [count |-> 0, recent |-> FALSE] ELSE mark[z]]
      /\ fails' = [z \in Items |-> IF z \in done THEN 0 ELSE fails[z]]
      /\ rr' = rr /\ strategy' = strategy
  BY DEF ConnectNode, ResetMarks
<1> HIDE DEF y, done
<1>5. ChainShape(y)
  BY <1>1, <1>3 DEF ChainShape, ChainOnChain, Routed
<1>6. ChainLoneKept(y)
  BY <1>1, <1>3 DEF ChainLoneKept, Routed
<1>7. \A z : ChainHeads(y, z) => ChainHeads(routed[d], z)
  BY <1>1, <1>3 DEF ChainHeads
<1>8. mark' \in [Items -> ChainMark] /\ fails' \in [Items -> 0..MaxCount]
      /\ rr' \in [Selectors -> 0..Period]
  <2>1. [count |-> 0, recent |-> FALSE] \in ChainMark /\ 0 \in 0..MaxCount
    BY ChainConsts DEF ChainMark
  <2> QED BY <1>4, <2>1, ChainParts
<1>9. \A z \in Items : ChainMarkOK(mark'[z], fails'[z])
  BY <1>4 DEF ChainMarkOK, ChainIInv
<1>10. \A z \in Tracked : fails'[z] = 0 \/ fails'[z] = fails[z]
  BY <1>4, ChainConsts
<1> QED BY <1>2, <1>3, <1>4, <1>5, <1>6, <1>7, <1>8, <1>9, <1>10, ChainDialStep

(***************************************************************************)
(* Whom a failed dial blames is on its route, or is its chain, and it lets *)
(* go of them all.                                                         *)
(***************************************************************************)
LEMMA ChainConnectFailsInv ==
  ASSUME ChainIInv, NEW d \in Dialers, ConnectFails(d)
  PROVE  ChainIInv'
<1> DEFINE x == routed[d]
           S == ToBlame(x)
<1>1. x \in ChainDial /\ ChainShape(x) /\ x.pc = "node" /\ x.k \in 1..Len(x.route)
  BY ChainParts DEF ConnectFails, ChainShape
<1>2. \A z \in S : ChainHeads(x, z)
  BY <1>1 DEF ToBlame, MuxAt, ChainHeads
<1>3. /\ mark' = [z \in Items |-> IF z \in S
                                  THEN [count |-> Capped(mark[z].count + 1, Limit + 1), recent |-> TRUE]
                                  ELSE mark[z]]
      /\ fails' = [z \in Items |-> IF z \in S \cap Tracked THEN Capped(fails[z] + 1, MaxCount)
                                   ELSE fails[z]]
      /\ routed' = [routed EXCEPT ![d] = IdleDial] /\ rr' = rr /\ strategy' = strategy
  BY DEF ConnectFails, Blame, Marked
<1> HIDE DEF S
<1>4. ASSUME NEW z \in Items
      PROVE  /\ mark'[z] \in ChainMark /\ fails'[z] \in 0..MaxCount /\ ChainMarkOK(mark'[z], fails'[z])
             /\ fails'[z] = fails[z] \/ (z \in S /\ fails'[z] <= fails[z] + 1)
  <2>1. /\ mark[z] \in ChainMark /\ fails[z] \in 0..MaxCount /\ ChainMarkOK(mark[z], fails[z])
        /\ Limit \in Nat \ {0} /\ MaxCount \in Nat
    BY ChainConsts DEF ChainIInv, ChainTyped
  <2>2. mark[z].count \in 0..(Limit + 1) /\ mark[z].recent \in BOOLEAN
    BY <2>1 DEF ChainMark
  <2> DEFINE cm == Capped(mark[z].count + 1, Limit + 1)
             cf == Capped(fails[z] + 1, MaxCount)
  <2>3. cm \in 0..(Limit + 1) /\ cm >= mark[z].count /\ (cm = mark[z].count + 1 \/ cm >= Limit)
    BY <2>1, <2>2 DEF Capped
  <2>4. cf \in 0..MaxCount /\ cf <= fails[z] + 1
    BY <2>1 DEF Capped
  <2> HIDE DEF cm, cf
  <2>5. CASE z \notin S
    BY <1>3, <2>1, <2>5
  <2>6. CASE z \in S
    <3>1. mark'[z] = [count |-> cm, recent |-> TRUE]
      BY <1>3, <2>6 DEF cm
    <3>2. fails'[z] = cf \/ fails'[z] = fails[z]
      BY <1>3, <2>6 DEF cf
    <3>3. mark'[z] \in ChainMark /\ mark'[z].count = cm /\ mark'[z].recent = TRUE
      BY <2>3, <3>1 DEF ChainMark
    <3>4. fails'[z] \in Nat /\ fails[z] \in Nat /\ fails'[z] <= fails[z] + 1
      BY <2>1, <2>4, <3>2
    <3>5. fails'[z] <= cm \/ cm >= Limit
      BY <2>1, <2>2, <2>3, <3>4 DEF ChainMarkOK
    <3> QED BY <2>1, <2>4, <2>6, <3>2, <3>3, <3>4, <3>5 DEF ChainMarkOK
  <2> QED BY <2>5, <2>6
<1>5. mark' \in [Items -> ChainMark] /\ fails' \in [Items -> 0..MaxCount]
      /\ rr' \in [Selectors -> 0..Period]
  BY <1>3, <1>4, ChainParts
<1>6. \A z \in Tracked :
        \/ fails'[z] = fails[z] /\ ~ChainHeads(IdleDial, z)
        \/ fails'[z] <= fails[z] + 1 /\ ChainHeads(routed[d], z) /\ ~ChainHeads(IdleDial, z)
  BY <1>2, <1>4, ChainNoDialFacts, ChainConsts
<1>7. IdleDial \in ChainDial /\ ChainShape(IdleDial) /\ ChainLoneKept(IdleDial)
  BY ChainNoDialFacts
<1> HIDE DEF x
<1> QED BY <1>3, <1>4, <1>5, <1>6, <1>7, ChainDialStep

LEMMA ChainConnectTargetInv ==
  ASSUME ChainIInv, NEW d \in Dialers, ConnectTarget(d)
  PROVE  ChainIInv'
<1> DEFINE x == routed[d]
           y == [x EXCEPT !.pc = "open"]
<1>1. x \in ChainDial /\ ChainShape(x) /\ ChainLoneKept(x) /\ x.pc = "target"
  BY ChainParts DEF ConnectTarget
<1>2. rr' \in [Selectors -> 0..Period] /\ UNCHANGED <<mark, fails, strategy>>
  BY ChainParts DEF ConnectTarget
<1>3. CASE routed' = [routed EXCEPT ![d].pc = "open"]
  <2>1. routed' = [routed EXCEPT ![d] = y]
    BY <1>1, <1>3, ChainParts
  <2>2. /\ y.pc = "open" /\ y.k = x.k /\ y.route = x.route /\ y.chain = x.chain
        /\ y.addr = x.addr /\ y \in ChainDial
    BY <1>1 DEF ChainDial
  <2> HIDE DEF y
  <2>3. ChainShape(y) /\ ChainLoneKept(y) /\ \A z : ~ChainHeads(y, z)
    BY <1>1, <2>2 DEF ChainShape, ChainLoneKept, ChainOnChain, Routed, ChainHeads
  <2> QED BY <1>2, <2>1, <2>2, <2>3, ChainQuietStep
<1>4. CASE routed' = [routed EXCEPT ![d] = IdleDial]
  BY <1>2, <1>4, ChainNoDialFacts, ChainQuietStep
<1> QED BY <1>3, <1>4 DEF ConnectTarget

LEMMA ChainCloseInv ==
  ASSUME ChainIInv, NEW d \in Dialers, Hangup(d)
  PROVE  ChainIInv'
<1>1. rr' \in [Selectors -> 0..Period] /\ UNCHANGED <<mark, fails, strategy>>
      /\ routed' = [routed EXCEPT ![d] = IdleDial]
  BY ChainParts DEF Hangup
<1> QED BY <1>1, ChainNoDialFacts, ChainQuietStep

LEMMA ChainForgiveInv ==
  ASSUME ChainIInv, NEW y \in Items, Forgive(y)
  PROVE  ChainIInv'
<1>1. /\ mark' = [mark EXCEPT ![y].recent = FALSE] /\ fails' = [fails EXCEPT ![y] = 0]
      /\ UNCHANGED <<rr, routed, strategy>>
  BY DEF Forgive
<1>2. ASSUME NEW z \in Items
      PROVE  /\ mark'[z] \in ChainMark /\ fails'[z] \in 0..MaxCount /\ ChainMarkOK(mark'[z], fails'[z])
             /\ fails'[z] = 0 \/ fails'[z] = fails[z]
  <2>1. mark[z] \in ChainMark /\ fails[z] \in 0..MaxCount /\ ChainMarkOK(mark[z], fails[z])
        /\ 0 \in 0..MaxCount
        /\ mark \in [Items -> ChainMark] /\ fails \in [Items -> 0..MaxCount] /\ Limit \in Nat
    BY ChainConsts DEF ChainIInv, ChainTyped
  <2>2. CASE z = y
    <3>1. fails'[z] = 0
      BY <1>1, <2>1, <2>2
    <3>2. mark'[z] = [mark[z] EXCEPT !.recent = FALSE]
      BY <1>1, <2>1, <2>2
    <3>3. mark'[z] \in ChainMark
      BY <2>1, <3>2 DEF ChainMark
    <3>4. mark'[z].count \in Nat
      BY <2>1, <3>3 DEF ChainMark
    <3> QED BY <2>1, <3>1, <3>3, <3>4 DEF ChainMarkOK
  <2>3. CASE z # y
    BY <1>1, <2>1, <2>3
  <2> QED BY <2>2, <2>3
<1>3. mark' \in [Items -> ChainMark] /\ fails' \in [Items -> 0..MaxCount]
  BY <1>1, <1>2 DEF ChainIInv, ChainTyped
<1>4. ChainTyped'
  BY <1>1, <1>3 DEF ChainIInv, ChainTyped
<1>5. (\A d \in Dialers : ChainShape(routed[d]) /\ ChainLoneKept(routed[d]))'
  BY <1>1 DEF ChainIInv, ChainShape, ChainLoneKept, ChainOnChain, Routed
<1>6. (\A z \in Items : ChainMarkOK(mark[z], fails[z]))'
  BY <1>2 DEF ChainMarkOK
<1>7. ASSUME NEW z \in Tracked PROVE ChainPaid(z)'
  <2>1. z \in Items /\ Limit \in Nat \ {0}
    BY ChainConsts
  <2>2. ChainPending(z)' = ChainPending(z)
    BY <1>1 DEF ChainPending, ChainHeads
  <2>3. CASE fails'[z] = 0
    BY <2>1, <2>3 DEF ChainPaid
  <2>4. CASE fails'[z] = fails[z]
    BY <2>2, <2>4 DEF ChainIInv, ChainPaid
  <2> QED BY <1>2, <2>1, <2>3, <2>4
<1> QED BY <1>4, <1>5, <1>6, <1>7 DEF ChainIInv

----------------------------------------------------------------------------
LEMMA ChainInitInv ==
  ASSUME ChainInit
  PROVE  ChainIInv
<1>1. /\ [count |-> 0, recent |-> FALSE] \in ChainMark /\ 0 \in 0..MaxCount /\ 0 \in 0..Period
      /\ Limit \in Nat \ {0}
  BY ChainConsts DEF ChainMark
<1>2. ChainTyped
  BY <1>1, ChainNoDialFacts DEF ChainInit, ChainTyped
<1>3. \A d \in Dialers : ChainShape(routed[d]) /\ ChainLoneKept(routed[d])
  BY ChainNoDialFacts DEF ChainInit
<1>4. \A y \in Items : ChainMarkOK(mark[y], fails[y])
  BY <1>1 DEF ChainInit, ChainMarkOK
<1>5. \A y \in Tracked : ChainPaid(y)
  BY <1>1, ChainConsts DEF ChainInit, ChainPaid
<1> QED BY <1>2, <1>3, <1>4, <1>5 DEF ChainIInv

LEMMA ChainNextInv ==
  ASSUME ChainIInv, [ChainNext]_chainVars
  PROVE  ChainIInv'
<1>1. CASE \E d \in Dialers, a \in Targets : PickChain(d, a)
  BY <1>1, ChainPickChainInv
<1>2. CASE \E d \in Dialers : SelectNode(d)
  BY <1>2, ChainSelectNodeInv
<1>3. CASE \E d \in Dialers : StartConnect(d)
  BY <1>3, ChainStartConnectInv
<1>4. CASE \E d \in Dialers : ConnectNode(d)
  BY <1>4, ChainConnectNodeInv
<1>5. CASE \E d \in Dialers : ConnectFails(d)
  BY <1>5, ChainConnectFailsInv
<1>6. CASE \E d \in Dialers : ConnectTarget(d)
  BY <1>6, ChainConnectTargetInv
<1>7. CASE \E d \in Dialers : Hangup(d)
  BY <1>7, ChainCloseInv
<1>8. CASE \E x \in Items : Forgive(x)
  BY <1>8, ChainForgiveInv
<1>9. CASE UNCHANGED chainVars
  <2>1. UNCHANGED <<mark, rr, routed, fails, strategy>>
    BY <1>9 DEF chainVars
  <2>2. ChainTyped'
    BY <2>1 DEF ChainIInv, ChainTyped
  <2>3. (\A d \in Dialers : ChainShape(routed[d]) /\ ChainLoneKept(routed[d]))'
    BY <2>1 DEF ChainIInv, ChainShape, ChainLoneKept, ChainOnChain, Routed
  <2>4. (\A y \in Items : ChainMarkOK(mark[y], fails[y]))'
    BY <2>1 DEF ChainIInv, ChainMarkOK
  <2>5. (\A y \in Tracked : ChainPaid(y))'
    BY <2>1 DEF ChainIInv, ChainPaid, ChainPending, ChainHeads
  <2> QED BY <2>2, <2>3, <2>4, <2>5 DEF ChainIInv
<1> QED BY <1>1, <1>2, <1>3, <1>4, <1>5, <1>6, <1>7, <1>8, <1>9 DEF ChainNext

LEMMA ChainInvBounds ==
  ASSUME ChainIInv
  PROVE  FailuresBounded
<1>1. mark \in [Items -> [count: 0..(Limit + 1), recent: BOOLEAN]] /\ rr \in [Selectors -> 0..Period]
      /\ fails \in [Items -> 0..MaxCount]
  BY DEF ChainIInv, ChainTyped, ChainMark
<1>2. ASSUME NEW d \in Dialers
      PROVE  /\ routed[d].pc \in {"idle", "select", "dial", "node", "target", "open", "direct"}
             /\ routed[d].addr \in Targets \cup {None} /\ routed[d].chain \in Chains \cup {None}
             /\ \A i \in 1..Len(routed[d].route) : routed[d].route[i] \in NodesIn(HopsOf[routed[d].chain][i])
             /\ routed[d].k \in 0..Len(routed[d].route)
  BY ChainParts DEF ChainDial, ChainShape
<1>3. ChainTypeOK
  BY <1>1, <1>2 DEF ChainTypeOK
<1>4. ASSUME NEW x \in Tracked PROVE fails[x] <= Limit - 1 + Cardinality(Dialers)
  <2>1. fails[x] \in Nat /\ Limit \in Nat \ {0} /\ Cardinality(Dialers) \in Nat
    BY <1>1, ChainConsts
  <2>2. Cardinality(ChainPending(x)) \in Nat
    BY ChainPendingFacts DEF ChainPending
  <2>3. ChainPaid(x)
    BY DEF ChainIInv
  <2> QED BY <2>1, <2>2, <2>3 DEF ChainPaid
<1> QED BY <1>3, <1>4 DEF FailuresBounded

(***************************************************************************)
(* Failover (the markers and FailFilter of selector/): however many dials, *)
(* chains, hops and nodes there are and whatever the strategy, an item     *)
(* with an alternative costs no more failed dials than the limit, and      *)
(* those that had selected it before it was marked for the last time.      *)
(***************************************************************************)
THEOREM ChainFailuresBounded ==
         ChainSpec => []FailuresBounded
<1>1. ChainInit => ChainIInv
  BY ChainInitInv
<1>2. ChainIInv /\ [ChainNext]_chainVars => ChainIInv'
  BY ChainNextInv
<1>3. ChainIInv => FailuresBounded
  BY ChainInvBounds
<1> QED BY <1>1, <1>2, <1>3, PTL DEF ChainSpec

(***************************************************************************)
(* Chain.Route and the selectors: however often it has failed, the only    *)
(* node of a hop, or the only chain of a group, is never passed over.      *)
(***************************************************************************)
THEOREM ChainLoneNodeNeverSkipped ==
         ChainSpec => []LoneNodeNeverSkipped
<1>1. ChainInit => ChainIInv
  BY ChainInitInv
<1>2. ChainIInv /\ [ChainNext]_chainVars => ChainIInv'
  BY ChainNextInv
<1>3. ChainIInv => LoneNodeNeverSkipped
  BY DEF ChainIInv, ChainLoneKept, LoneNodeNeverSkipped
<1> QED BY <1>1, <1>2, <1>3, PTL DEF ChainSpec

(***************************************************************************)
(* TrafficLimiter, for any number of connections and hosts, any rule sets, *)
(* any number of reloads and any amount of data.                           *)
(***************************************************************************)

(* What limiters let pass is a part of what was asked for. *)
LEMMA WaitFits ==
  ASSUME heap \in [Lims -> Nat], NEW grp \in SUBSET Lims, NEW n \in Nat
  PROVE  Wait(grp, n) \in 0..n
<1> DEFINE T == {n} \cup {heap[l] : l \in grp}
<1>1. T \in SUBSET Nat /\ n \in T /\ \A l \in grp : heap[l] \in T
  OBVIOUS
<1>2. \A k \in T : k = n \/ \E l \in grp : k = heap[l]
  OBVIOUS
<1> HIDE DEF T
<1>3. PICK m \in T : \A y \in T : m <= y
  BY <1>1, LeastNat
<1>4. m \in 0..n /\ (\A l \in grp : m <= heap[l]) /\ (m = n \/ \E l \in grp : m = heap[l])
  BY <1>1, <1>2, <1>3
<1> QED BY <1>4 DEF Wait

----------------------------------------------------------------------------
(* The parts of the type. *)
LEMMA Types ==
  ASSUME TrafficTypeOK
  PROVE  /\ all \in Int
         /\ \A c \in Conns :
              /\ HostOf[c] \in Hosts
              /\ look[c] \in LookRecord /\ look[c].grp \subseteq Lims
              /\ look[c].new \in 0..MaxLims /\ look[c].late \in BOOLEAN
              /\ connLims[c] \in 0..MaxLims
              /\ held[c] \in (SUBSET Lims) \cup {NoGroup}
              /\ io[c] \in IORecord /\ io[c].grp \subseteq Lims
         /\ \A h \in Hosts : /\ hostLims[h] \in 0..MaxLims /\ rl.snap[h] \in 0..MaxLims
                             /\ rules.ip[h] \in Nat \cup {NotListed} /\ rules.cidr[h] \in Nat
                             /\ ranger[h] \in Nat
         /\ rules.all \in Nat /\ rules.conn \in Nat /\ rl.old \in Nat /\ rl.n \in Nat
         /\ rl.todo \subseteq Hosts
         /\ MaxLims \in Nat
<1>0. MaxLims \in Nat /\ \A c \in Conns : HostOf[c] \in Hosts
  BY TrafficLimiterAssumption DEF Hosts
<1>1. all \in Int
  BY <1>0 DEF TrafficTypeOK
<1>2. rules \in Rule /\ rl \in ReloadRecord /\ ranger \in [Hosts -> Nat]
  BY DEF TrafficTypeOK
<1>3. /\ rules.all \in Nat /\ rules.conn \in Nat /\ rl.old \in Nat /\ rl.n \in Nat
      /\ rl.todo \subseteq Hosts
      /\ rules.ip \in [Hosts -> Nat \cup {NotListed}] /\ rules.cidr \in [Hosts -> Nat]
      /\ rl.snap \in [Hosts -> 0..MaxLims]
  BY <1>2 DEF Rule, ReloadRecord
<1>4. \A h \in Hosts : /\ hostLims[h] \in 0..MaxLims /\ rl.snap[h] \in 0..MaxLims
                       /\ rules.ip[h] \in Nat \cup {NotListed} /\ rules.cidr[h] \in Nat
                       /\ ranger[h] \in Nat
  BY <1>2, <1>3 DEF TrafficTypeOK
<1>5. ASSUME NEW c \in Conns
      PROVE  /\ look[c] \in LookRecord /\ connLims[c] \in 0..MaxLims
             /\ held[c] \in (SUBSET Lims) \cup {NoGroup} /\ io[c] \in IORecord
  BY DEF TrafficTypeOK
<1>6. ASSUME NEW c \in Conns
      PROVE  /\ look[c].grp \subseteq Lims /\ look[c].new \in 0..MaxLims
             /\ look[c].late \in BOOLEAN /\ io[c].grp \subseteq Lims
  BY <1>5 DEF LookRecord, IORecord
<1> QED BY <1>0, <1>1, <1>3, <1>4, <1>5, <1>6

(* Where a limiter in use is referred to. *)
LEMMA InUse ==
  /\ all \in Used
  /\ \A h \in Hosts : hostLims[h] \in Used /\ rl.snap[h] \in Used
  /\ \A c \in Conns : /\ connLims[c] \in Used /\ look[c].new \in Used
                      /\ look[c].grp \subseteq Used /\ held[c] \subseteq Used
                      /\ io[c].grp \subseteq Used
<1>1. \A c \in Conns : {connLims[c], look[c].new} \cup look[c].grp \cup held[c] \cup io[c].grp
                         \subseteq Used
  BY DEF Used
<1> QED BY <1>1 DEF Used

(* The roles of limiters, and that these are in use. *)
LEMMA Roles ==
  /\ OfConns \subseteq Used
  /\ \A h \in Hosts : OfHost(h) \subseteq Used /\ hostLims[h] \in OfHost(h) /\ rl.snap[h] \in OfHost(h)
  /\ \A c \in Conns : /\ connLims[c] \in OfConns
                      /\ look[c].pc = "store" => look[c].new \in OfConns
                      /\ look[c].pc = "keep" => look[c].new \in OfHost(HostOf[c])
<1>1. OfConns \subseteq Used
  BY InUse DEF OfConns
<1>2. \A h \in Hosts : OfHost(h) \subseteq Used /\ hostLims[h] \in OfHost(h) /\ rl.snap[h] \in OfHost(h)
  BY InUse DEF OfHost
<1> QED BY <1>1, <1>2 DEF OfConns, OfHost

LEMMA FreshIsNew ==
  ASSUME Room
  PROVE  Fresh \in Lims /\ Fresh \notin Used
BY DEF Room, Fresh

(* A limiter in use after a step was so before, or is among those in S. *)
LEMMA UsedWithin ==
  ASSUME NEW S, all' \in S,
         \A h \in Hosts : hostLims'[h] \in S /\ rl'.snap[h] \in S,
         \A c \in Conns : /\ connLims'[c] \in S /\ look'[c].new \in S
                          /\ look'[c].grp \subseteq S /\ held'[c] \subseteq S /\ io'[c].grp \subseteq S
  PROVE  Used' \subseteq S
BY DEF Used

LEMMA OfConnsWithin ==
  ASSUME NEW S, \A c \in Conns : /\ connLims'[c] \in S
                                 /\ look'[c].pc = "store" => look'[c].new \in S
  PROVE  OfConns' \subseteq S
BY DEF OfConns

LEMMA OfHostWithin ==
  ASSUME NEW h \in Hosts, NEW S, hostLims'[h] \in S, rl'.snap[h] \in S,
         \A c \in Conns : look'[c].pc = "keep" /\ HostOf[c] = h => look'[c].new \in S
  PROVE  OfHost(h)' \subseteq S
BY DEF OfHost

(* A limiter has one role. *)
LEMMA ApartAt ==
  ASSUME Apart, NEW h \in Hosts, NEW x \in OfHost(h), x # 0
  PROVE  x # all /\ x \notin OfConns /\ \A k \in Hosts : k # h => x \notin OfHost(k)
<1>1. /\ all # 0 => all \notin OfHost(h)
      /\ OfHost(h) \cap OfConns \subseteq {0}
      /\ \A k \in Hosts \ {h} : OfHost(k) \cap OfHost(h) \subseteq {0}
  BY DEF Apart
<1> QED BY <1>1

(***************************************************************************)
(* A step passes on what there is, drops some of it, and gives of new      *)
(* limiters those in A to the service, in C to connections, in H to host   *)
(* g: then limiters keep their roles.                                      *)
(***************************************************************************)
PassedOn(A, C, H, g) ==
  /\ A \cup C \cup H \subseteq Lims \ Used
  /\ A \cap C = {} /\ A \cap H = {} /\ C \cap H = {}
  /\ all' \in {all, 0} \cup A
  /\ OfConns' \subseteq OfConns \cup {0} \cup C
  /\ \A h \in Hosts : OfHost(h)' \subseteq OfHost(h) \cup {0} \cup (IF h = g THEN H ELSE {})

LEMMA ApartKept ==
  ASSUME Apart, NEW A, NEW C, NEW H, NEW g, PassedOn(A, C, H, g)
  PROVE  Apart'
<1> USE DEF PassedOn
<1>1. all \in Used /\ OfConns \subseteq Used /\ \A h \in Hosts : OfHost(h) \subseteq Used
  BY InUse, Roles
<1>0. \A h \in Hosts : \A x \in OfHost(h) : x # 0 =>
        x \notin OfConns /\ \A k \in Hosts : k # h => x \notin OfHost(k)
  BY ApartAt
<1>2. all' # 0 => all' \notin OfConns'
  BY <1>1 DEF Apart
<1>3. \A h \in Hosts : OfHost(h)' \subseteq OfHost(h) \cup {0} \cup H
  OBVIOUS
<1>4. ASSUME NEW h \in Hosts
      PROVE  /\ all' # 0 => all' \notin OfHost(h)'
             /\ OfHost(h)' \cap OfConns' \subseteq {0}
  <2>1. all' # 0 => all' \notin OfHost(h)'
    BY <1>1, <1>3 DEF Apart
  <2>2. ASSUME NEW x \in OfHost(h)', x \in OfConns', x # 0 PROVE FALSE
    <3>1. (x \in OfHost(h) \/ x \in H) /\ (x \in OfConns \/ x \in C)
      BY <1>3, <2>2
    <3>2. x \in Used \/ x \in C \cup H
      BY <1>1, <3>1
    <3> QED BY <1>0, <1>1, <2>2, <3>1, <3>2
  <2> QED BY <2>1, <2>2
<1>5. ASSUME NEW h \in Hosts, NEW k \in Hosts \ {h}
      PROVE  OfHost(k)' \cap OfHost(h)' \subseteq {0}
  <2>1. ASSUME NEW x \in OfHost(h)', x \in OfHost(k)', x # 0 PROVE FALSE
    <3>1. /\ x \in OfHost(h) \/ (x \in H /\ h = g)
          /\ x \in OfHost(k) \/ (x \in H /\ k = g)
      BY <2>1
    <3> QED BY <1>0, <1>1, <2>1, <3>1
  <2> QED BY <2>1
<1> QED BY <1>2, <1>4, <1>5 DEF Apart

----------------------------------------------------------------------------
(* Bytes in a row: a prefix, the rest, what follows on, what comes in. *)
LEMMA PrefixRow ==
  ASSUME NEW s \in Seq(Nat), NEW n \in 0..Len(s)
  PROVE  /\ SubSeq(s, 1, n) \in Seq(Nat) /\ Len(SubSeq(s, 1, n)) = n
         /\ \A from \in Nat : InRow(s, from) => InRow(SubSeq(s, 1, n), from)
<1>1. \A i \in 1..n : s[i] \in Nat
  OBVIOUS
<1>2. /\ SubSeq(s, 1, n) \in Seq(Nat)
      /\ Len(SubSeq(s, 1, n)) = IF 1 <= n THEN n - 1 + 1 ELSE 0
      /\ \A i \in 1..(n - 1 + 1) : SubSeq(s, 1, n)[i] = s[1 + i - 1]
  BY <1>1, SubSeqProperties
<1>3. Len(SubSeq(s, 1, n)) = n
  BY <1>2
<1>4. \A i \in 1..n : SubSeq(s, 1, n)[i] = s[i]
  BY <1>2
<1> QED BY <1>2, <1>3, <1>4 DEF InRow

LEMMA RestRow ==
  ASSUME NEW s \in Seq(Nat), NEW n \in 0..Len(s)
  PROVE  /\ SubSeq(s, n + 1, Len(s)) \in Seq(Nat) /\ Len(SubSeq(s, n + 1, Len(s))) = Len(s) - n
         /\ \A from \in Nat : InRow(s, from) => InRow(SubSeq(s, n + 1, Len(s)), from + n)
<1> DEFINE t == SubSeq(s, n + 1, Len(s))
<1>1. \A i \in (n + 1)..Len(s) : s[i] \in Nat
  OBVIOUS
<1>2. /\ t \in Seq(Nat)
      /\ Len(t) = IF n + 1 <= Len(s) THEN Len(s) - (n + 1) + 1 ELSE 0
      /\ \A i \in 1..(Len(s) - (n + 1) + 1) : t[i] = s[n + 1 + i - 1]
  BY <1>1, SubSeqProperties
<1> HIDE DEF t
<1>3. Len(t) = Len(s) - n
  BY <1>2
<1>4. \A i \in 1..Len(t) : t[i] = s[n + i]
  BY <1>2, <1>3
<1>5. ASSUME NEW from \in Nat, InRow(s, from), NEW i \in 1..Len(t)
      PROVE  t[i] = from + n + i - 1
  <2>1. n + i \in 1..Len(s)
    BY <1>3
  <2> QED BY <1>4, <1>5, <2>1 DEF InRow
<1>6. \A from \in Nat : InRow(s, from) => InRow(t, from + n)
  BY <1>5 DEF InRow
<1> QED BY <1>2, <1>3, <1>6 DEF t

LEMMA JoinRow ==
  ASSUME NEW s \in Seq(Nat), NEW t \in Seq(Nat)
  PROVE  /\ s \o t \in Seq(Nat) /\ Len(s \o t) = Len(s) + Len(t)
         /\ \A from \in Nat : InRow(s, from) /\ InRow(t, from + Len(s)) => InRow(s \o t, from)
<1> DEFINE u == s \o t
<1>1. /\ u \in Seq(Nat) /\ Len(u) = Len(s) + Len(t)
      /\ \A i \in 1..(Len(s) + Len(t)) : u[i] = IF i <= Len(s) THEN s[i] ELSE t[i - Len(s)]
  BY ConcatProperties
<1> HIDE DEF u
<1>2. ASSUME NEW from \in Nat, InRow(s, from), InRow(t, from + Len(s)), NEW i \in 1..Len(u)
      PROVE  u[i] = from + i - 1
  <2>1. CASE i <= Len(s)
    <3>1. i \in 1..Len(s) /\ u[i] = s[i]
      BY <1>1, <2>1
    <3> QED BY <1>2, <3>1 DEF InRow
  <2>2. CASE ~(i <= Len(s))
    <3>1. i - Len(s) \in 1..Len(t) /\ u[i] = t[i - Len(s)]
      BY <1>1, <2>2
    <3> QED BY <1>2, <3>1 DEF InRow
  <2> QED BY <2>1, <2>2
<1>3. \A from \in Nat : InRow(s, from) /\ InRow(t, from + Len(s)) => InRow(u, from)
  BY <1>2 DEF InRow
<1> QED BY <1>1, <1>3 DEF u

LEMMA BytesRow ==
  ASSUME NEW from \in Nat, NEW k \in Nat
  PROVE  /\ Bytes(from, k) \in Seq(Nat) /\ Len(Bytes(from, k)) = k
         /\ InRow(Bytes(from, k), from)
<1>1. \A i \in 1..k : from + i - 1 \in Nat
  OBVIOUS
<1>2. Bytes(from, k) \in [1..k -> Nat]
  BY <1>1 DEF Bytes
<1>3. Bytes(from, k) \in Seq(Nat) /\ Len(Bytes(from, k)) = k
  BY <1>2
<1> QED BY <1>3 DEF Bytes, InRow

(***************************************************************************)
(* A step of a Read, a Write or a packet changes that connection's io and  *)
(* refers to no limiter that the connection did not have.                  *)
(***************************************************************************)
LEMMA IOKeeps ==
  ASSUME TrafficIInv, NEW c \in Conns, NEW x \in IORecord, io' = [io EXCEPT ![c] = x],
         x.grp \subseteq io[c].grp \cup held[c], ReadOK(c)',
         UNCHANGED <<tables, heap, caches, rl, look, held, history>>
  PROVE  TrafficIInv'
<1> USE DEF tables, caches, history
<1>1. TrafficTypeOK'
  BY DEF TrafficIInv, TrafficTypeOK
<1>2. io'[c] = x /\ \A d \in Conns : d # c => io'[d] = io[d]
  BY DEF TrafficIInv, TrafficTypeOK
<1>3. OfConns' = OfConns /\ \A h \in Hosts : OfHost(h)' = OfHost(h)
  BY DEF OfConns, OfHost
<1>4. Apart' /\ ServiceOK' /\ ConnsOK' /\ ServedOK'
  BY <1>3 DEF TrafficIInv, Apart, ServiceOK, ConnsOK, ServedOK
<1>5. HostsOK'
  BY <1>3 DEF TrafficIInv, HostsOK, HostOK, Effective
<1>6. InUseOK'
  <2>1. Used' \subseteq Used
    <3>1. \A d \in Conns : io'[d].grp \subseteq Used
      BY <1>2, InUse
    <3> QED BY <3>1, InUse, UsedWithin
  <2> QED BY <2>1 DEF TrafficIInv, InUseOK
<1>7. \A d \in Conns : LookOK(d)'
  BY DEF TrafficIInv, LookOK
<1>8. \A d \in Conns : ReadOK(d)'
  BY <1>2 DEF TrafficIInv, ReadOK
<1> QED BY <1>1, <1>4, <1>5, <1>6, <1>7, <1>8 DEF TrafficIInv

(* What the record of a Read or Write in progress has. *)
LEMMA IOType ==
  ASSUME TrafficIInv, NEW c \in Conns
  PROVE  /\ io[c] \in IORecord
         /\ io[c].use \in {"read", "write", "packet"} /\ io[c].pc \in {"idle", "wait", "drain", "write"}
         /\ io[c].grp \in SUBSET Lims /\ io[c].buf \in Seq(Nat) /\ io[c].rbuf \in Seq(Nat)
         /\ io[c].n \in Nat /\ io[c].next \in Nat /\ io[c].got \in Seq(Nat)
         /\ heap \in [Lims -> Nat] /\ ReadOK(c) /\ served \in BOOLEAN
         /\ served => held[c] # {}
<1>1. io[c] \in IORecord
  BY DEF TrafficIInv, TrafficTypeOK
<1> QED BY <1>1 DEF IORecord, TrafficIInv, TrafficTypeOK, ServedOK

LEMMA ReadKeeps ==
  ASSUME TrafficIInv, NEW c \in Conns, NEW k \in 1..MaxData, Read(c, k), MaxData \in Nat
  PROVE  TrafficIInv'
<1> DEFINE x == io[c]
           b == Bytes(x.next, k)
<1>1. /\ x \in IORecord /\ x.next \in Nat /\ x.got \in Seq(Nat) /\ x.rbuf \in Seq(Nat)
      /\ x.buf \in Seq(Nat) /\ k \in Nat /\ x.grp \in SUBSET Lims
  BY IOType
<1>2. /\ x.use = "read" /\ x.pc = "idle" /\ held[c] # NoGroup
      /\ UNCHANGED <<tables, heap, caches, rl, look, held, history>>
  BY DEF Read
<1>3. held[c] \in SUBSET Lims
  <2>1. held[c] \in (SUBSET Lims) \cup {NoGroup}
    BY Types DEF TrafficIInv
  <2> QED BY <1>2, <2>1
<1>4. b \in Seq(Nat) /\ Len(b) = k /\ InRow(b, x.next)
  BY <1>1, BytesRow
<1>5. served' = served /\ x.next + k \in Nat
  BY <1>1, <1>2 DEF history
<1>6. ReadOK(c)
  BY IOType
<1> HIDE DEF b
<1>7. CASE held[c] = {} /\ io' = [io EXCEPT ![c].got = @ \o b, ![c].next = x.next + k]
  <2> DEFINE y == [x EXCEPT !.got = @ \o b, !.next = x.next + k]
  <2>1. x.got \o b \in Seq(Nat)
    BY <1>1, <1>4, JoinRow
  <2>2. y \in IORecord /\ y.grp = x.grp /\ y.pc = "idle" /\ y.use = "read"
    BY <1>1, <1>2, <1>5, <2>1 DEF IORecord
  <2>3. io' = [io EXCEPT ![c] = y]
    BY <1>7 DEF TrafficIInv, TrafficTypeOK
  <2>4. io'[c] = y
    BY <2>3 DEF TrafficIInv, TrafficTypeOK
  <2>5. ~served
    BY <1>7, IOType
  <2> HIDE DEF y
  <2>6. ReadOK(c)'
    BY <1>5, <2>2, <2>4, <2>5 DEF ReadOK
  <2> QED BY <1>2, <2>2, <2>3, <2>6, IOKeeps
<1>8. CASE /\ held[c] # {} /\ x.rbuf = <<>>
           /\ io' = [io EXCEPT ![c].pc = "wait", ![c].grp = held[c], ![c].buf = b,
                                ![c].next = x.next + k]
  <2> DEFINE y == [x EXCEPT !.pc = "wait", !.grp = held[c], !.buf = b, !.next = x.next + k]
  <2>2. /\ y \in IORecord /\ y.grp = held[c] /\ y.pc = "wait" /\ y.use = "read"
        /\ y.got = x.got /\ y.rbuf = <<>> /\ y.buf = b /\ y.next = x.next + k
    BY <1>1, <1>2, <1>3, <1>4, <1>5, <1>8 DEF IORecord
  <2>3. io' = [io EXCEPT ![c] = y]
    BY <1>8 DEF TrafficIInv, TrafficTypeOK
  <2>4. io'[c] = y
    BY <2>3 DEF TrafficIInv, TrafficTypeOK
  <2> HIDE DEF y
  <2>5. ASSUME served
        PROVE  InRow(y.got, 1) /\ InRow(y.rbuf, Len(y.got) + 1)
               /\ InRow(y.buf, Len(y.got) + Len(y.rbuf) + 1)
               /\ y.next = Len(y.got) + Len(y.rbuf) + Len(y.buf) + 1
    <3>1. /\ InRow(x.got, 1) /\ x.next = Len(x.got) + Len(x.rbuf) + Len(x.buf) + 1 /\ x.buf = <<>>
      BY <1>2, <1>6, <2>5 DEF ReadOK
    <3>2. Len(x.rbuf) = 0 /\ Len(x.buf) = 0 /\ Len(x.got) \in Nat
      BY <1>1, <1>8, <3>1
    <3>3. x.next = Len(x.got) + 1
      BY <3>1, <3>2
    <3>4. Len(y.rbuf) = 0 /\ y.rbuf = <<>>
      BY <2>2
    <3>5. InRow(y.rbuf, Len(y.got) + 1)
      BY <3>4 DEF InRow
    <3> QED BY <1>4, <2>2, <3>1, <3>2, <3>3, <3>4, <3>5
  <2>6. ReadOK(c)'
    BY <1>5, <2>2, <2>4, <2>5 DEF ReadOK
  <2> QED BY <1>2, <2>2, <2>3, <2>6, IOKeeps
<1>9. CASE io' = [io EXCEPT ![c].pc = "drain", ![c].grp = held[c], ![c].n = Min(k, Len(x.rbuf))]
  <2> DEFINE y == [x EXCEPT !.pc = "drain", !.grp = held[c], !.n = Min(k, Len(x.rbuf))]
  <2>1. Min(k, Len(x.rbuf)) \in Nat /\ Min(k, Len(x.rbuf)) <= Len(x.rbuf)
    BY <1>1 DEF Min
  <2>2. /\ y \in IORecord /\ y.grp = held[c] /\ y.pc = "drain" /\ y.use = "read"
        /\ y.got = x.got /\ y.rbuf = x.rbuf /\ y.buf = x.buf /\ y.next = x.next
        /\ y.n <= Len(y.rbuf)
    BY <1>1, <1>2, <1>3, <2>1 DEF IORecord
  <2>3. io' = [io EXCEPT ![c] = y]
    BY <1>9 DEF TrafficIInv, TrafficTypeOK
  <2>4. io'[c] = y
    BY <2>3 DEF TrafficIInv, TrafficTypeOK
  <2> HIDE DEF y
  <2>5. ReadOK(c)'
    BY <1>2, <1>5, <1>6, <2>2, <2>4 DEF ReadOK
  <2> QED BY <1>2, <2>2, <2>3, <2>5, IOKeeps
<1> QED BY <1>7, <1>8, <1>9 DEF Read, b

LEMMA ReadWaitedKeeps ==
  ASSUME TrafficIInv, NEW c \in Conns, ReadWaited(c)
  PROVE  TrafficIInv'
<1> DEFINE x == io[c]
           n == Wait(x.grp, Len(x.buf))
           now == SubSeq(x.buf, 1, n)
           rest == SubSeq(x.buf, n + 1, Len(x.buf))
           y == [x EXCEPT !.pc = "idle", !.grp = {}, !.buf = <<>>,
                          !.got = @ \o now, !.rbuf = @ \o rest]
<1>1. /\ x \in IORecord /\ x.next \in Nat /\ x.got \in Seq(Nat) /\ x.rbuf \in Seq(Nat)
      /\ x.buf \in Seq(Nat) /\ x.grp \in SUBSET Lims /\ heap \in [Lims -> Nat] /\ ReadOK(c)
  BY IOType
<1>2. x.pc = "wait" /\ UNCHANGED <<tables, heap, caches, rl, look, held, history>>
  BY DEF ReadWaited
<1>3. io' = [io EXCEPT ![c] = y]
  BY DEF ReadWaited
<1>4. n \in 0..Len(x.buf)
  BY <1>1, WaitFits
<1> HIDE DEF n
<1>5. /\ now \in Seq(Nat) /\ Len(now) = n
      /\ \A from \in Nat : InRow(x.buf, from) => InRow(now, from)
  BY <1>1, <1>4, PrefixRow
<1>6. /\ rest \in Seq(Nat) /\ Len(rest) = Len(x.buf) - n
      /\ \A from \in Nat : InRow(x.buf, from) => InRow(rest, from + n)
  BY <1>1, <1>4, RestRow
<1> HIDE DEF now, rest
<1>7. /\ x.got \o now \in Seq(Nat) /\ Len(x.got \o now) = Len(x.got) + Len(now)
      /\ \A from \in Nat : InRow(x.got, from) /\ InRow(now, from + Len(x.got)) => InRow(x.got \o now, from)
  BY <1>1, <1>5, JoinRow
<1>8. x.rbuf \o rest \in Seq(Nat)
  BY <1>1, <1>6, JoinRow
<1>9. x.use = "read"
  BY <1>1, <1>2 DEF ReadOK
<1>10. /\ y \in IORecord /\ y.grp = {} /\ y.pc = "idle" /\ y.use = "read" /\ y.buf = <<>>
       /\ y.got = x.got \o now /\ y.rbuf = x.rbuf \o rest /\ y.next = x.next
  <2>1. <<>> \in Seq(Nat) /\ {} \in SUBSET Lims
    OBVIOUS
  <2> HIDE DEF n, now, rest
  <2>2. y \in IORecord
    BY <1>1, <1>7, <1>8, <2>1 DEF IORecord
  <2> QED BY <1>1, <1>9, <2>2 DEF IORecord
<1> HIDE DEF y
<1>11. io'[c] = y /\ served' = served
  BY <1>2, <1>3 DEF TrafficIInv, TrafficTypeOK, history
<1>12. ASSUME served
       PROVE  /\ InRow(y.got, 1) /\ InRow(y.rbuf, Len(y.got) + 1)
              /\ InRow(y.buf, Len(y.got) + Len(y.rbuf) + 1)
              /\ y.next = Len(y.got) + Len(y.rbuf) + Len(y.buf) + 1
  <2>1. /\ x.rbuf = <<>> /\ InRow(x.got, 1) /\ InRow(x.buf, Len(x.got) + Len(x.rbuf) + 1)
        /\ x.next = Len(x.got) + Len(x.rbuf) + Len(x.buf) + 1
    BY <1>1, <1>2, <1>9, <1>12 DEF ReadOK
  <2>2. /\ Len(x.rbuf) = 0 /\ Len(x.got) \in Nat /\ Len(x.buf) \in Nat /\ Len(y.buf) = 0
        /\ Len(x.got) + 1 \in Nat /\ 1 \in Nat
    BY <1>1, <1>10, <2>1
  <2>3. InRow(x.buf, Len(x.got) + 1)
    BY <2>1, <2>2
  <2>4. InRow(now, 1 + Len(x.got)) /\ InRow(rest, Len(x.got) + 1 + n)
    BY <1>5, <1>6, <2>2, <2>3
  <2>5. InRow(y.got, 1) /\ Len(y.got) = Len(x.got) + n
    BY <1>5, <1>7, <1>10, <2>1, <2>2, <2>4
  <2>6. x.rbuf \o rest = rest
    BY <1>6, <2>1, ConcatEmptySeq
  <2>7. y.rbuf = rest /\ Len(y.rbuf) = Len(x.buf) - n
    BY <1>6, <1>10, <2>6
  <2>8. Len(y.got) + 1 = Len(x.got) + 1 + n
    BY <1>4, <2>2, <2>5
  <2>9. InRow(y.buf, Len(y.got) + Len(y.rbuf) + 1)
    BY <1>10 DEF InRow
  <2>10. y.next = Len(y.got) + Len(y.rbuf) + Len(y.buf) + 1
    <3>1. n \in Int /\ y.next = x.next
      BY <1>4, <1>10
    <3>2. y.next = Len(x.got) + Len(x.buf) + 1
      BY <2>1, <2>2, <3>1
    <3>3. /\ Len(y.got) = Len(x.got) + n /\ Len(y.rbuf) = Len(x.buf) - n /\ Len(y.buf) = 0
          /\ Len(x.got) \in Int /\ Len(x.buf) \in Int
      BY <2>2, <2>5, <2>7
    <3>4. PICK g, b, p, q, e : /\ g = Len(x.got) /\ b = Len(x.buf)
                               /\ p = Len(y.got) /\ q = Len(y.rbuf) /\ e = Len(y.buf)
      OBVIOUS
    <3> HIDE DEF x
    <3>5. g \in Int /\ b \in Int /\ p = g + n /\ q = b - n /\ e = 0 /\ y.next = g + b + 1
      BY <3>2, <3>3, <3>4, Zenon
    <3>6. y.next = p + q + e + 1
      BY <3>1, <3>5
    <3> QED BY <3>4, <3>6, Zenon
  <2> QED BY <2>4, <2>5, <2>7, <2>8, <2>9, <2>10
<1>13. ReadOK(c)'
  BY <1>10, <1>11, <1>12 DEF ReadOK
<1> QED BY <1>2, <1>3, <1>10, <1>13, IOKeeps

LEMMA ReadDrainedKeeps ==
  ASSUME TrafficIInv, NEW c \in Conns, ReadDrained(c)
  PROVE  TrafficIInv'
<1> DEFINE x == io[c]
           n == Wait(x.grp, x.n)
           now == SubSeq(x.rbuf, 1, n)
           rest == SubSeq(x.rbuf, n + 1, Len(x.rbuf))
           y == [x EXCEPT !.pc = "idle", !.grp = {}, !.n = 0, !.got = @ \o now, !.rbuf = rest]
<1>1. /\ x \in IORecord /\ x.next \in Nat /\ x.got \in Seq(Nat) /\ x.rbuf \in Seq(Nat) /\ x.n \in Nat
      /\ x.buf \in Seq(Nat) /\ x.grp \in SUBSET Lims /\ heap \in [Lims -> Nat] /\ ReadOK(c)
  BY IOType
<1>2. x.pc = "drain" /\ UNCHANGED <<tables, heap, caches, rl, look, held, history>>
  BY DEF ReadDrained
<1>3. io' = [io EXCEPT ![c] = y]
  BY DEF ReadDrained
<1>4. n \in 0..Len(x.rbuf)
  <2>1. n \in 0..x.n
    BY <1>1, WaitFits
  <2>2. x.n <= Len(x.rbuf) /\ Len(x.rbuf) \in Nat
    BY <1>1, <1>2 DEF ReadOK
  <2> HIDE DEF n
  <2> QED BY <1>1, <2>1, <2>2
<1> HIDE DEF n
<1>5. /\ now \in Seq(Nat) /\ Len(now) = n
      /\ \A from \in Nat : InRow(x.rbuf, from) => InRow(now, from)
  BY <1>1, <1>4, PrefixRow
<1>6. /\ rest \in Seq(Nat) /\ Len(rest) = Len(x.rbuf) - n
      /\ \A from \in Nat : InRow(x.rbuf, from) => InRow(rest, from + n)
  BY <1>1, <1>4, RestRow
<1> HIDE DEF now, rest
<1>7. /\ x.got \o now \in Seq(Nat) /\ Len(x.got \o now) = Len(x.got) + Len(now)
      /\ \A from \in Nat : InRow(x.got, from) /\ InRow(now, from + Len(x.got)) => InRow(x.got \o now, from)
  BY <1>1, <1>5, JoinRow
<1>9. x.use = "read"
  BY <1>1, <1>2 DEF ReadOK
<1>10. /\ y \in IORecord /\ y.grp = {} /\ y.pc = "idle" /\ y.use = "read" /\ y.buf = x.buf
       /\ y.got = x.got \o now /\ y.rbuf = rest /\ y.next = x.next
  BY <1>1, <1>6, <1>7, <1>9 DEF IORecord
<1> HIDE DEF y
<1>11. io'[c] = y /\ served' = served
  BY <1>2, <1>3 DEF TrafficIInv, TrafficTypeOK, history
<1>12. ASSUME served
       PROVE  /\ y.buf = <<>> /\ InRow(y.got, 1) /\ InRow(y.rbuf, Len(y.got) + 1)
              /\ InRow(y.buf, Len(y.got) + Len(y.rbuf) + 1)
              /\ y.next = Len(y.got) + Len(y.rbuf) + Len(y.buf) + 1
  <2>1. /\ x.buf = <<>> /\ InRow(x.got, 1) /\ InRow(x.rbuf, Len(x.got) + 1)
        /\ x.next = Len(x.got) + Len(x.rbuf) + Len(x.buf) + 1
    BY <1>1, <1>2, <1>9, <1>12 DEF ReadOK
  <2>2. /\ Len(x.rbuf) \in Nat /\ Len(x.got) \in Nat /\ Len(x.buf) = 0 /\ Len(y.buf) = 0
        /\ Len(x.got) + 1 \in Nat /\ 1 \in Nat
    BY <1>1, <1>10, <2>1
  <2>4. InRow(now, 1 + Len(x.got)) /\ InRow(rest, Len(x.got) + 1 + n)
    BY <1>5, <1>6, <2>1, <2>2
  <2>5. InRow(y.got, 1) /\ Len(y.got) = Len(x.got) + n
    BY <1>5, <1>7, <1>10, <2>1, <2>2, <2>4
  <2>7. Len(y.rbuf) = Len(x.rbuf) - n
    BY <1>6, <1>10
  <2>8. Len(y.got) + 1 = Len(x.got) + 1 + n
    BY <1>4, <2>2, <2>5
  <2>9. InRow(y.buf, Len(y.got) + Len(y.rbuf) + 1)
    BY <1>10, <2>1 DEF InRow
  <2>10. y.next = Len(y.got) + Len(y.rbuf) + Len(y.buf) + 1
    <3>1. n \in Int /\ y.next = x.next
      BY <1>4, <1>10
    <3>2. y.next = Len(x.got) + Len(x.rbuf) + 1
      BY <2>1, <2>2, <3>1
    <3>3. /\ Len(y.got) = Len(x.got) + n /\ Len(y.rbuf) = Len(x.rbuf) - n /\ Len(y.buf) = 0
          /\ Len(x.got) \in Int /\ Len(x.rbuf) \in Int
      BY <2>2, <2>5, <2>7
    <3>4. PICK g, b, p, q, e : /\ g = Len(x.got) /\ b = Len(x.rbuf)
                               /\ p = Len(y.got) /\ q = Len(y.rbuf) /\ e = Len(y.buf)
      OBVIOUS
    <3> HIDE DEF x
    <3>5. g \in Int /\ b \in Int /\ p = g + n /\ q = b - n /\ e = 0 /\ y.next = g + b + 1
      BY <3>2, <3>3, <3>4, Zenon
    <3>6. y.next = p + q + e + 1
      BY <3>1, <3>5
    <3> QED BY <3>4, <3>6, Zenon
  <2> QED BY <1>10, <2>1, <2>4, <2>5, <2>8, <2>9, <2>10
<1>13. ReadOK(c)'
  BY <1>10, <1>11, <1>12 DEF ReadOK
<1> QED BY <1>2, <1>3, <1>10, <1>13, IOKeeps

LEMMA WriteKeeps ==
  ASSUME TrafficIInv, NEW c \in Conns, NEW k \in 1..MaxData, Write(c, k), MaxData \in Nat
  PROVE  TrafficIInv'
<1> DEFINE x == io[c]
           y == IF held[c] = {} THEN x ELSE [x EXCEPT !.pc = "write", !.grp = held[c], !.n = k]
<1>1. x \in IORecord /\ ReadOK(c) /\ k \in Nat
  BY IOType
<1>2. /\ x.use = "write" /\ x.pc = "idle" /\ held[c] # NoGroup
      /\ UNCHANGED <<tables, heap, caches, rl, look, held, history>>
  BY DEF Write
<1>3. held[c] \in SUBSET Lims
  <2>1. held[c] \in (SUBSET Lims) \cup {NoGroup}
    BY Types DEF TrafficIInv
  <2> QED BY <1>2, <2>1
<1>4. io' = [io EXCEPT ![c] = y]
  BY DEF Write, TrafficIInv, TrafficTypeOK
<1>5. y \in IORecord /\ y.use = "write" /\ y.pc \in {"idle", "write"} /\ y.grp \subseteq x.grp \cup held[c]
  BY <1>1, <1>2, <1>3 DEF IORecord
<1> HIDE DEF y
<1>6. io'[c] = y
  BY <1>4 DEF TrafficIInv, TrafficTypeOK
<1>7. ReadOK(c)'
  BY <1>5, <1>6 DEF ReadOK
<1> QED BY <1>2, <1>4, <1>5, <1>7, IOKeeps

LEMMA WriteWaitedKeeps ==
  ASSUME TrafficIInv, NEW c \in Conns, WriteWaited(c)
  PROVE  TrafficIInv'
<1> DEFINE x == io[c]
<1>1. x \in IORecord /\ ReadOK(c) /\ x.n \in Nat /\ x.grp \in SUBSET Lims /\ heap \in [Lims -> Nat]
  BY IOType
<1>2. x.pc = "write" /\ UNCHANGED <<tables, heap, caches, rl, look, held, history>>
  BY DEF WriteWaited
<1>3. Wait(x.grp, x.n) \in 0..x.n
  BY <1>1, WaitFits
<1>4. PICK n \in {x.n - Wait(x.grp, x.n), 0} :
        io' = [io EXCEPT ![c].n = n, ![c].pc = IF n = 0 THEN "idle" ELSE "write",
                         ![c].grp = IF n = 0 THEN {} ELSE @]
  BY DEF WriteWaited
<1>5. n \in Nat
  BY <1>1, <1>3, <1>4
<1> DEFINE y == [x EXCEPT !.n = n, !.pc = IF n = 0 THEN "idle" ELSE "write",
                          !.grp = IF n = 0 THEN {} ELSE @]
<1>6. io' = [io EXCEPT ![c] = y]
  BY <1>4 DEF TrafficIInv, TrafficTypeOK
<1>7. /\ y \in IORecord /\ y.use = x.use /\ y.pc \in {"idle", "write"} /\ y.grp \subseteq x.grp
      /\ y.got = x.got /\ y.rbuf = x.rbuf /\ y.buf = x.buf /\ y.next = x.next
  BY <1>1, <1>5 DEF IORecord
<1> HIDE DEF y
<1>8. io'[c] = y /\ served' = served
  BY <1>2, <1>6 DEF TrafficIInv, TrafficTypeOK, history
<1>9. ReadOK(c)'
  BY <1>1, <1>2, <1>7, <1>8 DEF ReadOK
<1> QED BY <1>2, <1>6, <1>7, <1>9, IOKeeps

LEMMA PacketKeeps ==
  ASSUME TrafficIInv, NEW c \in Conns, NEW k \in 1..MaxData, Packet(c, k)
  PROVE  TrafficIInv'
<1> DEFINE x == io[c]
           y == [x EXCEPT !.next = @ + 1, !.got = IF Passes(c, k) THEN Append(@, x.next) ELSE @]
<1>1. x \in IORecord /\ ReadOK(c) /\ x.next \in Nat /\ x.got \in Seq(Nat)
  BY IOType
<1>2. /\ x.use = "packet" /\ x.pc = "idle"
      /\ UNCHANGED <<tables, heap, caches, rl, look, held, history>>
  BY DEF Packet
<1>3. io' = [io EXCEPT ![c] = y]
  BY DEF Packet, TrafficIInv, TrafficTypeOK
<1>4. Append(x.got, x.next) \in Seq(Nat) /\ x.next + 1 \in Nat
  BY <1>1
<1>5. y \in IORecord /\ y.use = "packet" /\ y.pc = "idle" /\ y.grp = x.grp
  BY <1>1, <1>2, <1>4 DEF IORecord
<1> HIDE DEF y
<1>6. io'[c] = y
  BY <1>3 DEF TrafficIInv, TrafficTypeOK
<1>7. ReadOK(c)'
  BY <1>5, <1>6 DEF ReadOK
<1> QED BY <1>2, <1>3, <1>5, <1>7, IOKeeps

----------------------------------------------------------------------------
(***************************************************************************)
(* What a step of a look-up of connection c does: the look-up goes on as   *)
(* r, the connection's group is g, and of new limiters there is one for    *)
(* connections, in C, or one for hosts, in H, or none.                     *)
(***************************************************************************)
LookStep(c, r, g, C, H) ==
  /\ UNCHANGED <<tables, all, rl, io, before, served>>
  /\ look' = [look EXCEPT ![c] = r] /\ held' = [held EXCEPT ![c] = g]
  /\ C \cup H \subseteq Lims \ Used /\ C \cap H = {}
  /\ heap' \in [Lims -> Nat]
  /\ \A l \in Lims : IF l \in C \cup H THEN heap'[l] > 0 ELSE heap'[l] = heap[l]
  /\ late' \subseteq Lims /\ late \ (C \cup H) \subseteq late'
  /\ r \in LookRecord /\ r.grp \cup {r.new} \cup g \subseteq Used \cup {0} \cup C \cup H
  /\ r.pc = "store" => r.new \in OfConns \cup C
  /\ r.pc = "keep" => r.new \in OfHost(HostOf[c]) \cup H
  /\ g \in (SUBSET Lims) \cup {NoGroup}
  /\ served => g # {} /\ (r.pc # "idle" => rl.n > 0 /\ r.grp # {})
  /\ connLims' \in [Conns -> 0..MaxLims] /\ \A d \in Conns : d # c => connLims'[d] = connLims[d]
  /\ connLims'[c] \in OfConns \cup {0}
  /\ connLims'[c] \in {connLims[c], 0} \cup late'
       \/ (gen > 0 /\ rl.pc = "idle" /\ heap'[connLims'[c]] = gen)
  /\ hostLims' \in [Hosts -> 0..MaxLims]
  /\ \A h \in Hosts :
       /\ hostLims'[h] \in OfHost(h)
       /\ hostLims'[h] = hostLims[h]
            \/ (hostLims'[h] # 0 /\ (hostLims'[h] \in late'
                                       \/ (rl.pc = "idle" /\ heap'[hostLims'[h]] = Effective(h))))

(* A limiter in use is one. *)
LEMMA UsedIsLims ==
  ASSUME TrafficTypeOK
  PROVE  Used \subseteq Lims \cup {0}
<1>1. \A n \in 0..MaxLims : n \in Lims \cup {0}
  BY TrafficLimiterAssumption DEF Lims
<1>2. all \in Lims \cup {0} /\ \A h \in Hosts : {hostLims[h], rl.snap[h]} \subseteq Lims \cup {0}
  BY <1>1, Types DEF TrafficTypeOK
<1>3. ASSUME NEW c \in Conns
      PROVE  {connLims[c], look[c].new} \cup look[c].grp \cup held[c] \cup io[c].grp
               \subseteq Lims \cup {0}
  <2>1. held[c] \subseteq Lims \cup {0}
    BY Types DEF NoGroup
  <2> QED BY <1>1, <2>1, Types
<1> QED BY <1>2, <1>3 DEF Used

LEMMA LookKeeps ==
  ASSUME TrafficIInv, NEW c \in Conns, NEW r, NEW g, NEW C, NEW H, LookStep(c, r, g, C, H), LookOK(c)'
  PROVE  TrafficIInv'
<1> DEFINE N == C \cup H
<1>1. /\ UNCHANGED <<tables, all, rl, io, before, served>>
      /\ look' = [look EXCEPT ![c] = r] /\ held' = [held EXCEPT ![c] = g]
      /\ N \subseteq Lims \ Used /\ C \cap H = {}
  BY DEF LookStep
<1>2. /\ heap' \in [Lims -> Nat] /\ \A l \in Lims : l \notin N => heap'[l] = heap[l]
      /\ \A l \in N : heap'[l] > 0
  BY <1>1 DEF LookStep
<1>3. /\ late' \subseteq Lims /\ late \ N \subseteq late' /\ r \in LookRecord
      /\ connLims' \in [Conns -> 0..MaxLims] /\ hostLims' \in [Hosts -> 0..MaxLims]
      /\ g \in (SUBSET Lims) \cup {NoGroup}
  BY DEF LookStep
<1>4. r.grp \cup {r.new} \cup g \subseteq Used \cup {0} \cup N
  BY DEF LookStep
<1> USE DEF tables
<1> HIDE DEF N
<1>5. TrafficTypeOK'
  BY <1>1, <1>2, <1>3 DEF TrafficIInv, TrafficTypeOK
<1>6. /\ look'[c] = r /\ \A d \in Conns : d # c => look'[d] = look[d]
      /\ held'[c] = g /\ \A d \in Conns : d # c => held'[d] = held[d]
  BY <1>1 DEF TrafficIInv, TrafficTypeOK
<1>7. \A d \in Conns : d # c => connLims'[d] = connLims[d]
  BY DEF LookStep
<1>8. OfConns' \subseteq OfConns \cup {0} \cup C
  <2>1. \A d \in Conns : connLims'[d] \in OfConns \cup {0}
    BY <1>7, Roles DEF LookStep
  <2>2. \A d \in Conns : look'[d].pc = "store" => look'[d].new \in OfConns \cup C
    BY <1>6, Roles DEF LookStep
  <2> HIDE DEF OfConns
  <2> QED BY <2>1, <2>2, OfConnsWithin
<1>9. ASSUME NEW h \in Hosts
      PROVE  OfHost(h)' \subseteq OfHost(h) \cup {0} \cup (IF h = HostOf[c] THEN H ELSE {})
  <2> DEFINE S == OfHost(h) \cup {0} \cup (IF h = HostOf[c] THEN H ELSE {})
  <2>1. hostLims'[h] \in S
    BY DEF LookStep
  <2>2. rl'.snap[h] \in S
    BY <1>1, Roles
  <2>3. ASSUME NEW d \in Conns, look'[d].pc = "keep", HostOf[d] = h PROVE look'[d].new \in S
    <3>1. CASE d = c
      BY <1>6, <2>3, <3>1 DEF LookStep
    <3>2. CASE d # c
      BY <1>6, <2>3, <3>2, Roles
    <3> QED BY <3>1, <3>2
  <2> HIDE DEF S
  <2>4. OfHost(h)' \subseteq S
    BY <2>1, <2>2, <2>3, OfHostWithin
  <2> QED BY <2>4 DEF S
<1>10. Apart'
  <2>1. PassedOn({}, C, H, HostOf[c])
    BY <1>1, <1>8, <1>9 DEF N, PassedOn
  <2>2. Apart
    BY DEF TrafficIInv
  <2> QED BY <2>1, <2>2, ApartKept
<1>11. Used' \subseteq Used \cup N \cup {0}
  <2> DEFINE S == Used \cup N \cup {0}
  <2>1. all' \in S /\ \A h \in Hosts : rl'.snap[h] \in S
    BY <1>1, InUse
  <2>2. \A h \in Hosts : hostLims'[h] \in S
    BY Roles DEF LookStep
  <2>3. \A d \in Conns : connLims'[d] \in S
    BY <1>7, Roles DEF LookStep
  <2>4. \A d \in Conns : look'[d].new \in S /\ look'[d].grp \subseteq S /\ held'[d] \subseteq S
    BY <1>4, <1>6, InUse
  <2>5. \A d \in Conns : io'[d].grp \subseteq S
    BY <1>1, InUse
  <2> HIDE DEF S
  <2>6. Used' \subseteq S
    BY <2>1, <2>2, <2>3, <2>4, <2>5, UsedWithin
  <2> QED BY <2>6 DEF S
<1>12. \A l \in Used \cap Lims : heap'[l] = heap[l] /\ (l \in late => l \in late')
  BY <1>1, <1>2, <1>3
<1>13. ServiceOK'
  <2>1. all # 0 => all \in Used \cap Lims
    BY InUse, TrafficLimiterAssumption DEF TrafficIInv, TrafficTypeOK, Lims
  <2> QED BY <1>1, <1>12, <2>1 DEF TrafficIInv, ServiceOK
<1>14. InUseOK'
  <2>1. SUFFICES ASSUME NEW l \in Used', l # 0 PROVE heap'[l] > 0 \/ l \in late'
    BY DEF InUseOK
  <2>2. CASE l \in N
    BY <1>2, <2>2
  <2>3. CASE l \notin N
    <3>1. l \in Used
      BY <1>11, <2>1, <2>3
    <3>2. l \in Lims
      BY <3>1, <2>1, UsedIsLims DEF TrafficIInv
    <3> QED BY <1>12, <2>1, <3>1, <3>2 DEF TrafficIInv, InUseOK
  <2> QED BY <2>2, <2>3
<1>15. HostsOK'
  <2>1. rl.pc = "idle" => ranger' = rules'.cidr
    BY <1>1 DEF TrafficIInv, HostsOK
  <2>2. ASSUME NEW h \in Hosts, rl.pc = "idle" \/ (rl.pc = "hosts" /\ h \notin rl.todo) PROVE HostOK(h)'
    <3>1. HostOK(h)
      BY <2>2 DEF TrafficIInv, HostsOK
    <3>2. Effective(h)' = Effective(h) /\ rules' = rules
      BY <1>1 DEF Effective
    <3>3. CASE hostLims'[h] = hostLims[h]
      <4>1. hostLims[h] # 0 => hostLims[h] \in Used \cap Lims
        BY InUse, TrafficLimiterAssumption DEF TrafficIInv, TrafficTypeOK, Lims
      <4> QED BY <1>12, <3>1, <3>2, <3>3, <4>1 DEF HostOK
    <3>4. CASE hostLims'[h] # hostLims[h]
      BY <3>2, <3>4 DEF LookStep, HostOK
    <3> QED BY <3>3, <3>4
  <2>3. ASSUME NEW h \in Hosts, rl.pc = "hosts", h \in rl.todo
        PROVE  hostLims'[h] \in {rl.snap[h]} \cup late'
    <3>1. hostLims[h] \in {rl.snap[h]} \cup late
      BY <2>3 DEF TrafficIInv, HostsOK
    <3>2. CASE hostLims'[h] = hostLims[h]
      <4>1. hostLims[h] \in late => hostLims[h] \in Used \cap Lims
        BY InUse DEF TrafficIInv, TrafficTypeOK
      <4> QED BY <1>12, <3>1, <3>2, <4>1
    <3>3. CASE hostLims'[h] # hostLims[h]
      BY <2>3, <3>3 DEF LookStep
    <3> QED BY <3>2, <3>3
  <2>4. ASSUME NEW h \in Hosts, NEW l \in OfHost(h)', l # 0 PROVE heap'[l] > 0
    <3>1. CASE l \in N
      BY <1>2, <3>1
    <3>2. CASE l \notin N
      <4>1. l \in OfHost(h)
        BY <1>9, <2>4, <3>2 DEF N
      <4>2. heap[l] > 0 /\ l \in Used
        BY <2>4, <4>1, Roles DEF TrafficIInv, HostsOK
      <4>3. l \in Lims
        BY <2>4, <4>2, UsedIsLims DEF TrafficIInv
      <4> QED BY <1>12, <4>2, <4>3
    <3> QED BY <3>1, <3>2
  <2> QED BY <1>1, <2>1, <2>2, <2>3, <2>4 DEF HostsOK
<1>16. ConnsOK'
  <2>1. ASSUME NEW d \in Conns, rl.pc # "conns" \/ rl.old = gen
        PROVE  connLims'[d] \in {0} \cup late' \/ heap'[connLims'[d]] \in {gen, before}
    <3>1. connLims[d] \in {0} \cup late \/ heap[connLims[d]] \in {gen, before}
      BY <2>1 DEF TrafficIInv, ConnsOK
    <3>2. CASE connLims'[d] = connLims[d]
      <4>1. connLims[d] # 0 => connLims[d] \in Used \cap Lims
        BY InUse, TrafficLimiterAssumption DEF TrafficIInv, TrafficTypeOK, Lims
      <4> QED BY <1>12, <3>1, <3>2, <4>1
    <3>3. CASE connLims'[d] # connLims[d]
      BY <1>7, <3>3 DEF LookStep
    <3> QED BY <3>2, <3>3
  <2>2. ASSUME NEW d \in Conns, (IF rl.pc = "conns" THEN rl.old ELSE gen) = 0
        PROVE  connLims'[d] \in {0} \cup late'
    <3>1. connLims[d] \in {0} \cup late
      BY <2>2 DEF TrafficIInv, ConnsOK
    <3>2. CASE connLims'[d] = connLims[d]
      <4>1. connLims[d] # 0 => connLims[d] \in Used \cap Lims
        BY InUse, TrafficLimiterAssumption DEF TrafficIInv, TrafficTypeOK, Lims
      <4> QED BY <1>12, <3>1, <3>2, <4>1
    <3>3. CASE connLims'[d] # connLims[d]
      <4>1. d = c
        BY <1>7, <3>3
      <4>2. gen > 0 /\ rl.pc = "idle" => FALSE
        BY <2>2
      <4> QED BY <3>3, <4>1, <4>2 DEF LookStep
    <3> QED BY <3>2, <3>3
  <2> QED BY <1>1, <2>1, <2>2 DEF TrafficIInv, ConnsOK
<1>17. ServedOK'
  BY <1>1, <1>6 DEF TrafficIInv, ServedOK, LookStep
<1>18. ASSUME NEW d \in Conns PROVE LookOK(d)'
  <2>1. CASE d = c
    BY <2>1
  <2>2. CASE d # c
    <3>1. look'[d] = look[d] /\ connLims'[d] = connLims[d]
      BY <1>6, <1>7, <2>2
    <3>2. look[d].new # 0 => heap'[look[d].new] = heap[look[d].new]
      BY <1>12, InUse, UsedIsLims DEF TrafficIInv
    <3> QED BY <1>1, <3>1, <3>2 DEF TrafficIInv, LookOK
  <2> QED BY <2>1, <2>2
<1>19. \A d \in Conns : ReadOK(d)'
  BY <1>1 DEF TrafficIInv, ReadOK
<1> QED BY <1>5, <1>10, <1>13, <1>14, <1>15, <1>16, <1>17, <1>18, <1>19 DEF TrafficIInv

(* A step that makes no limiter, and one that leaves the caches alone. *)
LEMMA NothingNew ==
  ASSUME TrafficIInv, UNCHANGED <<heap, late>>
  PROVE  /\ heap' \in [Lims -> Nat] /\ late' \subseteq Lims /\ late \ ({} \cup {}) \subseteq late'
         /\ \A l \in Lims : IF l \in {} \cup {} THEN heap'[l] > 0 ELSE heap'[l] = heap[l]
         /\ {} \cup {} \subseteq Lims \ Used /\ {} \cap {} = {}
BY DEF TrafficIInv, TrafficTypeOK

LEMMA SameCaches ==
  ASSUME TrafficIInv, NEW c \in Conns, UNCHANGED <<connLims, hostLims>>
  PROVE  /\ connLims' \in [Conns -> 0..MaxLims] /\ \A d \in Conns : d # c => connLims'[d] = connLims[d]
         /\ connLims'[c] \in OfConns \cup {0} /\ connLims'[c] \in {connLims[c], 0} \cup late'
         /\ hostLims' \in [Hosts -> 0..MaxLims]
         /\ \A h \in Hosts : hostLims'[h] \in OfHost(h) /\ hostLims'[h] = hostLims[h]
BY Roles DEF TrafficIInv, TrafficTypeOK

(* The look-up of a connection, before a step. *)
LEMMA LookType ==
  ASSUME TrafficIInv, NEW c \in Conns
  PROVE  /\ look[c] \in LookRecord
         /\ look[c].pc \in {"idle", "conn", "gen", "store", "host", "ranger", "keep"}
         /\ look[c].grp \in SUBSET Lims /\ look[c].new \in 0..MaxLims /\ look[c].late \in BOOLEAN
         /\ look[c].grp \cup {look[c].new} \cup held[c] \subseteq Used
         /\ connLims[c] \in 0..MaxLims /\ connLims[c] \in Used
         /\ held[c] \in (SUBSET Lims) \cup {NoGroup}
         /\ HostOf[c] \in Hosts /\ hostLims[HostOf[c]] \in 0..MaxLims
         /\ hostLims[HostOf[c]] \in Used
         /\ look \in [Conns -> LookRecord] /\ held \in [Conns -> (SUBSET Lims) \cup {NoGroup}]
         /\ served => (look[c].pc # "idle" => rl.n > 0 /\ look[c].grp # {}) /\ held[c] # {}
         /\ LookOK(c) /\ 0 \in 0..MaxLims
<1>1. TrafficTypeOK
  BY DEF TrafficIInv
<1>2. look[c] \in LookRecord /\ MaxLims \in Nat
  BY <1>1, Types
<1>3. look \in [Conns -> LookRecord] /\ held \in [Conns -> (SUBSET Lims) \cup {NoGroup}]
  BY <1>1 DEF TrafficTypeOK
<1>4. /\ look[c].pc \in {"idle", "conn", "gen", "store", "host", "ranger", "keep"}
      /\ look[c].grp \in SUBSET Lims /\ look[c].new \in 0..MaxLims /\ look[c].late \in BOOLEAN
      /\ 0 \in 0..MaxLims
  BY <1>2 DEF LookRecord
<1>5. /\ connLims[c] \in 0..MaxLims /\ held[c] \in (SUBSET Lims) \cup {NoGroup}
      /\ HostOf[c] \in Hosts /\ hostLims[HostOf[c]] \in 0..MaxLims
  BY <1>1, Types
<1>6. /\ look[c].grp \cup {look[c].new} \cup held[c] \subseteq Used /\ connLims[c] \in Used
      /\ hostLims[HostOf[c]] \in Used
  BY <1>5, InUse
<1> QED BY <1>2, <1>3, <1>4, <1>5, <1>6 DEF TrafficIInv, ServedOK

LEMMA GroupExpiresKeeps ==
  ASSUME TrafficIInv, NEW c \in Conns, GroupExpires(c)
  PROVE  TrafficIInv'
<1>1. /\ UNCHANGED <<tables, all, rl, io, before, served>> /\ UNCHANGED <<heap, late>>
      /\ UNCHANGED <<connLims, hostLims>> /\ look' = look /\ held' = [held EXCEPT ![c] = NoGroup]
      /\ UNCHANGED <<gen, ranger, rules>>
  BY DEF GroupExpires, history, caches, tables
<1>2. look' = [look EXCEPT ![c] = look[c]]
  BY <1>1, LookType
<1>3. NoGroup \in (SUBSET Lims) \cup {NoGroup} /\ NoGroup # {} /\ NoGroup \subseteq Used \cup {0}
  BY DEF NoGroup
<1>4. LookStep(c, look[c], NoGroup, {}, {})
  BY <1>1, <1>2, <1>3, NothingNew, SameCaches, LookType, Roles DEF LookStep
<1>5. LookOK(c)'
  BY <1>1, LookType DEF LookOK
<1> QED BY <1>4, <1>5, LookKeeps

LEMMA ConnExpiresKeeps ==
  ASSUME TrafficIInv, NEW c \in Conns, ConnExpires(c)
  PROVE  TrafficIInv'
<1>1. /\ UNCHANGED <<tables, all, rl, io, before, served>> /\ UNCHANGED <<heap, late>>
      /\ hostLims' = hostLims /\ connLims' = [connLims EXCEPT ![c] = 0] /\ look' = look /\ held' = held
      /\ UNCHANGED <<gen, ranger, rules>> /\ look[c].pc \in {"idle", "conn"}
  BY DEF ConnExpires, history, tables
<1>2. look' = [look EXCEPT ![c] = look[c]] /\ held' = [held EXCEPT ![c] = held[c]]
  BY <1>1, LookType
<1>3. /\ connLims' \in [Conns -> 0..MaxLims] /\ \A d \in Conns : d # c => connLims'[d] = connLims[d]
      /\ connLims'[c] = 0 /\ hostLims' \in [Hosts -> 0..MaxLims]
      /\ \A h \in Hosts : hostLims'[h] \in OfHost(h) /\ hostLims'[h] = hostLims[h]
  BY <1>1, LookType, Roles DEF TrafficIInv, TrafficTypeOK
<1>4. LookStep(c, look[c], held[c], {}, {})
  BY <1>1, <1>2, <1>3, NothingNew, LookType, Roles DEF LookStep
<1>5. LookOK(c)'
  BY <1>1, LookType DEF LookOK
<1> QED BY <1>4, <1>5, LookKeeps

LEMMA LookServiceKeeps ==
  ASSUME TrafficIInv, NEW c \in Conns, LookService(c)
  PROVE  TrafficIInv'
<1> DEFINE r == [NoLook EXCEPT !.pc = "conn", !.grp = {all} \ {0}]
<1>1. /\ UNCHANGED <<tables, all, rl, io, before, served>> /\ UNCHANGED <<heap, late>>
      /\ UNCHANGED <<connLims, hostLims>> /\ look' = [look EXCEPT ![c] = r] /\ held' = held
      /\ Ready
  BY DEF LookService, history, caches
<1>2. held' = [held EXCEPT ![c] = held[c]]
  BY <1>1, LookType
<1>3. all \in Used /\ all \in 0..MaxLims /\ {all} \ {0} \subseteq Lims
  BY InUse, TrafficLimiterAssumption DEF TrafficIInv, TrafficTypeOK, Lims
<1>4. /\ r \in LookRecord /\ r.pc = "conn" /\ r.grp = {all} \ {0} /\ r.new = 0 /\ r.late = FALSE
  BY <1>3, LookType DEF LookRecord, NoLook
<1>5. served => rl.n > 0 /\ r.grp # {}
  <2>1. served => rl.n > 0
    BY <1>1, Types DEF Ready, TrafficIInv
  <2>2. served => all # 0
    BY <2>1 DEF TrafficIInv, ServedOK, ServiceOK
  <2> QED BY <1>4, <2>1, <2>2
<1>6. look'[c] = r
  BY <1>1, LookType
<1> HIDE DEF r
<1>7. LookStep(c, r, held[c], {}, {})
  BY <1>1, <1>2, <1>3, <1>4, <1>5, NothingNew, SameCaches, LookType DEF LookStep
<1>8. LookOK(c)'
  BY <1>4, <1>6 DEF LookOK
<1> QED BY <1>7, <1>8, LookKeeps

LEMMA LookConnKeeps ==
  ASSUME TrafficIInv, NEW c \in Conns, LookConn(c)
  PROVE  TrafficIInv'
<1> DEFINE l == connLims[c]
           r == [pc |-> IF l = 0 THEN "gen" ELSE "store", grp |-> look[c].grp \cup ({l} \ {0}),
                 new |-> l, late |-> FALSE]
<1>1. /\ UNCHANGED <<tables, all, rl, io, before, served>> /\ UNCHANGED <<heap, late>>
      /\ UNCHANGED <<connLims, hostLims>> /\ look[c].pc = "conn" /\ held' = held
  BY DEF LookConn, history, caches
<1>2. held' = [held EXCEPT ![c] = held[c]] /\ look' = [look EXCEPT ![c] = r]
  BY <1>1, LookType DEF LookConn
<1>3. {l} \ {0} \subseteq Lims /\ l \in OfConns /\ l \in Used
  BY LookType, Roles, TrafficLimiterAssumption DEF Lims
<1>5. r \in LookRecord
  BY <1>3, LookType DEF LookRecord
<1>9. /\ r.pc = IF l = 0 THEN "gen" ELSE "store"
      /\ r.grp = look[c].grp \cup ({l} \ {0}) /\ r.new = l /\ r.late = FALSE
  OBVIOUS
<1>6. look'[c] = r
  BY <1>2, LookType
<1> HIDE DEF r
<1>10. /\ r.grp \cup {r.new} \cup held[c] \subseteq Used \cup {0} \cup {} \cup {}
       /\ r.pc = "store" => r.new \in OfConns \cup {}
       /\ r.pc # "keep"
       /\ served => rl.n > 0 /\ r.grp # {}
  BY <1>1, <1>3, <1>9, LookType
<1>7. LookStep(c, r, held[c], {}, {})
  BY <1>1, <1>2, <1>5, <1>10, NothingNew, SameCaches, LookType DEF LookStep
<1>8. LookOK(c)'
  BY <1>1, <1>6, <1>9 DEF LookOK
<1> QED BY <1>7, <1>8, LookKeeps

(* A step that makes one limiter. *)
LEMMA OneNew ==
  ASSUME TrafficIInv, Room, NEW n \in Nat, n # 0, heap' = Set(Fresh, n), late' = late \ {Fresh}
  PROVE  /\ Fresh \in Lims /\ Fresh \notin Used /\ Fresh # 0 /\ Fresh \in 0..MaxLims
         /\ heap' \in [Lims -> Nat] /\ heap'[Fresh] = n /\ Fresh \notin late'
         /\ \A l \in Lims : IF l = Fresh THEN heap'[l] > 0 ELSE heap'[l] = heap[l]
         /\ late' \subseteq Lims /\ late \ {Fresh} \subseteq late'
<1>1. Fresh \in Lims /\ Fresh \notin Used
  BY FreshIsNew
<1>2. heap \in [Lims -> Nat] /\ late \subseteq Lims /\ n > 0
  BY DEF TrafficIInv, TrafficTypeOK
<1>3. Fresh # 0 /\ Fresh \in 0..MaxLims
  BY <1>1, TrafficLimiterAssumption DEF Lims
<1> QED BY <1>1, <1>2, <1>3 DEF Set

LEMMA LookGeneratorKeeps ==
  ASSUME TrafficIInv, NEW c \in Conns, LookGenerator(c)
  PROVE  TrafficIInv'
<1>1. /\ UNCHANGED <<tables, all, rl, io, before, served>> /\ UNCHANGED <<connLims, hostLims>>
      /\ look[c].pc = "gen" /\ held' = held
      /\ gen \in Nat
  BY DEF LookGenerator, caches, TrafficIInv, TrafficTypeOK
<1>2. held' = [held EXCEPT ![c] = held[c]]
  BY <1>1, LookType
<1>3. CASE gen = 0
  <2> DEFINE r == [pc |-> "host", grp |-> look[c].grp, new |-> 0, late |-> look[c].late]
  <2>1. look' = [look EXCEPT ![c] = r] /\ UNCHANGED <<heap, late>>
    BY <1>3, LookType DEF LookGenerator, Goto
  <2>2. r \in LookRecord /\ r.pc = "host" /\ r.grp = look[c].grp /\ r.new = 0
    BY LookType DEF LookRecord
  <2>3. look'[c] = r
    BY <2>1, LookType
  <2> HIDE DEF r
  <2>4. LookStep(c, r, held[c], {}, {})
    BY <1>1, <1>2, <2>1, <2>2, NothingNew, SameCaches, LookType DEF LookStep
  <2>5. LookOK(c)'
    BY <2>2, <2>3 DEF LookOK
  <2> QED BY <2>4, <2>5, LookKeeps
<1>4. CASE gen # 0
  <2> DEFINE r == [pc |-> "store", grp |-> look[c].grp \cup {Fresh}, new |-> Fresh, late |-> FALSE]
             C == {Fresh}
  <2>1. /\ look' = [look EXCEPT ![c] = r] /\ heap' = Set(Fresh, gen) /\ late' = late \ {Fresh}
        /\ Room
    BY <1>4, LookType DEF LookGenerator
  <2>2. /\ Fresh \in Lims /\ Fresh \notin Used /\ Fresh # 0 /\ Fresh \in 0..MaxLims
        /\ heap' \in [Lims -> Nat] /\ heap'[Fresh] = gen
        /\ \A l \in Lims : IF l = Fresh THEN heap'[l] > 0 ELSE heap'[l] = heap[l]
        /\ late' \subseteq Lims /\ late \ {Fresh} \subseteq late'
    BY <1>1, <1>4, <2>1, OneNew
  <2>3. /\ r \in LookRecord /\ r.pc = "store" /\ r.grp = look[c].grp \cup {Fresh}
        /\ r.new = Fresh /\ r.late = FALSE
    BY <2>2, LookType DEF LookRecord
  <2>4. look'[c] = r
    BY <2>1, LookType
  <2> HIDE DEF r
  <2>5. /\ C \cup {} \subseteq Lims \ Used /\ C \cap {} = {}
        /\ \A l \in Lims : IF l \in C \cup {} THEN heap'[l] > 0 ELSE heap'[l] = heap[l]
        /\ late \ (C \cup {}) \subseteq late'
    BY <2>2
  <2>6. /\ r.grp \cup {r.new} \cup held[c] \subseteq Used \cup {0} \cup C \cup {}
        /\ r.new \in OfConns \cup C
        /\ served => rl.n > 0 /\ r.grp # {}
    BY <1>1, <2>3, LookType
  <2> HIDE DEF C
  <2>7. LookStep(c, r, held[c], C, {})
    BY <1>1, <1>2, <2>1, <2>2, <2>3, <2>5, <2>6, SameCaches, LookType DEF LookStep
  <2>8. gen' = gen
    BY <1>1 DEF tables
  <2>9. LookOK(c)'
    BY <1>1, <1>4, <2>2, <2>3, <2>4, <2>8 DEF LookOK
  <2> QED BY <2>7, <2>9, LookKeeps
<1> QED BY <1>3, <1>4

LEMMA StoreConnKeeps ==
  ASSUME TrafficIInv, NEW c \in Conns, StoreConn(c)
  PROVE  TrafficIInv'
<1> DEFINE x == look[c]
           r == [pc |-> "host", grp |-> x.grp, new |-> 0, late |-> x.late]
<1>1. /\ UNCHANGED <<tables, all, rl, io, before, served>> /\ hostLims' = hostLims /\ heap' = heap
      /\ x.pc = "store" /\ held' = held
      /\ connLims' = [connLims EXCEPT ![c] = x.new]
      /\ late' = IF connLims[c] # x.new /\ (x.late \/ rl.pc # "idle")
                 THEN late \cup {x.new} ELSE late
      /\ look' = [look EXCEPT ![c] = r]
  BY LookType DEF StoreConn, Goto
<1>2. held' = [held EXCEPT ![c] = held[c]]
  BY <1>1, LookType
<1>3. r \in LookRecord /\ r.pc = "host" /\ r.grp = x.grp /\ r.new = 0
  BY LookType DEF LookRecord
<1>4. look'[c] = r
  BY <1>1, LookType
<1> HIDE DEF r
<1>5. /\ x.new # 0 /\ x.new \in 0..MaxLims /\ x.new \in Lims /\ x.new \in OfConns
      /\ x.late \/ connLims[c] = x.new \/ (gen > 0 /\ heap[x.new] = gen)
  <2>1. x.new # 0 /\ (x.late \/ connLims[c] = x.new \/ (gen > 0 /\ heap[x.new] = gen))
    BY <1>1, LookType DEF LookOK
  <2> QED BY <1>1, <2>1, LookType, Roles, TrafficLimiterAssumption DEF Lims
<1>6. /\ heap \in [Lims -> Nat] /\ late \subseteq Lims /\ hostLims \in [Hosts -> 0..MaxLims]
      /\ connLims \in [Conns -> 0..MaxLims]
  BY DEF TrafficIInv, TrafficTypeOK
<1>7. /\ connLims' \in [Conns -> 0..MaxLims] /\ \A d \in Conns : d # c => connLims'[d] = connLims[d]
      /\ connLims'[c] = x.new /\ hostLims' \in [Hosts -> 0..MaxLims]
      /\ \A h \in Hosts : hostLims'[h] \in OfHost(h) /\ hostLims'[h] = hostLims[h]
  BY <1>1, <1>5, <1>6, Roles
<1>8. /\ heap' \in [Lims -> Nat] /\ late' \subseteq Lims /\ late \ ({} \cup {}) \subseteq late'
      /\ \A l \in Lims : IF l \in {} \cup {} THEN heap'[l] > 0 ELSE heap'[l] = heap[l]
      /\ {} \cup {} \subseteq Lims \ Used /\ {} \cap {} = {}
  BY <1>1, <1>5, <1>6
<1>9. connLims'[c] \in {connLims[c], 0} \cup late'
        \/ (gen > 0 /\ rl.pc = "idle" /\ heap'[connLims'[c]] = gen)
  <2>1. CASE connLims[c] = x.new
    BY <1>7, <2>1
  <2>2. CASE connLims[c] # x.new /\ (x.late \/ rl.pc # "idle")
    BY <1>1, <1>7, <2>2
  <2>3. CASE connLims[c] # x.new /\ ~(x.late \/ rl.pc # "idle")
    BY <1>1, <1>5, <1>7, <2>3
  <2> QED BY <2>1, <2>2, <2>3
<1>10. LookStep(c, r, held[c], {}, {})
  BY <1>1, <1>2, <1>3, <1>5, <1>7, <1>8, <1>9, LookType DEF LookStep
<1>11. LookOK(c)'
  BY <1>3, <1>4 DEF LookOK
<1> QED BY <1>10, <1>11, LookKeeps

(* A look-up that is over. *)
LEMMA NoLookType ==
  ASSUME TrafficIInv
  PROVE  NoLook \in LookRecord /\ NoLook.pc = "idle" /\ NoLook.grp = {} /\ NoLook.new = 0
BY TrafficLimiterAssumption DEF NoLook, LookRecord

LEMMA LookHostKeeps ==
  ASSUME TrafficIInv, NEW c \in Conns, LookHost(c)
  PROVE  TrafficIInv'
<1> DEFINE x == look[c]
           h == HostOf[c]
<1>1. /\ UNCHANGED <<tables, all, rl, io, before, served>> /\ UNCHANGED <<heap, late>>
      /\ UNCHANGED <<connLims, hostLims>> /\ x.pc = "host"
  BY DEF LookHost, history, caches
<1>2. CASE hostLims[h] # 0
  <2> DEFINE g == x.grp \cup {hostLims[h]}
  <2>1. look' = [look EXCEPT ![c] = NoLook] /\ held' = [held EXCEPT ![c] = g]
    BY <1>2 DEF LookHost, Found
  <2>2. hostLims[h] \in Lims
    BY <1>2, LookType, TrafficLimiterAssumption DEF Lims
  <2>3. g \in (SUBSET Lims) \cup {NoGroup} /\ g # {} /\ g \subseteq Used
    BY <2>2, LookType
  <2>4. look'[c] = NoLook
    BY <2>1, LookType
  <2> HIDE DEF g
  <2>5. LookStep(c, NoLook, g, {}, {})
    BY <1>1, <2>1, <2>3, NoLookType, NothingNew, SameCaches, LookType, InUse DEF LookStep
  <2>6. LookOK(c)'
    BY <2>4, NoLookType DEF LookOK
  <2> QED BY <2>5, <2>6, LookKeeps
<1>3. CASE hostLims[h] = 0
  <2> DEFINE r == [x EXCEPT !.pc = "ranger", !.late = FALSE]
  <2>1. look' = [look EXCEPT ![c] = r] /\ held' = [held EXCEPT ![c] = held[c]]
    BY <1>3, LookType DEF LookHost
  <2>2. r \in LookRecord /\ r.pc = "ranger" /\ r.grp = x.grp /\ r.new = x.new /\ r.late = FALSE
    BY LookType DEF LookRecord
  <2>3. look'[c] = r
    BY <2>1, LookType
  <2> HIDE DEF r
  <2>4. x.new = 0
    BY <1>1, LookType DEF LookOK
  <2>5. LookStep(c, r, held[c], {}, {})
    BY <1>1, <2>1, <2>2, <2>4, NothingNew, SameCaches, LookType DEF LookStep
  <2>6. rl.pc = "idle" => rules.ip[h] <= 0
    BY <1>3, LookType DEF TrafficIInv, HostsOK, HostOK
  <2>7. rules' = rules /\ rl' = rl
    BY <1>1 DEF tables
  <2>8. LookOK(c)'
    BY <2>2, <2>3, <2>4, <2>6, <2>7 DEF LookOK
  <2> QED BY <2>5, <2>8, LookKeeps
<1> QED BY <1>2, <1>3

LEMMA LookRangerKeeps ==
  ASSUME TrafficIInv, NEW c \in Conns, LookRanger(c)
  PROVE  TrafficIInv'
<1> DEFINE x == look[c]
           h == HostOf[c]
           n == ranger[h]
<1>1. /\ UNCHANGED <<tables, all, rl, io, before, served>>
      /\ UNCHANGED <<connLims, hostLims>> /\ x.pc = "ranger"
  BY DEF LookRanger, caches
<1>2. n \in Nat
  BY LookType, Types DEF TrafficIInv
<1>3. CASE n = 0
  <2>1. /\ look' = [look EXCEPT ![c] = NoLook] /\ held' = [held EXCEPT ![c] = x.grp]
        /\ UNCHANGED <<heap, late>>
    BY <1>3 DEF LookRanger, Found
  <2>2. look'[c] = NoLook
    BY <2>1, LookType
  <2>3. served => x.grp # {}
    BY <1>1, LookType
  <2>4. LookStep(c, NoLook, x.grp, {}, {})
    BY <1>1, <2>1, <2>3, NoLookType, NothingNew, SameCaches, LookType, InUse DEF LookStep
  <2>5. LookOK(c)'
    BY <2>2, NoLookType DEF LookOK
  <2> QED BY <2>4, <2>5, LookKeeps
<1>4. CASE n # 0
  <2> DEFINE r == [pc |-> "keep", grp |-> x.grp \cup {Fresh}, new |-> Fresh, late |-> x.late]
             H == {Fresh}
  <2>1. /\ look' = [look EXCEPT ![c] = r] /\ heap' = Set(Fresh, n) /\ late' = late \ {Fresh}
        /\ Room /\ held' = [held EXCEPT ![c] = held[c]]
    BY <1>4, LookType DEF LookRanger, Goto
  <2>2. /\ Fresh \in Lims /\ Fresh \notin Used /\ Fresh # 0 /\ Fresh \in 0..MaxLims
        /\ heap' \in [Lims -> Nat] /\ heap'[Fresh] = n
        /\ \A l \in Lims : IF l = Fresh THEN heap'[l] > 0 ELSE heap'[l] = heap[l]
        /\ late' \subseteq Lims /\ late \ {Fresh} \subseteq late'
    BY <1>2, <1>4, <2>1, OneNew
  <2>3. /\ r \in LookRecord /\ r.pc = "keep" /\ r.grp = x.grp \cup {Fresh}
        /\ r.new = Fresh /\ r.late = x.late
    BY <2>2, LookType DEF LookRecord
  <2>4. look'[c] = r
    BY <2>1, LookType
  <2> HIDE DEF r
  <2>5. /\ {} \cup H \subseteq Lims \ Used /\ {} \cap H = {}
        /\ \A l \in Lims : IF l \in {} \cup H THEN heap'[l] > 0 ELSE heap'[l] = heap[l]
        /\ late \ ({} \cup H) \subseteq late'
    BY <2>2
  <2>6. /\ r.grp \cup {r.new} \cup held[c] \subseteq Used \cup {0} \cup {} \cup H
        /\ r.new \in OfHost(HostOf[c]) \cup H
        /\ served => rl.n > 0 /\ r.grp # {}
    BY <1>1, <2>3, LookType
  <2> HIDE DEF H
  <2>7. LookStep(c, r, held[c], {}, H)
    BY <1>1, <2>1, <2>2, <2>3, <2>5, <2>6, SameCaches, LookType DEF LookStep
  <2>8. rules' = rules /\ rl' = rl /\ ranger' = ranger
    BY <1>1 DEF tables
  <2>9. ~x.late /\ rl.pc = "idle" => rules.ip[h] <= 0
    BY <1>1, LookType DEF LookOK
  <2>10. LookOK(c)'
    BY <2>2, <2>3, <2>4, <2>8, <2>9 DEF LookOK
  <2> QED BY <2>7, <2>10, LookKeeps
<1> QED BY <1>3, <1>4

LEMMA StoreHostKeeps ==
  ASSUME TrafficIInv, NEW c \in Conns, StoreHost(c)
  PROVE  TrafficIInv'
<1> DEFINE x == look[c]
           h == HostOf[c]
<1>1. /\ UNCHANGED <<tables, all, rl, io, before, served>> /\ connLims' = connLims /\ heap' = heap
      /\ x.pc = "keep" /\ held' = [held EXCEPT ![c] = x.grp]
      /\ look' = [look EXCEPT ![c] = NoLook]
      /\ hostLims' = [hostLims EXCEPT ![h] = x.new]
      /\ late' = IF x.late \/ rl.pc # "idle" THEN late \cup {x.new} ELSE late
  BY DEF StoreHost, Found
<1>2. look'[c] = NoLook
  BY <1>1, LookType
<1>3. /\ x.new # 0 /\ x.new \in 0..MaxLims /\ x.new \in Lims /\ x.new \in OfHost(h)
      /\ x.late \/ (heap[x.new] = ranger[h] /\ (rl.pc = "idle" => rules.ip[h] <= 0))
  <2>1. x.new # 0 /\ (x.late \/ (heap[x.new] = ranger[h] /\ (rl.pc = "idle" => rules.ip[h] <= 0)))
    BY <1>1, LookType DEF LookOK
  <2> QED BY <1>1, <2>1, LookType, Roles, TrafficLimiterAssumption DEF Lims
<1>4. /\ heap \in [Lims -> Nat] /\ late \subseteq Lims /\ hostLims \in [Hosts -> 0..MaxLims]
      /\ connLims \in [Conns -> 0..MaxLims] /\ h \in Hosts
  BY LookType DEF TrafficIInv, TrafficTypeOK
<1>5. /\ connLims' \in [Conns -> 0..MaxLims] /\ \A d \in Conns : d # c => connLims'[d] = connLims[d]
      /\ connLims'[c] \in OfConns \cup {0} /\ connLims'[c] \in {connLims[c], 0} \cup late'
      /\ hostLims' \in [Hosts -> 0..MaxLims]
  BY <1>1, <1>3, <1>4, Roles
<1>6. ASSUME NEW k \in Hosts
      PROVE  /\ hostLims'[k] \in OfHost(k)
             /\ hostLims'[k] = hostLims[k]
                  \/ (hostLims'[k] # 0
                       /\ (hostLims'[k] \in late'
                             \/ (rl.pc = "idle" /\ heap'[hostLims'[k]] = Effective(k))))
  <2>1. CASE k # h
    BY <1>1, <1>4, <2>1, Roles
  <2>2. CASE k = h
    <3>1. hostLims'[k] = x.new
      BY <1>1, <1>4, <2>2
    <3>2. CASE x.late \/ rl.pc # "idle"
      BY <1>1, <1>3, <2>2, <3>1, <3>2
    <3>3. CASE ~(x.late \/ rl.pc # "idle")
      <4>1. ranger = rules.cidr
        BY <3>3 DEF TrafficIInv, HostsOK
      <4>2. rules.ip[h] \in Nat \cup {NotListed}
        BY <1>4, Types DEF TrafficIInv
      <4>3. heap[x.new] = Effective(h)
        BY <1>3, <3>3, <4>1, <4>2 DEF Effective, NotListed
      <4> QED BY <1>1, <1>3, <2>2, <3>1, <3>3, <4>3
    <3> QED BY <3>2, <3>3
  <2> QED BY <2>1, <2>2
<1>7. /\ heap' \in [Lims -> Nat] /\ late' \subseteq Lims /\ late \ ({} \cup {}) \subseteq late'
      /\ \A l \in Lims : IF l \in {} \cup {} THEN heap'[l] > 0 ELSE heap'[l] = heap[l]
      /\ {} \cup {} \subseteq Lims \ Used /\ {} \cap {} = {}
  BY <1>1, <1>3, <1>4
<1>8. served => x.grp # {}
  BY <1>1, LookType
<1>9. x.grp \subseteq Used /\ x.grp \in (SUBSET Lims) \cup {NoGroup} /\ 0 \in Used \cup {0}
  BY LookType
<1>10. LookStep(c, NoLook, x.grp, {}, {})
  BY <1>1, <1>5, <1>6, <1>7, <1>8, <1>9, NoLookType DEF LookStep
<1>11. LookOK(c)'
  BY <1>2, NoLookType DEF LookOK
<1> QED BY <1>10, <1>11, LookKeeps

----------------------------------------------------------------------------
(***************************************************************************)
(* What a step of a reload does: it overtakes every look-up, sets the      *)
(* limiters in T and no others, and of new limiters there is one for the   *)
(* service, in A, or one for host g, in H, or none.                        *)
(***************************************************************************)
ReloadStep(T, A, g, H) ==
  /\ Overtake /\ UNCHANGED <<held, io>>
  /\ rules' \in Rule /\ gen' \in Nat /\ ranger' \in [Hosts -> Nat] /\ before' \in Nat
  /\ rl' \in ReloadRecord /\ rl'.n >= rl.n
  /\ A \cup H \subseteq Lims \ Used /\ A \cap H = {} /\ A \cup H \subseteq T /\ T \subseteq Lims
  /\ all' \in {all, 0} \cup A
  /\ connLims' \in [Conns -> 0..MaxLims] /\ \A c \in Conns : connLims'[c] \in {connLims[c], 0}
  /\ hostLims' \in [Hosts -> 0..MaxLims]
  /\ \A h \in Hosts : {hostLims'[h], rl'.snap[h]} \subseteq OfHost(h) \cup {0} \cup (IF h = g THEN H ELSE {})
  /\ heap' \in [Lims -> Nat] /\ late' \subseteq Lims
  /\ \A l \in Lims \ T : heap'[l] = heap[l] /\ (l \in late <=> l \in late')
  /\ \A l \in T : heap'[l] > 0 \/ (l \in late' /\ l \in OfConns)
  /\ served' \in BOOLEAN /\ (served' => served /\ (rl'.n > 0 => rules'.all > 0))

LEMMA Overtaken ==
  ASSUME TrafficIInv, Overtake
  PROVE  /\ look' \in [Conns -> LookRecord]
         /\ \A c \in Conns : /\ look'[c].pc = look[c].pc /\ look'[c].grp = look[c].grp
                             /\ look'[c].new = look[c].new
                             /\ look'[c].pc # "idle" => look'[c].late
<1>1. ASSUME NEW c \in Conns
      PROVE  /\ look'[c] \in LookRecord
             /\ look'[c].pc = look[c].pc /\ look'[c].grp = look[c].grp
             /\ look'[c].new = look[c].new
             /\ look'[c].pc # "idle" => look'[c].late
  <2> DEFINE y == [look[c] EXCEPT !.late = look[c].pc # "idle"]
  <2>1. look'[c] = y
    BY DEF Overtake
  <2>2. look[c] \in LookRecord
    BY LookType
  <2>3. /\ y \in LookRecord /\ y.pc = look[c].pc /\ y.grp = look[c].grp /\ y.new = look[c].new
        /\ y.pc # "idle" => y.late
    BY <2>2 DEF LookRecord
  <2> HIDE DEF y
  <2> QED BY <2>1, <2>3
<1>2. look' = [c \in Conns |-> look'[c]]
  BY DEF Overtake
<1> QED BY <1>1, <1>2

(* The parts of the invariant that such a step keeps whatever it is about. *)
LEMMA ReloadKeeps ==
  ASSUME TrafficIInv, NEW T, NEW A, NEW g, NEW H, ReloadStep(T, A, g, H),
         ServiceOK', ConnsOK',
         rl'.pc = "idle" => ranger' = rules'.cidr,
         \A h \in Hosts : /\ rl'.pc = "idle" \/ (rl'.pc = "hosts" /\ h \notin rl'.todo) => HostOK(h)'
                          /\ rl'.pc = "hosts" /\ h \in rl'.todo => hostLims'[h] \in {rl'.snap[h]} \cup late'
  PROVE  TrafficIInv'
<1>1. /\ look' \in [Conns -> LookRecord]
      /\ \A c \in Conns : /\ look'[c].pc = look[c].pc /\ look'[c].grp = look[c].grp
                          /\ look'[c].new = look[c].new
                          /\ look'[c].pc # "idle" => look'[c].late
  BY Overtaken DEF ReloadStep
<1>2. /\ UNCHANGED <<held, io>> /\ A \cup H \subseteq Lims \ Used /\ A \cap H = {}
      /\ A \cup H \subseteq T /\ all' \in {all, 0} \cup A
      /\ \A c \in Conns : connLims'[c] \in {connLims[c], 0}
      /\ \A h \in Hosts : {hostLims'[h], rl'.snap[h]}
                             \subseteq OfHost(h) \cup {0} \cup (IF h = g THEN H ELSE {})
  BY DEF ReloadStep
<1>3. /\ \A l \in Lims \ T : heap'[l] = heap[l] /\ (l \in late <=> l \in late')
      /\ \A l \in T : heap'[l] > 0 \/ (l \in late' /\ l \in OfConns)
      /\ T \subseteq Lims /\ late \subseteq Lims
  BY DEF ReloadStep, TrafficIInv, TrafficTypeOK
<1>4. TrafficTypeOK'
  <2>1. all' \in 0..MaxLims
    <3>1. \A l \in Lims : l \in 0..MaxLims
      BY TrafficLimiterAssumption DEF Lims
    <3>2. 0 \in 0..MaxLims /\ all \in 0..MaxLims
      BY TrafficLimiterAssumption DEF TrafficIInv, TrafficTypeOK
    <3> QED BY <1>2, <3>1, <3>2
  <2> QED BY <1>1, <1>2, <2>1 DEF ReloadStep, TrafficIInv, TrafficTypeOK
<1>5. OfConns' \subseteq OfConns \cup {0} \cup {}
  <2>1. \A c \in Conns : /\ connLims'[c] \in OfConns \cup {0}
                         /\ look'[c].pc = "store" => look'[c].new \in OfConns \cup {0}
    BY <1>1, <1>2, Roles
  <2> HIDE DEF OfConns
  <2>2. OfConns' \subseteq OfConns \cup {0}
    BY <2>1, OfConnsWithin
  <2> QED BY <2>2
<1>6. ASSUME NEW h \in Hosts
      PROVE  OfHost(h)' \subseteq OfHost(h) \cup {0} \cup (IF h = g THEN H ELSE {})
  <2> DEFINE S == OfHost(h) \cup {0} \cup (IF h = g THEN H ELSE {})
  <2>1. hostLims'[h] \in S /\ rl'.snap[h] \in S
    BY <1>2
  <2>2. \A c \in Conns : look'[c].pc = "keep" /\ HostOf[c] = h => look'[c].new \in S
    BY <1>1, Roles
  <2> HIDE DEF S
  <2>3. OfHost(h)' \subseteq S
    BY <2>1, <2>2, OfHostWithin
  <2> QED BY <2>3 DEF S
<1>7. Apart'
  <2>1. PassedOn(A, {}, H, g)
    BY <1>2, <1>5, <1>6 DEF PassedOn
  <2>2. Apart
    BY DEF TrafficIInv
  <2> QED BY <2>1, <2>2, ApartKept
<1>8. InUseOK'
  <2> DEFINE S == Used \cup {0} \cup T
  <2>1. all' \in S
    BY <1>2, InUse
  <2>2. \A h \in Hosts : hostLims'[h] \in S /\ rl'.snap[h] \in S
    BY <1>2, Roles
  <2>3. \A c \in Conns : /\ connLims'[c] \in S /\ look'[c].new \in S /\ look'[c].grp \subseteq S
                         /\ held'[c] \subseteq S /\ io'[c].grp \subseteq S
    BY <1>1, <1>2, InUse
  <2> HIDE DEF S
  <2>4. Used' \subseteq S
    BY <2>1, <2>2, <2>3, UsedWithin
  <2>5. SUFFICES ASSUME NEW l \in Used', l # 0 PROVE heap'[l] > 0 \/ l \in late'
    BY DEF InUseOK
  <2>6. CASE l \in T
    BY <1>3, <2>6
  <2>7. CASE l \notin T
    <3>1. l \in Used /\ l \in Lims
      BY <2>4, <2>5, <2>7, UsedIsLims DEF S, TrafficIInv
    <3> QED BY <1>3, <2>5, <2>7, <3>1 DEF TrafficIInv, InUseOK
  <2> QED BY <2>6, <2>7
<1>9. ASSUME NEW h \in Hosts, NEW l \in OfHost(h)', l # 0 PROVE heap'[l] > 0
  <2>1. CASE l \in H
    <3>1. l \in T /\ l \notin Used
      BY <1>2, <2>1
    <3> QED BY <1>3, <3>1, Roles
  <2>2. CASE l \notin H
    <3>1. l \in OfHost(h) /\ heap[l] > 0 /\ l \notin OfConns
      BY <1>6, <1>9, <2>2, ApartAt DEF TrafficIInv, HostsOK
    <3>2. l \in Lims
      BY <1>9, <3>1, Roles, UsedIsLims DEF TrafficIInv
    <3> QED BY <1>3, <3>1, <3>2
  <2> QED BY <2>1, <2>2
<1>10. HostsOK'
  BY <1>9 DEF HostsOK
<1>11. ServedOK'
  <2>1. rl.n \in Nat /\ rl'.n \in Nat /\ rl'.n >= rl.n /\ (served' => served /\ (rl'.n > 0 => rules'.all > 0))
    BY <1>4, Types DEF ReloadStep, TrafficIInv, TrafficTypeOK, ReloadRecord
  <2>2. rl.n > 0 => rl'.n > 0
    BY <2>1
  <2> QED BY <1>1, <1>2, <2>1, <2>2 DEF TrafficIInv, ServedOK
<1>12. \A c \in Conns : LookOK(c)'
  BY <1>1 DEF TrafficIInv, LookOK
<1>13. \A c \in Conns : ReadOK(c)'
  BY <1>2 DEF ReloadStep, TrafficIInv, ReadOK
<1> QED BY <1>4, <1>7, <1>8, <1>10, <1>11, <1>12, <1>13 DEF TrafficIInv

(***************************************************************************)
(* A step that is not about connections leaves their limiters as they are, *)
(* and the service's if it is not about the service.                       *)
(***************************************************************************)
LEMMA ConnsLeft ==
  ASSUME TrafficIInv, rl.pc # "conns", rl'.pc # "conns", UNCHANGED <<gen, before, connLims>>,
         rl'.pc \in {"idle", "gen"} \/ gen' = rules'.conn, NEW T, T \cap OfConns \subseteq {0},
         \A l \in Lims \ T : heap'[l] = heap[l] /\ (l \in late <=> l \in late')
  PROVE  ConnsOK'
<1>1. ASSUME NEW c \in Conns
      PROVE  /\ connLims[c] \in {0} \cup late' \/ heap'[connLims[c]] \in {gen, before}
             /\ gen = 0 => connLims[c] \in {0} \cup late'
  <2>1. connLims[c] # 0 => connLims[c] \in Lims /\ connLims[c] \notin T
    BY Roles, UsedIsLims DEF TrafficIInv
  <2> QED BY <2>1 DEF TrafficIInv, ConnsOK
<1> QED BY <1>1 DEF ConnsOK

LEMMA ServiceLeft ==
  ASSUME TrafficIInv, UNCHANGED all, rules'.all = rules.all, NEW T, all # 0 => all \notin T,
         \A l \in Lims \ T : heap'[l] = heap[l]
  PROVE  ServiceOK'
<1>1. all # 0 => all \in Lims
  BY InUse, UsedIsLims DEF TrafficIInv
<1> QED BY <1>1 DEF TrafficIInv, ServiceOK

(* The record of a reload in progress. *)
LEMMA ReloadType ==
  ASSUME TrafficIInv
  PROVE  /\ rl \in ReloadRecord /\ rl.n \in Nat /\ rl.old \in Nat /\ rl.todo \in SUBSET Hosts
         /\ rl.pc \in {"idle", "gen", "conns", "snap", "hosts"} /\ rl.snap \in [Hosts -> 0..MaxLims]
         /\ rules \in Rule /\ rules.all \in Nat /\ rules.conn \in Nat
         /\ rules.ip \in [Hosts -> Nat \cup {NotListed}] /\ rules.cidr \in [Hosts -> Nat]
         /\ gen \in Nat /\ before \in Nat /\ ranger \in [Hosts -> Nat] /\ served \in BOOLEAN
         /\ heap \in [Lims -> Nat] /\ late \subseteq Lims /\ all \in 0..MaxLims
         /\ connLims \in [Conns -> 0..MaxLims] /\ hostLims \in [Hosts -> 0..MaxLims]
         /\ \A l \in Lims : l # 0 /\ l \in 0..MaxLims
         /\ 0 \in 0..MaxLims /\ \A l \in 0..MaxLims : l # 0 => l \in Lims
         /\ served /\ rl.n > 0 => rules.all > 0
         /\ \A h \in Hosts : {hostLims[h], rl.snap[h]} \subseteq OfHost(h) \cup {0}
<1>1. rl \in ReloadRecord /\ rules \in Rule
  BY DEF TrafficIInv, TrafficTypeOK
<1>2. /\ rl.n \in Nat /\ rl.old \in Nat /\ rl.todo \in SUBSET Hosts
      /\ rl.pc \in {"idle", "gen", "conns", "snap", "hosts"} /\ rl.snap \in [Hosts -> 0..MaxLims]
      /\ rules.all \in Nat /\ rules.conn \in Nat
      /\ rules.ip \in [Hosts -> Nat \cup {NotListed}] /\ rules.cidr \in [Hosts -> Nat]
  BY <1>1 DEF ReloadRecord, Rule
<1>3. /\ \A l \in Lims : l # 0 /\ l \in 0..MaxLims
      /\ 0 \in 0..MaxLims /\ \A l \in 0..MaxLims : l # 0 => l \in Lims
  BY TrafficLimiterAssumption DEF Lims
<1>4. \A h \in Hosts : {hostLims[h], rl.snap[h]} \subseteq OfHost(h) \cup {0}
  BY Roles
<1> QED BY <1>1, <1>2, <1>3, <1>4 DEF TrafficIInv, TrafficTypeOK, ServedOK

LEMMA ReloadServiceKeeps ==
  ASSUME TrafficIInv, NEW r \in Rules, ReloadService(r)
  PROVE  TrafficIInv'
<1>1. /\ rl.pc = "idle" /\ rules' = r /\ Overtake /\ UNCHANGED <<hostLims, connLims, gen, ranger, held, io, late, before>>
      /\ served' = (served /\ r.all > 0)
      /\ rl' = [rl EXCEPT !.pc = "gen", !.n = rl.n + 1]
      /\ (all = 0 /\ r.all # 0 => Room)
      /\ IF r.all = 0 THEN all' = 0 /\ heap' = heap
         ELSE IF all # 0 THEN all' = all /\ heap' = Set(all, r.all)
         ELSE all' = Fresh /\ heap' = Set(Fresh, r.all)
  BY DEF ReloadService
<1>2. r \in Rule /\ r.all \in Nat
  BY TrafficLimiterAssumption DEF Rule
<1>3. rl' \in ReloadRecord /\ rl'.pc = "gen" /\ rl'.n = rl.n + 1 /\ rl'.snap = rl.snap /\ rl'.n >= rl.n
  <2>1. rl \in ReloadRecord /\ rl.n \in Nat /\ rl.n + 1 \in Nat /\ rl.n + 1 >= rl.n
    BY ReloadType
  <2>3. rl' = [rl EXCEPT !.pc = "gen", !.n = rl.n + 1]
    BY <1>1, Zenon
  <2>4. PICK k : k = rl.n + 1
    OBVIOUS
  <2>5. rl' = [rl EXCEPT !.pc = "gen", !.n = k] /\ k \in Nat
    BY <2>1, <2>3, <2>4, Zenon
  <2>6. rl'.n = k /\ rl' \in ReloadRecord /\ rl'.pc = "gen" /\ rl'.snap = rl.snap
    BY <2>1, <2>5 DEF ReloadRecord
  <2>2. rl'.n = rl.n + 1 /\ rl' \in ReloadRecord /\ rl'.pc = "gen" /\ rl'.snap = rl.snap
    BY <2>4, <2>6, Zenon
  <2> QED BY <2>1, <2>2
<1> DEFINE T == IF r.all = 0 THEN {} ELSE IF all # 0 THEN {all} ELSE {Fresh}
           A == IF r.all # 0 /\ all = 0 THEN {Fresh} ELSE {}
<1>4. A # {} => Fresh \in Lims /\ Fresh \notin Used
  BY <1>1, FreshIsNew
<1>5. /\ T \subseteq Lims /\ A \subseteq T /\ A \subseteq Lims \ Used /\ all' \in {all, 0} \cup A
      /\ T \cap OfConns \subseteq {0}
  BY <1>1, <1>4, ReloadType, Roles DEF TrafficIInv, Apart
<1>6. /\ heap' \in [Lims -> Nat] /\ \A l \in Lims \ T : heap'[l] = heap[l]
      /\ \A l \in T : heap'[l] = r.all /\ heap'[l] > 0
      /\ all' # 0 => all' \in T
      /\ r.all # 0 => all' # 0
  BY <1>1, <1>2, <1>4, ReloadType DEF Set
<1>7. r.all = 0 => all' = 0
  BY <1>1
<1> HIDE DEF T, A
<1>8. ServiceOK'
  BY <1>1, <1>6, <1>7 DEF ServiceOK
<1>9. ConnsOK'
  BY <1>1, <1>3, <1>5, <1>6, ConnsLeft
<1>11. /\ connLims' \in [Conns -> 0..MaxLims] /\ \A c \in Conns : connLims'[c] \in {connLims[c], 0}
       /\ hostLims' \in [Hosts -> 0..MaxLims]
       /\ \A h \in Hosts : {hostLims'[h], rl'.snap[h]} \subseteq OfHost(h) \cup {0}
       /\ gen' \in Nat /\ ranger' \in [Hosts -> Nat] /\ before' \in Nat /\ late' \subseteq Lims
  BY <1>1, <1>3, ReloadType
<1>12. /\ A \cup {} \subseteq Lims \ Used /\ A \cap {} = {} /\ A \cup {} \subseteq T
       /\ \A l \in Lims \ T : heap'[l] = heap[l] /\ (l \in late <=> l \in late')
       /\ \A l \in T : heap'[l] > 0
       /\ served' \in BOOLEAN /\ (served' => served /\ (rl'.n > 0 => rules'.all > 0))
  BY <1>1, <1>5, <1>6
<1>10. ReloadStep(T, A, {}, {})
  BY <1>1, <1>2, <1>3, <1>5, <1>6, <1>11, <1>12 DEF ReloadStep
<1> QED BY <1>3, <1>8, <1>9, <1>10, ReloadKeeps

LEMMA ReloadGeneratorKeeps ==
  ASSUME TrafficIInv, ReloadGenerator
  PROVE  TrafficIInv'
<1>1. /\ rl.pc = "gen" /\ Overtake /\ UNCHANGED <<rules, ranger, heap, all, hostLims, connLims, held, io, late, served>>
      /\ gen' = rules.conn /\ rl' = [rl EXCEPT !.pc = "conns", !.old = gen]
      /\ before' = IF gen = rules.conn THEN before ELSE gen
  BY DEF ReloadGenerator, caches
<1>2. /\ rl' \in ReloadRecord /\ rl'.pc = "conns" /\ rl'.n = rl.n /\ rl'.snap = rl.snap
      /\ rl'.n >= rl.n /\ rl'.old = gen
  <2>1. rl \in ReloadRecord /\ rl.n \in Nat /\ gen \in Nat
    BY ReloadType
  <2>2. /\ rl'.n = rl.n /\ rl' \in ReloadRecord /\ rl'.pc = "conns" /\ rl'.snap = rl.snap
        /\ rl'.old = gen
    BY <1>1, <2>1 DEF ReloadRecord
  <2> QED BY <2>1, <2>2
<1>3. ServiceOK'
  BY <1>1 DEF TrafficIInv, ServiceOK
<1>4. ConnsOK'
  <2>1. \A c \in Conns : /\ connLims[c] \in {0} \cup late \/ heap[connLims[c]] \in {gen, before}
                         /\ gen = 0 => connLims[c] \in {0} \cup late
    BY <1>1 DEF TrafficIInv, ConnsOK
  <2> QED BY <1>1, <1>2, <2>1 DEF ConnsOK
<1>5. ReloadStep({}, {}, {}, {})
  BY <1>1, <1>2, ReloadType DEF ReloadStep
<1> QED BY <1>2, <1>3, <1>4, <1>5, ReloadKeeps

LEMMA ReloadConnsKeeps ==
  ASSUME TrafficIInv, ReloadConns
  PROVE  TrafficIInv'
<1> DEFINE cached == {connLims[c] : c \in Conns} \ {0}
           change == rules.conn > 0 /\ rl.old # rules.conn
           T == IF change THEN cached ELSE {}
<1>1. /\ rl.pc = "conns" /\ Overtake /\ UNCHANGED <<rules, gen, ranger, all, hostLims, held, io, before, served>>
      /\ connLims' = IF rules.conn = 0 THEN [c \in Conns |-> 0] ELSE connLims
      /\ heap' = [l \in Lims |-> IF change /\ l \in cached THEN rl.old ELSE heap[l]]
      /\ late' = IF change /\ rl.old > 0 THEN late \ cached ELSE late
      /\ rl' = [rl EXCEPT !.pc = "snap"]
  BY DEF ReloadConns, tables
<1>2. /\ rl' \in ReloadRecord /\ rl'.pc = "snap" /\ rl'.n = rl.n /\ rl'.snap = rl.snap /\ rl'.n >= rl.n
  BY <1>1, ReloadType DEF ReloadRecord
<1>3. T \subseteq Lims /\ cached \subseteq OfConns /\ T \subseteq cached
  BY ReloadType, Roles
<1>4. \A c \in Conns : connLims[c] # 0 => connLims[c] \in cached
  OBVIOUS
<1>5. rl.old = 0 => cached \subseteq late
  BY <1>1 DEF TrafficIInv, ConnsOK
<1>6. change => T = cached
  OBVIOUS
<1> HIDE DEF cached
<1>7. /\ heap' \in [Lims -> Nat]
      /\ \A l \in Lims \ T : heap'[l] = heap[l] /\ (l \in late <=> l \in late')
      /\ \A l \in T : heap'[l] = rl.old /\ (heap'[l] > 0 \/ l \in late')
      /\ late' \subseteq Lims
  BY <1>1, <1>3, <1>5, ReloadType
<1>8. /\ connLims' \in [Conns -> 0..MaxLims] /\ \A c \in Conns : connLims'[c] \in {connLims[c], 0}
  BY <1>1, ReloadType
<1>9. gen = rules.conn /\ (rl.old # gen => before = rl.old)
  BY <1>1 DEF TrafficIInv, ConnsOK
<1>10. ConnsOK'
  <2>1. ASSUME NEW c \in Conns
        PROVE  /\ connLims'[c] \in {0} \cup late' \/ heap'[connLims'[c]] \in {gen, before}
               /\ gen = 0 => connLims'[c] \in {0} \cup late'
    <3>1. CASE rules.conn = 0
      BY <1>1, <3>1
    <3>2. CASE rules.conn # 0
      <4>1. connLims'[c] = connLims[c] /\ gen # 0
        BY <1>1, <1>9, <3>2
      <4>2. CASE connLims[c] = 0
        BY <4>1, <4>2
      <4>3. CASE connLims[c] # 0 /\ change
        BY <1>4, <1>6, <1>7, <1>9, <4>1, <4>3
      <4>4. CASE connLims[c] # 0 /\ ~change
        <5>1. rl.old = gen /\ T = {}
          BY <1>9, <3>2, <4>4, ReloadType
        <5>2. connLims[c] \in {0} \cup late \/ heap[connLims[c]] \in {gen, before}
          BY <5>1 DEF TrafficIInv, ConnsOK
        <5>3. connLims[c] \in Lims
          BY <4>4, ReloadType
        <5> QED BY <1>7, <4>1, <5>1, <5>2, <5>3
      <4> QED BY <4>2, <4>3, <4>4
    <3> QED BY <3>1, <3>2
  <2> QED BY <1>1, <1>2, <1>9, <2>1 DEF ConnsOK
<1> HIDE DEF T
<1>11. ServiceOK'
  <2>1. all # 0 => all \notin T
    BY <1>3 DEF TrafficIInv, Apart
  <2> QED BY <1>1, <1>7, <2>1, ServiceLeft
<1>12. \A l \in T : heap'[l] > 0 \/ (l \in late' /\ l \in OfConns)
  BY <1>3, <1>7
<1>14. /\ hostLims' \in [Hosts -> 0..MaxLims] /\ rules' \in Rule
       /\ \A h \in Hosts : {hostLims'[h], rl'.snap[h]} \subseteq OfHost(h) \cup {0}
       /\ gen' \in Nat /\ ranger' \in [Hosts -> Nat] /\ before' \in Nat
       /\ served' \in BOOLEAN /\ (served' => served /\ (rl'.n > 0 => rules'.all > 0))
  BY <1>1, <1>2, ReloadType
<1>15. /\ {} \cup {} \subseteq Lims \ Used /\ {} \cap {} = {} /\ {} \cup {} \subseteq T /\ T \subseteq Lims
       /\ all' \in {all, 0} \cup {}
  BY <1>1, <1>3
<1>13. ReloadStep(T, {}, {}, {})
  BY <1>1, <1>2, <1>7, <1>8, <1>12, <1>14, <1>15 DEF ReloadStep
<1> QED BY <1>2, <1>10, <1>11, <1>13, ReloadKeeps

LEMMA ReloadSnapshotKeeps ==
  ASSUME TrafficIInv, ReloadSnapshot
  PROVE  TrafficIInv'
<1>1. /\ rl.pc = "snap" /\ Overtake
      /\ UNCHANGED <<rules, gen, ranger, heap, all, hostLims, connLims, held, io, late, before, served>>
      /\ rl' = [rl EXCEPT !.pc = "hosts", !.todo = Hosts, !.snap = hostLims]
  BY DEF ReloadSnapshot, tables, caches, history
<1>2. /\ rl' \in ReloadRecord /\ rl'.pc = "hosts" /\ rl'.n = rl.n /\ rl'.snap = hostLims
      /\ rl'.n >= rl.n /\ rl'.todo = Hosts
  <2>1. rl \in ReloadRecord /\ rl.n \in Nat /\ hostLims \in [Hosts -> 0..MaxLims]
    BY ReloadType
  <2>2. /\ rl'.n = rl.n /\ rl' \in ReloadRecord /\ rl'.pc = "hosts" /\ rl'.snap = hostLims
        /\ rl'.todo = Hosts
    BY <1>1, <2>1 DEF ReloadRecord
  <2> QED BY <2>1, <2>2
<1>3. ServiceOK'
  BY <1>1 DEF TrafficIInv, ServiceOK
<1>4. ConnsOK'
  BY <1>1, <1>2 DEF TrafficIInv, ConnsOK
<1>5. ReloadStep({}, {}, {}, {})
  BY <1>1, <1>2, ReloadType DEF ReloadStep
<1> QED BY <1>1, <1>2, <1>3, <1>4, <1>5, ReloadKeeps

(***************************************************************************)
(* A step of a reload for one host sets that host's limiters, and no other *)
(* host's, connection's or the service's: what the invariant says of these *)
(* goes on to hold.                                                        *)
(***************************************************************************)
LEMMA OthersLeft ==
  ASSUME TrafficIInv, NEW h \in Hosts, NEW T, T \subseteq OfHost(h) \cup (Lims \ Used),
         rl.pc = "hosts", rl'.pc = "hosts", rl'.todo = rl.todo \ {h},
         UNCHANGED <<rules, gen, ranger, all, connLims, before>>,
         \A k \in Hosts \ {h} : hostLims'[k] = hostLims[k] /\ rl'.snap[k] = rl.snap[k],
         \A l \in Lims \ T : heap'[l] = heap[l] /\ (l \in late <=> l \in late'),
         HostOK(h)'
  PROVE  /\ ServiceOK' /\ ConnsOK'
         /\ rl'.pc = "idle" => ranger' = rules'.cidr
         /\ \A k \in Hosts :
              /\ rl'.pc = "idle" \/ (rl'.pc = "hosts" /\ k \notin rl'.todo) => HostOK(k)'
              /\ rl'.pc = "hosts" /\ k \in rl'.todo => hostLims'[k] \in {rl'.snap[k]} \cup late'
<1>1. all # 0 => all \notin T
  BY InUse DEF TrafficIInv, Apart
<1>2. T \cap OfConns \subseteq {0}
  BY ApartAt, Roles DEF TrafficIInv
<1>3. ServiceOK'
  BY <1>1, ServiceLeft
<1>4. ConnsOK'
  <2>1. gen = rules.conn
    BY DEF TrafficIInv, ConnsOK
  <2> QED BY <1>2, <2>1, ConnsLeft
<1>5. ASSUME NEW k \in Hosts \ {h}
      PROVE  hostLims[k] # 0 => /\ heap'[hostLims[k]] = heap[hostLims[k]]
                                /\ (hostLims[k] \in late <=> hostLims[k] \in late')
  <2>1. hostLims[k] # 0 => hostLims[k] \in Lims /\ hostLims[k] \notin OfHost(h) /\ hostLims[k] \in Used
    BY Roles, ApartAt, ReloadType DEF TrafficIInv
  <2> QED BY <2>1
<1>6. ASSUME NEW k \in Hosts, k \notin rl'.todo PROVE HostOK(k)'
  <2>1. CASE k = h
    BY <2>1
  <2>2. CASE k # h
    <3>1. HostOK(k) /\ hostLims'[k] = hostLims[k]
      BY <1>6, <2>2 DEF TrafficIInv, HostsOK
    <3> QED BY <1>5, <2>2, <3>1 DEF HostOK, Effective
  <2> QED BY <2>1, <2>2
<1>7. ASSUME NEW k \in Hosts, k \in rl'.todo PROVE hostLims'[k] \in {rl'.snap[k]} \cup late'
  <2>1. k # h /\ k \in rl.todo
    BY <1>7
  <2>2. hostLims[k] \in {rl.snap[k]} \cup late /\ hostLims'[k] = hostLims[k] /\ rl'.snap[k] = rl.snap[k]
    BY <2>1 DEF TrafficIInv, HostsOK
  <2>3. hostLims[k] = 0 => hostLims[k] \notin late
    BY ReloadType
  <2> QED BY <1>5, <2>1, <2>2, <2>3
<1> QED BY <1>3, <1>4, <1>6, <1>7

LEMMA ReloadListedKeeps ==
  ASSUME TrafficIInv, NEW h \in Hosts, ReloadListed(h)
  PROVE  TrafficIInv'
<1> DEFINE n == rules.ip[h]
           l == hostLims[h]
           T == IF l # 0 THEN {l} ELSE IF n > 0 THEN {Fresh} ELSE {}
           H == IF l = 0 /\ n > 0 THEN {Fresh} ELSE {}
           s == IF l # 0 THEN 0 ELSE rl.snap[h]
<1>1. /\ rl.pc = "hosts" /\ h \in rl.todo /\ n # NotListed /\ (l = 0 /\ n > 0 => Room)
      /\ Overtake /\ UNCHANGED <<rules, gen, ranger, all, connLims, held, io, before, served>>
      /\ IF l # 0 /\ n = 0 THEN hostLims' = [hostLims EXCEPT ![h] = 0] /\ heap' = heap
         ELSE IF l # 0 THEN heap' = Set(l, n) /\ hostLims' = hostLims
         ELSE IF n > 0 THEN heap' = Set(Fresh, n) /\ hostLims' = [hostLims EXCEPT ![h] = Fresh]
         ELSE UNCHANGED <<heap, hostLims>>
      /\ late' = late \ (IF l # 0 \/ n <= 0 THEN {l} ELSE {Fresh})
  BY DEF ReloadListed, tables
<1>2. rl' = [rl EXCEPT !.todo = @ \ {h}, !.snap[h] = s]
  BY DEF ReloadListed
<1>3. n \in Nat /\ l \in 0..MaxLims /\ s \in 0..MaxLims /\ s \in OfHost(h) \cup {0}
  BY <1>1, ReloadType
<1>4. l = 0 /\ n > 0 => Fresh \in Lims /\ Fresh \notin Used /\ Fresh # 0
  BY <1>1, FreshIsNew, ReloadType
<1>5. l # 0 => l \in Lims /\ heap[l] > 0 /\ l \in OfHost(h)
  BY <1>3, ReloadType, Roles DEF TrafficIInv, HostsOK
<1> HIDE DEF s
<1>6. /\ rl' \in ReloadRecord /\ rl'.pc = "hosts" /\ rl'.n = rl.n /\ rl'.todo = rl.todo \ {h}
      /\ rl'.snap = [rl.snap EXCEPT ![h] = s]
  <2>1. rl \in ReloadRecord /\ rl.snap \in [Hosts -> 0..MaxLims]
    BY ReloadType
  <2>2. [rl.snap EXCEPT ![h] = s] \in [Hosts -> 0..MaxLims]
    BY <1>3, <2>1
  <2>3. rl' = [rl EXCEPT !.todo = rl.todo \ {h}, !.snap = [rl.snap EXCEPT ![h] = s]]
    BY <1>2, <2>1
  <2> DEFINE sn == [rl.snap EXCEPT ![h] = s]
             td == rl.todo \ {h}
  <2>4. sn \in [Hosts -> 0..MaxLims] /\ td \in SUBSET Hosts /\ rl' = [rl EXCEPT !.todo = td, !.snap = sn]
    BY <2>2, <2>3, ReloadType
  <2> HIDE DEF sn, td
  <2>5. /\ rl' \in ReloadRecord /\ rl'.pc = rl.pc /\ rl'.n = rl.n /\ rl'.todo = td /\ rl'.snap = sn
    BY <2>1, <2>4 DEF ReloadRecord
  <2> QED BY <1>1, <2>5 DEF sn, td
<1>7. /\ heap' \in [Lims -> Nat] /\ hostLims' \in [Hosts -> 0..MaxLims] /\ late' \subseteq Lims
      /\ T \subseteq Lims /\ H \subseteq Lims \ Used /\ H \subseteq T
      /\ T \subseteq OfHost(h) \cup (Lims \ Used)
      /\ \A k \in Lims \ T : heap'[k] = heap[k] /\ (k \in late <=> k \in late')
      /\ \A k \in T : heap'[k] > 0
      /\ \A k \in Hosts \ {h} : hostLims'[k] = hostLims[k]
      /\ hostLims'[h] \in {l, 0} \cup H
  <2>1. /\ heap \in [Lims -> Nat] /\ hostLims \in [Hosts -> 0..MaxLims] /\ late \subseteq Lims
        /\ 0 \in 0..MaxLims /\ \A k \in Lims : k # 0 /\ k \in 0..MaxLims
    BY ReloadType
  <2>2. CASE l # 0 /\ n = 0
    BY <1>1, <1>5, <2>1, <2>2
  <2>3. CASE l # 0 /\ n # 0
    <3>1. heap' = Set(l, n) /\ hostLims' = hostLims /\ late' = late \ {l} /\ T = {l} /\ H = {}
      BY <1>1, <2>3
    <3>2. l \in Lims /\ n \in Nat /\ n > 0 /\ hostLims'[h] = l /\ l \in OfHost(h)
      BY <1>3, <1>5, <2>3, <3>1
    <3> HIDE DEF T, H, l, n
    <3>3. /\ heap' \in [Lims -> Nat] /\ \A k \in Lims \ T : heap'[k] = heap[k]
          /\ \A k \in T : heap'[k] > 0
      BY <2>1, <3>1, <3>2 DEF Set
    <3> QED BY <2>1, <3>1, <3>2, <3>3
  <2>4. CASE l = 0 /\ n > 0
    <3>1. /\ heap' = Set(Fresh, n) /\ hostLims' = [hostLims EXCEPT ![h] = Fresh]
          /\ late' = late \ {Fresh} /\ T = {Fresh} /\ H = {Fresh}
      BY <1>1, <1>3, <2>4
    <3>2. Fresh \in Lims /\ n \in Nat /\ n > 0 /\ Fresh \notin Used
      BY <1>3, <1>4, <2>4
    <3> HIDE DEF T, H, l, n
    <3>3. /\ heap' \in [Lims -> Nat] /\ \A k \in Lims \ T : heap'[k] = heap[k]
          /\ \A k \in T : heap'[k] > 0
      BY <2>1, <3>1, <3>2 DEF Set
    <3> QED BY <2>1, <3>1, <3>2, <3>3
  <2>5. CASE l = 0 /\ ~(n > 0)
    BY <1>1, <1>3, <2>1, <2>5
  <2> QED BY <1>3, <2>2, <2>3, <2>4, <2>5
<1>8. HostOK(h)'
  <2>1. Effective(h)' = Effective(h) /\ rules' = rules
    BY <1>1 DEF Effective
  <2>2. n > 0 => Effective(h) = n
    BY DEF Effective
  <2>3. heap \in [Lims -> Nat] /\ hostLims \in [Hosts -> 0..MaxLims]
    BY ReloadType
  <2>4. CASE l # 0 /\ n = 0
    <3>1. hostLims'[h] = 0
      BY <1>1, <2>3, <2>4
    <3> QED BY <2>1, <2>4, <3>1 DEF HostOK
  <2>5. CASE l # 0 /\ n # 0
    <3>1. hostLims'[h] = l /\ heap'[l] = n
      BY <1>1, <1>5, <2>3, <2>5 DEF Set
    <3> QED BY <1>3, <2>1, <2>2, <2>5, <3>1 DEF HostOK
  <2>6. CASE l = 0 /\ n > 0
    <3>1. hostLims'[h] = Fresh /\ heap'[Fresh] = n
      BY <1>1, <1>4, <2>3, <2>6 DEF Set
    <3> QED BY <1>4, <2>1, <2>2, <2>6, <3>1 DEF HostOK
  <2>7. CASE l = 0 /\ ~(n > 0)
    <3>1. hostLims'[h] = 0
      BY <1>1, <2>7
    <3> QED BY <1>3, <2>1, <2>7, <3>1 DEF HostOK
  <2> QED BY <1>3, <2>4, <2>5, <2>6, <2>7
<1> HIDE DEF T, H, n, l
<1>9. \A k \in Hosts \ {h} : rl'.snap[k] = rl.snap[k]
  BY <1>6, ReloadType
<1>10. /\ ServiceOK' /\ ConnsOK'
       /\ rl'.pc = "idle" => ranger' = rules'.cidr
       /\ \A k \in Hosts :
            /\ rl'.pc = "idle" \/ (rl'.pc = "hosts" /\ k \notin rl'.todo) => HostOK(k)'
            /\ rl'.pc = "hosts" /\ k \in rl'.todo => hostLims'[k] \in {rl'.snap[k]} \cup late'
  BY <1>1, <1>6, <1>7, <1>8, <1>9, OthersLeft
<1>11. \A k \in Hosts : {hostLims'[k], rl'.snap[k]} \subseteq OfHost(k) \cup {0} \cup (IF k = h THEN H ELSE {})
  <2>1. rl'.snap[h] = s
    BY <1>6, ReloadType
  <2>2. l \in OfHost(h) \cup {0}
    BY ReloadType DEF l
  <2> QED BY <1>3, <1>7, <1>9, <2>1, <2>2, ReloadType
<1>12. /\ connLims' \in [Conns -> 0..MaxLims] /\ \A c \in Conns : connLims'[c] \in {connLims[c], 0}
       /\ gen' \in Nat /\ ranger' \in [Hosts -> Nat] /\ before' \in Nat /\ rules' \in Rule
       /\ served' \in BOOLEAN /\ (served' => served /\ (rl'.n > 0 => rules'.all > 0))
       /\ rl'.n >= rl.n
  BY <1>1, <1>6, ReloadType
<1>13. /\ {} \cup H \subseteq Lims \ Used /\ {} \cap H = {} /\ {} \cup H \subseteq T
       /\ all' \in {all, 0} \cup {}
  BY <1>1, <1>7
<1>14. ReloadStep(T, {}, h, H)
  BY <1>1, <1>6, <1>7, <1>11, <1>12, <1>13 DEF ReloadStep
<1> QED BY <1>10, <1>14, ReloadKeeps

LEMMA ReloadUnlistedKeeps ==
  ASSUME TrafficIInv, NEW h \in Hosts, ReloadUnlisted(h)
  PROVE  TrafficIInv'
<1> DEFINE n == rules.cidr[h]
           l == rl.snap[h]
           T == {l} \ {0}
<1>1. /\ rl.pc = "hosts" /\ h \in rl.todo /\ rules.ip[h] = NotListed
      /\ Overtake /\ UNCHANGED <<rules, gen, ranger, all, connLims, held, io, before, served>>
      /\ heap' = IF l # 0 /\ n > 0 THEN Set(l, n) ELSE heap
      /\ hostLims' = IF l # 0 /\ n = 0 THEN [hostLims EXCEPT ![h] = 0] ELSE hostLims
      /\ late' = late \ {l}
  BY DEF ReloadUnlisted, tables
<1>2. rl' = [rl EXCEPT !.todo = @ \ {h}, !.snap[h] = 0]
  BY DEF ReloadUnlisted
<1>3. n \in Nat /\ l \in 0..MaxLims /\ hostLims[h] \in {l} \cup late
  BY <1>1, ReloadType DEF TrafficIInv, HostsOK
<1>4. l # 0 => l \in Lims /\ heap[l] > 0 /\ l \in OfHost(h)
  BY <1>3, ReloadType, Roles DEF TrafficIInv, HostsOK
<1>5. /\ rl' \in ReloadRecord /\ rl'.pc = "hosts" /\ rl'.n = rl.n /\ rl'.todo = rl.todo \ {h}
      /\ rl'.snap = [rl.snap EXCEPT ![h] = 0]
  <2> DEFINE sn == [rl.snap EXCEPT ![h] = 0]
             td == rl.todo \ {h}
  <2>1. rl \in ReloadRecord
    BY ReloadType
  <2>2. sn \in [Hosts -> 0..MaxLims] /\ td \in SUBSET Hosts /\ rl' = [rl EXCEPT !.todo = td, !.snap = sn]
    BY <1>2, ReloadType
  <2> HIDE DEF sn, td
  <2>3. /\ rl' \in ReloadRecord /\ rl'.pc = rl.pc /\ rl'.n = rl.n /\ rl'.todo = td /\ rl'.snap = sn
    BY <2>1, <2>2 DEF ReloadRecord
  <2> QED BY <1>1, <2>3 DEF sn, td
<1>6. /\ heap' \in [Lims -> Nat] /\ hostLims' \in [Hosts -> 0..MaxLims] /\ late' \subseteq Lims
      /\ T \subseteq Lims /\ T \subseteq OfHost(h)
      /\ \A k \in Lims \ T : heap'[k] = heap[k] /\ (k \in late <=> k \in late')
      /\ \A k \in T : heap'[k] > 0
      /\ \A k \in Hosts \ {h} : hostLims'[k] = hostLims[k]
      /\ hostLims'[h] \in {hostLims[h], 0}
  <2>1. /\ heap \in [Lims -> Nat] /\ hostLims \in [Hosts -> 0..MaxLims] /\ late \subseteq Lims
        /\ 0 \in 0..MaxLims /\ \A k \in Lims : k # 0
    BY ReloadType
  <2>2. CASE l # 0
    BY <1>1, <1>3, <1>4, <2>1, <2>2 DEF Set
  <2>3. CASE l = 0
    BY <1>1, <2>1, <2>3
  <2> QED BY <2>2, <2>3
<1>7. HostOK(h)'
  <2>1. Effective(h)' = n /\ rules' = rules
    BY <1>1 DEF Effective, NotListed
  <2>2. /\ heap \in [Lims -> Nat] /\ hostLims \in [Hosts -> 0..MaxLims] /\ late \subseteq Lims
        /\ rules.ip[h] <= 0 /\ \A k \in Lims : k # 0
    BY <1>1, ReloadType DEF NotListed
  <2>3. CASE l # 0 /\ n = 0
    <3>1. hostLims'[h] = 0
      BY <1>1, <2>2, <2>3
    <3> QED BY <2>1, <2>2, <3>1 DEF HostOK
  <2>4. CASE ~(l # 0 /\ n = 0) /\ hostLims[h] # l
    <3>1. hostLims'[h] = hostLims[h] /\ hostLims[h] \in late'
      BY <1>1, <1>3, <2>4
    <3> QED BY <2>1, <3>1, <2>2 DEF HostOK
  <2>5. CASE l # 0 /\ n # 0 /\ hostLims[h] = l
    <3>1. hostLims'[h] = l /\ heap'[l] = n
      BY <1>1, <1>3, <1>4, <2>2, <2>5 DEF Set
    <3> QED BY <2>1, <2>5, <3>1 DEF HostOK
  <2>6. CASE l = 0 /\ hostLims[h] = l
    <3>1. hostLims'[h] = 0
      BY <1>1, <2>6
    <3> QED BY <2>1, <2>2, <3>1 DEF HostOK
  <2> QED BY <2>3, <2>4, <2>5, <2>6
<1> HIDE DEF T, n, l
<1>9. \A k \in Hosts \ {h} : rl'.snap[k] = rl.snap[k]
  BY <1>5, ReloadType
<1>10. /\ ServiceOK' /\ ConnsOK'
       /\ rl'.pc = "idle" => ranger' = rules'.cidr
       /\ \A k \in Hosts :
            /\ rl'.pc = "idle" \/ (rl'.pc = "hosts" /\ k \notin rl'.todo) => HostOK(k)'
            /\ rl'.pc = "hosts" /\ k \in rl'.todo => hostLims'[k] \in {rl'.snap[k]} \cup late'
  <2>1. T \subseteq OfHost(h) \cup (Lims \ Used)
    BY <1>6
  <2> QED BY <1>1, <1>5, <1>6, <1>7, <1>9, <2>1, OthersLeft
<1>11. \A k \in Hosts : {hostLims'[k], rl'.snap[k]} \subseteq OfHost(k) \cup {0} \cup (IF k = h THEN {} ELSE {})
  <2>1. rl'.snap[h] = 0
    BY <1>5, ReloadType
  <2> QED BY <1>6, <1>9, <2>1, ReloadType
<1>12. /\ connLims' \in [Conns -> 0..MaxLims] /\ \A c \in Conns : connLims'[c] \in {connLims[c], 0}
       /\ gen' \in Nat /\ ranger' \in [Hosts -> Nat] /\ before' \in Nat /\ rules' \in Rule
       /\ served' \in BOOLEAN /\ (served' => served /\ (rl'.n > 0 => rules'.all > 0))
       /\ rl'.n >= rl.n
  BY <1>1, <1>5, ReloadType
<1>13. /\ {} \cup {} \subseteq Lims \ Used /\ {} \cap {} = {} /\ {} \cup {} \subseteq T
       /\ all' \in {all, 0} \cup {}
  BY <1>1
<1>14. ReloadStep(T, {}, h, {})
  BY <1>1, <1>5, <1>6, <1>11, <1>12, <1>13 DEF ReloadStep
<1> QED BY <1>10, <1>14, ReloadKeeps

LEMMA ReloadRangerKeeps ==
  ASSUME TrafficIInv, ReloadRanger
  PROVE  TrafficIInv'
<1>1. /\ rl.pc = "hosts" /\ rl.todo = {} /\ Overtake
      /\ UNCHANGED <<rules, gen, heap, all, hostLims, connLims, held, io, late, before, served>>
      /\ ranger' = rules.cidr /\ rl' = [NoReload EXCEPT !.n = rl.n]
  BY DEF ReloadRanger, caches, history
<1>2. /\ rl' \in ReloadRecord /\ rl'.pc = "idle" /\ rl'.n = rl.n /\ rl'.n >= rl.n
      /\ \A h \in Hosts : rl'.snap[h] = 0
  <2>1. rl.n \in Nat /\ 0 \in 0..MaxLims
    BY ReloadType
  <2>2. NoReload \in ReloadRecord /\ NoReload.pc = "idle" /\ \A h \in Hosts : NoReload.snap[h] = 0
    BY <2>1 DEF NoReload, ReloadRecord
  <2>3. rl' \in ReloadRecord /\ rl'.pc = NoReload.pc /\ rl'.n = rl.n /\ rl'.snap = NoReload.snap
    BY <1>1, <2>1, <2>2 DEF ReloadRecord
  <2> QED BY <2>1, <2>2, <2>3
<1>3. ServiceOK'
  BY <1>1 DEF TrafficIInv, ServiceOK
<1>4. ConnsOK'
  BY <1>1, <1>2 DEF TrafficIInv, ConnsOK
<1>5. \A h \in Hosts : HostOK(h)'
  BY <1>1 DEF TrafficIInv, HostsOK, HostOK, Effective
<1>6. ReloadStep({}, {}, {}, {})
  BY <1>1, <1>2, ReloadType DEF ReloadStep
<1> QED BY <1>1, <1>2, <1>3, <1>4, <1>5, <1>6, ReloadKeeps

----------------------------------------------------------------------------
LEMMA Starts ==
  ASSUME TrafficInit
  PROVE  TrafficIInv
<1>1. /\ rules = NoRules /\ heap = [l \in Lims |-> 0] /\ all = 0
      /\ hostLims = [h \in Hosts |-> 0] /\ connLims = [c \in Conns |-> 0]
      /\ gen = 0 /\ ranger = NoRules.cidr /\ rl = NoReload /\ look = [c \in Conns |-> NoLook]
      /\ held = [c \in Conns |-> NoGroup]
      /\ io \in [Conns -> {NoIO(u) : u \in {"read", "write", "packet"}}]
      /\ late = {} /\ before = 0 /\ served = TRUE
  BY DEF TrafficInit
<1>2. MaxLims \in Nat /\ 0 \in 0..MaxLims
  BY TrafficLimiterAssumption
<1>3. /\ NoRules \in Rule /\ NoRules.all = 0 /\ NoRules.cidr = [h \in Hosts |-> 0]
      /\ \A h \in Hosts : NoRules.ip[h] = NotListed
  BY DEF NoRules, Rule
<1>4. /\ NoReload \in ReloadRecord /\ NoReload.pc = "idle" /\ NoReload.n = 0
      /\ \A h \in Hosts : NoReload.snap[h] = 0
  BY <1>2 DEF NoReload, ReloadRecord
<1>5. NoLook \in LookRecord /\ NoLook.pc = "idle" /\ NoLook.grp = {} /\ NoLook.new = 0
  BY <1>2 DEF NoLook, LookRecord
<1>6. ASSUME NEW u \in {"read", "write", "packet"}
      PROVE  NoIO(u) \in IORecord
  <2>1. <<>> \in Seq(Nat) /\ {} \in SUBSET Lims
    OBVIOUS
  <2> QED BY <2>1 DEF NoIO, IORecord
<1>7. \A c \in Conns : /\ io[c] \in IORecord /\ io[c].pc = "idle" /\ io[c].grp = {}
                       /\ io[c].buf = <<>> /\ io[c].rbuf = <<>> /\ io[c].got = <<>> /\ io[c].next = 1
  <2>1. SUFFICES ASSUME NEW c \in Conns
                 PROVE  /\ io[c] \in IORecord /\ io[c].pc = "idle" /\ io[c].grp = {}
                        /\ io[c].buf = <<>> /\ io[c].rbuf = <<>> /\ io[c].got = <<>> /\ io[c].next = 1
    OBVIOUS
  <2>2. PICK u \in {"read", "write", "packet"} : io[c] = NoIO(u)
    BY <1>1
  <2>3. /\ NoIO(u).pc = "idle" /\ NoIO(u).grp = {} /\ NoIO(u).buf = <<>> /\ NoIO(u).rbuf = <<>>
        /\ NoIO(u).got = <<>> /\ NoIO(u).next = 1
    BY DEF NoIO
  <2> QED BY <1>6, <2>2, <2>3
<1>8. TrafficTypeOK
  <2>1. io \in [Conns -> IORecord]
    BY <1>1, <1>7
  <2> QED BY <1>1, <1>2, <1>3, <1>4, <1>5, <2>1 DEF TrafficTypeOK
<1>9. Used \subseteq {0} /\ OfConns \subseteq {0} /\ \A h \in Hosts : OfHost(h) \subseteq {0}
  <2>1. Used \subseteq {0}
    BY <1>1, <1>4, <1>5, <1>7 DEF Used, NoGroup
  <2> QED BY <2>1, Roles
<1>10. Apart /\ InUseOK
  BY <1>1, <1>9 DEF Apart, InUseOK
<1>11. ServiceOK
  BY <1>1, <1>3 DEF ServiceOK
<1>12. HostsOK
  BY <1>1, <1>3, <1>4, <1>9 DEF HostsOK, HostOK, NotListed
<1>13. ConnsOK
  BY <1>1, <1>4 DEF ConnsOK
<1>14. ServedOK
  BY <1>1, <1>4, <1>5 DEF ServedOK, NoGroup
<1>15. \A c \in Conns : LookOK(c)
  BY <1>1, <1>5 DEF LookOK
<1>16. \A c \in Conns : ReadOK(c)
  <2>1. Len(<<>>) = 0 /\ \A n \in Nat : InRow(<<>>, n)
    BY DEF InRow
  <2>2. SUFFICES ASSUME NEW c \in Conns PROVE ReadOK(c)
    OBVIOUS
  <2>3. InRow(<<>>, 1) /\ InRow(<<>>, 0 + 1) /\ InRow(<<>>, 0 + 0 + 1) /\ 1 = 0 + 0 + 0 + 1
    BY <2>1
  <2> QED BY <1>7, <2>1, <2>3 DEF ReadOK
<1> QED BY <1>8, <1>10, <1>11, <1>12, <1>13, <1>14, <1>15, <1>16 DEF TrafficIInv

(***************************************************************************)
(* Every step keeps the invariant.                                         *)
(***************************************************************************)
LEMMA Steps ==
  ASSUME TrafficIInv, [TrafficNext]_trafficVars
  PROVE  TrafficIInv'
<1>1. CASE UNCHANGED trafficVars
  <2>1. /\ UNCHANGED <<rules, gen, ranger, heap, all, hostLims, connLims, rl, look, held, io>>
        /\ UNCHANGED <<late, before, served>>
    BY <1>1 DEF trafficVars, tables, caches, history
  <2>2. TrafficTypeOK' /\ ServiceOK' /\ ConnsOK' /\ ServedOK'
    BY <2>1 DEF TrafficIInv, TrafficTypeOK, ServiceOK, ConnsOK, ServedOK
  <2>3. /\ OfConns' = OfConns /\ Used' = Used
        /\ \A h \in Hosts : OfHost(h)' = OfHost(h) /\ HostOK(h)' = HostOK(h)
    BY <2>1 DEF OfConns, Used, OfHost, HostOK, Effective
  <2>4. Apart' /\ HostsOK' /\ InUseOK'
    BY <2>1, <2>3 DEF TrafficIInv, Apart, HostsOK, InUseOK
  <2>5. \A c \in Conns : LookOK(c)' /\ ReadOK(c)'
    BY <2>1 DEF TrafficIInv, LookOK, ReadOK
  <2> QED BY <2>2, <2>4, <2>5 DEF TrafficIInv
<1>2. CASE Reload
  BY <1>2, ReloadServiceKeeps, ReloadGeneratorKeeps, ReloadConnsKeeps, ReloadSnapshotKeeps,
     ReloadListedKeeps, ReloadUnlistedKeeps, ReloadRangerKeeps DEF Reload
<1>3. ASSUME NEW c \in Conns, LookUp(c) PROVE TrafficIInv'
  BY <1>3, LookServiceKeeps, LookConnKeeps, LookGeneratorKeeps, StoreConnKeeps, LookHostKeeps,
     LookRangerKeeps, StoreHostKeeps, GroupExpiresKeeps, ConnExpiresKeeps DEF LookUp
<1>4. ASSUME NEW c \in Conns, NEW k \in 1..MaxData, Read(c, k) \/ Write(c, k) \/ Packet(c, k) PROVE TrafficIInv'
  BY <1>4, ReadKeeps, WriteKeeps, PacketKeeps, TrafficLimiterAssumption
<1>5. ASSUME NEW c \in Conns, ReadWaited(c) \/ ReadDrained(c) \/ WriteWaited(c) PROVE TrafficIInv'
  BY <1>5, ReadWaitedKeeps, ReadDrainedKeeps, WriteWaitedKeeps
<1> QED BY <1>1, <1>2, <1>3, <1>4, <1>5 DEF TrafficNext

(***************************************************************************)
(* The invariant that the three properties below follow from.              *)
(***************************************************************************)
THEOREM Sound == TrafficSpec => []TrafficIInv
<1>1. TrafficInit => TrafficIInv
  BY Starts
<1>2. TrafficIInv /\ [TrafficNext]_trafficVars => TrafficIInv'
  BY Steps
<1> QED BY <1>1, <1>2, PTL DEF TrafficSpec

(***************************************************************************)
(* Between two reloads every cached limiter has the limit in force, for    *)
(* any sequence of rule sets, however look-ups come between the steps of a *)
(* reload (limiter.go, reload and In/Out).                                 *)
(***************************************************************************)
THEOREM RulesAlwaysInForce == TrafficSpec => []RulesInForce
<1>1. TrafficIInv => RulesInForce
  <2>1. SUFFICES ASSUME TrafficIInv PROVE RulesInForce
    OBVIOUS
  <2>2. TrafficTypeOK
    BY <2>1 DEF TrafficIInv
  <2>3. ASSUME rl.pc = "idle"
        PROVE  /\ ServiceOK /\ \A h \in Hosts : HostOK(h)
               /\ \A c \in Conns : connLims[c] \in {0} \cup late \/ heap[connLims[c]] \in {gen, before}
    BY <2>1, <2>3 DEF TrafficIInv, HostsOK, ConnsOK
  <2> QED BY <2>2, <2>3 DEF RulesInForce
<1> QED BY <1>1, Sound, PTL

(***************************************************************************)
(* No limiter that a Read or Write waits for lets nothing pass, but one    *)
(* stored by a look-up that overlapped with a reload (limiterGroup.Wait).  *)
(***************************************************************************)
THEOREM NobodyBlocked == TrafficSpec => []NothingBlocked
<1>1. TrafficIInv => NothingBlocked
  <2>1. SUFFICES ASSUME TrafficIInv, NEW c \in Conns, NEW l \in io[c].grp \ late PROVE heap[l] > 0
    BY DEF NothingBlocked
  <2>2. l \in Lims
    <3>1. io[c].grp \in SUBSET Lims
      BY <2>1, IOType
    <3> QED BY <2>1, <3>1
  <2>3. l \in Used
    BY <2>1, InUse
  <2>4. l # 0
    BY <2>1, <2>2, ReloadType
  <2> QED BY <2>1, <2>3, <2>4 DEF TrafficIInv, InUseOK
<1> QED BY <1>1, Sound, PTL

(***************************************************************************)
(* Read returns the bytes of a connection in order, whatever its limiters  *)
(* let pass each time and however they change (serverConn.Read).           *)
(***************************************************************************)
THEOREM ReadsInOrder == TrafficSpec => []ReadInOrder
<1>1. TrafficIInv => ReadInOrder
  <2>1. SUFFICES ASSUME TrafficIInv, served, NEW c \in Conns, io[c].use = "read",
                        NEW i \in 1..Len(io[c].got)
                 PROVE  io[c].got[i] = i
    BY DEF ReadInOrder
  <2>2. InRow(io[c].got, 1)
    BY <2>1, IOType DEF ReadOK
  <2>3. io[c].got[i] = 1 + i - 1 /\ i \in Int
    BY <2>2, IOType DEF InRow
  <2> QED BY <2>3
<1> QED BY <1>1, Sound, PTL

=============================================================================
