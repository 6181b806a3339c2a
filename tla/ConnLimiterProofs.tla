------------------------- MODULE ConnLimiterProofs -------------------------
(***************************************************************************)
(* Proofs about ConnLimiter for any number of accept loops, connections    *)
(* and hosts, any rule sets and any number of reloads.                     *)
(***************************************************************************)
EXTENDS MC_ConnLimiter, FiniteSetTheorems, SequenceTheorems, TLAPS

Cell == [limit: Nat, current: Int]

(* Every set of connections is finite and its size a natural number. *)
LEMMA SubsetFinite ==
  ASSUME NEW S \in SUBSET Conns
  PROVE  IsFiniteSet(S) /\ Cardinality(S) \in Nat
BY ConnLimiterAssumption, FS_Subset, FS_CardinalityType

(* A limiter has a limit and a counter. *)
LEMMA CellType ==
  ASSUME TypeOK, NEW k \in 1..Len(heap)
  PROVE  heap[k] \in Cell /\ heap[k].current \in Int /\ heap[k].limit \in Nat
<1>1. heap \in Seq(Cell)
  BY DEF TypeOK, Cell
<1>2. heap[k] \in Cell
  BY <1>1
<1> QED
  BY <1>2 DEF Cell

(* What adding n to the counter of limiter l does to the limiters. *)
LEMMA BumpEffect ==
  ASSUME TypeOK, NEW l \in 1..Len(heap), NEW n \in Int, heap' = Bump(l, n)
  PROVE  /\ heap' \in Seq(Cell)
         /\ Len(heap') = Len(heap)
         /\ heap'[l].current = heap[l].current + n
         /\ \A k \in 1..Len(heap) : heap'[k].limit = heap[k].limit
         /\ \A k \in 1..Len(heap) : k # l => heap'[k] = heap[k]
         /\ heap[l].current \in Int /\ heap[l].limit \in Nat
<1>1. heap \in Seq(Cell)
  BY DEF TypeOK, Cell
<1>2. heap[l] \in Cell
  BY <1>1
<1>3. [heap[l] EXCEPT !.current = @ + n] \in Cell
  BY <1>2 DEF Cell
<1> QED
  BY <1>1, <1>2, <1>3 DEF Bump, Cell

(***************************************************************************)
(* One connection c moves on to y and counts in one more limiter l: the    *)
(* counter still covers its holders.                                       *)
(***************************************************************************)
LEMMA CountUp ==
  ASSUME IInv, NEW c \in Conns, NEW l \in 1..Len(heap), NEW y,
         heap' = Bump(l, 1), conns' = [conns EXCEPT ![c] = y],
         Slots(y) \subseteq Slots(conns[c]) \cup {l}
  PROVE  CountOK'
<1> USE DEF IInv
<1>1. TypeOK
  OBVIOUS
<1>2. conns'[c] = y /\ \A d \in Conns : d # c => conns'[d] = conns[d]
  BY DEF TypeOK
<1>3. /\ Len(heap') = Len(heap)
      /\ heap'[l].current = heap[l].current + 1
      /\ heap[l].current \in Int
      /\ \A k \in 1..Len(heap) : k # l => heap'[k] = heap[k]
  BY BumpEffect
<1>4. SUFFICES ASSUME NEW k \in 1..Len(heap)
               PROVE  heap'[k].current >= Cardinality(Holders(k)')
  BY <1>3 DEF CountOK
<1>5. heap[k].current >= Cardinality(Holders(k))
  BY DEF CountOK
<1>6. /\ IsFiniteSet(Holders(k)) /\ Cardinality(Holders(k)) \in Nat
      /\ IsFiniteSet(Holders(k)') /\ Cardinality(Holders(k)') \in Nat
  <2>1. Holders(k) \in SUBSET Conns /\ Holders(k)' \in SUBSET Conns
    BY DEF Holders
  <2> QED BY <2>1, SubsetFinite
<1>7. CASE k # l
  <2>1. Holders(k)' \in SUBSET Holders(k)
    BY <1>2, <1>7 DEF Holders, Held
  <2>2. Cardinality(Holders(k)') <= Cardinality(Holders(k))
    BY <2>1, <1>6, FS_Subset
  <2>3. heap'[k] = heap[k] /\ heap[k].current \in Int
    BY <1>1, <1>3, <1>7, CellType
  <2> QED BY <2>2, <2>3, <1>5, <1>6
<1>8. CASE k = l
  <2>1. Holders(l)' \in SUBSET (Holders(l) \cup {c})
    BY <1>2 DEF Holders, Held
  <2>2. /\ IsFiniteSet(Holders(l) \cup {c})
        /\ Cardinality(Holders(l) \cup {c}) \in Nat
        /\ Cardinality(Holders(l) \cup {c}) <= Cardinality(Holders(l)) + 1
    <3>1. /\ IsFiniteSet(Holders(l) \cup {c})
          /\ Cardinality(Holders(l) \cup {c}) =
               IF c \in Holders(l) THEN Cardinality(Holders(l))
               ELSE Cardinality(Holders(l)) + 1
      BY <1>6, <1>8, FS_AddElement
    <3> QED BY <3>1, <1>6, <1>8
  <2>3. Cardinality(Holders(l)') <= Cardinality(Holders(l) \cup {c})
    BY <2>1, <2>2, FS_Subset
  <2> QED BY <2>2, <2>3, <1>3, <1>5, <1>6, <1>8
<1> QED BY <1>7, <1>8

(* The same when the connection gives limiter l back, and holds no more. *)
LEMMA CountDown ==
  ASSUME IInv, NEW c \in Conns, NEW l \in 1..Len(heap), NEW y,
         heap' = Bump(l, -1), conns' = [conns EXCEPT ![c] = y],
         l \in Slots(conns[c]), Slots(y) \subseteq Slots(conns[c]) \ {l}
  PROVE  CountOK'
<1> USE DEF IInv
<1>1. TypeOK
  OBVIOUS
<1>2. conns'[c] = y /\ \A d \in Conns : d # c => conns'[d] = conns[d]
  BY DEF TypeOK
<1>3. /\ Len(heap') = Len(heap)
      /\ heap'[l].current = heap[l].current + (-1)
      /\ heap[l].current \in Int
      /\ \A k \in 1..Len(heap) : k # l => heap'[k] = heap[k]
  BY BumpEffect
<1>4. SUFFICES ASSUME NEW k \in 1..Len(heap)
               PROVE  heap'[k].current >= Cardinality(Holders(k)')
  BY <1>3 DEF CountOK
<1>5. heap[k].current >= Cardinality(Holders(k))
  BY DEF CountOK
<1>6. /\ IsFiniteSet(Holders(k)) /\ Cardinality(Holders(k)) \in Nat
      /\ IsFiniteSet(Holders(k)') /\ Cardinality(Holders(k)') \in Nat
  <2>1. Holders(k) \in SUBSET Conns /\ Holders(k)' \in SUBSET Conns
    BY DEF Holders
  <2> QED BY <2>1, SubsetFinite
<1>7. CASE k # l
  <2>1. Holders(k)' \in SUBSET Holders(k)
    BY <1>2, <1>7 DEF Holders, Held
  <2>2. Cardinality(Holders(k)') <= Cardinality(Holders(k))
    BY <2>1, <1>6, FS_Subset
  <2>3. heap'[k] = heap[k] /\ heap[k].current \in Int
    BY <1>1, <1>3, <1>7, CellType
  <2> QED BY <2>2, <2>3, <1>5, <1>6
<1>8. CASE k = l
  <2>1. Holders(l)' \in SUBSET (Holders(l) \ {c})
    BY <1>2 DEF Holders, Held
  <2>2. c \in Holders(l)
    BY DEF Holders, Held
  <2>3. /\ IsFiniteSet(Holders(l) \ {c})
        /\ Cardinality(Holders(l) \ {c}) = Cardinality(Holders(l)) - 1
    BY <2>2, <1>6, <1>8, FS_RemoveElement
  <2>4. Cardinality(Holders(l)') <= Cardinality(Holders(l) \ {c})
    BY <2>1, <2>3, FS_Subset
  <2> QED BY <2>3, <2>4, <1>3, <1>5, <1>6, <1>8
<1> QED BY <1>7, <1>8

(***************************************************************************)
(* Nobody newly passes a limiter in a step in which limits stay and no     *)
(* connection passes more than before.                                     *)
(***************************************************************************)
LEMMA PassedKept ==
  ASSUME IInv, NEW c \in Conns, NEW y,
         Len(heap') = Len(heap),
         \A k \in 1..Len(heap) : heap'[k].limit = heap[k].limit,
         conns' = [conns EXCEPT ![c] = y],
         Passing(y) \subseteq Passing(conns[c])
  PROVE  PassedOK'
<1> USE DEF IInv
<1>1. SUFFICES ASSUME NEW k \in 1..Len(heap)
               PROVE  Cardinality(Passed(k)') <= heap[k].limit
  BY DEF PassedOK
<1>2. Passed(k)' \in SUBSET Passed(k)
  BY DEF Passed, TypeOK
<1>3. Passed(k) \in SUBSET Conns
  BY DEF Passed
<1>4. /\ Cardinality(Passed(k)') <= Cardinality(Passed(k))
      /\ Cardinality(Passed(k)) \in Nat /\ Cardinality(Passed(k)') \in Nat
  BY <1>2, <1>3, SubsetFinite, FS_Subset
<1>5. Cardinality(Passed(k)) <= heap[k].limit /\ heap[k].limit \in Nat
  BY CellType DEF PassedOK
<1> QED BY <1>4, <1>5

ConnRec == [pc: PC, svc: Services \cup {"none"}, host: Nat,
            grp: Seq(Nat), lo: Nat, hi: Nat, closes: Nat, epoch: Nat]

(***************************************************************************)
(* A step of connection c alone, from conns[c] to y, that changes at most  *)
(* the counter of one limiter keeps everything but the two counts.         *)
(***************************************************************************)
LEMMA OneConnStep ==
  ASSUME IInv, NEW c \in Conns, NEW y \in ConnRec, ConnOK(y),
         heap' \in Seq(Cell), Len(heap') = Len(heap),
         conns' = [conns EXCEPT ![c] = y],
         UNCHANGED <<gen, limits, cfg, epoch>>
  PROVE  TypeOK' /\ GenOK' /\ CacheOK' /\ \A d \in Conns : ConnOK(conns[d])'
<1> USE DEF IInv
<1>1. TypeOK'
  BY DEF TypeOK, ConnRec, Cell
<1>2. GenOK'
  BY DEF GenOK
<1>3. CacheOK'
  BY DEF CacheOK, GroupOK
<1>4. ASSUME NEW d \in Conns PROVE ConnOK(conns[d])'
  <2>1. conns'[d] = IF d = c THEN y ELSE conns[d]
    BY DEF TypeOK
  <2>2. ConnOK(conns[d])
    OBVIOUS
  <2> QED BY <2>1, <2>2 DEF ConnOK, GroupOK
<1> QED BY <1>1, <1>2, <1>3, <1>4

(* Allow(1) on one limiter of the group. *)
LEMMA AllowAddKeeps ==
  ASSUME IInv, NEW c \in Conns, AllowAdd(c)
  PROVE  IInv'
<1>x. PICK x : x = conns[c]
  OBVIOUS
<1>l. PICK l : l = x.grp[x.hi + 1]
  OBVIOUS
<1>q. PICK q : q = IF Over(l, 1) THEN "undo"
                  ELSE IF x.hi + 1 = Len(x.grp) THEN "open" ELSE "add"
  OBVIOUS
<1>y. PICK y : y = [x EXCEPT !.hi = x.hi + 1, !.pc = q]
  OBVIOUS
<1>1. x \in ConnRec /\ x.pc = "add" /\ ConnOK(x)
  BY <1>x DEF IInv, TypeOK, ConnRec, AllowAdd
<1>2. /\ x.lo = 1 /\ x.hi \in Nat /\ x.hi < Len(x.grp)
      /\ Len(x.grp) \in Nat /\ GroupOK(x.grp) /\ x.grp \in Seq(Nat)
  BY <1>1 DEF ConnOK, ConnRec
<1>3. l \in 1..Len(heap)
  BY <1>l, <1>2 DEF GroupOK
<1>4. /\ heap' = Bump(l, 1)
      /\ conns' = [conns EXCEPT ![c] = y]
      /\ UNCHANGED <<gen, limits, cfg, epoch>>
  BY <1>x, <1>l, <1>q, <1>y DEF AllowAdd, IInv, TypeOK
<1>5. y \in ConnRec
  <2>1. q \in PC
    BY <1>q DEF PC
  <2>2. x.hi + 1 \in Nat
    BY <1>2
  <2> QED BY <2>1, <2>2, <1>y, <1>1, Zenon DEF ConnRec
<1>6. /\ y.pc = q /\ y.hi = x.hi + 1 /\ y.lo = 1 /\ y.grp = x.grp
  BY <1>y, <1>1, <1>2 DEF ConnRec
<1>7. ConnOK(y)
  BY <1>q, <1>2, <1>6 DEF ConnOK
<1>8. /\ heap' \in Seq(Cell) /\ Len(heap') = Len(heap)
      /\ heap'[l].current = heap[l].current + 1
      /\ \A k \in 1..Len(heap) : heap'[k].limit = heap[k].limit
      /\ heap[l].current \in Int /\ heap[l].limit \in Nat
  BY <1>3, <1>4, BumpEffect DEF IInv
<1>9. TypeOK' /\ GenOK' /\ CacheOK' /\ \A d \in Conns : ConnOK(conns[d])'
  BY <1>x, <1>4, <1>5, <1>7, <1>8, OneConnStep
<1>10. Slots(y) = Slots(x) \cup {l}
  <2>1. 1..(x.hi + 1) = (1..x.hi) \cup {x.hi + 1}
    BY <1>2
  <2> QED BY <2>1, <1>l, <1>2, <1>6 DEF Slots
<1>11. CountOK'
  BY <1>x, <1>3, <1>4, <1>10, CountUp
<1>12. PassedOK'
  <2>1. Passing(x) = Slots(x)
    BY <1>1 DEF Passing
  <2>2. CASE Over(l, 1)
    <3>1. Passing(y) = {y.grp[k] : k \in 1..(y.hi - 1)}
      BY <2>2, <1>q, <1>6 DEF Passing
    <3>2. Passing(y) \subseteq Slots(x)
      BY <3>1, <1>2, <1>6 DEF Slots
    <3> QED BY <3>2, <2>1, <1>x, <1>4, <1>8, PassedKept
  <2>3. CASE ~Over(l, 1)
    <3>1. Passing(y) = Slots(x) \cup {l}
      BY <2>3, <1>q, <1>6, <1>10 DEF Passing
    <3>2. conns'[c] = y /\ \A d \in Conns : d # c => conns'[d] = conns[d]
      BY <1>4 DEF IInv, TypeOK
    <3>3. SUFFICES ASSUME NEW k \in 1..Len(heap)
                   PROVE  Cardinality(Passed(k)') <= heap[k].limit
      BY <1>8 DEF PassedOK
    <3>4. CASE k # l
      <4>1. Passed(k)' \in SUBSET Passed(k)
        BY <3>1, <3>2, <3>4, <2>1, <1>x DEF Passed
      <4>2. Passed(k) \in SUBSET Conns
        BY DEF Passed
      <4>3. /\ Cardinality(Passed(k)') <= Cardinality(Passed(k))
            /\ Cardinality(Passed(k)) \in Nat /\ Cardinality(Passed(k)') \in Nat
        BY <4>1, <4>2, SubsetFinite, FS_Subset
      <4>4. Cardinality(Passed(k)) <= heap[k].limit /\ heap[k].limit \in Nat
        BY CellType DEF PassedOK, IInv
      <4> QED BY <4>3, <4>4
    <3>5. CASE k = l
      <4>1. ASSUME NEW d \in Conns PROVE Passing(conns'[d]) \subseteq Slots(conns'[d])
        <5>1. ConnOK(conns[d])'
          BY <1>9
        <5>2. conns'[d] \in ConnRec
          BY <1>9 DEF TypeOK, ConnRec
        <5>3. PICK z : z = conns'[d]
          OBVIOUS
        <5>4. z.pc = "undo" => z.lo = 1 /\ z.hi \in Nat
          BY <5>1, <5>2, <5>3 DEF ConnOK, ConnRec
        <5>5. 1..(z.hi - 1) \subseteq z.lo .. z.hi \/ z.pc # "undo"
          BY <5>4
        <5>6. Passing(z) \subseteq Slots(z)
          BY <5>5 DEF Passing, Slots
        <5> QED BY <5>3, <5>6
      <4>2. Passed(l)' \in SUBSET Holders(l)' /\ Holders(l)' \in SUBSET Conns
        BY <4>1 DEF Passed, Holders, Held
      <4>3. /\ Cardinality(Passed(l)') <= Cardinality(Holders(l)')
            /\ Cardinality(Passed(l)') \in Nat /\ Cardinality(Holders(l)') \in Nat
        BY <4>2, SubsetFinite, FS_Subset
      <4>4. heap'[l].current >= Cardinality(Holders(l)')
        BY <1>3, <1>8, <1>11 DEF CountOK
      <4>5. heap'[l].current <= heap[l].limit
        BY <2>3, <1>8 DEF Over
      <4> QED BY <4>3, <4>4, <4>5, <3>5, <1>8
    <3> QED BY <3>4, <3>5
  <2> QED BY <2>2, <2>3
<1> QED BY <1>9, <1>11, <1>12 DEF IInv

(* A closed or refused connection is idle and holds nothing. *)
LEMMA IdleHoldsNothing ==
  Idle \in ConnRec /\ ConnOK(Idle) /\ Slots(Idle) = {} /\ Passing(Idle) = {}
<1>1. Idle \in ConnRec
  <2>1. "idle" \in PC /\ <<>> \in Seq(Nat) /\ "none" \in Services \cup {"none"}
    BY DEF PC
  <2>2. 0 \in Nat /\ 1 \in Nat
    OBVIOUS
  <2> QED BY <2>1, <2>2 DEF Idle, ConnRec
<1>2. ConnOK(Idle)
  BY DEF Idle, ConnOK, GroupOK
<1>3. 1..0 = {}
  OBVIOUS
<1>4. Slots(Idle) = {}
  BY <1>3 DEF Slots, Idle
<1>5. Passing(Idle) = Slots(Idle)
  BY DEF Passing, Idle
<1> QED BY <1>1, <1>2, <1>4, <1>5

(* Allow(-1), or the withdrawal of Allow(1), on a limiter the connection holds. *)
LEMMA GiveBackKeeps ==
  ASSUME IInv, NEW c \in Conns, NEW l \in 1..Len(heap), NEW y \in ConnRec, ConnOK(y),
         heap' = Bump(l, -1), conns' = [conns EXCEPT ![c] = y],
         UNCHANGED <<gen, limits, cfg, epoch>>,
         l \in Slots(conns[c]), Slots(y) \subseteq Slots(conns[c]) \ {l},
         Passing(y) \subseteq Passing(conns[c])
  PROVE  IInv'
<1>1. /\ heap' \in Seq(Cell) /\ Len(heap') = Len(heap)
      /\ \A k \in 1..Len(heap) : heap'[k].limit = heap[k].limit
  BY BumpEffect DEF IInv
<1>2. TypeOK' /\ GenOK' /\ CacheOK' /\ \A d \in Conns : ConnOK(conns[d])'
  BY <1>1, OneConnStep
<1>3. CountOK'
  BY CountDown
<1>4. PassedOK'
  BY <1>1, PassedKept
<1> QED BY <1>2, <1>3, <1>4 DEF IInv

(* llimiter.Allow takes its own addition back. *)
LEMMA AllowUndoKeeps ==
  ASSUME IInv, NEW c \in Conns, AllowUndo(c)
  PROVE  IInv'
<1>x. PICK x : x = conns[c]
  OBVIOUS
<1>l. PICK l : l = x.grp[x.hi]
  OBVIOUS
<1>y. PICK y : y = IF x.hi = 1 THEN Idle ELSE [x EXCEPT !.hi = x.hi - 1, !.pc = "roll"]
  OBVIOUS
<1>1. x \in ConnRec /\ x.pc = "undo" /\ ConnOK(x)
  BY <1>x DEF IInv, TypeOK, ConnRec, AllowUndo
<1>2. /\ x.lo = 1 /\ x.hi \in 1..Len(x.grp) /\ x.hi \in Nat
      /\ Len(x.grp) \in Nat /\ GroupOK(x.grp) /\ x.grp \in Seq(Nat)
  BY <1>1 DEF ConnOK, ConnRec
<1>3. l \in 1..Len(heap)
  BY <1>l, <1>2 DEF GroupOK
<1>4. /\ heap' = Bump(l, -1) /\ conns' = [conns EXCEPT ![c] = y]
      /\ UNCHANGED <<gen, limits, cfg, epoch>>
  BY <1>x, <1>l, <1>y DEF AllowUndo
<1>5. l \in Slots(x)
  BY <1>l, <1>2 DEF Slots
<1>6. CASE x.hi = 1
  BY <1>x, <1>y, <1>3, <1>4, <1>5, <1>6, GiveBackKeeps, IdleHoldsNothing
<1>7. CASE x.hi # 1
  <2>1. y = [x EXCEPT !.hi = x.hi - 1, !.pc = "roll"]
    BY <1>y, <1>7
  <2>2. "roll" \in PC /\ x.hi - 1 \in Nat
    BY <1>2 DEF PC
  <2>3. y \in ConnRec
    BY <2>1, <2>2, <1>1, Zenon DEF ConnRec
  <2>4. y.pc = "roll" /\ y.hi = x.hi - 1 /\ y.lo = 1 /\ y.grp = x.grp
    BY <2>1, <1>1, <1>2 DEF ConnRec
  <2>5. ConnOK(y)
    BY <2>4, <1>2, <1>7 DEF ConnOK
  <2>6. /\ Slots(y) = {x.grp[k] : k \in 1..(x.hi - 1)}
        /\ Passing(y) = Slots(y)
    BY <2>4 DEF Slots, Passing
  <2>7. Passing(x) = {x.grp[k] : k \in 1..(x.hi - 1)}
    BY <1>1 DEF Passing
  <2>8. ASSUME NEW k \in 1..(x.hi - 1) PROVE x.grp[k] \in Slots(x) \ {l}
    <3>1. k \in 1..x.hi /\ k \in 1..Len(x.grp) /\ k # x.hi
      BY <1>2
    <3> QED BY <3>1, <1>l, <1>2 DEF Slots, GroupOK
  <2>9. Slots(y) \subseteq Slots(x) \ {l}
    BY <2>6, <2>8
  <2> QED BY <2>3, <2>5, <2>6, <2>7, <2>9, <1>x, <1>3, <1>4, <1>5, GiveBackKeeps
<1> QED BY <1>6, <1>7

(***************************************************************************)
(* Rollback and Release give the first limiter they hold back: the rest of *)
(* the interval does not contain it.                                       *)
(***************************************************************************)
LEMMA TailOfSlots ==
  ASSUME NEW x \in ConnRec, GroupOK(x.grp), x.lo \in 1..x.hi, x.hi <= Len(x.grp)
  PROVE  /\ x.grp[x.lo] \in 1..Len(heap)
         /\ x.grp[x.lo] \in Slots(x)
         /\ {x.grp[k] : k \in (x.lo + 1)..x.hi} \subseteq Slots(x) \ {x.grp[x.lo]}
<1>1. x.lo \in Nat /\ x.hi \in Nat /\ Len(x.grp) \in Nat /\ x.lo \in 1..Len(x.grp)
  BY DEF ConnRec
<1>2. x.grp[x.lo] \in 1..Len(heap)
  BY <1>1 DEF GroupOK
<1>3. x.grp[x.lo] \in Slots(x)
  BY <1>1 DEF Slots
<1>4. ASSUME NEW k \in (x.lo + 1)..x.hi PROVE x.grp[k] \in Slots(x) \ {x.grp[x.lo]}
  <2>1. k \in x.lo..x.hi /\ k \in 1..Len(x.grp) /\ k # x.lo
    BY <1>1
  <2> QED BY <2>1, <1>1 DEF Slots, GroupOK
<1> QED BY <1>2, <1>3, <1>4

(* limiterGroup.Allow gives the limiters before the refusing one back. *)
LEMMA RollbackKeeps ==
  ASSUME IInv, NEW c \in Conns, Rollback(c)
  PROVE  IInv'
<1>x. PICK x : x = conns[c]
  OBVIOUS
<1>l. PICK l : l = x.grp[x.lo]
  OBVIOUS
<1>y. PICK y : y = IF x.lo = x.hi THEN Idle ELSE [x EXCEPT !.lo = x.lo + 1]
  OBVIOUS
<1>1. x \in ConnRec /\ x.pc = "roll" /\ ConnOK(x)
  BY <1>x DEF IInv, TypeOK, ConnRec, Rollback
<1>2. /\ GroupOK(x.grp) /\ x.lo \in 1..x.hi /\ x.hi <= Len(x.grp)
      /\ x.hi \in Nat /\ x.lo \in Nat
  BY <1>1 DEF ConnOK, ConnRec
<1>3. /\ l \in 1..Len(heap) /\ l \in Slots(x)
      /\ {x.grp[k] : k \in (x.lo + 1)..x.hi} \subseteq Slots(x) \ {l}
  BY <1>l, <1>1, <1>2, TailOfSlots
<1>4. /\ heap' = Bump(l, -1) /\ conns' = [conns EXCEPT ![c] = y]
      /\ UNCHANGED <<gen, limits, cfg, epoch>>
  BY <1>x, <1>l, <1>y DEF Rollback
<1>5. CASE x.lo = x.hi
  BY <1>x, <1>y, <1>3, <1>4, <1>5, GiveBackKeeps, IdleHoldsNothing
<1>6. CASE x.lo # x.hi
  <2>1. y = [x EXCEPT !.lo = x.lo + 1] /\ x.lo + 1 \in Nat
    BY <1>y, <1>2, <1>6
  <2>2. y \in ConnRec
    BY <2>1, <1>1, Zenon DEF ConnRec
  <2>3. y.pc = "roll" /\ y.lo = x.lo + 1 /\ y.hi = x.hi /\ y.grp = x.grp
    BY <2>1, <1>1 DEF ConnRec
  <2>4. ConnOK(y)
    BY <2>3, <1>2, <1>6 DEF ConnOK
  <2>5. Slots(y) \subseteq Slots(x) \ {l}
    BY <2>3, <1>3 DEF Slots
  <2>6. Passing(y) = Slots(y) /\ Passing(x) = Slots(x)
    BY <2>3, <1>1 DEF Passing
  <2> QED BY <2>2, <2>4, <2>5, <2>6, <1>x, <1>3, <1>4, GiveBackKeeps
<1> QED BY <1>5, <1>6

(***************************************************************************)
(* One limiter of serverConn.Close, for a handler that closes once.  When  *)
(* the group stops early the connection is gone all the same.              *)
(***************************************************************************)
LEMMA ReleaseKeeps ==
  ASSUME HandlerCloses = 1, IInv, NEW c \in Conns, Release(c)
  PROVE  IInv'
<1>x. PICK x : x = conns[c]
  OBVIOUS
<1>l. PICK l : l = x.grp[x.lo]
  OBVIOUS
<1>y. PICK y : y = IF Over(l, -1) \/ x.lo = x.hi THEN Idle ELSE [x EXCEPT !.lo = x.lo + 1]
  OBVIOUS
<1>1. x \in ConnRec /\ x.pc = "release" /\ ConnOK(x)
  BY <1>x DEF IInv, TypeOK, ConnRec, Release
<1>2. /\ GroupOK(x.grp) /\ x.lo \in 1..x.hi /\ x.hi = Len(x.grp)
      /\ x.hi \in Nat /\ x.lo \in Nat /\ x.closes > 0 /\ x.closes \in Nat
  BY <1>1 DEF ConnOK, ConnRec
<1>3. /\ l \in 1..Len(heap) /\ l \in Slots(x)
      /\ {x.grp[k] : k \in (x.lo + 1)..x.hi} \subseteq Slots(x) \ {l}
  BY <1>l, <1>1, <1>2, TailOfSlots
<1>4. Closed(x) = Idle
  BY <1>2 DEF Closed
<1>5. /\ heap' = Bump(l, -1) /\ conns' = [conns EXCEPT ![c] = y]
      /\ UNCHANGED <<gen, limits, cfg, epoch>>
  BY <1>x, <1>l, <1>y, <1>4 DEF Release
<1>6. CASE y = Idle
  BY <1>x, <1>3, <1>5, <1>6, GiveBackKeeps, IdleHoldsNothing
<1>7. CASE y # Idle
  <2>1. y = [x EXCEPT !.lo = x.lo + 1] /\ x.lo + 1 \in Nat /\ x.lo # x.hi
    BY <1>y, <1>2, <1>7
  <2>2. y \in ConnRec
    BY <2>1, <1>1, Zenon DEF ConnRec
  <2>3. /\ y.pc = "release" /\ y.lo = x.lo + 1 /\ y.hi = x.hi /\ y.grp = x.grp
        /\ y.closes = x.closes
    BY <2>1, <1>1 DEF ConnRec
  <2>4. ConnOK(y)
    BY <2>1, <2>3, <1>2 DEF ConnOK
  <2>5. Slots(y) \subseteq Slots(x) \ {l}
    BY <2>3, <1>3 DEF Slots
  <2>6. Passing(y) = Slots(y) /\ Passing(x) = Slots(x)
    BY <2>3, <1>1 DEF Passing
  <2> QED BY <2>2, <2>4, <2>5, <2>6, <1>x, <1>3, <1>5, GiveBackKeeps
<1> QED BY <1>6, <1>7

(* A connection only holds limiters that exist. *)
LEMMA SlotsExist ==
  ASSUME IInv, NEW d \in Conns
  PROVE  /\ Slots(conns[d]) \subseteq 1..Len(heap)
         /\ Passing(conns[d]) \subseteq 1..Len(heap)
<1>x. PICK x : x = conns[d]
  OBVIOUS
<1>1. x \in ConnRec /\ ConnOK(x)
  BY <1>x DEF IInv, TypeOK, ConnRec
<1>2. x.lo \in Nat /\ x.hi \in Nat /\ Len(x.grp) \in Nat
  BY <1>1 DEF ConnRec
<1>3. x.lo..x.hi \subseteq 1..Len(x.grp)
  BY <1>1, <1>2 DEF ConnOK, ConnRec, PC
<1>4. ASSUME x.pc = "undo" PROVE 1..(x.hi - 1) \subseteq 1..Len(x.grp)
  BY <1>1, <1>2, <1>4 DEF ConnOK
<1>5. \A k \in 1..Len(x.grp) : x.grp[k] \in 1..Len(heap)
  BY <1>1 DEF ConnOK, GroupOK
<1>6. Slots(x) \subseteq 1..Len(heap)
  BY <1>3, <1>5 DEF Slots
<1>7. Passing(x) \subseteq 1..Len(heap)
  BY <1>4, <1>5, <1>6 DEF Passing
<1> QED BY <1>x, <1>6, <1>7

(***************************************************************************)
(* New limiters with an unused counter, while no connection holds more     *)
(* than before, keep both counts.                                          *)
(***************************************************************************)
LEMMA GrowKeepsCounts ==
  ASSUME IInv, heap' \in Seq(Cell), Len(heap') >= Len(heap),
         \A k \in 1..Len(heap) : heap'[k] = heap[k],
         \A k \in 1..Len(heap') : k > Len(heap) => heap'[k].current = 0,
         \A d \in Conns : /\ Slots(conns'[d]) \subseteq Slots(conns[d])
                          /\ Passing(conns'[d]) \subseteq Passing(conns[d])
  PROVE  CountOK' /\ PassedOK'
<1>1. Len(heap) \in Nat /\ Len(heap') \in Nat
  BY DEF IInv, TypeOK
<1>2. SUFFICES ASSUME NEW k \in 1..Len(heap')
               PROVE  /\ heap'[k].current >= Cardinality(Holders(k)')
                      /\ Cardinality(Passed(k)') <= heap'[k].limit
  BY DEF CountOK, PassedOK
<1>3. Holders(k)' \in SUBSET Holders(k) /\ Passed(k)' \in SUBSET Passed(k)
  BY DEF Holders, Held, Passed
<1>4. Holders(k) \in SUBSET Conns /\ Passed(k) \in SUBSET Conns
  BY DEF Holders, Passed
<1>5. /\ Cardinality(Holders(k)') <= Cardinality(Holders(k))
      /\ Cardinality(Passed(k)') <= Cardinality(Passed(k))
      /\ Cardinality(Holders(k)) \in Nat /\ Cardinality(Holders(k)') \in Nat
      /\ Cardinality(Passed(k)) \in Nat /\ Cardinality(Passed(k)') \in Nat
  BY <1>3, <1>4, SubsetFinite, FS_Subset
<1>6. CASE k \in 1..Len(heap)
  <2>1. /\ heap[k].current >= Cardinality(Holders(k))
        /\ Cardinality(Passed(k)) <= heap[k].limit
        /\ heap'[k] = heap[k]
    BY <1>6 DEF IInv, CountOK, PassedOK
  <2>2. heap[k].current \in Int /\ heap[k].limit \in Nat
    BY <1>6, CellType DEF IInv
  <2> QED BY <2>1, <2>2, <1>5
<1>7. CASE k \notin 1..Len(heap)
  <2>1. Holders(k) = {} /\ Passed(k) = {}
    BY <1>7, SlotsExist DEF Holders, Held, Passed
  <2>2. Holders(k)' = {} /\ Passed(k)' = {}
    BY <2>1, <1>3
  <2>3. heap'[k].current = 0 /\ heap'[k] \in Cell
    BY <1>1, <1>7
  <2>4. heap'[k].limit \in Nat
    BY <2>3 DEF Cell
  <2> QED BY <2>2, <2>3, <2>4, FS_EmptySet
<1> QED BY <1>6, <1>7

(* The first limiter of Close is still to be given back: all are held. *)
LEMMA CloseKeeps ==
  ASSUME IInv, NEW c \in Conns, Close(c)
  PROVE  IInv'
<1>x. PICK x : x = conns[c]
  OBVIOUS
<1>y. PICK y : y = [x EXCEPT !.pc = "release", !.lo = 1, !.closes = x.closes + 1]
  OBVIOUS
<1>1. x \in ConnRec /\ ConnOK(x) /\ x.pc = "open"
  BY <1>x DEF IInv, TypeOK, ConnRec, Close, ConnOK
<1>2. /\ x.lo = 1 /\ x.hi = Len(x.grp) /\ x.hi > 0 /\ x.hi \in Nat
      /\ GroupOK(x.grp) /\ x.closes \in Nat
  BY <1>1 DEF ConnOK, ConnRec
<1>3. conns' = [conns EXCEPT ![c] = y] /\ UNCHANGED <<heap, gen, limits, cfg, epoch>>
  BY <1>x, <1>y DEF Close, IInv, TypeOK
<1>4. "release" \in PC /\ 1 \in Nat /\ x.closes + 1 \in Nat
  BY <1>2 DEF PC
<1>5. y \in ConnRec
  BY <1>4, <1>y, <1>1, Zenon DEF ConnRec
<1>6. /\ y.pc = "release" /\ y.lo = 1 /\ y.hi = x.hi /\ y.grp = x.grp
      /\ y.closes = x.closes + 1
  BY <1>y, <1>1 DEF ConnRec
<1>7. ConnOK(y)
  BY <1>2, <1>6 DEF ConnOK
<1>8. heap \in Seq(Cell)
  BY DEF IInv, TypeOK, Cell
<1>9. TypeOK' /\ GenOK' /\ CacheOK' /\ \A d \in Conns : ConnOK(conns[d])'
  BY <1>3, <1>5, <1>7, <1>8, OneConnStep
<1>10. Slots(y) = Slots(x) /\ Passing(y) = Slots(y) /\ Passing(x) = Slots(x)
  BY <1>1, <1>2, <1>6 DEF Slots, Passing
<1>11. \A d \in Conns : /\ Slots(conns'[d]) \subseteq Slots(conns[d])
                        /\ Passing(conns'[d]) \subseteq Passing(conns[d])
  BY <1>x, <1>3, <1>10 DEF IInv, TypeOK
<1>12. Len(heap) \in Nat
  BY <1>8
<1>13. CountOK' /\ PassedOK'
  BY <1>3, <1>8, <1>11, <1>12, GrowKeepsCounts
<1> QED BY <1>9, <1>13 DEF IInv

(* Limiters are never removed, so a group stays a group of limiters. *)
LEMMA GroupKept ==
  ASSUME NEW CONSTANT g, Len(heap) \in Nat, Len(heap') \in Nat,
         Len(heap') >= Len(heap), GroupOK(g)
  PROVE  GroupOK(g)'
BY DEF GroupOK

(* A reload adds unused limiters and forgets the cached groups. *)
LEMMA ReloadKeeps ==
  ASSUME IInv, Reload
  PROVE  IInv'
<1>c. PICK c \in Configs : /\ cfg' = c
                           /\ heap' = heap \o Singles(c)
                           /\ gen' = Generators(c, Len(heap))
  BY DEF Reload
<1>1. c \in Config /\ NHosts \in Nat
  BY ConnLimiterAssumption
<1>2. heap \in Seq(Cell) /\ Len(heap) \in Nat
  BY DEF IInv, TypeOK, Cell
<1>3. /\ Singles(c) \in Seq(Cell) /\ Len(Singles(c)) = NHosts + 1
      /\ \A k \in 1..(NHosts + 1) : Singles(c)[k].current = 0
  <2>1. ASSUME NEW k \in 1..(NHosts + 1)
        PROVE  (IF k <= NHosts THEN c.ip[k] ELSE c.global) \in Nat
    BY <1>1 DEF Config, Hosts
  <2>2. ASSUME NEW k \in 1..(NHosts + 1)
        PROVE  Singles(c)[k] \in Cell /\ Singles(c)[k].current = 0
    BY <2>1 DEF Singles, NewLimiter, Cell
  <2>3. Singles(c) \in [1..(NHosts + 1) -> Cell]
    BY <2>2 DEF Singles
  <2> QED BY <2>2, <2>3, <1>1
<1>4. /\ heap' \in Seq(Cell) /\ Len(heap') = Len(heap) + NHosts + 1
      /\ Len(heap') \in Nat
      /\ \A k \in 1..Len(heap) : heap'[k] = heap[k]
      /\ \A k \in 1..Len(heap') : k > Len(heap) => heap'[k].current = 0
  <2>t. PICK t : t = Singles(c)
    OBVIOUS
  <2>1. t \in Seq(Cell) /\ Len(t) = NHosts + 1 /\ heap' = heap \o t
    BY <2>t, <1>c, <1>3
  <2>2. heap' \in Seq(Cell) /\ Len(heap') = Len(heap) + NHosts + 1 /\ Len(heap') \in Nat
    <3>1. heap \o t \in Seq(Cell) /\ Len(heap \o t) = Len(heap) + Len(t)
      BY <2>1, <1>2, ConcatProperties
    <3> QED BY <3>1, <2>1, <1>1, <1>2
  <2>3. \A k \in 1..Len(heap) : heap'[k] = heap[k]
    BY <2>1, <1>1, <1>2
  <2>4. ASSUME NEW k \in 1..Len(heap'), k > Len(heap)
        PROVE  heap'[k].current = 0
    <3>1. heap'[k] = t[k - Len(heap)] /\ k - Len(heap) \in 1..(NHosts + 1)
      BY <2>1, <2>2, <2>4, <1>1, <1>2
    <3> QED BY <3>1, <2>t, <1>3
  <2> QED BY <2>2, <2>3, <2>4
<1>5. /\ gen' \in [ip: [Hosts -> Nat], cidr: [Hosts -> Nat], perIP: Nat, global: Nat]
      /\ GenOK'
  <2>1. ASSUME NEW h \in Hosts
        PROVE  /\ c.ip[h] \in Nat
               /\ (IF c.ip[h] > 0 THEN Len(heap) + h ELSE 0) \in Nat
    BY <1>1, <1>2 DEF Config, Hosts
  <2>2. (IF c.global > 0 THEN Len(heap) + NHosts + 1 ELSE 0) \in Nat
    BY <1>1, <1>2
  <2>3. gen' \in [ip: [Hosts -> Nat], cidr: [Hosts -> Nat], perIP: Nat, global: Nat]
    BY <2>1, <2>2, <1>1, <1>c DEF Generators, Config
  <2>4. gen'.global = IF c.global > 0 THEN Len(heap) + NHosts + 1 ELSE 0
    BY <1>c DEF Generators
  <2>5. \A h \in Hosts : gen'.ip[h] = IF c.ip[h] > 0 THEN Len(heap) + h ELSE 0
    BY <1>c DEF Generators
  <2>6. gen'.global \in 0..Len(heap')
    BY <2>4, <1>1, <1>2, <1>4
  <2>7. ASSUME NEW h \in Hosts
        PROVE  /\ gen'.ip[h] \in 0..Len(heap')
               /\ gen'.ip[h] # 0 => gen'.ip[h] # gen'.global
    BY <2>4, <2>5, <1>1, <1>2, <1>4 DEF Hosts
  <2> QED BY <2>3, <2>6, <2>7 DEF GenOK
<1>6. limits' = [h \in Hosts |-> NoGroup] /\ UNCHANGED conns
  BY DEF Reload
<1>7. epoch' \in 0..MaxReloads
  BY ConnLimiterAssumption DEF Reload, IInv, TypeOK
<1>8. NoGroup \in Seq(Nat)
  BY DEF NoGroup
<1>9. TypeOK'
  BY <1>c, <1>4, <1>5, <1>6, <1>7, <1>8 DEF IInv, TypeOK, Cell
<1>10. CacheOK'
  BY <1>6 DEF CacheOK
<1>11. ASSUME NEW d \in Conns PROVE ConnOK(conns[d])'
  <2>x. PICK x : x = conns[d]
    OBVIOUS
  <2>1. ConnOK(x) /\ conns'[d] = x
    BY <2>x, <1>6 DEF IInv
  <2>2. GroupOK(x.grp)
    BY <2>1 DEF ConnOK
  <2>3. PICK g : g = x.grp
    OBVIOUS
  <2>4. GroupOK(g)'
    BY <2>2, <2>3, <1>1, <1>2, <1>4, GroupKept
  <2> QED BY <2>1, <2>3, <2>4 DEF ConnOK
<1>12. CountOK' /\ PassedOK'
  BY <1>1, <1>2, <1>4, <1>6, GrowKeepsCounts
<1> QED BY <1>5, <1>9, <1>10, <1>11, <1>12 DEF IInv

(***************************************************************************)
(* What a look-up leaves behind: the heap H has grown by unused limiters   *)
(* only, and the group g names limiters of H, each once.                   *)
(***************************************************************************)
GoodLookup(H, g) ==
  /\ H \in Seq(Cell) /\ Len(H) \in Nat /\ Len(H) >= Len(heap)
  /\ \A k \in 1..Len(heap) : H[k] = heap[k]
  /\ \A k \in 1..Len(H) : k > Len(heap) => H[k].current = 0
  /\ g \in Seq(Nat)
  /\ \A k \in 1..Len(g) : g[k] \in 1..Len(H)
  /\ \A j, k \in 1..Len(g) : g[j] = g[k] => j = k

(* What Limiter(key) allocates, and that it names every limiter once. *)
LEMMA LimiterFacts ==
  ASSUME IInv, NEW h \in Hosts
  PROVE  GoodLookup(HeapFor(h), Limiter(h))
<1>H. PICK H : H = HeapFor(h)
  OBVIOUS
<1>g. PICK g : g = Limiter(h)
  OBVIOUS
<1> SUFFICES GoodLookup(H, g)
  BY <1>H, <1>g
<1>1. heap \in Seq(Cell) /\ Len(heap) \in Nat
  BY DEF IInv, TypeOK, Cell
<1>2. OwnLimit(h) \in Nat /\ gen.ip[h] \in Nat /\ gen.global \in Nat
  BY DEF IInv, TypeOK, OwnLimit
<1>3. /\ gen.ip[h] \in 0..Len(heap) /\ gen.global \in 0..Len(heap)
      /\ gen.ip[h] # 0 => gen.ip[h] # gen.global
  BY DEF IInv, GenOK
<1>4. CASE limits[h] # NoGroup
  <2>1. H = heap /\ g = limits[h]
    BY <1>H, <1>g, <1>4 DEF HeapFor, Limiter
  <2>2. GroupOK(limits[h]) /\ limits[h] \in Seq(Nat)
    BY <1>4 DEF IInv, CacheOK, TypeOK
  <2> QED BY <2>1, <2>2, <1>1 DEF GroupOK, GoodLookup
<1>5. CASE limits[h] = NoGroup
  <2>n. PICK n : n = NewLimiter(OwnLimit(h))
    OBVIOUS
  <2>1. n \in Cell /\ n.current = 0
    BY <2>n, <1>2 DEF NewLimiter, Cell
  <2>2. H = IF gen.ip[h] = 0 /\ OwnLimit(h) > 0 THEN Append(heap, n) ELSE heap
    BY <1>H, <2>n, <1>5 DEF HeapFor
  <2>3. /\ H \in Seq(Cell) /\ Len(H) \in Nat /\ Len(H) >= Len(heap)
        /\ \A k \in 1..Len(heap) : H[k] = heap[k]
        /\ \A k \in 1..Len(H) : k > Len(heap) => H[k].current = 0
        /\ gen.ip[h] = 0 /\ OwnLimit(h) > 0 => Len(H) = Len(heap) + 1
    <3>1. CASE gen.ip[h] = 0 /\ OwnLimit(h) > 0
      BY <2>1, <2>2, <3>1, <1>1
    <3>2. CASE ~(gen.ip[h] = 0 /\ OwnLimit(h) > 0)
      BY <2>2, <3>2, <1>1
    <3> QED BY <3>1, <3>2
  <2>o. PICK o : o = OwnLimiter(h)
    OBVIOUS
  <2>a. PICK a : a = gen.global
    OBVIOUS
  <2>4. o \in 0..Len(H) /\ (o # 0 => o # a) /\ a \in 0..Len(H) /\ o \in Nat /\ a \in Nat
    <3>1. CASE gen.ip[h] # 0
      BY <3>1, <2>o, <2>a, <2>3, <1>1, <1>2, <1>3 DEF OwnLimiter
    <3>2. CASE gen.ip[h] = 0 /\ OwnLimit(h) > 0
      BY <3>2, <2>o, <2>a, <2>3, <1>1, <1>2, <1>3 DEF OwnLimiter
    <3>3. CASE gen.ip[h] = 0 /\ ~(OwnLimit(h) > 0)
      BY <3>3, <2>o, <2>a, <2>3, <1>1, <1>2, <1>3 DEF OwnLimiter
    <3> QED BY <3>1, <3>2, <3>3
  <2>5. \/ o = 0 /\ a = 0 /\ g = <<>>
        \/ o = 0 /\ a # 0 /\ g = <<a>>
        \/ o # 0 /\ a = 0 /\ g = <<o>>
        \/ o # 0 /\ a # 0 /\ g = <<a, o>>
        \/ o # 0 /\ a # 0 /\ g = <<o, a>>
    BY <1>g, <2>o, <2>a, <1>5 DEF Limiter, LimiterGroup
  <2>6. /\ g \in Seq(Nat)
        /\ \A k \in 1..Len(g) : g[k] \in 1..Len(H)
        /\ \A j, k \in 1..Len(g) : g[j] = g[k] => j = k
    <3>1. CASE o = 0 /\ a = 0 /\ g = <<>>
      BY <3>1
    <3>2. CASE o = 0 /\ a # 0 /\ g = <<a>>
      BY <3>2, <2>3, <2>4
    <3>3. CASE o # 0 /\ a = 0 /\ g = <<o>>
      BY <3>3, <2>3, <2>4
    <3>4. CASE o # 0 /\ a # 0 /\ g = <<a, o>>
      BY <3>4, <2>3, <2>4
    <3>5. CASE o # 0 /\ a # 0 /\ g = <<o, a>>
      BY <3>5, <2>3, <2>4
    <3> QED BY <2>5, <3>1, <3>2, <3>3, <3>4, <3>5
  <2> QED BY <2>3, <2>6 DEF GoodLookup
<1> QED BY <1>4, <1>5

(* The listener looks a limiter up: it holds nothing of it yet. *)
LEMMA AcceptKeeps ==
  ASSUME IInv, NEW s \in Services, NEW c \in Conns, NEW h \in Hosts, Accept(s, c, h)
  PROVE  IInv'
<1>H. PICK H : H = HeapFor(h)
  OBVIOUS
<1>g. PICK g : g = Limiter(h)
  OBVIOUS
<1>y. PICK y : y = IF g = <<>> THEN conns[c]
                   ELSE [pc |-> "add", svc |-> s, host |-> h, grp |-> g,
                         lo |-> 1, hi |-> 0, closes |-> 0, epoch |-> epoch]
  OBVIOUS
<1>1. /\ heap' = H /\ limits' = [limits EXCEPT ![h] = g]
      /\ conns' = [conns EXCEPT ![c] = y]
      /\ UNCHANGED <<gen, cfg, epoch>>
  BY <1>H, <1>g, <1>y DEF Accept, IInv, TypeOK
<1>2. /\ heap' \in Seq(Cell) /\ Len(heap') \in Nat /\ Len(heap') >= Len(heap)
      /\ \A k \in 1..Len(heap) : heap'[k] = heap[k]
      /\ \A k \in 1..Len(heap') : k > Len(heap) => heap'[k].current = 0
      /\ g \in Seq(Nat) /\ GroupOK(g)'
  <2>1. GoodLookup(H, g)
    BY <1>H, <1>g, LimiterFacts
  <2> QED BY <2>1, <1>1 DEF GoodLookup, GroupOK
<1>3. Len(heap) \in Nat
  BY DEF IInv, TypeOK
<1>4. y \in ConnRec
  <2>1. CASE g = <<>>
    BY <2>1, <1>y DEF IInv, TypeOK, ConnRec
  <2>2. CASE g # <<>>
    <3>1. /\ "add" \in PC /\ s \in Services \cup {"none"} /\ 0 \in Nat /\ 1 \in Nat
          /\ h \in Nat /\ epoch \in Nat
      BY ConnLimiterAssumption DEF PC, Hosts, IInv, TypeOK
    <3> QED BY <3>1, <2>2, <1>y, <1>2 DEF ConnRec
  <2> QED BY <2>1, <2>2
<1>5. /\ Slots(y) \subseteq Slots(conns[c]) /\ Passing(y) \subseteq Passing(conns[c])
      /\ ConnOK(y)'
  <2>1. CASE g = <<>>
    <3>1. y = conns[c] /\ ConnOK(y)
      BY <2>1, <1>y DEF IInv
    <3>2. PICK gg : gg = y.grp
      OBVIOUS
    <3>3. GroupOK(gg)'
      BY <3>1, <3>2, <1>2, <1>3, GroupKept DEF ConnOK
    <3> QED BY <3>1, <3>2, <3>3 DEF ConnOK
  <2>2. CASE g # <<>>
    <3>1. y.pc = "add" /\ y.lo = 1 /\ y.hi = 0 /\ y.grp = g
      BY <2>2, <1>y
    <3>2. Len(g) > 0
      BY <2>2, <1>2
    <3>3. ConnOK(y)'
      BY <3>1, <3>2, <1>2 DEF ConnOK
    <3>4. 1..0 = {}
      OBVIOUS
    <3>5. Slots(y) = {} /\ Passing(y) = {}
      BY <3>1, <3>4 DEF Slots, Passing
    <3> QED BY <3>3, <3>5
  <2> QED BY <2>1, <2>2
<1>6. TypeOK'
  BY <1>1, <1>2, <1>4 DEF IInv, TypeOK, Cell, ConnRec
<1>7. GenOK'
  BY <1>1, <1>2, <1>3 DEF IInv, GenOK
<1>8. CacheOK'
  <2>1. SUFFICES ASSUME NEW i \in Hosts PROVE limits'[i] = NoGroup \/ GroupOK(limits[i])'
    BY DEF CacheOK
  <2>2. limits'[i] = IF i = h THEN g ELSE limits[i]
    BY <1>1 DEF IInv, TypeOK
  <2>3. CASE i = h
    BY <2>2, <2>3, <1>2 DEF GroupOK
  <2>4. CASE i # h
    <3>1. PICK gg : gg = limits[i]
      OBVIOUS
    <3>2. gg = NoGroup \/ GroupOK(gg)
      BY <3>1 DEF IInv, CacheOK
    <3>3. gg = NoGroup \/ GroupOK(gg)'
      BY <3>2, <1>2, <1>3, GroupKept
    <3> QED BY <3>1, <3>3, <2>2, <2>4 DEF GroupOK
  <2> QED BY <2>3, <2>4
<1>9. ASSUME NEW d \in Conns PROVE ConnOK(conns[d])'
  <2>1. conns'[d] = IF d = c THEN y ELSE conns[d]
    BY <1>1 DEF IInv, TypeOK
  <2>2. CASE d = c
    BY <2>1, <2>2, <1>5 DEF ConnOK, GroupOK
  <2>3. CASE d # c
    <3>x. PICK x : x = conns[d]
      OBVIOUS
    <3>1. ConnOK(x) /\ conns'[d] = x
      BY <3>x, <2>1, <2>3 DEF IInv
    <3>2. PICK gg : gg = x.grp
      OBVIOUS
    <3>3. GroupOK(gg)'
      BY <3>1, <3>2, <1>2, <1>3, GroupKept DEF ConnOK
    <3> QED BY <3>1, <3>2, <3>3 DEF ConnOK
  <2> QED BY <2>2, <2>3
<1>10. CountOK' /\ PassedOK'
  <2>1. \A d \in Conns : /\ Slots(conns'[d]) \subseteq Slots(conns[d])
                         /\ Passing(conns'[d]) \subseteq Passing(conns[d])
    BY <1>1, <1>5 DEF IInv, TypeOK
  <2> QED BY <2>1, <1>2, GrowKeepsCounts
<1> QED BY <1>6, <1>7, <1>8, <1>9, <1>10 DEF IInv

(* NewConnLimiter leaves the limiter in a state that satisfies the invariant. *)
LEMMA InitIInv == Init => IInv
<1> SUFFICES ASSUME Init PROVE IInv
  OBVIOUS
<1>c. PICK c : c = cfg
  OBVIOUS
<1>1. c \in Config /\ NHosts \in Nat /\ heap = Singles(c) /\ gen = Generators(c, 0)
  BY <1>c, ConnLimiterAssumption DEF Init
<1>2. /\ heap \in Seq(Cell) /\ Len(heap) = NHosts + 1
      /\ \A k \in 1..Len(heap) : heap[k] \in Cell /\ heap[k].current = 0
  <2>1. ASSUME NEW k \in 1..(NHosts + 1)
        PROVE  (IF k <= NHosts THEN c.ip[k] ELSE c.global) \in Nat
    BY <1>1 DEF Config, Hosts
  <2>2. ASSUME NEW k \in 1..(NHosts + 1) PROVE heap[k] \in Cell /\ heap[k].current = 0
    BY <2>1, <1>1 DEF Singles, NewLimiter, Cell
  <2>3. heap \in [1..(NHosts + 1) -> Cell]
    BY <2>2, <1>1 DEF Singles
  <2> QED BY <2>2, <2>3, <1>1
<1>3. /\ gen \in [ip: [Hosts -> Nat], cidr: [Hosts -> Nat], perIP: Nat, global: Nat]
      /\ GenOK
  <2>1. ASSUME NEW h \in Hosts
        PROVE  /\ c.ip[h] \in Nat
               /\ (IF c.ip[h] > 0 THEN 0 + h ELSE 0) \in Nat
    BY <1>1 DEF Config, Hosts
  <2>2. (IF c.global > 0 THEN 0 + NHosts + 1 ELSE 0) \in Nat
    BY <1>1
  <2>3. gen \in [ip: [Hosts -> Nat], cidr: [Hosts -> Nat], perIP: Nat, global: Nat]
    BY <2>1, <2>2, <1>1 DEF Generators, Config
  <2>4. gen.global = IF c.global > 0 THEN 0 + NHosts + 1 ELSE 0
    BY <1>1 DEF Generators
  <2>5. \A h \in Hosts : gen.ip[h] = IF c.ip[h] > 0 THEN 0 + h ELSE 0
    BY <1>1 DEF Generators
  <2>6. gen.global \in 0..Len(heap)
    BY <2>4, <1>1, <1>2
  <2>7. ASSUME NEW h \in Hosts
        PROVE  /\ gen.ip[h] \in 0..Len(heap)
               /\ gen.ip[h] # 0 => gen.ip[h] # gen.global
    BY <2>4, <2>5, <1>1, <1>2 DEF Hosts
  <2> QED BY <2>3, <2>6, <2>7 DEF GenOK
<1>4. limits = [h \in Hosts |-> NoGroup] /\ conns = [d \in Conns |-> Idle]
  BY DEF Init
<1>5. NoGroup \in Seq(Nat)
  BY DEF NoGroup
<1>6. cfg \in Configs /\ epoch \in 0..MaxReloads
  BY ConnLimiterAssumption DEF Init
<1>7. TypeOK
  BY <1>2, <1>3, <1>4, <1>5, <1>6, IdleHoldsNothing DEF TypeOK, Cell, ConnRec
<1>8. CacheOK /\ \A d \in Conns : ConnOK(conns[d])
  BY <1>4, IdleHoldsNothing DEF CacheOK
<1>9. ASSUME NEW k \in 1..Len(heap)
      PROVE  /\ heap[k].current >= Cardinality(Holders(k))
             /\ Cardinality(Passed(k)) <= heap[k].limit
  <2>1. Holders(k) = {} /\ Passed(k) = {}
    BY <1>4, IdleHoldsNothing DEF Holders, Held, Passed
  <2>2. heap[k].current = 0 /\ heap[k].limit \in Nat
    BY <1>2 DEF Cell
  <2> QED BY <2>1, <2>2, FS_EmptySet
<1> QED BY <1>3, <1>7, <1>8, <1>9 DEF IInv, CountOK, PassedOK

(* A step that changes nothing. *)
LEMMA StutterKeeps ==
  ASSUME IInv, UNCHANGED vars
  PROVE  IInv'
BY DEF IInv, vars, TypeOK, GenOK, CacheOK, GroupOK, ConnOK, CountOK, Holders,
       Held, PassedOK, Passed

(* Every step preserves the invariant when handlers close once. *)
LEMMA NextKeeps ==
  ASSUME HandlerCloses = 1, IInv, [Next]_vars
  PROVE  IInv'
<1>1. CASE Reload
  BY <1>1, ReloadKeeps
<1>2. ASSUME NEW s \in Services, NEW c \in Conns, NEW h \in Hosts, Accept(s, c, h)
      PROVE  IInv'
  BY <1>2, AcceptKeeps
<1>3. ASSUME NEW c \in Conns, AllowAdd(c) PROVE IInv'
  BY <1>3, AllowAddKeeps
<1>4. ASSUME NEW c \in Conns, AllowUndo(c) PROVE IInv'
  BY <1>4, AllowUndoKeeps
<1>5. ASSUME NEW c \in Conns, Rollback(c) PROVE IInv'
  BY <1>5, RollbackKeeps
<1>6. ASSUME NEW c \in Conns, Close(c) PROVE IInv'
  BY <1>6, CloseKeeps
<1>7. ASSUME NEW c \in Conns, Release(c) PROVE IInv'
  BY <1>7, ReleaseKeeps
<1>8. CASE UNCHANGED vars
  BY <1>8, StutterKeeps
<1> QED BY <1>1, <1>2, <1>3, <1>4, <1>5, <1>6, <1>7, <1>8 DEF Next

(* The invariant contains the claim: an admitted connection has passed. *)
LEMMA IInvBoundsOpen == IInv => OpenWithinLimit
<1> SUFFICES ASSUME IInv, NEW l \in 1..Len(heap)
             PROVE  Cardinality(Open(l)) <= heap[l].limit
  BY DEF OpenWithinLimit
<1>1. Open(l) \in SUBSET Passed(l) /\ Passed(l) \in SUBSET Conns
  BY DEF Open, Passed, Passing, Held
<1>2. /\ Cardinality(Open(l)) <= Cardinality(Passed(l))
      /\ Cardinality(Open(l)) \in Nat /\ Cardinality(Passed(l)) \in Nat
  BY <1>1, SubsetFinite, FS_Subset
<1>3. Cardinality(Passed(l)) <= heap[l].limit /\ heap[l].limit \in Nat
  BY CellType DEF IInv, PassedOK
<1> QED BY <1>2, <1>3

(***************************************************************************)
(* limiter/conn admits no connection too many: for handlers that close     *)
(* their connection once, no limiter ever has more admitted connections    *)
(* than its limit, for any number of accept loops that share it, any rule  *)
(* sets and reloads at any moment; and the state keeps its type.           *)
(***************************************************************************)
THEOREM AdmissionSafe ==
  ASSUME HandlerCloses = 1
  PROVE  Spec => [](TypeOK /\ OpenWithinLimit)
<1>1. Init => IInv
  BY InitIInv
<1>2. IInv /\ [Next]_vars => IInv'
  BY NextKeeps
<1>3. IInv => TypeOK /\ OpenWithinLimit
  BY IInvBoundsOpen DEF IInv
<1> QED BY <1>1, <1>2, <1>3, PTL DEF Spec

----------------------------------------------------------------------------
(***************************************************************************)
(* The counters are exact when one service accepts, and the limits of the  *)
(* hosts are kept: proofs about the instances' history of rule sets.       *)
(***************************************************************************)

(* The counter of limiter l and what connection c holds grow together. *)
LEMMA ExactUp ==
  ASSUME IInv, NoneAbove, NEW c \in Conns, NEW l \in 1..Len(heap), NEW y,
         heap' = Bump(l, 1), conns' = [conns EXCEPT ![c] = y],
         l \notin Slots(conns[c]), Slots(y) = Slots(conns[c]) \cup {l}
  PROVE  NoneAbove'
<1>1. TypeOK
  BY DEF IInv
<1>2. conns'[c] = y /\ \A d \in Conns : d # c => conns'[d] = conns[d]
  BY <1>1 DEF TypeOK
<1>3. /\ Len(heap') = Len(heap)
      /\ heap'[l].current = heap[l].current + 1
      /\ heap[l].current \in Int
      /\ \A k \in 1..Len(heap) : k # l => heap'[k] = heap[k]
  BY <1>1, BumpEffect
<1>4. SUFFICES ASSUME NEW k \in 1..Len(heap)
               PROVE  heap'[k].current <= Cardinality(Holders(k)')
  BY <1>3 DEF NoneAbove
<1>5. heap[k].current <= Cardinality(Holders(k)) /\ heap[k].current \in Int
  BY <1>1, CellType DEF NoneAbove
<1>6. /\ IsFiniteSet(Holders(k)) /\ Cardinality(Holders(k)) \in Nat
      /\ IsFiniteSet(Holders(k)') /\ Cardinality(Holders(k)') \in Nat
  <2>1. Holders(k) \in SUBSET Conns /\ Holders(k)' \in SUBSET Conns
    BY DEF Holders
  <2> QED BY <2>1, SubsetFinite
<1>7. CASE k # l
  <2>1. Holders(k) \subseteq Holders(k)'
    BY <1>2 DEF Holders, Held
  <2>2. Cardinality(Holders(k)) <= Cardinality(Holders(k)')
    BY <2>1, <1>6, FS_Subset
  <2> QED BY <2>2, <1>3, <1>5, <1>6, <1>7
<1>8. CASE k = l
  <2>1. c \notin Holders(l) /\ Holders(l) \cup {c} \subseteq Holders(l)'
    BY <1>2 DEF Holders, Held
  <2>2. /\ IsFiniteSet(Holders(l) \cup {c})
        /\ Cardinality(Holders(l) \cup {c}) = Cardinality(Holders(l)) + 1
    BY <2>1, <1>6, <1>8, FS_AddElement
  <2>3. Cardinality(Holders(l) \cup {c}) <= Cardinality(Holders(l)')
    BY <2>1, <2>2, <1>6, <1>8, FS_Subset
  <2> QED BY <2>2, <2>3, <1>3, <1>5, <1>6, <1>8
<1> QED BY <1>7, <1>8

(* And shrink together, when it gives l back and keeps the rest. *)
LEMMA ExactDown ==
  ASSUME IInv, NoneAbove, NEW c \in Conns, NEW l \in 1..Len(heap), NEW y,
         heap' = Bump(l, -1), conns' = [conns EXCEPT ![c] = y],
         Slots(conns[c]) = Slots(y) \cup {l}
  PROVE  NoneAbove'
<1>1. TypeOK
  BY DEF IInv
<1>2. conns'[c] = y /\ \A d \in Conns : d # c => conns'[d] = conns[d]
  BY <1>1 DEF TypeOK
<1>3. /\ Len(heap') = Len(heap)
      /\ heap'[l].current = heap[l].current + (-1)
      /\ heap[l].current \in Int
      /\ \A k \in 1..Len(heap) : k # l => heap'[k] = heap[k]
  BY <1>1, BumpEffect
<1>4. SUFFICES ASSUME NEW k \in 1..Len(heap)
               PROVE  heap'[k].current <= Cardinality(Holders(k)')
  BY <1>3 DEF NoneAbove
<1>5. heap[k].current <= Cardinality(Holders(k)) /\ heap[k].current \in Int
  BY <1>1, CellType DEF NoneAbove
<1>6. /\ IsFiniteSet(Holders(k)) /\ Cardinality(Holders(k)) \in Nat
      /\ IsFiniteSet(Holders(k)') /\ Cardinality(Holders(k)') \in Nat
  <2>1. Holders(k) \in SUBSET Conns /\ Holders(k)' \in SUBSET Conns
    BY DEF Holders
  <2> QED BY <2>1, SubsetFinite
<1>7. CASE k # l
  <2>1. Holders(k) \subseteq Holders(k)'
    BY <1>2, <1>7 DEF Holders, Held
  <2>2. Cardinality(Holders(k)) <= Cardinality(Holders(k)')
    BY <2>1, <1>6, FS_Subset
  <2> QED BY <2>2, <1>3, <1>5, <1>6, <1>7
<1>8. CASE k = l
  <2>1. c \in Holders(l) /\ Holders(l) \ {c} \subseteq Holders(l)'
    BY <1>2 DEF Holders, Held
  <2>2. /\ IsFiniteSet(Holders(l) \ {c})
        /\ Cardinality(Holders(l) \ {c}) = Cardinality(Holders(l)) - 1
    BY <2>1, <1>6, <1>8, FS_RemoveElement
  <2>3. Cardinality(Holders(l) \ {c}) <= Cardinality(Holders(l)')
    BY <2>1, <2>2, <1>6, <1>8, FS_Subset
  <2> QED BY <2>2, <2>3, <1>3, <1>5, <1>6, <1>8
<1> QED BY <1>7, <1>8

(* New limiters are unused, and who held a limiter holds it still. *)
LEMMA ExactGrow ==
  ASSUME IInv, NoneAbove, heap' \in Seq(Cell), Len(heap') >= Len(heap),
         \A k \in 1..Len(heap) : heap'[k] = heap[k],
         \A k \in 1..Len(heap') : k > Len(heap) => heap'[k].current = 0,
         \A d \in Conns : Slots(conns[d]) \subseteq Slots(conns'[d])
  PROVE  NoneAbove'
<1>1. Len(heap) \in Nat /\ Len(heap') \in Nat
  BY DEF IInv, TypeOK
<1>2. SUFFICES ASSUME NEW k \in 1..Len(heap')
               PROVE  heap'[k].current <= Cardinality(Holders(k)')
  BY DEF NoneAbove
<1>3. Holders(k) \subseteq Holders(k)' /\ Holders(k)' \in SUBSET Conns
  BY DEF Holders, Held
<1>4. /\ Cardinality(Holders(k)) <= Cardinality(Holders(k)')
      /\ Cardinality(Holders(k)) \in Nat /\ Cardinality(Holders(k)') \in Nat
  BY <1>3, SubsetFinite, FS_Subset
<1>5. CASE k \in 1..Len(heap)
  <2>1. heap[k].current <= Cardinality(Holders(k)) /\ heap[k].current \in Int
    BY <1>5, CellType DEF IInv, NoneAbove
  <2> QED BY <2>1, <1>4, <1>5
<1>6. CASE k \notin 1..Len(heap)
  BY <1>1, <1>4, <1>6
<1> QED BY <1>5, <1>6

(***************************************************************************)
(* With one accept loop at most one connection has added to a limiter it   *)
(* has not passed, so a limiter is at most one above its limit: a release  *)
(* never finds it above and never stops half way.                          *)
(***************************************************************************)
LEMMA AloneNeverOver ==
  ASSUME IInv, loops \in SUBSET Services, OneAsks, NoneAbove, Cardinality(loops) = 1,
         NEW l \in 1..Len(heap)
  PROVE  ~Over(l, -1)
<1>1. PICK s : loops = {s}
  <2>1. IsFiniteSet(loops)
    BY ConnLimiterAssumption, FS_Subset
  <2> QED BY <2>1, FS_Singleton
<1>2. \A d, e \in Conns : conns[d].pc = "undo" /\ conns[e].pc = "undo" => d = e
  BY <1>1 DEF OneAsks, Asking
<1>3. \A d \in Conns : conns[d].pc # "undo" => Slots(conns[d]) = Passing(conns[d])
  BY DEF Passing
<1>4. PICK U \in SUBSET Conns : /\ Holders(l) \subseteq Passed(l) \cup U
                                /\ U = {} \/ \E d \in Conns : U = {d}
  <2>1. CASE \E d \in Conns : conns[d].pc = "undo"
    <3>1. PICK d \in Conns : conns[d].pc = "undo"
      BY <2>1
    <3>2. Holders(l) \subseteq Passed(l) \cup {d}
      BY <1>2, <1>3, <3>1 DEF Holders, Held, Passed
    <3> QED BY <3>2
  <2>2. CASE ~ \E d \in Conns : conns[d].pc = "undo"
    <3>1. Holders(l) \subseteq Passed(l) \cup {}
      BY <1>3, <2>2 DEF Holders, Held, Passed
    <3> QED BY <3>1
  <2> QED BY <2>1, <2>2
<1>5. IsFiniteSet(Passed(l)) /\ Cardinality(Passed(l)) \in Nat
  BY SubsetFinite DEF Passed
<1>6. /\ IsFiniteSet(Passed(l) \cup U) /\ Cardinality(Passed(l) \cup U) \in Nat
      /\ Cardinality(Passed(l) \cup U) <= Cardinality(Passed(l)) + 1
  <2>1. CASE U = {}
    <3>1. Passed(l) \cup U = Passed(l)
      BY <2>1
    <3>2. \A n \in Nat : n <= n + 1
      OBVIOUS
    <3> QED BY <3>1, <3>2, <1>5
  <2>2. CASE \E d \in Conns : U = {d}
    <3>1. PICK d \in Conns : U = {d}
      BY <2>2
    <3>2. /\ IsFiniteSet(Passed(l) \cup {d})
          /\ Cardinality(Passed(l) \cup {d}) =
               IF d \in Passed(l) THEN Cardinality(Passed(l)) ELSE Cardinality(Passed(l)) + 1
      BY <1>5, FS_AddElement
    <3> QED BY <3>1, <3>2, <1>5
  <2> QED BY <1>4, <2>1, <2>2
<1>7. Cardinality(Holders(l)) <= Cardinality(Passed(l) \cup U) /\ Cardinality(Holders(l)) \in Nat
  <2>1. IsFiniteSet(Holders(l)) /\ Cardinality(Holders(l)) \in Nat
    BY SubsetFinite DEF Holders
  <2>2. Holders(l) \in SUBSET (Passed(l) \cup U)
    BY <1>4
  <2> QED BY <2>1, <2>2, <1>6, FS_Subset
<1>8. /\ heap[l].current \in Int /\ heap[l].limit \in Nat
      /\ heap[l].current <= Cardinality(Holders(l))
      /\ Cardinality(Passed(l)) <= heap[l].limit
  BY CellType DEF IInv, NoneAbove, PassedOK
<1> QED BY <1>5, <1>6, <1>7, <1>8 DEF Over

(* The connection stays in the accept or the close it is in. *)
SameCall(x, y) ==
  /\ y.svc = x.svc /\ y.host = x.host /\ y.grp = x.grp /\ y.epoch = x.epoch
  /\ y.pc # "idle"
  /\ y.pc \in Asking => x.pc \in Asking

(* Connection c alone moves on, to y. *)
MovesTo(c, y) ==
  /\ conns' = [conns EXCEPT ![c] = y]
  /\ UNCHANGED <<gen, limits, cfg, epoch>>

(* What Allow(1) on one limiter l does. *)
Adds(c, l, y) ==
  /\ heap' = Bump(l, 1) /\ MovesTo(c, y) /\ conns[c].pc = "add"
  /\ SameCall(conns[c], y)
  /\ l \notin Slots(conns[c]) /\ Slots(y) = Slots(conns[c]) \cup {l}

LEMMA AllowAddEffect ==
  ASSUME IInv, NEW c \in Conns, AllowAdd(c)
  PROVE  \E l \in 1..Len(heap), y \in ConnRec : Adds(c, l, y)
<1>x. PICK x : x = conns[c]
  OBVIOUS
<1>l. PICK l : l = x.grp[x.hi + 1]
  OBVIOUS
<1>q. PICK q : q = IF Over(l, 1) THEN "undo"
                  ELSE IF x.hi + 1 = Len(x.grp) THEN "open" ELSE "add"
  OBVIOUS
<1>y. PICK y : y = [x EXCEPT !.hi = x.hi + 1, !.pc = q]
  OBVIOUS
<1>1. x \in ConnRec /\ x.pc = "add" /\ ConnOK(x)
  BY <1>x DEF IInv, TypeOK, ConnRec, AllowAdd
<1>2. /\ x.lo = 1 /\ x.hi \in Nat /\ x.hi < Len(x.grp)
      /\ Len(x.grp) \in Nat /\ GroupOK(x.grp) /\ x.grp \in Seq(Nat)
  BY <1>1 DEF ConnOK, ConnRec
<1>3. l \in 1..Len(heap)
  BY <1>l, <1>2 DEF GroupOK
<1>4. heap' = Bump(l, 1) /\ MovesTo(c, y)
  BY <1>x, <1>l, <1>q, <1>y DEF AllowAdd, MovesTo, IInv, TypeOK
<1>5. y \in ConnRec
  <2>1. q \in PC
    BY <1>q DEF PC
  <2>2. x.hi + 1 \in Nat
    BY <1>2
  <2> QED BY <2>1, <2>2, <1>y, <1>1, Zenon DEF ConnRec
<1>6. /\ y.pc = q /\ y.hi = x.hi + 1 /\ y.lo = 1 /\ y.grp = x.grp
      /\ y.svc = x.svc /\ y.host = x.host /\ y.epoch = x.epoch
  BY <1>y, <1>1, <1>2 DEF ConnRec
<1>7. SameCall(x, y)
  BY <1>1, <1>6, <1>q DEF SameCall, Asking
<1>8. Slots(y) = Slots(x) \cup {l}
  <2>1. 1..(x.hi + 1) = (1..x.hi) \cup {x.hi + 1}
    BY <1>2
  <2> QED BY <2>1, <1>l, <1>2, <1>6 DEF Slots
<1>9. l \notin Slots(x)
  <2>1. ASSUME NEW k \in 1..x.hi PROVE x.grp[k] # l
    <3>1. k \in 1..Len(x.grp) /\ x.hi + 1 \in 1..Len(x.grp) /\ k # x.hi + 1
      BY <1>2
    <3> QED BY <3>1, <1>l, <1>2 DEF GroupOK
  <2> QED BY <2>1, <1>2 DEF Slots
<1>10. Adds(c, l, y)
  BY <1>x, <1>1, <1>4, <1>7, <1>8, <1>9 DEF Adds
<1> QED BY <1>3, <1>5, <1>10

(* What giving limiter l back does, wherever Allow does it. *)
GivesBack(c, l, y) ==
  /\ heap' = Bump(l, -1) /\ MovesTo(c, y) /\ conns[c].pc \in {"undo", "roll", "release"}
  /\ \/ y = Idle
     \/ SameCall(conns[c], y) /\ y.pc # "open"
  /\ \/ Slots(conns[c]) = Slots(y) \cup {l}
     \/ conns[c].pc = "release" /\ Over(l, -1)

LEMMA AllowUndoEffect ==
  ASSUME IInv, NEW c \in Conns, AllowUndo(c)
  PROVE  \E l \in 1..Len(heap), y \in ConnRec : GivesBack(c, l, y)
<1>x. PICK x : x = conns[c]
  OBVIOUS
<1>l. PICK l : l = x.grp[x.hi]
  OBVIOUS
<1>y. PICK y : y = IF x.hi = 1 THEN Idle ELSE [x EXCEPT !.hi = x.hi - 1, !.pc = "roll"]
  OBVIOUS
<1>1. x \in ConnRec /\ x.pc = "undo" /\ ConnOK(x)
  BY <1>x DEF IInv, TypeOK, ConnRec, AllowUndo
<1>2. /\ x.lo = 1 /\ x.hi \in 1..Len(x.grp) /\ x.hi \in Nat
      /\ Len(x.grp) \in Nat /\ GroupOK(x.grp) /\ x.grp \in Seq(Nat)
  BY <1>1 DEF ConnOK, ConnRec
<1>3. l \in 1..Len(heap)
  BY <1>l, <1>2 DEF GroupOK
<1>4. heap' = Bump(l, -1) /\ MovesTo(c, y)
  BY <1>x, <1>l, <1>y DEF AllowUndo, MovesTo
<1>5. Slots(x) = {x.grp[k] : k \in 1..(x.hi - 1)} \cup {l}
  <2>1. 1..x.hi = (1..(x.hi - 1)) \cup {x.hi}
    BY <1>2
  <2> QED BY <2>1, <1>l, <1>2 DEF Slots
<1>6. CASE x.hi = 1
  <2>1. y = Idle /\ Slots(y) = {}
    BY <1>y, <1>6, IdleHoldsNothing
  <2>2. 1..(x.hi - 1) = {}
    BY <1>6
  <2>3. Slots(x) = Slots(y) \cup {l}
    BY <2>1, <2>2, <1>5
  <2>4. GivesBack(c, l, y)
    BY <2>1, <2>3, <1>x, <1>1, <1>4 DEF GivesBack
  <2> QED BY <2>1, <2>4, <1>3, IdleHoldsNothing
<1>7. CASE x.hi # 1
  <2>1. y = [x EXCEPT !.hi = x.hi - 1, !.pc = "roll"]
    BY <1>y, <1>7
  <2>2. "roll" \in PC /\ x.hi - 1 \in Nat
    BY <1>2 DEF PC
  <2>3. y \in ConnRec
    BY <2>1, <2>2, <1>1, Zenon DEF ConnRec
  <2>4. /\ y.pc = "roll" /\ y.hi = x.hi - 1 /\ y.lo = 1 /\ y.grp = x.grp
        /\ y.svc = x.svc /\ y.host = x.host /\ y.epoch = x.epoch
    BY <2>1, <1>1, <1>2 DEF ConnRec
  <2>5. SameCall(x, y) /\ y.pc # "open"
    BY <2>4, <1>1 DEF SameCall, Asking
  <2>6. Slots(x) = Slots(y) \cup {l}
    BY <2>4, <1>5 DEF Slots
  <2>7. GivesBack(c, l, y)
    BY <2>5, <2>6, <1>x, <1>1, <1>4 DEF GivesBack
  <2> QED BY <2>3, <2>7, <1>3
<1> QED BY <1>6, <1>7

(* The first limiter of an interval, and the rest of it. *)
LEMMA HeadOfSlots ==
  ASSUME NEW x \in ConnRec, x.lo \in 1..x.hi
  PROVE  Slots(x) = {x.grp[k] : k \in (x.lo + 1)..x.hi} \cup {x.grp[x.lo]}
<1>1. x.lo \in Nat /\ x.hi \in Nat
  BY DEF ConnRec
<1>2. x.lo..x.hi = ((x.lo + 1)..x.hi) \cup {x.lo}
  BY <1>1
<1> QED BY <1>2 DEF Slots

LEMMA RollbackEffect ==
  ASSUME IInv, NEW c \in Conns, Rollback(c)
  PROVE  \E l \in 1..Len(heap), y \in ConnRec : GivesBack(c, l, y)
<1>x. PICK x : x = conns[c]
  OBVIOUS
<1>l. PICK l : l = x.grp[x.lo]
  OBVIOUS
<1>y. PICK y : y = IF x.lo = x.hi THEN Idle ELSE [x EXCEPT !.lo = x.lo + 1]
  OBVIOUS
<1>1. x \in ConnRec /\ x.pc = "roll" /\ ConnOK(x)
  BY <1>x DEF IInv, TypeOK, ConnRec, Rollback
<1>2. /\ GroupOK(x.grp) /\ x.lo \in 1..x.hi /\ x.hi <= Len(x.grp)
      /\ x.hi \in Nat /\ x.lo \in Nat
  BY <1>1 DEF ConnOK, ConnRec
<1>3. l \in 1..Len(heap) /\ Slots(x) = {x.grp[k] : k \in (x.lo + 1)..x.hi} \cup {l}
  BY <1>l, <1>1, <1>2, TailOfSlots, HeadOfSlots
<1>4. heap' = Bump(l, -1) /\ MovesTo(c, y)
  BY <1>x, <1>l, <1>y DEF Rollback, MovesTo
<1>5. CASE x.lo = x.hi
  <2>1. y = Idle /\ Slots(y) = {}
    BY <1>y, <1>5, IdleHoldsNothing
  <2>2. (x.lo + 1)..x.hi = {}
    BY <1>2, <1>5
  <2>3. Slots(x) = Slots(y) \cup {l}
    BY <2>1, <2>2, <1>3
  <2>4. GivesBack(c, l, y)
    BY <2>1, <2>3, <1>x, <1>1, <1>4 DEF GivesBack
  <2> QED BY <2>1, <2>4, <1>3, IdleHoldsNothing
<1>6. CASE x.lo # x.hi
  <2>1. y = [x EXCEPT !.lo = x.lo + 1] /\ x.lo + 1 \in Nat
    BY <1>y, <1>2, <1>6
  <2>2. y \in ConnRec
    BY <2>1, <1>1, Zenon DEF ConnRec
  <2>3. /\ y.pc = "roll" /\ y.lo = x.lo + 1 /\ y.hi = x.hi /\ y.grp = x.grp
        /\ y.svc = x.svc /\ y.host = x.host /\ y.epoch = x.epoch
    BY <2>1, <1>1 DEF ConnRec
  <2>4. SameCall(x, y) /\ y.pc # "open"
    BY <2>3, <1>1 DEF SameCall, Asking
  <2>5. Slots(x) = Slots(y) \cup {l}
    BY <2>3, <1>3 DEF Slots
  <2>6. GivesBack(c, l, y)
    BY <2>4, <2>5, <1>x, <1>1, <1>4 DEF GivesBack
  <2> QED BY <2>2, <2>6, <1>3
<1> QED BY <1>5, <1>6

LEMMA ReleaseEffect ==
  ASSUME HandlerCloses = 1, IInv, NEW c \in Conns, Release(c)
  PROVE  \E l \in 1..Len(heap), y \in ConnRec : GivesBack(c, l, y)
<1>x. PICK x : x = conns[c]
  OBVIOUS
<1>l. PICK l : l = x.grp[x.lo]
  OBVIOUS
<1>y. PICK y : y = IF Over(l, -1) \/ x.lo = x.hi THEN Idle ELSE [x EXCEPT !.lo = x.lo + 1]
  OBVIOUS
<1>1. x \in ConnRec /\ x.pc = "release" /\ ConnOK(x)
  BY <1>x DEF IInv, TypeOK, ConnRec, Release
<1>2. /\ GroupOK(x.grp) /\ x.lo \in 1..x.hi /\ x.hi = Len(x.grp)
      /\ x.hi \in Nat /\ x.lo \in Nat /\ x.closes > 0 /\ x.closes \in Nat
  BY <1>1 DEF ConnOK, ConnRec
<1>3. l \in 1..Len(heap) /\ Slots(x) = {x.grp[k] : k \in (x.lo + 1)..x.hi} \cup {l}
  BY <1>l, <1>1, <1>2, TailOfSlots, HeadOfSlots
<1>4. Closed(x) = Idle
  BY <1>2 DEF Closed
<1>5. heap' = Bump(l, -1) /\ MovesTo(c, y)
  BY <1>x, <1>l, <1>y, <1>4 DEF Release, MovesTo
<1>6. CASE Over(l, -1)
  <2>1. y = Idle
    BY <1>y, <1>6
  <2>2. GivesBack(c, l, y)
    BY <2>1, <1>6, <1>x, <1>1, <1>5 DEF GivesBack
  <2> QED BY <2>1, <2>2, <1>3, IdleHoldsNothing
<1>7. CASE ~Over(l, -1) /\ x.lo = x.hi
  <2>1. y = Idle /\ Slots(y) = {}
    BY <1>y, <1>7, IdleHoldsNothing
  <2>2. (x.lo + 1)..x.hi = {}
    BY <1>2, <1>7
  <2>3. Slots(x) = Slots(y) \cup {l}
    BY <2>1, <2>2, <1>3
  <2>4. GivesBack(c, l, y)
    BY <2>1, <2>3, <1>x, <1>1, <1>5 DEF GivesBack
  <2> QED BY <2>1, <2>4, <1>3, IdleHoldsNothing
<1>8. CASE ~Over(l, -1) /\ x.lo # x.hi
  <2>1. y = [x EXCEPT !.lo = x.lo + 1] /\ x.lo + 1 \in Nat
    BY <1>y, <1>2, <1>8
  <2>2. y \in ConnRec
    BY <2>1, <1>1, Zenon DEF ConnRec
  <2>3. /\ y.pc = "release" /\ y.lo = x.lo + 1 /\ y.hi = x.hi /\ y.grp = x.grp
        /\ y.svc = x.svc /\ y.host = x.host /\ y.epoch = x.epoch
    BY <2>1, <1>1 DEF ConnRec
  <2>4. SameCall(x, y) /\ y.pc # "open"
    BY <2>3, <1>1 DEF SameCall, Asking
  <2>5. Slots(x) = Slots(y) \cup {l}
    BY <2>3, <1>3 DEF Slots
  <2>6. GivesBack(c, l, y)
    BY <2>4, <2>5, <1>x, <1>1, <1>5 DEF GivesBack
  <2> QED BY <2>2, <2>6, <1>3
<1> QED BY <1>6, <1>7, <1>8

(* What a close does: the connection holds what it held. *)
LEMMA CloseEffect ==
  ASSUME IInv, NEW c \in Conns, Close(c)
  PROVE  \E y \in ConnRec : /\ heap' = heap /\ MovesTo(c, y) /\ conns[c].pc = "open"
                            /\ SameCall(conns[c], y) /\ y.pc = "release"
                            /\ Slots(y) = Slots(conns[c])
<1>x. PICK x : x = conns[c]
  OBVIOUS
<1>y. PICK y : y = [x EXCEPT !.pc = "release", !.lo = 1, !.closes = x.closes + 1]
  OBVIOUS
<1>1. x \in ConnRec /\ ConnOK(x) /\ x.pc = "open"
  BY <1>x DEF IInv, TypeOK, ConnRec, Close, ConnOK
<1>2. x.lo = 1 /\ x.closes \in Nat
  BY <1>1 DEF ConnOK, ConnRec
<1>3. heap' = heap /\ MovesTo(c, y)
  BY <1>x, <1>y DEF Close, MovesTo, IInv, TypeOK
<1>4. "release" \in PC /\ 1 \in Nat /\ x.closes + 1 \in Nat
  BY <1>2 DEF PC
<1>5. y \in ConnRec
  BY <1>4, <1>y, <1>1, Zenon DEF ConnRec
<1>6. /\ y.pc = "release" /\ y.lo = 1 /\ y.hi = x.hi /\ y.grp = x.grp
      /\ y.svc = x.svc /\ y.host = x.host /\ y.epoch = x.epoch
  BY <1>y, <1>1 DEF ConnRec
<1>7. SameCall(x, y)
  BY <1>6 DEF SameCall, Asking
<1>8. Slots(y) = Slots(x)
  BY <1>2, <1>6 DEF Slots
<1> QED BY <1>x, <1>1, <1>3, <1>5, <1>6, <1>7, <1>8

(* A limiter that exists keeps its limit: a group keeps fitting its rule. *)
LEMMA FitsKept ==
  ASSUME NEW CONSTANT g, NEW CONSTANT r, NEW CONSTANT h, GroupOK(g), OwnFits(g, r, h),
         \A k \in 1..Len(heap) : heap'[k].limit = heap[k].limit
  PROVE  OwnFits(g, r, h)'
BY DEF OwnFits, Members, GroupOK

(* A group that names limiters is not the mark of an empty cache entry. *)
LEMMA GroupIsNotNone ==
  ASSUME NEW g, GroupOK(g)
  PROVE  g # NoGroup
<1>1. SUFFICES ASSUME g = NoGroup PROVE FALSE
  OBVIOUS
<1>2. g[1] = 0 /\ 1 \in 1..Len(g)
  BY <1>1 DEF NoGroup
<1> QED BY <1>2 DEF GroupOK

(***************************************************************************)
(* A step of one connection in its accept or its close, and no reload: the *)
(* rules, the cache and what every connection counts in stay as they are.  *)
(***************************************************************************)
LEMMA MoveKeeps ==
  ASSUME IInv, OneAsks, RulesKept, CacheFits, ConnsFit, SameLimiters,
         NEW c \in Conns, NEW y \in ConnRec, MovesTo(c, y), conns[c].pc # "idle",
         y = Idle \/ SameCall(conns[c], y),
         Len(heap') = Len(heap),
         \A k \in 1..Len(heap) : heap'[k].limit = heap[k].limit,
         UNCHANGED <<loops, past>>
  PROVE  OneAsks' /\ RulesKept' /\ CacheFits' /\ ConnsFit' /\ SameLimiters'
<1>1. /\ conns'[c] = y /\ \A d \in Conns : d # c => conns'[d] = conns[d]
      /\ gen' = gen /\ limits' = limits /\ cfg' = cfg /\ epoch' = epoch
      /\ loops' = loops /\ past' = past
  BY DEF MovesTo, IInv, TypeOK
<1>2. ASSUME NEW d \in Conns
      PROVE  /\ conns'[d].pc # "idle" =>
                  /\ conns[d].pc # "idle"
                  /\ conns'[d].host = conns[d].host /\ conns'[d].epoch = conns[d].epoch
                  /\ conns'[d].grp = conns[d].grp
             /\ conns'[d].pc \in Asking => /\ conns[d].pc \in Asking
                                           /\ conns'[d].svc = conns[d].svc
  <2>1. CASE d # c
    BY <1>1, <2>1
  <2>2. CASE d = c /\ y = Idle
    BY <1>1, <2>2 DEF Idle, Asking
  <2>3. CASE d = c /\ SameCall(conns[c], y)
    BY <1>1, <2>3 DEF SameCall
  <2> QED BY <2>1, <2>2, <2>3
<1>3. OneAsks'
  BY <1>1, <1>2 DEF OneAsks
<1>4. RulesKept'
  <2>1. /\ gen.global \in 0..Len(heap) /\ \A h \in Hosts : gen.ip[h] \in 0..Len(heap)
        /\ Len(heap) \in Nat
    BY DEF IInv, GenOK, TypeOK
  <2>2. \A h \in Hosts : gen.ip[h] # 0 => heap'[gen.ip[h]].limit = heap[gen.ip[h]].limit
    BY <2>1
  <2>3. gen.global # 0 => heap'[gen.global].limit = heap[gen.global].limit
    BY <2>1
  <2> QED BY <1>1, <2>2, <2>3 DEF RulesKept
<1>5. CacheFits'
  <2>1. SUFFICES ASSUME NEW h \in Hosts, limits[h] # NoGroup
                 PROVE  /\ OwnFits(limits[h], cfg, h)'
                        /\ cfg.global > 0 => gen.global \in Members(limits[h])
    BY <1>1 DEF CacheFits, Members
  <2>2. PICK g : g = limits[h]
    OBVIOUS
  <2>3. PICK r : r = cfg
    OBVIOUS
  <2>4. OwnFits(g, r, h) /\ GroupOK(g)
    BY <2>1, <2>2, <2>3 DEF CacheFits, IInv, CacheOK
  <2>5. OwnFits(g, r, h)'
    BY <2>4, FitsKept
  <2>6. limits'[h] = g /\ cfg' = r
    BY <2>2, <2>3, <1>1
  <2>7. OwnFits(limits[h], cfg, h)'
    BY <2>5, <2>6 DEF OwnFits, Members
  <2> QED BY <2>1, <2>7 DEF CacheFits
<1>6. ConnsFit'
  <2>1. SUFFICES ASSUME NEW d \in Conns, conns'[d].pc # "idle"
                 PROVE  /\ conns'[d].host \in Hosts /\ conns'[d].epoch \in 0..epoch
                        /\ conns'[d].grp # NoGroup
                        /\ conns'[d].epoch = epoch => limits[conns'[d].host] = conns'[d].grp
                        /\ OwnFits(conns[d].grp, past[conns[d].epoch + 1], conns[d].host)'
    BY <1>1 DEF ConnsFit, InUse
  <2>g. PICK g : g = conns[d].grp
    OBVIOUS
  <2>r. PICK r : r = past[conns[d].epoch + 1]
    OBVIOUS
  <2>h. PICK h : h = conns[d].host
    OBVIOUS
  <2>2. OwnFits(g, r, h) /\ GroupOK(g)
    BY <2>1, <2>g, <2>r, <2>h, <1>2 DEF ConnsFit, InUse, IInv, ConnOK
  <2>3. OwnFits(g, r, h)'
    BY <2>2, FitsKept
  <2>4. conns'[d].grp = g /\ past'[conns'[d].epoch + 1] = r /\ conns'[d].host = h
    BY <2>1, <2>g, <2>r, <2>h, <1>1, <1>2
  <2>5. OwnFits(conns[d].grp, past[conns[d].epoch + 1], conns[d].host)'
    BY <2>3, <2>4 DEF OwnFits, Members
  <2>6. conns[d].pc # "idle"
    BY <2>1, <1>2
  <2>7. /\ conns[d].host \in Hosts /\ conns[d].epoch \in 0..epoch /\ conns[d].grp # NoGroup
        /\ conns[d].epoch = epoch => limits[conns[d].host] = conns[d].grp
    BY <2>6 DEF ConnsFit, InUse
  <2> QED BY <2>1, <2>5, <2>7, <1>2
<1>7. SameLimiters'
  <2>1. ASSUME NEW d \in Conns, NEW e \in Conns,
               InUse(d)', InUse(e)', conns'[d].epoch = conns'[e].epoch,
               conns'[d].host = conns'[e].host
        PROVE  conns'[d].grp = conns'[e].grp
    BY <2>1, <1>2 DEF SameLimiters, InUse
  <2>2. ASSUME NEW n \in 1..Len(past), past[n].global > 0
        PROVE  \E l \in 1..Len(heap) :
                 /\ heap'[l].limit = past[n].global
                 /\ \A d \in Conns : /\ conns'[d].pc # "idle" /\ conns'[d].epoch + 1 = n
                                    => l \in Members(conns'[d].grp)
                 /\ n = Len(past) => l = gen.global
    <3>1. PICK l \in 1..Len(heap) :
                 /\ heap[l].limit = past[n].global
                 /\ \A d \in Conns : InUse(d) /\ conns[d].epoch + 1 = n => l \in Members(conns[d].grp)
                 /\ n = Len(past) => l = gen.global
      BY <2>2 DEF SameLimiters
    <3>2. ASSUME NEW d \in Conns, conns'[d].pc # "idle", conns'[d].epoch + 1 = n
          PROVE  l \in Members(conns'[d].grp)
      BY <3>1, <3>2, <1>2 DEF InUse
    <3> QED BY <3>1, <3>2
  <2> QED BY <2>1, <2>2, <1>1 DEF SameLimiters, InUse, Members
<1> QED BY <1>3, <1>4, <1>5, <1>6, <1>7

(***************************************************************************)
(* What a look-up finds fits the rules in force: a limiter with the limit  *)
(* of the host's most specific rule, and the one for all.                  *)
(***************************************************************************)
LEMMA LookupFits ==
  ASSUME IInv, RulesKept, CacheFits, NEW h \in Hosts
  PROVE  /\ Limits!LimitOf(cfg, h) > 0 =>
              \E l \in Members(Limiter(h)) : HeapFor(h)[l].limit = Limits!LimitOf(cfg, h)
         /\ cfg.global > 0 => gen.global \in Members(Limiter(h))
<1>H. PICK H : H = HeapFor(h)
  OBVIOUS
<1>g. PICK g : g = Limiter(h)
  OBVIOUS
<1>v. PICK v : v = Limits!LimitOf(cfg, h)
  OBVIOUS
<1> SUFFICES /\ v > 0 => \E l \in Members(g) : H[l].limit = v
             /\ cfg.global > 0 => gen.global \in Members(g)
  BY <1>H, <1>g, <1>v
<1>1. heap \in Seq(Cell) /\ Len(heap) \in Nat
  BY DEF IInv, TypeOK, Cell
<1>2. CASE limits[h] # NoGroup
  <2>1. H = heap /\ g = limits[h]
    BY <1>H, <1>g, <1>2 DEF HeapFor, Limiter
  <2>2. OwnFits(limits[h], cfg, h) /\ (cfg.global > 0 => gen.global \in Members(limits[h]))
    BY <1>2 DEF CacheFits
  <2> QED BY <2>1, <2>2, <1>v DEF OwnFits
<1>3. CASE limits[h] = NoGroup
  <2>1. /\ gen.cidr = cfg.cidr /\ gen.perIP = cfg.perIP
        /\ IF cfg.ip[h] > 0 THEN gen.ip[h] # 0 /\ heap[gen.ip[h]].limit = cfg.ip[h]
           ELSE gen.ip[h] = 0
        /\ IF cfg.global > 0 THEN gen.global # 0 /\ heap[gen.global].limit = cfg.global
           ELSE gen.global = 0
    BY DEF RulesKept
  <2>2. /\ gen.global \in 0..Len(heap) /\ gen.ip[h] \in 0..Len(heap)
        /\ OwnLimit(h) \in Nat
    BY DEF IInv, GenOK, TypeOK, OwnLimit
  <2>3. OwnLimit(h) = IF cfg.cidr[h] > 0 THEN cfg.cidr[h] ELSE cfg.perIP
    BY <2>1 DEF OwnLimit
  <2>4. v = IF cfg.ip[h] > 0 THEN cfg.ip[h] ELSE OwnLimit(h)
    BY <1>v, <2>3 DEF Limits!LimitOf
  <2>o. PICK o : o = OwnLimiter(h)
    OBVIOUS
  <2>a. PICK a : a = gen.global
    OBVIOUS
  <2>n. PICK n : n = NewLimiter(OwnLimit(h))
    OBVIOUS
  <2>5. n \in Cell /\ n.limit = OwnLimit(h)
    BY <2>n, <2>2 DEF NewLimiter, Cell
  <2>6. v > 0 => o # 0 /\ H[o].limit = v
    <3>1. CASE cfg.ip[h] > 0
      <4>1. H = heap /\ o = gen.ip[h]
        BY <3>1, <2>1, <2>o, <1>H DEF HeapFor, OwnLimiter
      <4> QED BY <4>1, <3>1, <2>1, <2>4
    <3>2. CASE ~(cfg.ip[h] > 0) /\ OwnLimit(h) > 0
      <4>1. H = Append(heap, n) /\ o = Len(heap) + 1
        BY <3>2, <2>1, <2>o, <2>n, <1>H, <1>3 DEF HeapFor, OwnLimiter
      <4>2. H[Len(heap) + 1] = n
        BY <4>1, <2>5, <1>1
      <4> QED BY <4>1, <4>2, <3>2, <2>4, <2>5, <1>1
    <3>3. CASE ~(cfg.ip[h] > 0) /\ ~(OwnLimit(h) > 0)
      BY <3>3, <2>4
    <3> QED BY <3>1, <3>2, <3>3
  <2>7. \/ o = 0 /\ a = 0 /\ g = <<>>
        \/ o = 0 /\ a # 0 /\ g = <<a>>
        \/ o # 0 /\ a = 0 /\ g = <<o>>
        \/ o # 0 /\ a # 0 /\ g = <<a, o>>
        \/ o # 0 /\ a # 0 /\ g = <<o, a>>
    BY <1>g, <2>o, <2>a, <1>3 DEF Limiter, LimiterGroup
  <2>8. (o # 0 => o \in Members(g)) /\ (a # 0 => a \in Members(g))
    <3>1. CASE o = 0 /\ a = 0 /\ g = <<>>
      BY <3>1
    <3>2. CASE o = 0 /\ a # 0 /\ g = <<a>>
      <4>1. g[1] = a /\ 1 \in 1..Len(g)
        BY <3>2
      <4> QED BY <4>1, <3>2 DEF Members
    <3>3. CASE o # 0 /\ a = 0 /\ g = <<o>>
      <4>1. g[1] = o /\ 1 \in 1..Len(g)
        BY <3>3
      <4> QED BY <4>1, <3>3 DEF Members
    <3>4. CASE o # 0 /\ a # 0 /\ g = <<a, o>>
      <4>1. g[1] = a /\ g[2] = o /\ 1 \in 1..Len(g) /\ 2 \in 1..Len(g)
        BY <3>4
      <4> QED BY <4>1, <3>4 DEF Members
    <3>5. CASE o # 0 /\ a # 0 /\ g = <<o, a>>
      <4>1. g[1] = o /\ g[2] = a /\ 1 \in 1..Len(g) /\ 2 \in 1..Len(g)
        BY <3>5
      <4> QED BY <4>1, <3>5 DEF Members
    <3> QED BY <2>7, <3>1, <3>2, <3>3, <3>4, <3>5
  <2> QED BY <2>1, <2>6, <2>8, <2>a
<1> QED BY <1>2, <1>3

(***************************************************************************)
(* An accept asks for one connection, in the group that the cache holds    *)
(* from now on.                                                            *)
(***************************************************************************)
LEMMA AcceptKeepsQ ==
  ASSUME IInv, QInv, NEW s \in Services, NEW c \in Conns, NEW h \in Hosts, Accept(s, c, h),
         conns'[c].svc \in loops \cup {"none"}, UNCHANGED <<loops, past>>
  PROVE  QInv'
<1> USE DEF QInv
<1>H. PICK H : H = HeapFor(h)
  OBVIOUS
<1>g. PICK g : g = Limiter(h)
  OBVIOUS
<1>y. PICK y : y = IF g = <<>> THEN conns[c]
                   ELSE [pc |-> "add", svc |-> s, host |-> h, grp |-> g,
                         lo |-> 1, hi |-> 0, closes |-> 0, epoch |-> epoch]
  OBVIOUS
<1>1. /\ heap' = H /\ limits' = [limits EXCEPT ![h] = g]
      /\ conns' = [conns EXCEPT ![c] = y] /\ conns[c].pc = "idle"
      /\ UNCHANGED <<gen, cfg, epoch, loops, past>>
  BY <1>H, <1>g, <1>y DEF Accept, IInv, TypeOK
<1>2. GoodLookup(H, g)
  BY <1>H, <1>g, LimiterFacts
<1>3. /\ heap' \in Seq(Cell) /\ Len(heap') \in Nat /\ Len(heap') >= Len(heap)
      /\ \A k \in 1..Len(heap) : heap'[k] = heap[k]
      /\ \A k \in 1..Len(heap') : k > Len(heap) => heap'[k].current = 0
      /\ GroupOK(g)' /\ Len(heap) \in Nat
  BY <1>1, <1>2 DEF GoodLookup, GroupOK, IInv, TypeOK
<1>4. /\ Limits!LimitOf(cfg, h) > 0 =>
           \E l \in Members(g) : H[l].limit = Limits!LimitOf(cfg, h)
      /\ cfg.global > 0 => gen.global \in Members(g)
  BY <1>H, <1>g, LookupFits
<1>5. OwnFits(g, cfg, h)'
  BY <1>1, <1>4 DEF OwnFits, Members
<1>6. g # NoGroup
  <2>1. SUFFICES ASSUME g = NoGroup PROVE FALSE
    OBVIOUS
  <2>2. g[1] = 0 /\ 1 \in 1..Len(g)
    BY <2>1 DEF NoGroup
  <2> QED BY <2>2, <1>3 DEF GroupOK
<1>7. /\ conns'[c] = y /\ \A d \in Conns : d # c => conns'[d] = conns[d]
      /\ limits'[h] = g /\ \A i \in Hosts : i # h => limits'[i] = limits[i]
  BY <1>1 DEF IInv, TypeOK
<1>8. g # <<>> => /\ y.pc = "add" /\ y.svc = s /\ y.host = h /\ y.grp = g /\ y.epoch = epoch
                  /\ y.lo = 1 /\ y.hi = 0
  BY <1>y
<1>9. OneAsks'
  <2>1. CASE g = <<>>
    <3>1. y = conns[c]
      BY <2>1, <1>y
    <3>2. \A d \in Conns : conns'[d] = conns[d]
      BY <3>1, <1>7
    <3> QED BY <3>2, <1>1 DEF OneAsks
  <2>2. CASE g # <<>>
    <3>1. s \in loops
      BY <2>2, <1>7, <1>8, ConnLimiterAssumption
    <3>2. \A d \in Conns : conns[d].pc \in Asking => conns[d].svc # s
      BY DEF Accept
    <3> QED BY <2>2, <3>1, <3>2, <1>1, <1>7, <1>8 DEF OneAsks
  <2> QED BY <2>1, <2>2
<1>10. NoneTooMany'
  <2>1. ASSUME NEW d \in Conns PROVE Slots(conns[d]) \subseteq Slots(conns'[d])
    <3>1. CASE d # c
      BY <3>1, <1>7
    <3>2. CASE d = c
      <4>1. Slots(conns[c]) = {}
        <5>x. PICK x : x = conns[c]
          OBVIOUS
        <5>1. x.lo = 1 /\ x.hi = 0
          BY <5>x, <1>1 DEF IInv, ConnOK
        <5>2. 1..0 = {}
          OBVIOUS
        <5>3. Slots(x) = {}
          BY <5>1, <5>2 DEF Slots
        <5> QED BY <5>x, <5>3
      <4> QED BY <4>1, <3>2
    <3> QED BY <3>1, <3>2
  <2>2. NoneAbove => NoneAbove'
    BY <2>1, <1>3, ExactGrow
  <2> QED BY <2>2, <1>1 DEF NoneTooMany
<1>11. \A k \in 1..Len(heap) : heap'[k].limit = heap[k].limit
  BY <1>3
<1>12. RulesKept'
  <2>1. /\ gen.global \in 0..Len(heap) /\ \A i \in Hosts : gen.ip[i] \in 0..Len(heap)
    BY DEF IInv, GenOK
  <2>2. \A i \in Hosts : gen.ip[i] # 0 => heap'[gen.ip[i]].limit = heap[gen.ip[i]].limit
    BY <2>1, <1>3, <1>11
  <2>3. gen.global # 0 => heap'[gen.global].limit = heap[gen.global].limit
    BY <2>1, <1>3, <1>11
  <2> QED BY <1>1, <2>2, <2>3 DEF RulesKept
<1>13. CacheFits'
  <2>1. SUFFICES ASSUME NEW i \in Hosts, limits'[i] # NoGroup
                 PROVE  /\ OwnFits(limits[i], cfg, i)'
                        /\ cfg.global > 0 => gen.global \in Members(limits'[i])
    BY <1>1 DEF CacheFits, Members
  <2>2. CASE i = h
    BY <2>2, <1>1, <1>4, <1>5, <1>7 DEF OwnFits, Members
  <2>3. CASE i # h
    <3>g. PICK gg : gg = limits[i]
      OBVIOUS
    <3>r. PICK r : r = cfg
      OBVIOUS
    <3>1. limits'[i] = gg /\ cfg' = r /\ gg # NoGroup
      BY <2>1, <2>3, <3>g, <3>r, <1>1, <1>7
    <3>2. OwnFits(gg, r, i) /\ GroupOK(gg) /\ (cfg.global > 0 => gen.global \in Members(gg))
      BY <3>1, <3>g, <3>r DEF CacheFits, IInv, CacheOK
    <3>3. OwnFits(gg, r, i)'
      BY <3>2, <1>11, FitsKept
    <3> QED BY <3>1, <3>2, <3>3 DEF OwnFits, Members
  <2> QED BY <2>2, <2>3
<1>14. ASSUME NEW d \in Conns, d # c, conns[d].pc # "idle"
       PROVE  /\ conns[d].host \in Hosts /\ conns[d].epoch \in 0..epoch
              /\ conns[d].epoch = epoch => limits'[conns[d].host] = conns[d].grp
              /\ conns[d].epoch = epoch /\ conns[d].host = h => conns[d].grp = g
  <2>1. /\ conns[d].host \in Hosts /\ conns[d].epoch \in 0..epoch /\ conns[d].grp # NoGroup
        /\ conns[d].epoch = epoch => limits[conns[d].host] = conns[d].grp
    BY <1>14 DEF ConnsFit, InUse
  <2>2. limits[h] # NoGroup => g = limits[h]
    BY <1>g DEF Limiter
  <2> QED BY <2>1, <2>2, <1>7
<1>15. ConnsFit'
  <2>1. SUFFICES ASSUME NEW d \in Conns, conns'[d].pc # "idle"
                 PROVE  /\ conns'[d].host \in Hosts /\ conns'[d].epoch \in 0..epoch
                        /\ conns'[d].grp # NoGroup
                        /\ conns'[d].epoch = epoch => limits'[conns'[d].host] = conns'[d].grp
                        /\ OwnFits(conns[d].grp, past[conns[d].epoch + 1], conns[d].host)'
    BY <1>1 DEF ConnsFit, InUse
  <2>2. CASE d = c
    <3>1. g # <<>>
      BY <2>1, <2>2, <1>1, <1>7, <1>y
    <3>2. epoch \in Nat /\ past[epoch + 1] = cfg
      BY ConnLimiterAssumption DEF IInv, TypeOK, RulesKept
    <3>3. conns'[c].host = h /\ conns'[c].grp = g /\ conns'[c].epoch = epoch
      BY <3>1, <1>7, <1>8
    <3>4. epoch \in 0..epoch
      BY <3>2
    <3>5. OwnFits(conns[c].grp, past[conns[c].epoch + 1], conns[c].host)'
      BY <3>2, <3>3, <1>1, <1>5 DEF OwnFits, Members
    <3> QED BY <2>2, <3>3, <3>4, <3>5, <1>6, <1>7
  <2>3. CASE d # c
    <3>0. conns'[d] = conns[d] /\ conns[d].pc # "idle"
      BY <2>1, <2>3, <1>7
    <3>g. PICK gg : gg = conns[d].grp
      OBVIOUS
    <3>r. PICK r : r = past[conns[d].epoch + 1]
      OBVIOUS
    <3>h. PICK hh : hh = conns[d].host
      OBVIOUS
    <3>1. OwnFits(gg, r, hh) /\ GroupOK(gg) /\ gg # NoGroup
      BY <3>0, <3>g, <3>r, <3>h DEF ConnsFit, InUse, IInv, ConnOK
    <3>2. OwnFits(gg, r, hh)'
      BY <3>1, <1>11, FitsKept
    <3>3. conns'[d].grp = gg /\ past'[conns'[d].epoch + 1] = r /\ conns'[d].host = hh
      BY <3>0, <3>g, <3>r, <3>h, <1>1
    <3>4. OwnFits(conns[d].grp, past[conns[d].epoch + 1], conns[d].host)'
      BY <3>2, <3>3 DEF OwnFits, Members
    <3> QED BY <3>0, <3>1, <3>3, <3>4, <2>3, <1>14
  <2> QED BY <2>2, <2>3
<1>16. SameLimiters'
  <2>1. ASSUME NEW d \in Conns, NEW e \in Conns, d # c,
               conns'[d].pc # "idle", conns'[e].pc # "idle",
               conns'[d].epoch = conns'[e].epoch, conns'[d].host = conns'[e].host
        PROVE  conns'[d].grp = conns'[e].grp
    <3>1. conns'[d] = conns[d]
      BY <2>1, <1>7
    <3>2. CASE e # c
      BY <2>1, <3>1, <3>2, <1>7 DEF SameLimiters, InUse
    <3>3. CASE e = c
      <4>1. g # <<>>
        BY <2>1, <3>3, <1>1, <1>7, <1>y
      <4>2. conns'[c].host = h /\ conns'[c].grp = g /\ conns'[c].epoch = epoch
        BY <4>1, <1>7, <1>8
      <4> QED BY <2>1, <3>1, <3>3, <4>2, <1>14
    <3> QED BY <3>2, <3>3
  <2>2. \A d, e \in Conns :
          /\ conns'[d].pc # "idle" /\ conns'[e].pc # "idle"
          /\ conns'[d].epoch = conns'[e].epoch /\ conns'[d].host = conns'[e].host
          => conns'[d].grp = conns'[e].grp
    BY <2>1
  <2>3. ASSUME NEW n \in 1..Len(past), past[n].global > 0
        PROVE  \E l \in 1..Len(heap') :
                 /\ heap'[l].limit = past[n].global
                 /\ \A d \in Conns : /\ conns'[d].pc # "idle" /\ conns'[d].epoch + 1 = n
                                    => l \in Members(conns'[d].grp)
                 /\ n = Len(past) => l = gen.global
    <3>1. PICK l \in 1..Len(heap) :
                 /\ heap[l].limit = past[n].global
                 /\ \A d \in Conns : InUse(d) /\ conns[d].epoch + 1 = n => l \in Members(conns[d].grp)
                 /\ n = Len(past) => l = gen.global
      BY <2>3 DEF SameLimiters
    <3>2. l \in 1..Len(heap') /\ heap'[l].limit = past[n].global
      BY <3>1, <1>3
    <3>3. ASSUME NEW d \in Conns, conns'[d].pc # "idle", conns'[d].epoch + 1 = n
          PROVE  l \in Members(conns'[d].grp)
      <4>1. CASE d # c
        BY <3>1, <3>3, <4>1, <1>7 DEF InUse
      <4>2. CASE d = c
        <5>1. g # <<>>
          BY <3>3, <4>2, <1>1, <1>7, <1>y
        <5>2. conns'[c].grp = g /\ conns'[c].epoch = epoch
          BY <5>1, <1>7, <1>8
        <5>3. n = Len(past) /\ past[n] = cfg
          BY <3>3, <4>2, <5>2 DEF RulesKept
        <5> QED BY <2>3, <3>1, <4>2, <5>2, <5>3, <1>4
      <4> QED BY <4>1, <4>2
    <3> QED BY <3>1, <3>2, <3>3
  <2> QED BY <2>2, <2>3, <1>1 DEF SameLimiters, InUse, Members
<1> QED BY <1>1, <1>9, <1>10, <1>12, <1>13, <1>15, <1>16

(* Generators G name limiters of H that have the limits of the rules c. *)
NamesRules(H, G, c) ==
  /\ G.cidr = c.cidr /\ G.perIP = c.perIP
  /\ \A h \in Hosts : IF c.ip[h] > 0 THEN G.ip[h] # 0 /\ H[G.ip[h]].limit = c.ip[h]
                     ELSE G.ip[h] = 0
  /\ IF c.global > 0 THEN G.global # 0 /\ H[G.global].limit = c.global
     ELSE G.global = 0

LEMMA RulesOf ==
  ASSUME NEW c \in Config, NEW b \in Nat, NEW H,
         \A k \in 1..(NHosts + 1) : H[b + k] = Singles(c)[k]
  PROVE  NamesRules(H, Generators(c, b), c)
<1>G. PICK G : G = Generators(c, b)
  OBVIOUS
<1>1. NHosts \in Nat
  BY ConnLimiterAssumption
<1>2. /\ G.cidr = c.cidr /\ G.perIP = c.perIP
      /\ \A h \in Hosts : G.ip[h] = IF c.ip[h] > 0 THEN b + h ELSE 0
      /\ G.global = IF c.global > 0 THEN b + NHosts + 1 ELSE 0
  BY <1>G DEF Generators
<1>3. ASSUME NEW h \in Hosts, c.ip[h] > 0
      PROVE  G.ip[h] # 0 /\ H[G.ip[h]].limit = c.ip[h]
  <2>1. h \in 1..(NHosts + 1) /\ h <= NHosts /\ h \in Nat /\ h > 0
    BY <1>1 DEF Hosts
  <2>2. Singles(c)[h].limit = c.ip[h]
    BY <2>1 DEF Singles, NewLimiter
  <2>3. G.ip[h] = b + h /\ b + h # 0
    BY <2>1, <1>2, <1>3
  <2> QED BY <2>1, <2>2, <2>3
<1>4. ASSUME c.global > 0 PROVE G.global # 0 /\ H[G.global].limit = c.global
  <2>1. NHosts + 1 \in 1..(NHosts + 1) /\ ~(NHosts + 1 <= NHosts) /\ b + NHosts + 1 = b + (NHosts + 1)
    BY <1>1
  <2>2. Singles(c)[NHosts + 1].limit = c.global
    BY <2>1 DEF Singles, NewLimiter
  <2>3. G.global = b + (NHosts + 1) /\ b + (NHosts + 1) # 0
    BY <2>1, <1>1, <1>2, <1>4
  <2> QED BY <2>1, <2>2, <2>3
<1>5. NamesRules(H, G, c)
  BY <1>2, <1>3, <1>4 DEF NamesRules
<1> QED BY <1>5, <1>G

(* A reload starts with unused limiters and an empty cache. *)
LEMMA ReloadKeepsQ ==
  ASSUME IInv, QInv, Reload, UNCHANGED loops, past' = Append(past, cfg')
  PROVE  QInv'
<1> USE DEF QInv
<1>c. PICK c \in Configs : /\ cfg' = c
                           /\ heap' = heap \o Singles(c)
                           /\ gen' = Generators(c, Len(heap))
  BY DEF Reload
<1>1. /\ c \in Config /\ NHosts \in Nat /\ heap \in Seq(Cell) /\ Len(heap) \in Nat
      /\ epoch \in Nat
  BY ConnLimiterAssumption DEF IInv, TypeOK, Cell
<1>2. /\ epoch' = epoch + 1 /\ limits' = [h \in Hosts |-> NoGroup] /\ conns' = conns
      /\ loops' = loops
  BY DEF Reload
<1>3. /\ Singles(c) \in Seq(Cell) /\ Len(Singles(c)) = NHosts + 1
      /\ \A k \in 1..(NHosts + 1) : Singles(c)[k].current = 0
  <2>1. ASSUME NEW k \in 1..(NHosts + 1)
        PROVE  (IF k <= NHosts THEN c.ip[k] ELSE c.global) \in Nat
    BY <1>1 DEF Config, Hosts
  <2>2. ASSUME NEW k \in 1..(NHosts + 1)
        PROVE  Singles(c)[k] \in Cell /\ Singles(c)[k].current = 0
    BY <2>1 DEF Singles, NewLimiter, Cell
  <2>3. Singles(c) \in [1..(NHosts + 1) -> Cell]
    BY <2>2 DEF Singles
  <2> QED BY <2>2, <2>3, <1>1
<1>t. PICK t : t = Singles(c)
  OBVIOUS
<1>4. t \in Seq(Cell) /\ Len(t) = NHosts + 1 /\ heap' = heap \o t
  BY <1>t, <1>c, <1>3
<1>5. /\ heap' \in Seq(Cell) /\ Len(heap') = Len(heap) + (NHosts + 1) /\ Len(heap') \in Nat
      /\ Len(heap') >= Len(heap)
  <2>1. heap \o t \in Seq(Cell) /\ Len(heap \o t) = Len(heap) + Len(t)
    BY <1>1, <1>4, ConcatProperties
  <2> QED BY <2>1, <1>1, <1>4
<1>6. \A k \in 1..Len(heap) : heap'[k] = heap[k]
  BY <1>1, <1>4
<1>7. ASSUME NEW k \in 1..(NHosts + 1)
      PROVE  heap'[Len(heap) + k] = t[k]
  BY <1>1, <1>4
<1>8. ASSUME NEW k \in 1..Len(heap'), k > Len(heap)
      PROVE  heap'[k].current = 0
  <2>1. heap'[k] = t[k - Len(heap)] /\ k - Len(heap) \in 1..(NHosts + 1)
    BY <1>1, <1>4, <1>5, <1>8
  <2> QED BY <2>1, <1>t, <1>3
<1>9. OneAsks'
  BY <1>2 DEF OneAsks
<1>10. NoneTooMany'
  <2>1. \A d \in Conns : Slots(conns[d]) \subseteq Slots(conns'[d])
    BY <1>2
  <2>2. NoneAbove => NoneAbove'
    BY <2>1, <1>5, <1>6, <1>8, ExactGrow
  <2> QED BY <2>2, <1>2 DEF NoneTooMany
<1>11. /\ past \in Seq(Configs) /\ Len(past) = epoch + 1 /\ past[epoch + 1] = cfg
  BY DEF RulesKept
<1>12. /\ past' \in Seq(Configs) /\ Len(past') = epoch + 2
       /\ past'[epoch + 2] = c /\ \A n \in 1..(epoch + 1) : past'[n] = past[n]
  <2>1. past' = Append(past, c)
    BY <1>c
  <2> QED BY <2>1, <1>1, <1>11
<1>13. RulesKept'
  <2>1. NamesRules(heap', gen', c)
    <3>1. \A k \in 1..(NHosts + 1) : heap'[Len(heap) + k] = Singles(c)[k]
      BY <1>7, <1>t
    <3> QED BY <3>1, <1>1, <1>c, RulesOf
  <2>2. epoch' + 1 = epoch + 2
    BY <1>1, <1>2
  <2> QED BY <2>1, <2>2, <1>c, <1>12 DEF RulesKept, NamesRules
<1>14. CacheFits'
  BY <1>2 DEF CacheFits
<1>15. \A k \in 1..Len(heap) : heap'[k].limit = heap[k].limit
  BY <1>6
<1>16. ASSUME NEW d \in Conns, InUse(d)
       PROVE  /\ conns[d].host \in Hosts /\ conns[d].epoch \in 0..epoch /\ conns[d].grp # NoGroup
              /\ conns[d].epoch \in Nat /\ conns[d].epoch + 1 \in 1..(epoch + 1)
              /\ OwnFits(conns[d].grp, past[conns[d].epoch + 1], conns[d].host)
  BY <1>1, <1>16 DEF ConnsFit
<1>17. ConnsFit'
  <2>1. SUFFICES ASSUME NEW d \in Conns, InUse(d)
                 PROVE  /\ conns[d].host \in Hosts /\ conns[d].epoch \in 0..epoch'
                        /\ conns[d].grp # NoGroup
                        /\ conns[d].epoch # epoch'
                        /\ OwnFits(conns[d].grp, past[conns[d].epoch + 1], conns[d].host)'
    BY <1>2 DEF ConnsFit, InUse
  <2>g. PICK gg : gg = conns[d].grp
    OBVIOUS
  <2>r. PICK r : r = past[conns[d].epoch + 1]
    OBVIOUS
  <2>h. PICK hh : hh = conns[d].host
    OBVIOUS
  <2>2. OwnFits(gg, r, hh) /\ GroupOK(gg)
    BY <2>1, <2>g, <2>r, <2>h, <1>16 DEF IInv, ConnOK
  <2>3. OwnFits(gg, r, hh)'
    BY <2>2, <1>15, FitsKept
  <2>4. conns'[d].grp = gg /\ past'[conns'[d].epoch + 1] = r /\ conns'[d].host = hh
    BY <2>1, <2>g, <2>r, <2>h, <1>2, <1>12, <1>16
  <2>5. OwnFits(conns[d].grp, past[conns[d].epoch + 1], conns[d].host)'
    BY <2>3, <2>4 DEF OwnFits, Members
  <2>6. conns[d].epoch \in 0..epoch' /\ conns[d].epoch # epoch'
    BY <2>1, <1>1, <1>2, <1>16
  <2> QED BY <2>1, <2>5, <2>6, <1>16
<1>18. SameLimiters'
  <2>1. \A d, e \in Conns :
          /\ InUse(d) /\ InUse(e) /\ conns[d].epoch = conns[e].epoch /\ conns[d].host = conns[e].host
          => conns[d].grp = conns[e].grp
    BY DEF SameLimiters
  <2>2. ASSUME NEW n \in 1..Len(past'), past'[n].global > 0
        PROVE  \E l \in 1..Len(heap') :
                 /\ heap'[l].limit = past'[n].global
                 /\ \A d \in Conns : InUse(d) /\ conns[d].epoch + 1 = n => l \in Members(conns[d].grp)
                 /\ n = Len(past') => l = gen'.global
    <3>1. CASE n \in 1..Len(past)
      <4>1. past'[n] = past[n] /\ n # Len(past')
        BY <3>1, <1>1, <1>11, <1>12
      <4>2. PICK l \in 1..Len(heap) :
              /\ heap[l].limit = past[n].global
              /\ \A d \in Conns : InUse(d) /\ conns[d].epoch + 1 = n => l \in Members(conns[d].grp)
        BY <2>2, <3>1, <4>1 DEF SameLimiters
      <4>3. l \in 1..Len(heap') /\ heap'[l].limit = past[n].global
        BY <4>2, <1>1, <1>5, <1>15
      <4> QED BY <4>1, <4>2, <4>3
    <3>2. CASE n \notin 1..Len(past)
      <4>1. n = Len(past') /\ n = epoch + 2 /\ past'[n] = c
        BY <3>2, <1>1, <1>11, <1>12
      <4>2. ~ \E d \in Conns : InUse(d) /\ conns[d].epoch + 1 = n
        BY <4>1, <1>1, <1>16
      <4>3. gen'.global # 0 /\ heap'[gen'.global].limit = c.global
        BY <2>2, <4>1, <1>13, <1>c DEF RulesKept
      <4>4. gen'.global \in 1..Len(heap')
        <5>1. IInv'
          BY ReloadKeeps
        <5>2. gen'.global \in 0..Len(heap')
          BY <5>1 DEF IInv, GenOK
        <5> QED BY <5>2, <4>3, <1>5
      <4> QED BY <4>1, <4>2, <4>3, <4>4
    <3> QED BY <3>1, <3>2
  <2> QED BY <2>1, <2>2, <1>2 DEF SameLimiters, Members, InUse
<1> QED BY <1>2, <1>9, <1>10, <1>13, <1>14, <1>17, <1>18

(* Before anyone is served, only the rules have to fit. *)
LEMMA InitQInv == MCInit => QInv
<1> SUFFICES ASSUME MCInit PROVE QInv
  OBVIOUS
<1>c. PICK c : c = cfg
  OBVIOUS
<1>1. /\ c \in Configs /\ c \in Config /\ NHosts \in Nat
      /\ heap = Singles(c) /\ gen = Generators(c, 0) /\ epoch = 0 /\ past = <<c>>
      /\ limits = [h \in Hosts |-> NoGroup] /\ conns = [d \in Conns |-> Idle]
      /\ loops \in SUBSET Services
  BY <1>c, ConnLimiterAssumption DEF MCInit, Init, Started
<1>2. IInv
  BY InitIInv DEF MCInit
<1>3. \A d \in Conns : conns[d].pc = "idle"
  BY <1>1 DEF Idle
<1>4. OneAsks
  BY <1>3 DEF OneAsks, Asking
<1>5. Len(heap) = NHosts + 1
  <2>1. DOMAIN heap = 1..(NHosts + 1)
    BY <1>1 DEF Singles
  <2>2. heap \in Seq(Cell)
    BY <1>2 DEF IInv, TypeOK, Cell
  <2> QED BY <2>1, <2>2, <1>1, LenProperties
<1>6. NoneTooMany
  <2>1. SUFFICES ASSUME NEW l \in 1..Len(heap)
                 PROVE  heap[l].current <= Cardinality(Holders(l))
    BY DEF NoneTooMany, NoneAbove
  <2>2. heap[l].current = 0
    BY <1>1, <1>5 DEF Singles, NewLimiter
  <2>3. Cardinality(Holders(l)) \in Nat
    BY SubsetFinite DEF Holders
  <2> QED BY <2>2, <2>3
<1>7. RulesKept
  <2>1. \A k \in 1..(NHosts + 1) : heap[0 + k] = Singles(c)[k]
    BY <1>1
  <2>2. NamesRules(heap, gen, c)
    BY <2>1, <1>1, RulesOf
  <2>3. past \in Seq(Configs) /\ Len(past) = 1 /\ past[1] = c
    BY <1>1
  <2>4. epoch + 1 = 1
    BY <1>1
  <2> QED BY <2>2, <2>3, <2>4, <1>c DEF RulesKept, NamesRules
<1>8. CacheFits
  BY <1>1 DEF CacheFits
<1>9. ConnsFit
  BY <1>3 DEF ConnsFit, InUse
<1>10. SameLimiters
  <2>1. ASSUME NEW n \in 1..Len(past), past[n].global > 0
        PROVE  \E l \in 1..Len(heap) : heap[l].limit = past[n].global /\ l = gen.global
    <3>1. n = 1 /\ past[n] = c
      BY <1>1
    <3>2. gen.global # 0 /\ heap[gen.global].limit = c.global
      BY <2>1, <3>1, <1>c, <1>7 DEF RulesKept
    <3>3. gen.global \in 1..Len(heap)
      BY <1>2, <3>2 DEF IInv, GenOK, TypeOK
    <3> QED BY <3>1, <3>2, <3>3
  <2> QED BY <2>1, <1>3 DEF SameLimiters, InUse
<1> QED BY <1>1, <1>4, <1>6, <1>7, <1>8, <1>9, <1>10 DEF QInv

(***************************************************************************)
(* The connection-level steps keep the exact counters: an addition counts  *)
(* for its connection, and what is given back was counted for it; only a   *)
(* release that stops half way would leave a limiter held by nobody.       *)
(***************************************************************************)
LEMMA MoveKeepsQ ==
  ASSUME IInv, QInv, NEW c \in Conns, NEW y \in ConnRec, MovesTo(c, y),
         conns[c].pc # "idle", y = Idle \/ SameCall(conns[c], y),
         Len(heap') = Len(heap),
         \A k \in 1..Len(heap) : heap'[k].limit = heap[k].limit,
         NoneTooMany', UNCHANGED <<loops, past>>
  PROVE  QInv'
<1>1. OneAsks /\ RulesKept /\ CacheFits /\ ConnsFit /\ SameLimiters /\ loops \in SUBSET Services
  BY DEF QInv
<1>2. OneAsks' /\ RulesKept' /\ CacheFits' /\ ConnsFit' /\ SameLimiters'
  BY <1>1, MoveKeeps
<1> QED BY <1>1, <1>2 DEF QInv

LEMMA AddsKeepsQ ==
  ASSUME IInv, QInv, NEW c \in Conns, NEW l \in 1..Len(heap), NEW y \in ConnRec,
         Adds(c, l, y), UNCHANGED <<loops, past>>
  PROVE  QInv'
<1>1. /\ heap' = Bump(l, 1) /\ MovesTo(c, y) /\ conns[c].pc = "add" /\ SameCall(conns[c], y)
      /\ l \notin Slots(conns[c]) /\ Slots(y) = Slots(conns[c]) \cup {l}
  BY DEF Adds
<1>2. Len(heap') = Len(heap) /\ \A k \in 1..Len(heap) : heap'[k].limit = heap[k].limit
  BY <1>1, BumpEffect DEF IInv
<1>3. conns' = [conns EXCEPT ![c] = y]
  BY <1>1 DEF MovesTo
<1>4. NoneAbove => NoneAbove'
  BY <1>1, <1>3, ExactUp
<1>5. NoneTooMany'
  BY <1>4 DEF QInv, NoneTooMany
<1>6. conns[c].pc # "idle"
  BY <1>1
<1> QED BY <1>1, <1>2, <1>5, <1>6, MoveKeepsQ

LEMMA GivesBackKeepsQ ==
  ASSUME IInv, QInv, NEW c \in Conns, NEW l \in 1..Len(heap), NEW y \in ConnRec,
         GivesBack(c, l, y), UNCHANGED <<loops, past>>
  PROVE  QInv'
<1>1. /\ heap' = Bump(l, -1) /\ MovesTo(c, y)
      /\ conns[c].pc \in {"undo", "roll", "release"}
      /\ y = Idle \/ SameCall(conns[c], y)
      /\ Slots(conns[c]) = Slots(y) \cup {l} \/ Over(l, -1)
  BY DEF GivesBack
<1>2. Len(heap') = Len(heap) /\ \A k \in 1..Len(heap) : heap'[k].limit = heap[k].limit
  BY <1>1, BumpEffect DEF IInv
<1>3. conns' = [conns EXCEPT ![c] = y]
  BY <1>1 DEF MovesTo
<1>4. ASSUME Cardinality(loops) = 1 PROVE NoneAbove'
  <2>1. NoneAbove /\ OneAsks /\ loops \in SUBSET Services
    BY <1>4 DEF QInv, NoneTooMany
  <2>2. ~Over(l, -1)
    BY <2>1, <1>4, AloneNeverOver
  <2>3. Slots(conns[c]) = Slots(y) \cup {l}
    BY <2>2, <1>1
  <2> QED BY <2>1, <2>3, <1>1, <1>3, ExactDown
<1>5. NoneTooMany'
  BY <1>4 DEF NoneTooMany
<1>6. conns[c].pc # "idle"
  BY <1>1
<1> QED BY <1>1, <1>2, <1>5, <1>6, MoveKeepsQ

LEMMA CloseKeepsQ ==
  ASSUME IInv, QInv, NEW c \in Conns, Close(c), UNCHANGED <<loops, past>>
  PROVE  QInv'
<1>1. PICK y \in ConnRec : /\ heap' = heap /\ MovesTo(c, y) /\ conns[c].pc = "open"
                           /\ SameCall(conns[c], y) /\ Slots(y) = Slots(conns[c])
  BY CloseEffect
<1>2. Len(heap') = Len(heap) /\ \A k \in 1..Len(heap) : heap'[k].limit = heap[k].limit
  BY <1>1
<1>3. \A d \in Conns : Slots(conns[d]) \subseteq Slots(conns'[d])
  BY <1>1 DEF MovesTo, IInv, TypeOK
<1>4. heap \in Seq(Cell) /\ Len(heap) \in Nat
  BY DEF IInv, TypeOK, Cell
<1>5. NoneAbove => NoneAbove'
  BY <1>1, <1>3, <1>4, ExactGrow
<1>6. NoneTooMany'
  BY <1>5 DEF QInv, NoneTooMany
<1>7. conns[c].pc # "idle"
  BY <1>1
<1> QED BY <1>1, <1>2, <1>6, <1>7, MoveKeepsQ

(* Only a reload changes the number of reloads. *)
LEMMA PastKept ==
  ASSUME IInv, MCNext, ~Reload
  PROVE  epoch' = epoch /\ UNCHANGED <<loops, past>>
<1>1. epoch' = epoch
  BY DEF MCNext, Next, Accept, AllowAdd, AllowUndo, Rollback, Close, Release
<1> QED BY <1>1 DEF MCNext

LEMMA QStutterKeeps ==
  ASSUME QInv, UNCHANGED <<vars, loops, past>>
  PROVE  QInv'
BY DEF QInv, vars, OneAsks, NoneTooMany, NoneAbove, Holders, Held, RulesKept, CacheFits,
       OwnFits, ConnsFit, InUse, SameLimiters

(* Every step keeps the invariant of the history when handlers close once. *)
LEMMA QNextKeeps ==
  ASSUME HandlerCloses = 1, IInv, QInv, [MCNext]_<<vars, loops, past>>
  PROVE  QInv'
<1>1. CASE MCNext /\ Reload
  <2>1. epoch' # epoch
    BY <1>1, ConnLimiterAssumption DEF Reload, IInv, TypeOK
  <2> QED BY <2>1, <1>1, ReloadKeepsQ DEF MCNext
<1>2. CASE MCNext /\ ~Reload
  <2>0. UNCHANGED <<loops, past>>
    BY <1>2, PastKept
  <2>1. ASSUME NEW s \in Services, NEW c \in Conns, NEW h \in Hosts, Accept(s, c, h)
        PROVE  QInv'
    <3>1. conns'[c].svc \in loops \cup {"none"}
      BY <1>2 DEF MCNext
    <3> QED BY <2>0, <2>1, <3>1, AcceptKeepsQ
  <2>2. ASSUME NEW c \in Conns, AllowAdd(c) PROVE QInv'
    BY <2>0, <2>2, AllowAddEffect, AddsKeepsQ
  <2>3. ASSUME NEW c \in Conns, AllowUndo(c) PROVE QInv'
    BY <2>0, <2>3, AllowUndoEffect, GivesBackKeepsQ
  <2>4. ASSUME NEW c \in Conns, Rollback(c) PROVE QInv'
    BY <2>0, <2>4, RollbackEffect, GivesBackKeepsQ
  <2>5. ASSUME NEW c \in Conns, Close(c) PROVE QInv'
    BY <2>0, <2>5, CloseKeepsQ
  <2>6. ASSUME NEW c \in Conns, Release(c) PROVE QInv'
    BY <2>0, <2>6, ReleaseEffect, GivesBackKeepsQ
  <2> QED BY <1>2, <2>1, <2>2, <2>3, <2>4, <2>5, <2>6 DEF MCNext, Next
<1>3. CASE UNCHANGED <<vars, loops, past>>
  BY <1>3, QStutterKeeps
<1> QED BY <1>1, <1>2, <1>3

(* The two invariants together. *)
LEMMA BothInvariant ==
  ASSUME HandlerCloses = 1
  PROVE  MCSpec => [](IInv /\ QInv)
<1>1. MCInit => IInv /\ QInv
  BY InitIInv, InitQInv DEF MCInit
<1>2. IInv /\ QInv /\ [MCNext]_<<vars, loops, past>> => (IInv /\ QInv)'
  <2>1. ASSUME IInv, QInv, [MCNext]_<<vars, loops, past>> PROVE [Next]_vars
    BY <2>1 DEF MCNext
  <2> QED BY <2>1, NextKeeps, QNextKeeps
<1> QED BY <1>1, <1>2, PTL DEF MCSpec

(***************************************************************************)
(* limiter/conn loses no slot to a single accept loop: for handlers that   *)
(* close once, every counter is the number of connections that hold the    *)
(* limiter whenever only one service is started, through refusals in the   *)
(* middle of a group, releases and reloads.                                *)
(***************************************************************************)
THEOREM AloneLosesNoSlot ==
  ASSUME HandlerCloses = 1
  PROVE  MCSpec => []NoSlotLostAlone
<1>1. IInv /\ QInv => NoSlotLostAlone
  <2>1. SUFFICES ASSUME IInv, QInv, Cardinality(loops) = 1, NEW l \in 1..Len(heap)
                 PROVE  heap[l].current = Cardinality(Holders(l))
    BY DEF NoSlotLostAlone, NoSlotLost, IInv
  <2>2. heap[l].current <= Cardinality(Holders(l)) /\ heap[l].current >= Cardinality(Holders(l))
    <3>1. NoneAbove /\ CountOK
      BY <2>1 DEF QInv, NoneTooMany, IInv
    <3> QED BY <3>1 DEF NoneAbove, CountOK
  <2>3. heap[l].current \in Int /\ Cardinality(Holders(l)) \in Nat
    BY <2>1, CellType, SubsetFinite DEF IInv, Holders
  <2> QED BY <2>2, <2>3
<1> QED BY <1>1, BothInvariant, PTL

----------------------------------------------------------------------------
(***************************************************************************)
(* The refinement: limiters, groups, cache and counters implement Quota.   *)
(***************************************************************************)

(* Who is admitted from the hosts H under the n-th rule set. *)
LEMMA AdmittedAre ==
  ASSUME NEW H \in SUBSET Hosts, NEW n \in Nat \ {0}
  PROVE  Limits!AdmittedFrom(H, n) =
           {c \in Conns : /\ conns[c].pc = "open" /\ conns[c].epoch + 1 = n
                          /\ conns[c].host \in H}
BY DEF Limits!AdmittedFrom

(* An admitted connection counts in every limiter of its group. *)
LEMMA OpenHoldsGroup ==
  ASSUME IInv, NEW c \in Conns, conns[c].pc = "open", NEW l \in Members(conns[c].grp)
  PROVE  c \in Open(l)
<1>x. PICK x : x = conns[c]
  OBVIOUS
<1>1. x.lo = 1 /\ x.hi = Len(x.grp)
  BY <1>x DEF IInv, ConnOK
<1>2. l \in Slots(x)
  BY <1>x, <1>1 DEF Members, Slots
<1> QED BY <1>x, <1>2 DEF Open, Held

(* Quota counts as everyone does. *)
LEMMA SameSize == \A S : Limits!Cardinality(S) = Cardinality(S)
BY Zenon DEF Limits!Cardinality, Limits!IsFiniteSet, Cardinality, IsFiniteSet

(***************************************************************************)
(* No host, and not all hosts together, has more connections admitted      *)
(* under a rule set than its rules say: those that came under it count in  *)
(* one limiter with that limit.                                            *)
(***************************************************************************)
LEMMA QuotaHolds ==
  ASSUME IInv, QInv, NEW n \in 1..Len(past)
  PROVE  Limits!Within(n)
<1>1. n \in Nat \ {0} /\ OpenWithinLimit /\ past[n] \in Configs
  BY IInvBoundsOpen DEF QInv, RulesKept
<1>2. ASSUME NEW A \in SUBSET Conns, NEW l \in 1..Len(heap), A \subseteq Open(l)
      PROVE  Cardinality(A) <= heap[l].limit
  <2>1. Open(l) \in SUBSET Conns
    BY DEF Open
  <2>2. /\ Cardinality(A) <= Cardinality(Open(l))
        /\ Cardinality(A) \in Nat /\ Cardinality(Open(l)) \in Nat
    BY <1>2, <2>1, SubsetFinite, FS_Subset
  <2>3. Cardinality(Open(l)) <= heap[l].limit /\ heap[l].limit \in Nat
    BY <1>1, CellType DEF OpenWithinLimit, IInv
  <2> QED BY <2>2, <2>3
<1>3. ASSUME NEW h \in Hosts, Limits!LimitOf(past[n], h) > 0
      PROVE  Cardinality(Limits!AdmittedFrom({h}, n)) <= Limits!LimitOf(past[n], h)
  <2>A. PICK A : A = Limits!AdmittedFrom({h}, n)
    OBVIOUS
  <2>v. PICK v : v = Limits!LimitOf(past[n], h)
    OBVIOUS
  <2>1. A = {c \in Conns : conns[c].pc = "open" /\ conns[c].epoch + 1 = n /\ conns[c].host \in {h}}
    BY <2>A, <1>1, AdmittedAre
  <2>2. A \in SUBSET Conns
    BY <2>1
  <2>3. CASE A = {}
    <3>1. v \in Nat
      BY <2>v, <1>1, ConnLimiterAssumption DEF Limits!LimitOf, Config
    <3>2. Cardinality(A) = 0
      BY <2>3, FS_EmptySet
    <3> QED BY <3>1, <3>2, <2>A, <2>v
  <2>4. CASE A # {}
    <3>1. PICK c \in Conns : /\ conns[c].pc = "open" /\ conns[c].epoch + 1 = n
                             /\ conns[c].host = h
      BY <2>1, <2>4
    <3>2. OwnFits(conns[c].grp, past[n], h)
      BY <3>1 DEF QInv, ConnsFit, InUse
    <3>3. PICK l \in Members(conns[c].grp) : heap[l].limit = v
      BY <3>2, <2>v, <1>3 DEF OwnFits
    <3>4. l \in 1..Len(heap)
      BY <3>3 DEF Members, IInv, ConnOK, GroupOK
    <3>5. ASSUME NEW d \in A PROVE d \in Open(l)
      <4>1. /\ d \in Conns /\ conns[d].pc = "open" /\ conns[d].epoch + 1 = n
            /\ conns[d].host = h
        BY <2>1
      <4>2. conns[d].epoch \in Nat /\ conns[c].epoch \in Nat
        BY <4>1 DEF IInv, TypeOK
      <4>3. conns[d].epoch = conns[c].epoch
        BY <4>1, <4>2, <3>1
      <4>4. conns[d].grp = conns[c].grp
        BY <4>1, <4>3, <3>1 DEF QInv, SameLimiters, InUse
      <4> QED BY <4>1, <4>4, <3>3, OpenHoldsGroup
    <3>6. Cardinality(A) <= heap[l].limit
      BY <3>4, <3>5, <2>2, <1>2
    <3> QED BY <3>3, <3>6, <2>A, <2>v
  <2> QED BY <2>3, <2>4
<1>4. ASSUME past[n].global > 0
      PROVE  Cardinality(Limits!AdmittedFrom(Hosts, n)) <= past[n].global
  <2>A. PICK A : A = Limits!AdmittedFrom(Hosts, n)
    OBVIOUS
  <2>1. A = {c \in Conns : conns[c].pc = "open" /\ conns[c].epoch + 1 = n /\ conns[c].host \in Hosts}
    BY <2>A, <1>1, AdmittedAre
  <2>2. A \in SUBSET Conns
    BY <2>1
  <2>3. PICK l \in 1..Len(heap) :
          /\ heap[l].limit = past[n].global
          /\ \A c \in Conns : InUse(c) /\ conns[c].epoch + 1 = n => l \in Members(conns[c].grp)
    BY <1>4 DEF QInv, SameLimiters
  <2>4. ASSUME NEW d \in A PROVE d \in Open(l)
    <3>1. d \in Conns /\ conns[d].pc = "open" /\ conns[d].epoch + 1 = n
      BY <2>1
    <3>2. l \in Members(conns[d].grp)
      BY <3>1, <2>3 DEF InUse
    <3> QED BY <3>1, <3>2, OpenHoldsGroup
  <2>5. Cardinality(A) <= heap[l].limit
    <3>1. A \subseteq Open(l)
      BY <2>4
    <3>2. l \in 1..Len(heap)
      BY <2>3
    <3> QED BY <3>1, <3>2, <2>2, <1>2
  <2> QED BY <2>3, <2>5, <2>A
<1> QED BY <1>3, <1>4, SameSize DEF Limits!Within

(* Before anyone is served, nobody is admitted. *)
LEMMA InitRefines == MCInit => Limits!QuotaInit
<1> SUFFICES ASSUME MCInit PROVE Limits!QuotaInit
  OBVIOUS
<1>1. /\ cfg \in Configs /\ past = <<cfg>> /\ \A c \in Conns : conns[c].pc # "open"
  BY DEF MCInit, Init, Idle
<1> QED BY <1>1 DEF Limits!QuotaInit, Limits!NotAdmitted

(* What Quota sees of a connection. *)
View(c) == IF conns[c].pc = "open"
           THEN [host |-> conns[c].host, under |-> conns[c].epoch + 1]
           ELSE [host |-> 0, under |-> 0]

(* A step of one connection changes the view of no other. *)
LEMMA ViewOfMove ==
  ASSUME IInv, NEW c \in Conns, NEW y \in ConnRec, MovesTo(c, y)
  PROVE  [d \in Conns |-> View(d)]' = [[d \in Conns |-> View(d)] EXCEPT ![c] = View(c)']
<1>1. \A d \in Conns : d # c => conns'[d] = conns[d]
  BY DEF MovesTo, IInv, TypeOK
<1> QED BY <1>1 DEF View

LEMMA SameView ==
  ASSUME IInv, NEW c \in Conns, NEW y \in ConnRec, MovesTo(c, y),
         conns[c].pc # "open", y.pc # "open"
  PROVE  [d \in Conns |-> View(d)]' = [d \in Conns |-> View(d)]
<1>1. \A d \in Conns : conns'[d] = IF d = c THEN y ELSE conns[d]
  BY DEF MovesTo, IInv, TypeOK
<1>2. \A d \in Conns : View(d)' = View(d)
  BY <1>1 DEF View
<1> QED BY <1>2

AllWithin == \A n \in 1..Len(past) : Limits!Within(n)

(***************************************************************************)
(* A reload changes the rules, an admission admits within them, a close    *)
(* leaves; every other step changes nothing that Quota sees.               *)
(***************************************************************************)
LEMMA StepRefines ==
  ASSUME HandlerCloses = 1, IInv, QInv, AllWithin', [MCNext]_<<vars, loops, past>>
  PROVE  [Limits!QuotaNext]_(Limits!quotaVars)
<1> DEFINE V == [c \in Conns |-> View(c)]
<1>v. Limits!quotaVars = <<past, V>> /\ Limits!quotaVars' = <<past', V'>>
  BY DEF Limits!quotaVars, View
<1>1. CASE MCNext /\ Reload
  <2>1. PICK r \in Configs : cfg' = r
    BY <1>1 DEF Reload
  <2>2. epoch' # epoch
    BY <1>1, ConnLimiterAssumption DEF Reload, IInv, TypeOK
  <2>3. past' = Append(past, r)
    BY <1>1, <2>1, <2>2 DEF MCNext
  <2>4. UNCHANGED conns
    BY <1>1 DEF Reload
  <2>5. Limits!Change
    BY <2>3, <2>4 DEF Limits!Change
  <2> QED BY <2>5 DEF Limits!QuotaNext
<1>2. CASE MCNext /\ ~Reload
  <2>0. past' = past
    BY <1>2, PastKept
  <2>1. ASSUME NEW s \in Services, NEW c \in Conns, NEW h \in Hosts, Accept(s, c, h)
        PROVE  UNCHANGED V
    <3>1. conns[c].pc # "open" /\ conns'[c].pc # "open" /\ \A d \in Conns : d # c => conns'[d] = conns[d]
      BY <2>1 DEF Accept, IInv, TypeOK
    <3> QED BY <3>1 DEF View
  <2>2. ASSUME NEW c \in Conns, AllowAdd(c)
        PROVE  Limits!Admit(c) \/ UNCHANGED V
    <3>1. PICK l \in 1..Len(heap), y \in ConnRec : Adds(c, l, y)
      BY <2>2, AllowAddEffect
    <3>2. /\ MovesTo(c, y) /\ conns[c].pc = "add"
          /\ y.host = conns[c].host /\ y.epoch = conns[c].epoch
      BY <3>1 DEF Adds, SameCall
    <3>3. CASE y.pc # "open"
      BY <3>2, <3>3, SameView
    <3>4. CASE y.pc = "open"
      <4>h. PICK h : h = conns[c].host
        OBVIOUS
      <4>n. PICK n : n = conns[c].epoch + 1
        OBVIOUS
      <4>1. conns'[c] = y
        BY <3>2 DEF MovesTo, IInv, TypeOK
      <4>2. h \in Hosts /\ n \in 1..Len(past)
        <5>1. conns[c].host \in Hosts /\ conns[c].epoch \in 0..epoch
          BY <3>2 DEF QInv, ConnsFit, InUse
        <5>2. Len(past) = epoch + 1 /\ epoch \in Nat
          BY ConnLimiterAssumption DEF QInv, RulesKept, IInv, TypeOK
        <5> QED BY <5>1, <5>2, <4>h, <4>n
      <4>3. View(c)' = [host |-> h, under |-> n]
        BY <4>1, <4>h, <4>n, <3>2, <3>4 DEF View
      <4>4. V[c] = [host |-> 0, under |-> 0]
        BY <3>2 DEF View
      <4>5. V' = [V EXCEPT ![c] = [host |-> h, under |-> n]]
        BY <3>2, <4>3, ViewOfMove
      <4>6. Limits!Within(n)'
        BY <2>0, <4>2 DEF AllWithin
      <4>7. Limits!Admit(c)
        BY <2>0, <4>2, <4>4, <4>5, <4>6 DEF Limits!Admit, Limits!NotAdmitted, View
      <4> QED BY <4>7
    <3> QED BY <3>3, <3>4
  <2>3. ASSUME NEW c \in Conns, NEW l \in 1..Len(heap), NEW y \in ConnRec, GivesBack(c, l, y)
        PROVE  UNCHANGED V
    <3>1. MovesTo(c, y) /\ conns[c].pc # "open" /\ y.pc # "open"
      BY <2>3 DEF GivesBack, Idle
    <3> QED BY <3>1, SameView
  <2>4. ASSUME NEW c \in Conns, Close(c)
        PROVE  Limits!Leave(c)
    <3>1. PICK y \in ConnRec : MovesTo(c, y) /\ conns[c].pc = "open" /\ y.pc = "release"
      BY <2>4, CloseEffect
    <3>2. conns'[c] = y
      BY <3>1 DEF MovesTo, IInv, TypeOK
    <3>3. View(c)' = [host |-> 0, under |-> 0]
      BY <3>1, <3>2 DEF View
    <3>4. V' = [V EXCEPT ![c] = [host |-> 0, under |-> 0]]
      BY <3>1, <3>3, ViewOfMove
    <3>5. V[c] # [host |-> 0, under |-> 0]
      <4>0. conns[c].epoch \in Nat
        BY DEF IInv, TypeOK
      <4>1. conns[c].epoch + 1 # 0
        BY <4>0
      <4>2. V[c].under = conns[c].epoch + 1
        BY <3>1 DEF View
      <4> QED BY <4>1, <4>2
    <3> QED BY <2>0, <3>4, <3>5 DEF Limits!Leave, Limits!NotAdmitted, View
  <2>5. \/ UNCHANGED V
        \/ \E c \in Conns : Limits!Admit(c) \/ Limits!Leave(c)
    <3>1. ASSUME NEW c \in Conns, AllowUndo(c) PROVE UNCHANGED V
      BY <3>1, <2>3, AllowUndoEffect
    <3>2. ASSUME NEW c \in Conns, Rollback(c) PROVE UNCHANGED V
      BY <3>2, <2>3, RollbackEffect
    <3>3. ASSUME NEW c \in Conns, Release(c) PROVE UNCHANGED V
      BY <3>3, <2>3, ReleaseEffect
    <3> QED BY <1>2, <2>1, <2>2, <2>4, <3>1, <3>2, <3>3 DEF MCNext, Next
  <2> QED BY <2>0, <2>5, <1>v DEF Limits!QuotaNext
<1>3. CASE UNCHANGED <<vars, loops, past>>
  <2>1. UNCHANGED <<past, V>>
    BY <1>3 DEF vars, View
  <2> QED BY <2>1, <1>v
<1> QED BY <1>1, <1>2, <1>3

(***************************************************************************)
(* limiter/conn implements limits on hosts (Quota): with the limiters made *)
(* on demand, groups, cache, counters that are added to before they are    *)
(* compared, any number of accept loops and reloads at any moment, a       *)
(* connection is only admitted when its host and all hosts together stay   *)
(* within the rules it came under.                                         *)
(***************************************************************************)
THEOREM ImplementsQuota ==
  ASSUME HandlerCloses = 1
  PROVE  MCSpec => IsQuota
<1>1. MCSpec => [](IInv /\ QInv)
  BY BothInvariant
<1>2. MCInit => Limits!QuotaInit
  BY InitRefines
<1>3. IInv /\ QInv => AllWithin
  BY QuotaHolds DEF AllWithin
<1>4. (IInv /\ QInv) /\ AllWithin' /\ [MCNext]_<<vars, loops, past>>
        => [Limits!QuotaNext]_(Limits!quotaVars)
  BY StepRefines
<1> QED BY <1>1, <1>2, <1>3, <1>4, PTL DEF MCSpec, IsQuota, Limits!QuotaSpec
=============================================================================
