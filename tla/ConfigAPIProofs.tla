-------------------------- MODULE ConfigAPIProofs --------------------------
(***************************************************************************)
(* Proofs about ConfigAPI for any number of concurrent requests, any names *)
(* and configurations, and every kind of object.                           *)
(***************************************************************************)
EXTENDS ConfigAPI, SequenceTheorems, FiniteSetTheorems, SubsequenceProofs

(* The types of the parts that one step refers to. *)
LEMMA Shapes ==
  ASSUME StateOK
  PROVE  /\ kind \in Kind /\ Len(objs) \in Nat /\ objs \in Seq(ObjRecord)
         /\ reg \in [Names -> 0..Len(objs)] /\ reqs \in [Clients -> ReqRecord]
         /\ \A o \in 1..Len(objs) : objs[o] \in ObjRecord /\ objs[o].name \in Names
         /\ \A c \in Clients :
              /\ reqs[c] \in ReqRecord
              /\ reqs[c].old \in 0..Len(objs) /\ reqs[c].cur \in 0..Len(objs)
              /\ reqs[c].obj \in 0..Len(objs)
<1>1. kind \in Kind
  BY ConfigAPIAssumption DEF StateOK
<1>2. /\ Len(objs) \in Nat /\ objs \in Seq(ObjRecord)
      /\ reg \in [Names -> 0..Len(objs)] /\ reqs \in [Clients -> ReqRecord]
      /\ \A o \in 1..Len(objs) : objs[o] \in ObjRecord
      /\ \A c \in Clients : reqs[c] \in ReqRecord
  BY DEF StateOK
<1>3. \A o \in 1..Len(objs) : objs[o].name \in Names
  BY <1>2 DEF ObjRecord
<1>4. \A c \in Clients : /\ reqs[c].old \in 0..Len(objs) /\ reqs[c].cur \in 0..Len(objs)
                         /\ reqs[c].obj \in 0..Len(objs)
  BY DEF StateOK
<1> QED
  BY <1>1, <1>2, <1>3, <1>4

(* One object changes, and its name and configuration are what they were. *)
LEMMA ObjEffect ==
  ASSUME StateOK, NEW o \in 1..Len(objs), NEW r \in ObjRecord, objs' = [objs EXCEPT ![o] = r]
  PROVE  /\ objs' \in Seq(ObjRecord) /\ Len(objs') = Len(objs)
         /\ objs'[o] = r
         /\ \A i \in 1..Len(objs) : i # o => objs'[i] = objs[i]
<1>1. objs \in Seq(ObjRecord)
  BY DEF StateOK
<1>2. objs' \in Seq(ObjRecord) /\ Len(objs') = Len(objs)
  BY <1>1
<1> QED
  BY <1>1, <1>2

LEMMA CloseEffect ==
  ASSUME StateOK, NEW o \in 1..Len(objs), objs' = CloseObj(o)
  PROVE  /\ objs' \in Seq(ObjRecord) /\ Len(objs') = Len(objs)
         /\ objs'[o].up = FALSE
         /\ \A i \in 1..Len(objs) :
              /\ objs'[i].name = objs[i].name /\ objs'[i].fate = objs[i].fate
              /\ objs'[i].serving = objs[i].serving /\ (objs'[i].up => objs[i].up)
<1> DEFINE r == [objs[o] EXCEPT !.up = FALSE]
<1>1. /\ r \in ObjRecord /\ r.up = FALSE /\ r.name = objs[o].name /\ r.fate = objs[o].fate
      /\ r.serving = objs[o].serving
  BY Shapes DEF ObjRecord
<1>2. objs' = [objs EXCEPT ![o] = r]
  BY DEF CloseObj
<1> HIDE DEF r
<1>3. /\ objs' \in Seq(ObjRecord) /\ Len(objs') = Len(objs) /\ objs'[o] = r
      /\ \A i \in 1..Len(objs) : i # o => objs'[i] = objs[i]
  BY <1>1, <1>2, ObjEffect
<1> QED
  BY <1>1, <1>3

LEMMA ServeEffect ==
  ASSUME StateOK, NEW o \in 1..Len(objs), NEW b \in BOOLEAN,
         objs' = [objs EXCEPT ![o].serving = b]
  PROVE  /\ objs' \in Seq(ObjRecord) /\ Len(objs') = Len(objs)
         /\ objs'[o].serving = b
         /\ \A i \in 1..Len(objs) :
              /\ objs'[i].name = objs[i].name /\ objs'[i].fate = objs[i].fate
              /\ objs'[i].up = objs[i].up
              /\ i # o => objs'[i].serving = objs[i].serving
<1> DEFINE r == [objs[o] EXCEPT !.serving = b]
<1>1. /\ r \in ObjRecord /\ r.up = objs[o].up /\ r.name = objs[o].name /\ r.fate = objs[o].fate
      /\ r.serving = b
  BY Shapes DEF ObjRecord
<1>2. objs' = [objs EXCEPT ![o] = r]
  OBVIOUS
<1> HIDE DEF r
<1>3. /\ objs' \in Seq(ObjRecord) /\ Len(objs') = Len(objs) /\ objs'[o] = r
      /\ \A i \in 1..Len(objs) : i # o => objs'[i] = objs[i]
  BY <1>1, <1>2, ObjEffect
<1> QED
  BY <1>1, <1>3

LEMMA FateEffect ==
  ASSUME StateOK, NEW o \in 1..Len(objs), NEW f \in {"registered", "refused", "removed"},
         objs' = [objs EXCEPT ![o].fate = f]
  PROVE  /\ objs' \in Seq(ObjRecord) /\ Len(objs') = Len(objs)
         /\ objs'[o].fate = f
         /\ \A i \in 1..Len(objs) :
              /\ objs'[i].name = objs[i].name /\ objs'[i].serving = objs[i].serving
              /\ objs'[i].up = objs[i].up
              /\ i # o => objs'[i].fate = objs[i].fate
<1> DEFINE r == [objs[o] EXCEPT !.fate = f]
<1>1. /\ r \in ObjRecord /\ r.up = objs[o].up /\ r.name = objs[o].name
      /\ r.serving = objs[o].serving /\ r.fate = f
  BY Shapes DEF ObjRecord
<1>2. objs' = [objs EXCEPT ![o] = r]
  OBVIOUS
<1> HIDE DEF r
<1>3. /\ objs' \in Seq(ObjRecord) /\ Len(objs') = Len(objs) /\ objs'[o] = r
      /\ \A i \in 1..Len(objs) : i # o => objs'[i] = objs[i]
  BY <1>1, <1>2, ObjEffect
<1> QED
  BY <1>1, <1>3

(* An object that was made is the last one; it serves nobody yet. *)
LEMMA AppendEffect ==
  ASSUME StateOK, NEW r \in ObjRecord, objs' = Append(objs, r)
  PROVE  /\ objs' \in Seq(ObjRecord) /\ Len(objs') = Len(objs) + 1
         /\ objs'[Len(objs) + 1] = r
         /\ \A i \in 1..Len(objs) : objs'[i] = objs[i]
<1>1. objs \in Seq(ObjRecord)
  BY DEF StateOK
<1> QED
  BY <1>1

LEMMA NewType ==
  ASSUME StateOK, NEW n \in Names, NEW d \in Datas
  PROVE  /\ NewObj(n, d) \in ObjRecord /\ NewObj(n, d).name = n /\ NewObj(n, d).fate = "parsed"
         /\ NewObj(n, d).serving = FALSE /\ NewObj(n, d).up = kind.runs
<1>1. kind.runs \in BOOLEAN
  BY Shapes DEF Kind
<1> QED
  BY <1>1 DEF ObjRecord, NewObj

Others(c) == \A d \in Clients : d # c => reqs'[d] = reqs[d]

LEMMA GotoEffect ==
  ASSUME StateOK, NEW c \in Clients,
         NEW p \in {"close", "parse", "load", "unclose", "delete", "register", "drop", "serve", "config"},
         reqs' = Goto(c, p)
  PROVE  /\ reqs' \in [Clients -> ReqRecord] /\ Others(c)
         /\ reqs'[c].pc = p /\ reqs'[c].op = reqs[c].op /\ reqs'[c].name = reqs[c].name
         /\ reqs'[c].data = reqs[c].data /\ reqs'[c].old = reqs[c].old
         /\ reqs'[c].cur = reqs[c].cur /\ reqs'[c].obj = reqs[c].obj
<1> DEFINE r == [reqs[c] EXCEPT !.pc = p]
<1>1. /\ r \in ReqRecord /\ r.pc = p /\ r.op = reqs[c].op /\ r.name = reqs[c].name
      /\ r.data = reqs[c].data /\ r.old = reqs[c].old /\ r.cur = reqs[c].cur /\ r.obj = reqs[c].obj
  BY Shapes DEF ReqRecord
<1>2. reqs' = [reqs EXCEPT ![c] = r]
  BY DEF Goto
<1> HIDE DEF r
<1> QED
  BY <1>1, <1>2, Shapes DEF Others

(* Two fields of a request change. *)
LEMMA MadeEffect ==
  ASSUME StateOK, NEW c \in Clients, NEW p \in {"load", "register"}, NEW n \in Nat,
         reqs' = [reqs EXCEPT ![c].obj = n, ![c].pc = p]
  PROVE  /\ reqs' \in [Clients -> ReqRecord] /\ Others(c)
         /\ reqs'[c].pc = p /\ reqs'[c].op = reqs[c].op /\ reqs'[c].name = reqs[c].name
         /\ reqs'[c].data = reqs[c].data /\ reqs'[c].old = reqs[c].old
         /\ reqs'[c].cur = reqs[c].cur /\ reqs'[c].obj = n
<1> DEFINE r == [[reqs[c] EXCEPT !.obj = n] EXCEPT !.pc = p]
<1>1. /\ r \in ReqRecord /\ r.pc = p /\ r.op = reqs[c].op /\ r.name = reqs[c].name
      /\ r.data = reqs[c].data /\ r.old = reqs[c].old /\ r.cur = reqs[c].cur /\ r.obj = n
  BY Shapes DEF ReqRecord
<1>2. reqs' = [reqs EXCEPT ![c] = r]
  BY Shapes
<1> HIDE DEF r
<1> QED
  BY <1>1, <1>2, Shapes DEF Others

LEMMA LoadEffect ==
  ASSUME StateOK, NEW c \in Clients, NEW p \in {"unclose", "delete", "register", "close", "config"},
         NEW n \in Nat, reqs' = [reqs EXCEPT ![c].cur = n, ![c].pc = p]
  PROVE  /\ reqs' \in [Clients -> ReqRecord] /\ Others(c)
         /\ reqs'[c].pc = p /\ reqs'[c].op = reqs[c].op /\ reqs'[c].name = reqs[c].name
         /\ reqs'[c].data = reqs[c].data /\ reqs'[c].old = reqs[c].old
         /\ reqs'[c].cur = n /\ reqs'[c].obj = reqs[c].obj
<1> DEFINE r == [[reqs[c] EXCEPT !.cur = n] EXCEPT !.pc = p]
<1>1. /\ r \in ReqRecord /\ r.pc = p /\ r.op = reqs[c].op /\ r.name = reqs[c].name
      /\ r.data = reqs[c].data /\ r.old = reqs[c].old /\ r.cur = n /\ r.obj = reqs[c].obj
  BY Shapes DEF ReqRecord
<1>2. reqs' = [reqs EXCEPT ![c] = r]
  BY Shapes
<1> HIDE DEF r
<1> QED
  BY <1>1, <1>2, Shapes DEF Others

LEMMA DoneEffect ==
  ASSUME StateOK, NEW c \in Clients, reqs' = Done(c)
  PROVE  /\ reqs' \in [Clients -> ReqRecord] /\ Others(c)
         /\ reqs'[c] = NoReq /\ reqs'[c].pc = "idle" /\ reqs'[c].op = "none"
         /\ reqs'[c].obj = 0 /\ reqs'[c].old = 0 /\ reqs'[c].cur = 0
<1>1. NoReq \in ReqRecord
  BY DEF NoReq, ReqRecord
<1> QED
  BY <1>1, Shapes DEF Done, Others, NoReq

LEMMA InitOK == Init => IInv
<1> SUFFICES ASSUME Init PROVE IInv
  OBVIOUS
<1>1. StateOK
  BY ConfigAPIAssumption DEF Init, StateOK, NoReq, ReqRecord
<1> QED
  BY <1>1 DEF Init, IInv, RegisteredOK, ObjsOK, RequestOK, RequestAt, OwnObject, RacedOK,
              AloneOK, AloneAt, ServingOK, OneWinner, DefaultOnlyInWindow, Created, NoReq

----------------------------------------------------------------------------
(* The objects there were are still there, and none is up again. *)
KeptObjs ==
  /\ Len(objs') \in Nat /\ Len(objs) <= Len(objs')
  /\ \A o \in 1..Len(objs) : objs'[o].name = objs[o].name /\ (objs'[o].up => objs[o].up)

(* No object was registered, refused or removed in the step. *)
KeptFates ==
  /\ \A o \in 1..Len(objs) : objs'[o].fate = objs[o].fate
  /\ \A o \in 1..Len(objs') : o \notin 1..Len(objs) => objs'[o].fate \in {"parsed", "leaked"}

LEMMA StateStep ==
  ASSUME StateOK, kind' = kind, Len(objs') \in Nat, reg' \in [Names -> 0..Len(objs')],
         objs' \in Seq(ObjRecord), reqs' \in [Clients -> ReqRecord],
         \A c \in Clients : /\ reqs'[c].old \in 0..Len(objs') /\ reqs'[c].cur \in 0..Len(objs')
                            /\ reqs'[c].obj \in 0..Len(objs'),
         deleted' \subseteq Names, raced' \subseteq Names
  PROVE  StateOK'
<1>1. \A c \in Clients : {reqs'[c].old, reqs'[c].cur, reqs'[c].obj} \subseteq 0..Len(objs')
  OBVIOUS
<1> QED
  BY <1>1 DEF StateOK

LEMMA RegisteredStep ==
  ASSUME IInv, KeptObjs, KeptFates, reg' = reg
  PROVE  RegisteredOK'
BY Shapes DEF IInv, RegisteredOK, KeptObjs, KeptFates

LEMMA ObjsStep ==
  ASSUME IInv, KeptObjs, kind' = kind,
         \A o \in 1..Len(objs') : o \notin 1..Len(objs) => objs'[o].up = kind.runs /\ ~objs'[o].serving,
         \A o \in 1..Len(objs) : objs'[o].serving => objs[o].serving \/ kind.service
  PROVE  ObjsOK'
<1> SUFFICES ASSUME NEW o \in 1..Len(objs')
             PROVE  (objs'[o].up => kind.runs) /\ (objs'[o].serving => kind.service)
  BY DEF ObjsOK
<1>1. CASE o \in 1..Len(objs)
  BY <1>1 DEF IInv, ObjsOK, KeptObjs
<1>2. CASE o \notin 1..Len(objs)
  BY <1>2
<1> QED
  BY <1>1, <1>2

(* The objects of the other requests are not touched, unless they are taken out. *)
LEMMA RequestStep ==
  ASSUME IInv, KeptObjs, kind' = kind, NEW c \in Clients, Others(c), RequestAt(c)',
         \A o \in 1..Len(objs) : \/ objs'[o].fate = objs[o].fate
                                 \/ o = reqs[c].obj
                                 \/ objs[o].fate = "registered" /\ objs'[o].fate = "removed"
  PROVE  RequestOK'
<1> SUFFICES ASSUME NEW d \in Clients, d # c PROVE RequestAt(d)'
  BY DEF RequestOK
<1>1. reqs'[d] = reqs[d] /\ RequestAt(d) /\ reqs[d].obj \in 0..Len(objs)
  BY Shapes DEF Others, IInv, RequestOK
<1>2. reqs[d].obj # 0 => reqs[d].obj # reqs[c].obj
  BY DEF IInv, OwnObject
<1>3. reqs[d].obj # 0 => objs'[reqs[d].obj].name = objs[reqs[d].obj].name
  BY <1>1 DEF KeptObjs
<1>4. reqs[d].obj # 0 /\ objs[reqs[d].obj].fate \in FatesAt(reqs[d].pc) =>
        objs'[reqs[d].obj].fate \in FatesAt(reqs[d].pc)
  BY <1>1, <1>2 DEF FatesAt
<1> QED
  BY <1>1, <1>3, <1>4 DEF RequestAt

LEMMA OwnStep ==
  ASSUME IInv, NEW c \in Clients, Others(c),
         reqs'[c].obj \in {0, reqs[c].obj, Len(objs) + 1}
  PROVE  OwnObject'
<1>1. \A d \in Clients : reqs[d].obj # Len(objs) + 1
  BY Shapes DEF IInv
<1> QED
  BY <1>1 DEF IInv, OwnObject, Others

LEMMA RacedStep ==
  ASSUME IInv, NEW c \in Clients, Others(c), raced \subseteq raced',
         reqs'[c].pc # "idle" => reqs[c].pc # "idle" /\ reqs'[c].name = reqs[c].name
  PROVE  RacedOK'
BY DEF IInv, RacedOK, Others

(* Requests about other names, alone with theirs, see nothing of the step. *)
LEMMA AloneStep ==
  ASSUME IInv, KeptObjs, NEW c \in Clients, Others(c), AloneAt(c)',
         raced \subseteq raced', reqs[c].pc # "idle",
         \A n \in Names : n # reqs[c].name => reg'[n] = reg[n]
  PROVE  AloneOK'
<1> SUFFICES ASSUME NEW d \in Clients, d # c, reqs[d].pc # "idle", reqs[d].name \notin raced
             PROVE  AloneAt(d)'
  BY DEF AloneOK, AloneAt, Others
<1>1. reqs'[d] = reqs[d] /\ reqs[d].name \in Names /\ AloneAt(d)
  BY DEF Others, IInv, RequestOK, RequestAt, AloneOK
<1>2. reqs[d].name # reqs[c].name
  BY DEF IInv, RacedOK
<1>3. reg'[reqs[d].name] = reg[reqs[d].name] /\ reg[reqs[d].name] \in 0..Len(objs)
  BY <1>1, <1>2, Shapes DEF IInv
<1>4. reg[reqs[d].name] # 0 =>
        (objs'[reg[reqs[d].name]].up => objs[reg[reqs[d].name]].up)
  BY <1>3 DEF KeptObjs
<1> QED
  BY <1>1, <1>3, <1>4 DEF AloneAt

LEMMA ServingStep ==
  ASSUME IInv, KeptObjs, raced \subseteq raced',
         \A o \in 1..Len(objs') : o \notin 1..Len(objs) => ~objs'[o].serving,
         \A o \in 1..Len(objs) :
           objs[o].name \notin raced /\ objs[o].up /\ objs'[o].up /\ objs'[o].serving =>
             \/ objs[o].serving /\ reg'[objs[o].name] = reg[objs[o].name]
             \/ reg'[objs[o].name] = o
  PROVE  ServingOK'
<1> SUFFICES ASSUME NEW o \in 1..Len(objs'), objs'[o].name \notin raced',
                    objs'[o].up, objs'[o].serving
             PROVE  reg'[objs'[o].name] = o
  BY DEF ServingOK
<1>1. o \in 1..Len(objs) /\ objs'[o].name = objs[o].name /\ objs[o].up /\ objs[o].name \notin raced
  BY DEF KeptObjs
<1> QED
  BY <1>1 DEF IInv, ServingOK

LEMMA OneWinnerStep ==
  ASSUME IInv, KeptObjs, KeptFates, reg' = reg, kind' = kind, NEW c \in Clients, Others(c),
         reqs[c].pc # "drop"
  PROVE  OneWinner'
<1> SUFFICES ASSUME NEW o \in 1..Len(objs')
             PROVE  /\ objs'[o].fate = "registered" => reg[objs'[o].name] = o
                    /\ kind.service /\ objs'[o].fate = "refused" =>
                         ~objs'[o].up \/ \E d \in Clients : reqs'[d].obj = o
  BY DEF OneWinner
<1>1. CASE o \notin 1..Len(objs)
  BY <1>1 DEF KeptFates
<1>2. CASE o \in 1..Len(objs)
  <2>1. objs'[o].fate = objs[o].fate /\ objs'[o].name = objs[o].name /\ (objs'[o].up => objs[o].up)
    BY <1>2 DEF KeptObjs, KeptFates
  <2>2. objs[o].fate = "registered" => reg[objs[o].name] = o
    BY <1>2 DEF IInv, OneWinner
  <2>3. ASSUME kind.service, objs[o].fate = "refused", objs[o].up
        PROVE  \E d \in Clients : reqs'[d].obj = o
    <3>1. PICK d \in Clients : reqs[d].obj = o
      BY <1>2, <2>3 DEF IInv, OneWinner
    <3>2. d # c
      BY <1>2, <2>3, <3>1 DEF IInv, RequestOK, RequestAt, FatesAt
    <3> QED
      BY <3>1, <3>2 DEF Others
  <2> QED
    BY <2>1, <2>2, <2>3
<1> QED
  BY <1>1, <1>2

LEMMA DefaultStep ==
  ASSUME IInv, KeptObjs, KeptFates, reg' = reg, kind' = kind, deleted' = deleted,
         NEW c \in Clients, Others(c), reqs[c].pc # "register"
  PROVE  DefaultOnlyInWindow'
<1> SUFFICES ASSUME NEW n \in Names, Created(n)', n \notin deleted
             PROVE  Answer(n)' = "object" \/ InWindow(n)'
  BY DEF DefaultOnlyInWindow
<1>1. Created(n)
  BY DEF Created, KeptObjs, KeptFates
<1>2. Answer(n) = "object" \/ InWindow(n)
  BY <1>1 DEF IInv, DefaultOnlyInWindow
<1>3. CASE Answer(n) = "object"
  BY <1>3 DEF Answer
<1>4. CASE InWindow(n)
  BY <1>4 DEF InWindow, Others
<1> QED
  BY <1>2, <1>3, <1>4

(* A step of a request that registers nothing, takes nothing out and serves nobody. *)
LEMMA PlainStep ==
  ASSUME IInv, StateOK', KeptObjs, KeptFates, kind' = kind, reg' = reg, deleted' = deleted,
         raced' = raced, NEW c \in Clients, Others(c),
         reqs[c].pc \notin {"idle", "drop", "register"}, RequestAt(c)', AloneAt(c)',
         reqs'[c].obj \in {0, reqs[c].obj, Len(objs) + 1},
         reqs'[c].pc # "idle" => reqs'[c].name = reqs[c].name,
         \A o \in 1..Len(objs') : o \notin 1..Len(objs) => objs'[o].up = kind.runs /\ ~objs'[o].serving,
         \A o \in 1..Len(objs) : objs'[o].serving = objs[o].serving
  PROVE  IInv'
<1>1. RegisteredOK'
  BY RegisteredStep
<1>2. ObjsOK'
  BY ObjsStep
<1>3. RequestOK'
  BY RequestStep DEF KeptFates
<1>4. OwnObject'
  BY OwnStep
<1>5. RacedOK'
  BY RacedStep
<1>6. AloneOK'
  BY AloneStep
<1>7. ServingOK'
  BY ServingStep
<1>8. OneWinner'
  BY OneWinnerStep
<1>9. DefaultOnlyInWindow'
  BY DefaultStep
<1> QED
  BY <1>1, <1>2, <1>3, <1>4, <1>5, <1>6, <1>7, <1>8, <1>9 DEF IInv

(* What holds of any request under way. *)
LEMMA Facts ==
  ASSUME IInv, NEW c \in Clients
  PROVE  /\ StateOK /\ RequestAt(c) /\ AloneAt(c) /\ kind \in Kind
         /\ Len(objs) \in Nat /\ objs \in Seq(ObjRecord)
         /\ reg \in [Names -> 0..Len(objs)]
         /\ reqs[c].old \in 0..Len(objs) /\ reqs[c].cur \in 0..Len(objs)
         /\ reqs[c].obj \in 0..Len(objs)
         /\ reqs[c].pc # "idle" => reqs[c].name \in Names
BY Shapes DEF IInv, RequestOK, AloneOK, RequestAt

LEMMA SameObjs ==
  ASSUME IInv, objs' = objs
  PROVE  KeptObjs /\ KeptFates
BY Shapes DEF IInv, KeptObjs, KeptFates

LEMMA EffectKept ==
  ASSUME StateOK, Len(objs') = Len(objs),
         \A i \in 1..Len(objs) :
           /\ objs'[i].name = objs[i].name /\ objs'[i].fate = objs[i].fate
           /\ objs'[i].up => objs[i].up
  PROVE  KeptObjs /\ KeptFates
<1>1. KeptObjs
  BY Shapes DEF KeptObjs
<1>2. KeptFates
  BY DEF KeptFates
<1> QED
  BY <1>1, <1>2

(* What the step of a request makes of its object. *)
LEMMA FatesAtValue ==
  /\ \A p \in {"load", "unclose", "delete", "register"} : FatesAt(p) = {"parsed"}
  /\ FatesAt("drop") = {"refused"}
  /\ \A p \in {"serve", "config"} : FatesAt(p) = {"registered", "removed"}
BY DEF FatesAt

(* With the objects and the registry as they are, the types are the requests'. *)
LEMMA ReqsState ==
  ASSUME StateOK, kind' = kind, reg' = reg, objs' \in Seq(ObjRecord), deleted' = deleted,
         raced' = raced, Len(objs') \in {Len(objs), Len(objs) + 1},
         NEW c \in Clients, Others(c), reqs' \in [Clients -> ReqRecord],
         reqs'[c].old \in 0..Len(objs'), reqs'[c].cur \in 0..Len(objs'),
         reqs'[c].obj \in 0..Len(objs')
  PROVE  StateOK'
<1>1. Len(objs) \in Nat /\ Len(objs') \in Nat
  BY Shapes
<1>2. \A d \in Clients : /\ reqs'[d].old \in 0..Len(objs') /\ reqs'[d].cur \in 0..Len(objs')
                         /\ reqs'[d].obj \in 0..Len(objs')
  <2> SUFFICES ASSUME NEW d \in Clients, d # c
               PROVE  /\ reqs[d].old \in 0..Len(objs') /\ reqs[d].cur \in 0..Len(objs')
                      /\ reqs[d].obj \in 0..Len(objs')
    BY DEF Others
  <2> QED
    BY <1>1, Shapes
<1>3. reg' \in [Names -> 0..Len(objs')] /\ deleted \subseteq Names /\ raced \subseteq Names
  BY <1>1, Shapes DEF StateOK
<1> QED
  BY <1>1, <1>2, <1>3, StateStep

LEMMA CloseOldOK ==
  ASSUME IInv, NEW c \in Clients, CloseOld(c)
  PROVE  IInv'
<1> DEFINE p == IF reqs[c].op = "update" THEN "parse" ELSE "config"
<1>1. /\ kind' = kind /\ reg' = reg /\ deleted' = deleted /\ raced' = raced
      /\ reqs[c].pc = "close" /\ StateOK /\ RequestAt(c) /\ reqs[c].old \in 1..Len(objs)
      /\ reqs[c].name \in Names /\ reqs[c].obj = 0
      /\ reqs[c].op \in {"update", "delete"}
  BY Facts DEF CloseOld, RequestAt
<1>2. /\ reqs' \in [Clients -> ReqRecord] /\ Others(c)
      /\ reqs'[c].pc = p /\ reqs'[c].op = reqs[c].op /\ reqs'[c].name = reqs[c].name
      /\ reqs'[c].data = reqs[c].data /\ reqs'[c].old = reqs[c].old
      /\ reqs'[c].cur = reqs[c].cur /\ reqs'[c].obj = reqs[c].obj
  <2>1. reqs' = Goto(c, p)
    BY DEF CloseOld
  <2> QED
    BY <1>1, <2>1, GotoEffect
<1>3. /\ objs' \in Seq(ObjRecord) /\ Len(objs') = Len(objs)
      /\ \A i \in 1..Len(objs) :
           /\ objs'[i].name = objs[i].name /\ objs'[i].fate = objs[i].fate
           /\ objs'[i].serving = objs[i].serving /\ (objs'[i].up => objs[i].up)
  <2>1. objs' = CloseObj(reqs[c].old)
    BY DEF CloseOld
  <2> QED
    BY <1>1, <2>1, CloseEffect
<1>4. KeptObjs /\ KeptFates
  BY <1>1, <1>3, EffectKept
<1>5. StateOK'
  BY <1>1, <1>2, <1>3, Facts, ReqsState
<1>6. RequestAt(c)' /\ AloneAt(c)'
  BY <1>1, <1>2 DEF RequestAt, AloneAt
<1> QED
  BY <1>1, <1>2, <1>3, <1>4, <1>5, <1>6, PlainStep

LEMMA ParseFailsOK ==
  ASSUME IInv, NEW c \in Clients, ParseFails(c)
  PROVE  IInv'
<1>1. /\ kind' = kind /\ reg' = reg /\ deleted' = deleted /\ raced' = raced /\ objs' = objs
      /\ reqs[c].pc = "parse" /\ StateOK
  BY Facts DEF ParseFails
<1>2. /\ reqs' \in [Clients -> ReqRecord] /\ Others(c)
      /\ reqs'[c].pc = "idle" /\ reqs'[c].op = "none"
      /\ reqs'[c].obj = 0 /\ reqs'[c].old = 0 /\ reqs'[c].cur = 0
  BY <1>1, DoneEffect DEF ParseFails
<1>3. KeptObjs /\ KeptFates
  BY <1>1, SameObjs
<1>4. StateOK'
  BY <1>1, <1>2, Facts, ReqsState
<1>5. RequestAt(c)' /\ AloneAt(c)'
  BY <1>2 DEF RequestAt, AloneAt
<1> QED
  BY <1>1, <1>2, <1>3, <1>4, <1>5, PlainStep

LEMMA ParseHandlerFailsOK ==
  ASSUME IInv, NEW c \in Clients, ParseHandlerFails(c)
  PROVE  IInv'
<1>1. /\ kind' = kind /\ reg' = reg /\ deleted' = deleted /\ raced' = raced
      /\ reqs[c].pc = "parse" /\ StateOK /\ reqs[c].name \in Names /\ reqs[c].data \in Datas
      /\ Len(objs) \in Nat
  BY Facts DEF ParseHandlerFails, RequestAt
<1>2. /\ reqs' \in [Clients -> ReqRecord] /\ Others(c)
      /\ reqs'[c].pc = "idle" /\ reqs'[c].op = "none"
      /\ reqs'[c].obj = 0 /\ reqs'[c].old = 0 /\ reqs'[c].cur = 0
  BY <1>1, DoneEffect DEF ParseHandlerFails
<1>3. /\ objs' \in Seq(ObjRecord) /\ Len(objs') = Len(objs) + 1
      /\ objs'[Len(objs) + 1].fate = "leaked"
      /\ objs'[Len(objs) + 1].serving = FALSE /\ objs'[Len(objs) + 1].up = kind.runs
      /\ \A i \in 1..Len(objs) : objs'[i] = objs[i]
  <2> DEFINE q == NewObj(reqs[c].name, reqs[c].data)
             r == [q EXCEPT !.fate = "leaked"]
  <2>1. q \in ObjRecord /\ q.serving = FALSE /\ q.up = kind.runs
    BY <1>1, NewType
  <2>2. objs' = Append(objs, r)
    BY DEF ParseHandlerFails
  <2> HIDE DEF q
  <2>3. r \in ObjRecord /\ r.fate = "leaked" /\ r.serving = FALSE /\ r.up = kind.runs
    BY <2>1 DEF ObjRecord
  <2> HIDE DEF r
  <2> QED
    BY <1>1, <2>2, <2>3, AppendEffect
<1>4. KeptObjs /\ KeptFates
  BY <1>1, <1>3 DEF KeptObjs, KeptFates
<1>5. StateOK'
  BY <1>1, <1>2, <1>3, ReqsState
<1>6. RequestAt(c)' /\ AloneAt(c)'
  BY <1>2 DEF RequestAt, AloneAt
<1> QED
  BY <1>1, <1>2, <1>3, <1>4, <1>5, <1>6, PlainStep

LEMMA ParseOK ==
  ASSUME IInv, NEW c \in Clients, Parse(c)
  PROVE  IInv'
<1> DEFINE p == IF reqs[c].op = "create" THEN "register" ELSE "load"
           n == Len(objs) + 1
<1>1. /\ kind' = kind /\ reg' = reg /\ deleted' = deleted /\ raced' = raced
      /\ reqs[c].pc = "parse" /\ StateOK /\ reqs[c].name \in Names /\ reqs[c].data \in Datas
      /\ Len(objs) \in Nat /\ reqs[c].op # "delete" /\ reqs[c] \in ReqRecord
      /\ reqs[c].old \in 0..Len(objs) /\ reqs[c].cur \in 0..Len(objs)
      /\ reqs \in [Clients -> ReqRecord] /\ RequestAt(c)
  BY Facts, Shapes DEF Parse, RequestAt
<1>2. /\ reqs' \in [Clients -> ReqRecord] /\ Others(c)
      /\ reqs'[c].pc = p /\ reqs'[c].op = reqs[c].op /\ reqs'[c].name = reqs[c].name
      /\ reqs'[c].data = reqs[c].data /\ reqs'[c].old = reqs[c].old
      /\ reqs'[c].cur = reqs[c].cur /\ reqs'[c].obj = n
  <2>1. reqs' = [reqs EXCEPT ![c].obj = n, ![c].pc = p] /\ p \in {"load", "register"} /\ n \in Nat
    BY <1>1 DEF Parse
  <2> HIDE DEF n, p
  <2> QED
    BY <1>1, <2>1, MadeEffect
<1>3. /\ objs' \in Seq(ObjRecord) /\ Len(objs') = n
      /\ objs'[n].name = reqs[c].name /\ objs'[n].fate = "parsed"
      /\ objs'[n].serving = FALSE /\ objs'[n].up = kind.runs
      /\ \A i \in 1..Len(objs) : objs'[i] = objs[i]
  <2> DEFINE r == NewObj(reqs[c].name, reqs[c].data)
  <2>1. objs' = Append(objs, r)
    BY DEF Parse
  <2>2. /\ r \in ObjRecord /\ r.name = reqs[c].name /\ r.fate = "parsed" /\ r.serving = FALSE
        /\ r.up = kind.runs
    BY <1>1, NewType
  <2> HIDE DEF r
  <2> QED
    BY <1>1, <2>1, <2>2, AppendEffect
<1>4. KeptObjs /\ KeptFates
  BY <1>1, <1>3 DEF KeptObjs, KeptFates
<1>5. StateOK'
  <2>1. /\ reqs'[c].old \in 0..Len(objs') /\ reqs'[c].cur \in 0..Len(objs')
        /\ reqs'[c].obj \in 0..Len(objs')
    BY <1>1, <1>2, <1>3
  <2> QED
    BY <1>1, <1>2, <1>3, <2>1, ReqsState
<1>6. RequestAt(c)'
  <2>1. p \in {"register", "load"} /\ (reqs[c].op = "create" => p = "register")
    BY DEF p
  <2>2. objs'[n].fate \in FatesAt(p) /\ n # 0
    BY <1>1, <1>3, <2>1, FatesAtValue
  <2>3. /\ reqs'[c].pc = p /\ reqs'[c].op = reqs[c].op /\ reqs'[c].name = reqs[c].name
        /\ reqs'[c].data = reqs[c].data /\ reqs'[c].old = reqs[c].old /\ reqs'[c].obj = n
        /\ objs'[n].name = reqs[c].name /\ kind' = kind
        /\ kind.service /\ reqs[c].op \in {"update", "delete"} => reqs[c].old # 0
        /\ reqs[c].op \in {"create", "update"}
    BY <1>1, <1>2, <1>3 DEF RequestAt, ReqRecord
  <2> HIDE DEF p, n
  <2> QED
    BY <1>1, <2>1, <2>2, <2>3 DEF RequestAt
<1>7. AloneAt(c)'
  BY <1>2 DEF AloneAt
<1> QED
  BY <1>1, <1>2, <1>3, <1>4, <1>5, <1>6, <1>7, PlainStep

LEMMA UnregisterLoadOK ==
  ASSUME IInv, NEW c \in Clients, UnregisterLoad(c)
  PROVE  IInv'
<1> DEFINE m == reg[reqs[c].name]
           p == IF m = 0 THEN AfterUnregister(reqs[c])
                ELSE IF kind.runs THEN "unclose" ELSE "delete"
<1>1. /\ kind' = kind /\ reg' = reg /\ deleted' = deleted /\ raced' = raced /\ objs' = objs
      /\ reqs[c].pc = "load" /\ StateOK /\ reqs[c].name \in Names
      /\ Len(objs) \in Nat /\ m \in 0..Len(objs) /\ reqs[c] \in ReqRecord
      /\ reqs[c].old \in 0..Len(objs) /\ reqs[c].obj \in 0..Len(objs)
      /\ reqs \in [Clients -> ReqRecord] /\ RequestAt(c)
  BY Facts, Shapes DEF UnregisterLoad
<1>2. /\ reqs' \in [Clients -> ReqRecord] /\ Others(c)
      /\ reqs'[c].pc = p /\ reqs'[c].op = reqs[c].op /\ reqs'[c].name = reqs[c].name
      /\ reqs'[c].data = reqs[c].data /\ reqs'[c].old = reqs[c].old
      /\ reqs'[c].cur = m /\ reqs'[c].obj = reqs[c].obj
  <2>1. /\ reqs' = [reqs EXCEPT ![c].cur = m, ![c].pc = p] /\ m \in Nat
        /\ p \in {"unclose", "delete", "register", "close", "config"}
    BY <1>1 DEF UnregisterLoad, AfterUnregister
  <2> HIDE DEF m, p
  <2> QED
    BY <1>1, <2>1, LoadEffect
<1>3. KeptObjs /\ KeptFates
  BY <1>1, SameObjs
<1>4. StateOK'
  <2>1. /\ reqs'[c].old \in 0..Len(objs') /\ reqs'[c].cur \in 0..Len(objs')
        /\ reqs'[c].obj \in 0..Len(objs')
    BY <1>1, <1>2
  <2> QED
    BY <1>1, <1>2, <2>1, Shapes, ReqsState
<1>5. RequestAt(c)'
  <2>1. /\ p \in {"unclose", "delete", "register", "close", "config"}
        /\ reqs[c].op = "delete" => p \in {"unclose", "delete", "close", "config"}
        /\ reqs[c].op # "delete" => p \in {"unclose", "delete", "register"}
        /\ p = "unclose" => m # 0
        /\ p = "close" => kind.service
    BY <1>1 DEF RequestAt, AfterUnregister
  <2>2. reqs[c].op # "delete" => objs[reqs[c].obj].fate \in FatesAt(p)
    BY <1>1, <2>1, FatesAtValue DEF RequestAt
  <2> HIDE DEF p, m
  <2> QED
    BY <1>1, <1>2, <2>1, <2>2 DEF RequestAt
<1>6. AloneAt(c)'
  <2>1. m # 0 /\ ~kind.runs => ~objs[m].up
    BY <1>1 DEF IInv, ObjsOK
  <2> QED
    BY <1>1, <1>2, <2>1 DEF AloneAt, AfterUnregister
<1> QED
  BY <1>1, <1>2, <1>3, <1>4, <1>5, <1>6, PlainStep

LEMMA UnregisterCloseOK ==
  ASSUME IInv, NEW c \in Clients, UnregisterClose(c)
  PROVE  IInv'
<1>1. /\ kind' = kind /\ reg' = reg /\ deleted' = deleted /\ raced' = raced
      /\ reqs[c].pc = "unclose" /\ StateOK /\ RequestAt(c) /\ AloneAt(c)
      /\ reqs[c].cur \in 1..Len(objs) /\ reqs[c].name \in Names
  BY Facts DEF UnregisterClose, RequestAt
<1>2. /\ reqs' \in [Clients -> ReqRecord] /\ Others(c)
      /\ reqs'[c].pc = "delete" /\ reqs'[c].op = reqs[c].op /\ reqs'[c].name = reqs[c].name
      /\ reqs'[c].data = reqs[c].data /\ reqs'[c].old = reqs[c].old
      /\ reqs'[c].cur = reqs[c].cur /\ reqs'[c].obj = reqs[c].obj
  BY <1>1, GotoEffect DEF UnregisterClose
<1>3. /\ objs' \in Seq(ObjRecord) /\ Len(objs') = Len(objs) /\ objs'[reqs[c].cur].up = FALSE
      /\ \A i \in 1..Len(objs) :
           /\ objs'[i].name = objs[i].name /\ objs'[i].fate = objs[i].fate
           /\ objs'[i].serving = objs[i].serving /\ (objs'[i].up => objs[i].up)
  <2>1. objs' = CloseObj(reqs[c].cur)
    BY DEF UnregisterClose
  <2> QED
    BY <1>1, <2>1, CloseEffect
<1>4. KeptObjs /\ KeptFates
  BY <1>1, <1>3, EffectKept
<1>5. StateOK'
  BY <1>1, <1>2, <1>3, Facts, ReqsState
<1>6. RequestAt(c)'
  <2>1. reqs[c].obj # 0 => /\ objs'[reqs[c].obj].fate = objs[reqs[c].obj].fate
                           /\ objs'[reqs[c].obj].name = objs[reqs[c].obj].name
    BY <1>3, Facts
  <2> QED
    BY <1>1, <1>2, <2>1, FatesAtValue DEF RequestAt
<1>7. AloneAt(c)'
  BY <1>1, <1>2, <1>3 DEF AloneAt
<1> QED
  BY <1>1, <1>2, <1>3, <1>4, <1>5, <1>6, <1>7, PlainStep

LEMMA OnUpdateOK ==
  ASSUME IInv, NEW c \in Clients, OnUpdate(c)
  PROVE  IInv'
<1>1. /\ kind' = kind /\ reg' = reg /\ deleted' = deleted /\ raced' = raced /\ objs' = objs
      /\ reqs[c].pc = "config" /\ StateOK
  BY Facts DEF OnUpdate
<1>2. /\ reqs' \in [Clients -> ReqRecord] /\ Others(c)
      /\ reqs'[c].pc = "idle" /\ reqs'[c].op = "none"
      /\ reqs'[c].obj = 0 /\ reqs'[c].old = 0 /\ reqs'[c].cur = 0
  BY <1>1, DoneEffect DEF OnUpdate
<1>3. KeptObjs /\ KeptFates
  BY <1>1, SameObjs
<1>4. StateOK'
  BY <1>1, <1>2, Facts, ReqsState
<1>5. RequestAt(c)' /\ AloneAt(c)'
  BY <1>2 DEF RequestAt, AloneAt
<1> QED
  BY <1>1, <1>2, <1>3, <1>4, <1>5, PlainStep

(* Serve starts: if nobody raced for the name, the service is what it stands for. *)
LEMMA StartServeOK ==
  ASSUME IInv, NEW c \in Clients, StartServe(c)
  PROVE  IInv'
<1> DEFINE k == reqs[c].obj
<1>1. /\ kind' = kind /\ reg' = reg /\ deleted' = deleted /\ raced' = raced
      /\ reqs[c].pc = "serve" /\ StateOK /\ RequestAt(c) /\ AloneAt(c)
      /\ k \in 1..Len(objs) /\ reqs[c].name \in Names /\ objs[k].name = reqs[c].name
      /\ kind.service
  BY Facts DEF StartServe, RequestAt
<1>2. /\ reqs' \in [Clients -> ReqRecord] /\ Others(c)
      /\ reqs'[c].pc = "config" /\ reqs'[c].op = reqs[c].op /\ reqs'[c].name = reqs[c].name
      /\ reqs'[c].data = reqs[c].data /\ reqs'[c].old = reqs[c].old
      /\ reqs'[c].cur = reqs[c].cur /\ reqs'[c].obj = k
  BY <1>1, GotoEffect DEF StartServe
<1>3. /\ objs' \in Seq(ObjRecord) /\ Len(objs') = Len(objs)
      /\ \A i \in 1..Len(objs) :
           /\ objs'[i].name = objs[i].name /\ objs'[i].fate = objs[i].fate
           /\ objs'[i].up = objs[i].up /\ (i # k => objs'[i].serving = objs[i].serving)
  <2>1. objs' = [objs EXCEPT ![k].serving = TRUE]
    BY DEF StartServe
  <2> HIDE DEF k
  <2> QED
    BY <1>1, <2>1, ServeEffect
<1>4. KeptObjs /\ KeptFates
  BY <1>1, <1>3, EffectKept
<1>5. StateOK'
  BY <1>1, <1>2, <1>3, Facts, ReqsState
<1>6. RequestAt(c)'
  <2>1. objs'[k].fate \in FatesAt("config") /\ objs'[k].name = reqs[c].name
    BY <1>1, <1>3, FatesAtValue DEF RequestAt
  <2> QED
    BY <1>1, <1>2, <2>1 DEF RequestAt
<1>7. AloneAt(c)'
  BY <1>2 DEF AloneAt
<1>8. RegisteredOK'
  BY <1>1, <1>4, RegisteredStep
<1>9. ObjsOK'
  BY <1>1, <1>3, <1>4, ObjsStep
<1>10. RequestOK'
  BY <1>1, <1>2, <1>4, <1>6, RequestStep DEF KeptFates
<1>11. OwnObject'
  BY <1>2, OwnStep
<1>12. RacedOK'
  BY <1>1, <1>2, RacedStep
<1>13. AloneOK'
  BY <1>1, <1>2, <1>4, <1>7, AloneStep
<1>14. ServingOK'
  <2>1. reqs[c].name \notin raced => reg[reqs[c].name] = k
    BY <1>1 DEF AloneAt
  <2>2. \A o \in 1..Len(objs) :
          objs[o].name \notin raced /\ objs[o].up /\ objs'[o].up /\ objs'[o].serving =>
            \/ objs[o].serving /\ reg'[objs[o].name] = reg[objs[o].name]
            \/ reg'[objs[o].name] = o
    BY <1>1, <1>3, <2>1
  <2> QED
    BY <1>1, <1>3, <1>4, <2>2, ServingStep
<1>15. OneWinner'
  BY <1>1, <1>2, <1>4, OneWinnerStep
<1>16. DefaultOnlyInWindow'
  BY <1>1, <1>2, <1>4, DefaultStep
<1> QED
  BY <1>5, <1>8, <1>9, <1>10, <1>11, <1>12, <1>13, <1>14, <1>15, <1>16 DEF IInv

(* The listener of a service that was refused is closed with the request's last step. *)
LEMMA CloseRefusedOK ==
  ASSUME IInv, NEW c \in Clients, CloseRefused(c)
  PROVE  IInv'
<1> DEFINE k == reqs[c].obj
<1>1. /\ kind' = kind /\ reg' = reg /\ deleted' = deleted /\ raced' = raced
      /\ reqs[c].pc = "drop" /\ StateOK /\ RequestAt(c)
      /\ k \in 1..Len(objs) /\ reqs[c].name \in Names
  BY Facts DEF CloseRefused, RequestAt
<1>2. /\ reqs' \in [Clients -> ReqRecord] /\ Others(c)
      /\ reqs'[c].pc = "idle" /\ reqs'[c].op = "none"
      /\ reqs'[c].obj = 0 /\ reqs'[c].old = 0 /\ reqs'[c].cur = 0
  BY <1>1, DoneEffect DEF CloseRefused
<1>3. /\ objs' \in Seq(ObjRecord) /\ Len(objs') = Len(objs) /\ objs'[k].up = FALSE
      /\ \A i \in 1..Len(objs) :
           /\ objs'[i].name = objs[i].name /\ objs'[i].fate = objs[i].fate
           /\ objs'[i].serving = objs[i].serving /\ (objs'[i].up => objs[i].up)
  <2>1. objs' = CloseObj(k)
    BY DEF CloseRefused
  <2> HIDE DEF k
  <2> QED
    BY <1>1, <2>1, CloseEffect
<1>4. KeptObjs /\ KeptFates
  BY <1>1, <1>3, EffectKept
<1>5. StateOK'
  BY <1>1, <1>2, <1>3, Facts, ReqsState
<1>6. RequestAt(c)' /\ AloneAt(c)'
  BY <1>2 DEF RequestAt, AloneAt
<1>7. RegisteredOK'
  BY <1>1, <1>4, RegisteredStep
<1>8. ObjsOK'
  BY <1>1, <1>3, <1>4, ObjsStep
<1>9. RequestOK'
  BY <1>1, <1>2, <1>4, <1>6, RequestStep DEF KeptFates
<1>10. OwnObject'
  BY <1>2, OwnStep
<1>11. RacedOK'
  BY <1>1, <1>2, RacedStep
<1>12. AloneOK'
  BY <1>1, <1>2, <1>4, <1>6, AloneStep
<1>13. ServingOK'
  BY <1>1, <1>3, <1>4, ServingStep
<1>14. OneWinner'
  <2> SUFFICES ASSUME NEW o \in 1..Len(objs)
               PROVE  /\ objs'[o].fate = "registered" => reg[objs'[o].name] = o
                      /\ kind.service /\ objs'[o].fate = "refused" =>
                           ~objs'[o].up \/ \E d \in Clients : reqs'[d].obj = o
    BY <1>1, <1>3 DEF OneWinner
  <2>1. objs[o].fate = "registered" => reg[objs[o].name] = o
    BY DEF IInv, OneWinner
  <2>2. ASSUME kind.service, objs[o].fate = "refused", objs'[o].up
        PROVE  \E d \in Clients : reqs'[d].obj = o
    <3>1. PICK d \in Clients : reqs[d].obj = o
      BY <1>3, <2>2 DEF IInv, OneWinner
    <3>2. d # c
      BY <1>3, <2>2, <3>1
    <3> QED
      BY <1>2, <3>1, <3>2 DEF Others
  <2> QED
    BY <1>3, <2>1, <2>2
<1>15. DefaultOnlyInWindow'
  BY <1>1, <1>2, <1>4, DefaultStep
<1> QED
  BY <1>5, <1>7, <1>8, <1>9, <1>10, <1>11, <1>12, <1>13, <1>14, <1>15 DEF IInv

LEMMA ServeReturnsOK ==
  ASSUME IInv, NEW o \in 1..Len(objs), ServeReturns(o)
  PROVE  IInv'
<1>1. /\ kind' = kind /\ reg' = reg /\ deleted' = deleted /\ raced' = raced /\ reqs' = reqs
      /\ StateOK
  BY DEF ServeReturns, IInv
<1>2. /\ objs' \in Seq(ObjRecord) /\ Len(objs') = Len(objs)
      /\ \A i \in 1..Len(objs) :
           /\ objs'[i].name = objs[i].name /\ objs'[i].fate = objs[i].fate
           /\ objs'[i].up = objs[i].up /\ (objs'[i].serving => objs[i].serving)
  BY <1>1, ServeEffect DEF ServeReturns
<1>3. KeptObjs /\ KeptFates
  BY <1>1, <1>2, EffectKept
<1>4. StateOK'
  BY <1>1, <1>2, Shapes, StateStep DEF StateOK
<1>5. RegisteredOK'
  BY <1>1, <1>3, RegisteredStep
<1>6. ObjsOK'
  BY <1>1, <1>2, <1>3, ObjsStep
<1>7. RequestOK'
  <2> SUFFICES ASSUME NEW c \in Clients PROVE RequestAt(c)'
    BY DEF RequestOK
  <2>1. reqs[c].obj # 0 => /\ objs'[reqs[c].obj].fate = objs[reqs[c].obj].fate
                           /\ objs'[reqs[c].obj].name = objs[reqs[c].obj].name
    BY <1>2, Facts
  <2> QED
    BY <1>1, <2>1, Facts DEF RequestAt
<1>8. OwnObject' /\ RacedOK'
  BY <1>1 DEF IInv, OwnObject, RacedOK
<1>9. AloneOK'
  <2> SUFFICES ASSUME NEW c \in Clients PROVE AloneAt(c)'
    BY DEF AloneOK
  <2>1. reqs[c].pc # "idle" /\ reg[reqs[c].name] # 0 =>
          (objs'[reg[reqs[c].name]].up = objs[reg[reqs[c].name]].up)
    BY <1>2, Facts
  <2> QED
    BY <1>1, <2>1, Facts DEF AloneAt
<1>10. ServingOK'
  BY <1>1, <1>2, <1>3, ServingStep
<1>11. OneWinner'
  BY <1>1, <1>2 DEF IInv, OneWinner
<1>12. DefaultOnlyInWindow'
  BY <1>1, <1>2 DEF IInv, DefaultOnlyInWindow, Created, Answer, InWindow
<1> QED
  BY <1>4, <1>5, <1>6, <1>7, <1>8, <1>9, <1>10, <1>11, <1>12 DEF IInv

----------------------------------------------------------------------------
(* A request begins: those about the same name race from now on. *)
LEMMA BeginOK ==
  ASSUME IInv, NEW c \in Clients, NEW op \in {"create", "update", "delete"}, NEW n \in Names,
         NEW d \in Datas \cup {"none"}, NEW pc \in {"parse", "close", "load"},
         reqs[c].pc = "idle", Begin(c, op, n, d, pc),
         op = "delete" <=> pc = "load", pc = "close" => op = "update" /\ kind.service,
         op = "delete" \/ d \in Datas,
         op # "create" => reg[n] # 0,
         UNCHANGED <<kind, reg, objs, deleted>>
  PROVE  IInv'
<1> DEFINE m == IF kind.service THEN reg[n] ELSE 0
<1>1. /\ kind' = kind /\ reg' = reg /\ deleted' = deleted /\ objs' = objs
      /\ StateOK /\ Len(objs) \in Nat /\ objs \in Seq(ObjRecord)
      /\ reg \in [Names -> 0..Len(objs)] /\ m \in 0..Len(objs)
      /\ deleted \subseteq Names /\ raced \subseteq Names
  BY Facts DEF StateOK
<1>2. /\ reqs' \in [Clients -> ReqRecord] /\ Others(c)
      /\ reqs'[c].pc = pc /\ reqs'[c].op = op /\ reqs'[c].name = n /\ reqs'[c].data = d
      /\ reqs'[c].old = m /\ reqs'[c].cur = 0 /\ reqs'[c].obj = 0
  <2> DEFINE r == [NoReq EXCEPT !.pc = pc, !.op = op, !.name = n, !.data = d, !.old = m]
  <2>1. /\ r \in ReqRecord /\ r.pc = pc /\ r.op = op /\ r.name = n /\ r.data = d /\ r.old = m
        /\ r.cur = 0 /\ r.obj = 0
    <3>1. m \in Nat
      BY <1>1
    <3> HIDE DEF m
    <3> QED
      BY <3>1 DEF NoReq, ReqRecord
  <2>2. reqs' = [reqs EXCEPT ![c] = r]
    BY DEF Begin
  <2> HIDE DEF r
  <2> QED
    BY <1>1, <2>1, <2>2, Shapes DEF Others
<1>3. /\ raced \subseteq raced' /\ raced' \subseteq Names
      /\ \A e \in Clients : reqs[e].pc # "idle" /\ reqs[e].name = n => n \in raced'
  BY <1>1 DEF Begin, About
<1>4. KeptObjs /\ KeptFates
  BY <1>1, SameObjs
<1>5. StateOK'
  <2>1. \A e \in Clients : /\ reqs'[e].old \in 0..Len(objs') /\ reqs'[e].cur \in 0..Len(objs')
                           /\ reqs'[e].obj \in 0..Len(objs')
    BY <1>1, <1>2, Shapes DEF Others
  <2> QED
    BY <1>1, <1>2, <1>3, <2>1, StateStep
<1>6. RequestAt(c)'
  BY <1>1, <1>2 DEF RequestAt
<1>7. RegisteredOK' /\ ObjsOK'
  BY <1>1 DEF IInv, RegisteredOK, ObjsOK
<1>8. RequestOK'
  BY <1>1, <1>2, <1>4, <1>6, RequestStep
<1>9. OwnObject'
  BY <1>2, OwnStep
<1>10. RacedOK'
  <2> SUFFICES ASSUME NEW e \in Clients, NEW f \in Clients, e # f,
                      reqs'[e].pc # "idle", reqs'[f].pc # "idle", reqs'[e].name = reqs'[f].name
               PROVE  reqs'[e].name \in raced'
    BY DEF RacedOK
  <2>1. CASE e = c
    BY <1>2, <1>3, <2>1 DEF Others
  <2>2. CASE f = c
    BY <1>2, <1>3, <2>2 DEF Others
  <2>3. CASE e # c /\ f # c
    BY <1>2, <1>3, <2>3 DEF Others, IInv, RacedOK
  <2> QED
    BY <2>1, <2>2, <2>3
<1>11. AloneOK'
  <2> SUFFICES ASSUME NEW e \in Clients PROVE AloneAt(e)'
    BY DEF AloneOK
  <2>1. CASE e = c
    BY <1>2, <2>1 DEF AloneAt
  <2>2. CASE e # c
    BY <1>1, <1>2, <1>3, <2>2 DEF Others, IInv, AloneOK, AloneAt
  <2> QED
    BY <2>1, <2>2
<1>12. ServingOK'
  BY <1>1, <1>3, <1>4, ServingStep
<1>13. OneWinner'
  BY <1>1, <1>2, <1>4, OneWinnerStep
<1>14. DefaultOnlyInWindow'
  BY <1>1, <1>2, <1>4, DefaultStep
<1> QED
  BY <1>5, <1>7, <1>8, <1>9, <1>10, <1>11, <1>12, <1>13, <1>14 DEF IInv

LEMMA CreateOK ==
  ASSUME IInv, NEW c \in Clients, NEW n \in Names, NEW d \in Datas, Create(c, n, d)
  PROVE  IInv'
<1>1. /\ reqs[c].pc = "idle" /\ Begin(c, "create", n, d, "parse")
      /\ UNCHANGED <<kind, reg, objs, deleted>>
  BY DEF Create
<1> QED
  BY <1>1, BeginOK

LEMMA UpdateOK ==
  ASSUME IInv, NEW c \in Clients, NEW n \in Names, NEW d \in Datas, Update(c, n, d)
  PROVE  IInv'
<1> DEFINE p == IF kind.service THEN "close" ELSE "parse"
<1>1. /\ reqs[c].pc = "idle" /\ reg[n] # 0 /\ Begin(c, "update", n, d, p)
      /\ UNCHANGED <<kind, reg, objs, deleted>>
      /\ p \in {"parse", "close"} /\ (p = "close" => kind.service)
  BY DEF Update
<1> HIDE DEF p
<1> QED
  BY <1>1, BeginOK

LEMMA DeleteOK ==
  ASSUME IInv, NEW c \in Clients, NEW n \in Names, Delete(c, n)
  PROVE  IInv'
<1>1. /\ reqs[c].pc = "idle" /\ reg[n] # 0 /\ Begin(c, "delete", n, "none", "load")
      /\ UNCHANGED <<kind, reg, objs, deleted>>
  BY DEF Delete
<1> QED
  BY <1>1, BeginOK

----------------------------------------------------------------------------
(* The name is free: an update stands in its window, or it was deleted. *)
LEMMA UnregisterDeleteOK ==
  ASSUME IInv, NEW c \in Clients, UnregisterDelete(c)
  PROVE  IInv'
<1> DEFINE n == reqs[c].name
           m == reg[n]
           p == AfterUnregister(reqs[c])
<1>1. /\ kind' = kind /\ raced' = raced /\ reqs[c].pc = "delete" /\ StateOK /\ RequestAt(c)
      /\ AloneAt(c) /\ n \in Names /\ m \in 0..Len(objs) /\ Len(objs) \in Nat
      /\ objs \in Seq(ObjRecord) /\ reg \in [Names -> 0..Len(objs)]
      /\ reg' = [reg EXCEPT ![n] = 0] /\ reqs[c].obj \in 0..Len(objs)
  BY Facts DEF UnregisterDelete
<1>2. /\ p \in {"register", "close", "config"} /\ (p = "close" => kind.service)
      /\ reqs[c].op = "update" => p = "register"
      /\ reqs[c].op # "update" => p \in {"close", "config"}
      /\ reqs[c].op \in {"update", "delete"}
  BY <1>1 DEF AfterUnregister, RequestAt
<1>3. /\ reqs' \in [Clients -> ReqRecord] /\ Others(c)
      /\ reqs'[c].pc = p /\ reqs'[c].op = reqs[c].op /\ reqs'[c].name = n
      /\ reqs'[c].data = reqs[c].data /\ reqs'[c].old = reqs[c].old
      /\ reqs'[c].cur = reqs[c].cur /\ reqs'[c].obj = reqs[c].obj
  <2>1. reqs' = Goto(c, p)
    BY DEF UnregisterDelete
  <2> HIDE DEF p
  <2> QED
    BY <1>1, <1>2, <2>1, GotoEffect
<1>4. /\ objs' \in Seq(ObjRecord) /\ Len(objs') = Len(objs)
      /\ \A i \in 1..Len(objs) :
           /\ objs'[i].name = objs[i].name /\ objs'[i].serving = objs[i].serving
           /\ objs'[i].up = objs[i].up
           /\ i # m => objs'[i].fate = objs[i].fate
      /\ m # 0 => objs'[m].fate = "removed"
  <2>1. objs' = Removed(m)
    BY DEF UnregisterDelete
  <2> HIDE DEF m
  <2>2. CASE m = 0
    BY <1>1, <2>1, <2>2 DEF Removed
  <2>3. CASE m # 0
    <3>1. m \in 1..Len(objs) /\ objs' = [objs EXCEPT ![m].fate = "removed"]
      BY <1>1, <2>1, <2>3 DEF Removed, m
    <3> QED
      BY <1>1, <2>3, <3>1, FateEffect
  <2> QED
    BY <2>2, <2>3
<1>5. m # 0 => objs[m].fate = "registered" /\ objs[m].name = n
  BY <1>1 DEF IInv, RegisteredOK
<1>6. deleted' \subseteq Names /\ (reqs[c].op = "delete" => n \in deleted')
      /\ deleted \subseteq deleted'
  BY <1>1 DEF UnregisterDelete, StateOK
<1> HIDE DEF p, m
<1>7. KeptObjs
  BY <1>1, <1>4 DEF KeptObjs
<1>8. StateOK'
  <2>1. \A e \in Clients : /\ reqs'[e].old \in 0..Len(objs') /\ reqs'[e].cur \in 0..Len(objs')
                           /\ reqs'[e].obj \in 0..Len(objs')
    BY <1>1, <1>3, <1>4, Shapes DEF Others
  <2>2. reg' \in [Names -> 0..Len(objs')] /\ raced' \subseteq Names
    BY <1>1, <1>4 DEF StateOK
  <2> QED
    BY <1>1, <1>3, <1>4, <1>6, <2>1, <2>2, StateStep
<1>9. RequestAt(c)'
  <2>1. reqs[c].obj # 0 => /\ objs'[reqs[c].obj].fate \in FatesAt("register")
                           /\ objs'[reqs[c].obj].name = n
    BY <1>1, <1>4, <1>5, FatesAtValue DEF RequestAt
  <2> QED
    BY <1>1, <1>2, <1>3, <2>1 DEF RequestAt
<1>10. AloneAt(c)'
  BY <1>2, <1>3 DEF AloneAt
<1>11. RegisteredOK'
  <2> SUFFICES ASSUME NEW x \in Names, x # n, reg[x] # 0
               PROVE  objs'[reg[x]].name = x /\ objs'[reg[x]].fate = "registered"
    BY <1>1 DEF RegisteredOK
  <2>1. reg[x] \in 1..Len(objs) /\ objs[reg[x]].name = x /\ objs[reg[x]].fate = "registered"
    BY <1>1 DEF IInv, RegisteredOK
  <2>2. reg[x] # m
    BY <1>5, <2>1
  <2> QED
    BY <1>4, <2>1, <2>2
<1>12. ObjsOK'
  BY <1>1, <1>4, <1>7, ObjsStep
<1>13. RequestOK'
  <2>1. \A o \in 1..Len(objs) : \/ objs'[o].fate = objs[o].fate
                                \/ objs[o].fate = "registered" /\ objs'[o].fate = "removed"
    BY <1>4, <1>5
  <2> QED
    BY <1>1, <1>3, <1>7, <1>9, <2>1, RequestStep
<1>14. OwnObject'
  BY <1>3, OwnStep
<1>15. RacedOK'
  BY <1>1, <1>3, RacedStep
<1>16. AloneOK'
  BY <1>1, <1>3, <1>7, <1>10, AloneStep
<1>17. ServingOK'
  <2> SUFFICES ASSUME NEW o \in 1..Len(objs), objs[o].name \notin raced, objs[o].up, objs[o].serving
               PROVE  reg'[objs[o].name] = reg[objs[o].name]
    BY <1>1, <1>4, <1>7, ServingStep
  <2>1. reg[objs[o].name] = o
    BY DEF IInv, ServingOK
  <2>2. objs[o].name # n
    BY <1>1, <2>1 DEF AloneAt
  <2> QED
    BY <1>1, <2>2, Shapes
<1>18. OneWinner'
  <2> SUFFICES ASSUME NEW o \in 1..Len(objs)
               PROVE  /\ objs'[o].fate = "registered" => reg'[objs[o].name] = o
                      /\ kind.service /\ objs'[o].fate = "refused" =>
                           ~objs'[o].up \/ \E d \in Clients : reqs'[d].obj = o
    BY <1>1, <1>4 DEF OneWinner
  <2>1. ASSUME objs'[o].fate = "registered" PROVE reg'[objs[o].name] = o
    <3>1. o # m /\ reg[objs[o].name] = o
      BY <1>4, <2>1 DEF IInv, OneWinner
    <3>2. objs[o].name # n
      BY <3>1 DEF m
    <3> QED
      BY <1>1, <3>1, <3>2, Shapes
  <2>2. ASSUME kind.service, objs'[o].fate = "refused", objs'[o].up
        PROVE  \E d \in Clients : reqs'[d].obj = o
    <3>1. o # m /\ objs[o].fate = "refused" /\ objs[o].up
      BY <1>4, <2>2
    <3>2. PICK d \in Clients : reqs[d].obj = o
      BY <2>2, <3>1 DEF IInv, OneWinner
    <3> QED
      BY <1>3, <3>2 DEF Others
  <2> QED
    BY <2>1, <2>2
<1>19. DefaultOnlyInWindow'
  <2> SUFFICES ASSUME NEW x \in Names, Created(x)', x \notin deleted', reg'[x] = 0
               PROVE  InWindow(x)'
    BY DEF DefaultOnlyInWindow, Answer
  <2>1. CASE x = n
    BY <1>2, <1>3, <1>6, <2>1 DEF InWindow
  <2>2. CASE x # n
    <3>1. Created(x) /\ x \notin deleted /\ reg[x] = 0
      BY <1>1, <1>4, <1>5, <1>6, <2>2 DEF Created
    <3>2. kind \in Kind
      BY <1>1, Shapes
    <3>3. Answer(x) # "object"
      BY <3>1, <3>2 DEF Answer, Kind
    <3>4. PICK d \in Clients : reqs[d].op = "update" /\ reqs[d].name = x /\ reqs[d].pc = "register"
      BY <3>1, <3>3 DEF IInv, DefaultOnlyInWindow, InWindow
    <3> QED
      BY <1>1, <1>3, <3>4 DEF InWindow, Others
  <2> QED
    BY <2>1, <2>2
<1> QED
  BY <1>8, <1>11, <1>12, <1>13, <1>14, <1>15, <1>16, <1>17, <1>18, <1>19 DEF IInv

(***************************************************************************)
(* LoadOrStore: an object takes a name that is free, and a name that is    *)
(* taken keeps its object.                                                 *)
(***************************************************************************)
LEMMA RegisterOK ==
  ASSUME IInv, NEW c \in Clients, Register(c)
  PROVE  IInv'
<1> DEFINE n == reqs[c].name
           k == reqs[c].obj
           free == reg[n] = 0
           f == IF free THEN "registered" ELSE "refused"
<1>1. /\ kind' = kind /\ raced' = raced /\ reqs[c].pc = "register" /\ StateOK /\ RequestAt(c)
      /\ n \in Names /\ k \in 1..Len(objs) /\ Len(objs) \in Nat /\ objs \in Seq(ObjRecord)
      /\ reg \in [Names -> 0..Len(objs)]
      /\ reqs[c].op \in {"create", "update"}
  BY Facts DEF Register, RequestAt
<1>2. objs[k].fate = "parsed" /\ objs[k].name = n
  BY <1>1, FatesAtValue DEF RequestAt
<1>3. /\ objs' \in Seq(ObjRecord) /\ Len(objs') = Len(objs) /\ objs'[k].fate = f
      /\ \A i \in 1..Len(objs) :
           /\ objs'[i].name = objs[i].name /\ objs'[i].serving = objs[i].serving
           /\ objs'[i].up = objs[i].up
           /\ i # k => objs'[i].fate = objs[i].fate
  <2>1. objs' = [objs EXCEPT ![k].fate = f]
    BY DEF Register
  <2> HIDE DEF k
  <2> QED
    BY <1>1, <2>1, FateEffect
<1>4. /\ reg' \in [Names -> 0..Len(objs)] /\ \A x \in Names : x # n => reg'[x] = reg[x]
      /\ reg'[n] = IF free THEN k ELSE reg[n]
  BY <1>1 DEF Register
<1>5. /\ reqs' \in [Clients -> ReqRecord] /\ Others(c)
      /\ reqs'[c].old \in 0..Len(objs) /\ reqs'[c].cur \in 0..Len(objs)
      /\ IF ~free /\ ~kind.service
         THEN reqs'[c].pc = "idle" /\ reqs'[c].op = "none" /\ reqs'[c].obj = 0
         ELSE /\ reqs'[c].pc = IF ~free THEN "drop" ELSE IF kind.service THEN "serve" ELSE "config"
              /\ reqs'[c].op = reqs[c].op /\ reqs'[c].name = n
              /\ reqs'[c].data = reqs[c].data /\ reqs'[c].old = reqs[c].old /\ reqs'[c].obj = k
  <2>1. CASE free
    <3> DEFINE p == IF kind.service THEN "serve" ELSE "config"
    <3>1. reqs' = Goto(c, p) /\ p \in {"serve", "config"}
      BY <2>1 DEF Register
    <3> HIDE DEF p
    <3>2. /\ reqs' \in [Clients -> ReqRecord] /\ Others(c)
          /\ reqs'[c].pc = p /\ reqs'[c].op = reqs[c].op /\ reqs'[c].name = n
          /\ reqs'[c].data = reqs[c].data /\ reqs'[c].old = reqs[c].old
          /\ reqs'[c].cur = reqs[c].cur /\ reqs'[c].obj = k
      BY <1>1, <3>1, GotoEffect
    <3> QED
      BY <1>1, <2>1, <3>2, Facts DEF p
  <2>2. CASE ~free /\ kind.service
    <3>1. reqs' = Goto(c, "drop")
      BY <2>2 DEF Register
    <3>2. /\ reqs' \in [Clients -> ReqRecord] /\ Others(c)
          /\ reqs'[c].pc = "drop" /\ reqs'[c].op = reqs[c].op /\ reqs'[c].name = n
          /\ reqs'[c].data = reqs[c].data /\ reqs'[c].old = reqs[c].old
          /\ reqs'[c].cur = reqs[c].cur /\ reqs'[c].obj = k
      BY <1>1, <3>1, GotoEffect
    <3> QED
      BY <1>1, <2>2, <3>2, Facts
  <2>3. CASE ~free /\ ~kind.service
    <3>1. reqs' = Done(c)
      BY <2>3 DEF Register
    <3> QED
      BY <1>1, <2>3, <3>1, DoneEffect
  <2> QED
    BY <2>1, <2>2, <2>3
<1>6. deleted' \subseteq Names /\ (~free => deleted' = deleted)
      /\ \A x \in Names : x # n => (x \in deleted' <=> x \in deleted)
  BY <1>1 DEF Register, StateOK
<1> HIDE DEF free
<1>7. KeptObjs
  BY <1>1, <1>3 DEF KeptObjs
<1>8. StateOK'
  <2>1. \A e \in Clients : /\ reqs'[e].old \in 0..Len(objs') /\ reqs'[e].cur \in 0..Len(objs')
                           /\ reqs'[e].obj \in 0..Len(objs')
    BY <1>1, <1>3, <1>5, Shapes DEF Others
  <2>2. raced' \subseteq Names
    BY <1>1 DEF StateOK
  <2> QED
    BY <1>1, <1>3, <1>4, <1>5, <1>6, <2>1, <2>2, StateStep
<1>9. RequestAt(c)'
  <2>1. CASE ~free /\ ~kind.service
    BY <1>5, <2>1 DEF RequestAt
  <2>2. CASE free \/ kind.service
    <3> DEFINE p == IF ~free THEN "drop" ELSE IF kind.service THEN "serve" ELSE "config"
    <3>1. objs'[k].fate \in FatesAt(p) /\ objs'[k].name = n
      BY <1>1, <1>2, <1>3, FatesAtValue
    <3>2. /\ reqs'[c].pc = p /\ reqs'[c].op = reqs[c].op /\ reqs'[c].name = n
          /\ reqs'[c].data = reqs[c].data /\ reqs'[c].old = reqs[c].old /\ reqs'[c].obj = k
          /\ p \in {"drop", "serve", "config"} /\ (p = "serve" => kind.service)
      BY <1>5, <2>2
    <3>3. /\ k # 0 /\ reqs[c].data \in Datas
          /\ reqs[c].op \in {"update", "delete"} /\ kind.service => reqs[c].old # 0
      BY <1>1 DEF RequestAt
    <3> HIDE DEF p
    <3> QED
      BY <1>1, <3>1, <3>2, <3>3 DEF RequestAt
  <2> QED
    BY <2>1, <2>2
<1>10. AloneAt(c)'
  BY <1>4, <1>5 DEF AloneAt
<1>11. RegisteredOK'
  <2> SUFFICES ASSUME NEW x \in Names, reg'[x] # 0
               PROVE  objs'[reg'[x]].name = x /\ objs'[reg'[x]].fate = "registered"
    BY DEF RegisteredOK
  <2>1. CASE x = n /\ free
    BY <1>1, <1>2, <1>3, <1>4, <2>1
  <2>2. CASE x # n \/ ~free
    <3>1. reg'[x] = reg[x] /\ reg[x] \in 1..Len(objs)
      BY <1>1, <1>4, <2>2
    <3>2. objs[reg[x]].name = x /\ objs[reg[x]].fate = "registered"
      BY <3>1 DEF IInv, RegisteredOK
    <3>3. reg[x] # k
      BY <1>2, <3>2
    <3> QED
      BY <1>3, <3>1, <3>2, <3>3
  <2> QED
    BY <2>1, <2>2
<1>12. ObjsOK'
  BY <1>1, <1>3, <1>7, ObjsStep
<1>13. RequestOK'
  BY <1>1, <1>3, <1>5, <1>7, <1>9, RequestStep
<1>14. OwnObject'
  BY <1>5, OwnStep
<1>15. RacedOK'
  BY <1>1, <1>5, RacedStep
<1>16. AloneOK'
  BY <1>1, <1>4, <1>5, <1>7, <1>10, AloneStep
<1>17. ServingOK'
  <2> SUFFICES ASSUME NEW o \in 1..Len(objs), objs[o].name \notin raced, objs[o].up, objs[o].serving
               PROVE  reg'[objs[o].name] = reg[objs[o].name]
    BY <1>1, <1>3, <1>7, ServingStep
  <2>1. reg[objs[o].name] = o
    BY DEF IInv, ServingOK
  <2>2. objs[o].name \in Names
    BY <1>1, Shapes
  <2> QED
    BY <1>4, <2>1, <2>2 DEF free
<1>18. OneWinner'
  <2> SUFFICES ASSUME NEW o \in 1..Len(objs)
               PROVE  /\ objs'[o].fate = "registered" => reg'[objs[o].name] = o
                      /\ kind.service /\ objs'[o].fate = "refused" =>
                           ~objs'[o].up \/ \E d \in Clients : reqs'[d].obj = o
    BY <1>1, <1>3 DEF OneWinner
  <2>1. ASSUME objs'[o].fate = "registered" PROVE reg'[objs[o].name] = o
    <3>1. CASE o = k
      BY <1>2, <1>3, <1>4, <2>1, <3>1
    <3>2. CASE o # k
      <4>1. objs[o].fate = "registered" /\ objs[o].name \in Names
        BY <1>1, <1>3, <2>1, <3>2, Shapes
      <4>2. reg[objs[o].name] = o
        BY <4>1 DEF IInv, OneWinner
      <4> QED
        BY <1>4, <4>1, <4>2 DEF free
    <3> QED
      BY <3>1, <3>2
  <2>2. ASSUME kind.service, objs'[o].fate = "refused", objs'[o].up
        PROVE  \E d \in Clients : reqs'[d].obj = o
    <3>1. CASE o = k
      BY <1>3, <1>5, <2>2, <3>1
    <3>2. CASE o # k
      <4>1. objs[o].fate = "refused" /\ objs[o].up
        BY <1>3, <2>2, <3>2
      <4>2. PICK d \in Clients : reqs[d].obj = o
        BY <2>2, <4>1 DEF IInv, OneWinner
      <4> QED
        BY <1>5, <3>2, <4>2 DEF Others
    <3> QED
      BY <3>1, <3>2
  <2> QED
    BY <2>1, <2>2
<1>19. DefaultOnlyInWindow'
  <2> SUFFICES ASSUME NEW x \in Names, Created(x)', x \notin deleted', reg'[x] = 0
               PROVE  InWindow(x)'
    BY DEF DefaultOnlyInWindow, Answer
  <2>1. x # n
    BY <1>1, <1>4 DEF free
  <2>2. Created(x) /\ x \notin deleted /\ reg[x] = 0
    BY <1>2, <1>3, <1>4, <1>6, <2>1 DEF Created
  <2>3. kind \in Kind
    BY <1>1, Shapes
  <2>4. Answer(x) # "object"
    BY <2>2, <2>3 DEF Answer, Kind
  <2>5. PICK d \in Clients : reqs[d].op = "update" /\ reqs[d].name = x /\ reqs[d].pc = "register"
    BY <2>2, <2>4 DEF IInv, DefaultOnlyInWindow, InWindow
  <2> QED
    BY <1>5, <2>1, <2>5 DEF InWindow, Others
<1> QED
  BY <1>8, <1>11, <1>12, <1>13, <1>14, <1>15, <1>16, <1>17, <1>18, <1>19 DEF IInv

----------------------------------------------------------------------------
LEMMA StutterOK == IInv /\ UNCHANGED vars => IInv'
BY DEF vars, IInv, StateOK, RegisteredOK, ObjsOK, RequestOK, RequestAt, OwnObject, RacedOK,
       AloneOK, AloneAt, ServingOK, OneWinner, DefaultOnlyInWindow, Created, Answer, InWindow

(***************************************************************************)
(* The invariant: each request owns the object it parsed, whose fate shows *)
(* how far the request has come; a registered object is the one its name   *)
(* stands for; and a request that never had a rival knows what it closes.  *)
(***************************************************************************)
LEMMA IInvStep == IInv /\ [Next]_vars => IInv'
<1> SUFFICES ASSUME IInv, Next PROVE IInv'
  BY StutterOK
<1>1. ASSUME NEW c \in Clients, NEW n \in Names, NEW d \in Datas,
             Create(c, n, d) \/ Update(c, n, d)
      PROVE  IInv'
  BY <1>1, CreateOK, UpdateOK
<1>2. ASSUME NEW c \in Clients, NEW n \in Names, Delete(c, n)
      PROVE  IInv'
  BY <1>2, DeleteOK
<1>3. ASSUME NEW c \in Clients, Handle(c)
      PROVE  IInv'
  BY <1>3, CloseOldOK, ParseFailsOK, ParseHandlerFailsOK, ParseOK, UnregisterLoadOK,
     UnregisterCloseOK, UnregisterDeleteOK, RegisterOK, CloseRefusedOK, StartServeOK, OnUpdateOK
     DEF Handle
<1>4. ASSUME NEW o \in 1..Len(objs), ServeReturns(o)
      PROVE  IInv'
  BY <1>4, ServeReturnsOK
<1> QED
  BY <1>1, <1>2, <1>3, <1>4 DEF Next

LEMMA IInvIsInvariant == Spec => []IInv
<1>1. Init => IInv
  BY InitOK
<1> QED
  BY <1>1, IInvStep, PTL DEF Spec

(***************************************************************************)
(* Requests that race for a name never overwrite a registered object, and  *)
(* a service that Register refused gives up its listener.                  *)
(***************************************************************************)
THEOREM RaceHasOneWinner == Spec => []OneWinner
<1>1. IInv => OneWinner
  BY DEF IInv
<1> QED
  BY <1>1, IInvIsInvariant, PTL

(***************************************************************************)
(* The wrappers answer with their default for a name that was registered   *)
(* and not deleted only while an update stands between Unregister and      *)
(* Register.                                                               *)
(***************************************************************************)
THEOREM DefaultInWindow == Spec => []DefaultOnlyInWindow
<1>1. IInv => DefaultOnlyInWindow
  BY DEF IInv
<1> QED
  BY <1>1, IInvIsInvariant, PTL

(***************************************************************************)
(* Where requests about a name did not race, the service that accepts      *)
(* connections for it is the one that update and delete find and close.    *)
(***************************************************************************)
THEOREM ServingReachable == Spec => []ServingIsReachable
<1>1. IInv => ServingIsReachable
  BY DEF IInv, ServingOK, ServingIsReachable, Settled
<1> QED
  BY <1>1, IInvIsInvariant, PTL

----------------------------------------------------------------------------
(* The objects there were are still there and say what they said. *)
KeptData ==
  /\ Len(objs') \in Nat /\ Len(objs) <= Len(objs')
  /\ \A o \in 1..Len(objs) : objs'[o].name = objs[o].name /\ objs'[o].data = objs[o].data

LEMMA ChangedData ==
  ASSUME StateOK, NEW o \in 1..Len(objs),
         \/ objs' = CloseObj(o)
         \/ \E b \in BOOLEAN : objs' = [objs EXCEPT ![o].serving = b]
         \/ \E f \in {"registered", "refused", "removed"} : objs' = [objs EXCEPT ![o].fate = f]
  PROVE  KeptData
<1>1. /\ Len(objs) \in Nat /\ objs \in Seq(ObjRecord)
      /\ \A i \in 1..Len(objs) : objs[i] \in ObjRecord
  BY Shapes
<1>2. ASSUME NEW r \in ObjRecord, r.name = objs[o].name, r.data = objs[o].data,
             objs' = [objs EXCEPT ![o] = r]
      PROVE  KeptData
  <2>1. /\ Len(objs') = Len(objs) /\ objs'[o] = r
        /\ \A i \in 1..Len(objs) : i # o => objs'[i] = objs[i]
    BY <1>2, ObjEffect
  <2> QED BY <1>1, <1>2, <2>1 DEF KeptData
<1>3. CASE objs' = CloseObj(o)
  <2> DEFINE r == [objs[o] EXCEPT !.up = FALSE]
  <2>1. r \in ObjRecord /\ r.name = objs[o].name /\ r.data = objs[o].data
    BY <1>1 DEF ObjRecord
  <2>2. objs' = [objs EXCEPT ![o] = r]
    BY <1>3 DEF CloseObj
  <2> HIDE DEF r
  <2> QED BY <1>2, <2>1, <2>2
<1>4. ASSUME NEW b \in BOOLEAN, objs' = [objs EXCEPT ![o].serving = b] PROVE KeptData
  <2> DEFINE r == [objs[o] EXCEPT !.serving = b]
  <2>1. r \in ObjRecord /\ r.name = objs[o].name /\ r.data = objs[o].data
    BY <1>1 DEF ObjRecord
  <2>2. objs' = [objs EXCEPT ![o] = r]
    BY <1>4
  <2> HIDE DEF r
  <2> QED BY <1>2, <2>1, <2>2
<1>5. ASSUME NEW f \in {"registered", "refused", "removed"}, objs' = [objs EXCEPT ![o].fate = f]
      PROVE  KeptData
  <2> DEFINE r == [objs[o] EXCEPT !.fate = f]
  <2>1. r \in ObjRecord /\ r.name = objs[o].name /\ r.data = objs[o].data
    BY <1>1 DEF ObjRecord
  <2>2. objs' = [objs EXCEPT ![o] = r]
    BY <1>5
  <2> HIDE DEF r
  <2> QED BY <1>2, <2>1, <2>2
<1> QED BY <1>3, <1>4, <1>5

LEMMA AppendedData ==
  ASSUME StateOK, NEW r \in ObjRecord, objs' = Append(objs, r)
  PROVE  KeptData
BY AppendEffect, Shapes DEF KeptData

LEMMA UnchangedData ==
  ASSUME StateOK, objs' = objs
  PROVE  KeptData
BY Shapes DEF KeptData

(* What the list says of a name, and whether it fits, is as before. *)
ListFrame(n) ==
  /\ Absent(n) => Absent(n)'
  /\ Single(n) => Single(n)'
  /\ Matches(n) => Matches(n)'

LEMMA SameList ==
  ASSUME StateOK, KeptData, NEW n \in Names, list' = list, reg'[n] = reg[n]
  PROVE  ListFrame(n)
<1>1. Absent(n)' = Absent(n) /\ Single(n)' = Single(n)
  BY DEF Absent, Single
<1>2. reg[n] # 0 => Entry(objs'[reg[n]]) = Entry(objs[reg[n]])
  BY Shapes DEF KeptData, Entry
<1> QED BY <1>1, <1>2 DEF ListFrame, Matches

LEMMA FrameAt ==
  ASSUME NEW r, ListAt(r), reg'[r.name] = reg[r.name], ListFrame(r.name)
  PROVE  ListAt(r)'
BY DEF ListAt, ListFrame

LEMMA FrameName ==
  ASSUME NEW n \in Names, NameOK(n), raced \subseteq raced', reg'[n] = reg[n], ListFrame(n),
         \A c \in Clients : /\ c \in About(n)' <=> c \in About(n)
                            /\ c \in About(n) => reqs'[c] = reqs[c]
  PROVE  NameOK(n)'
<1> SUFFICES ASSUME n \notin raced'
             PROVE  /\ About(n)' = {} => Matches(n)'
                    /\ \A c \in About(n)' : ListAt(reqs[c])'
  BY DEF NameOK
<1>1. n \notin raced
  OBVIOUS
<1>2. About(n)' = About(n)
  BY DEF About
<1>3. About(n)' = {} => Matches(n)'
  BY <1>1, <1>2 DEF NameOK, ListFrame
<1>4. ASSUME NEW c \in About(n)' PROVE ListAt(reqs[c])'
  <2>1. c \in Clients /\ c \in About(n) /\ reqs'[c] = reqs[c] /\ reqs[c].name = n
    BY <1>2, <1>4 DEF About
  <2>2. PICK r : r = reqs[c]
    OBVIOUS
  <2>3. ListAt(r) /\ r.name = n
    BY <1>1, <2>1, <2>2 DEF NameOK, ListAt
  <2>4. ListAt(r)'
    BY <2>3, FrameAt
  <2>5. r = reqs'[c]
    BY <2>1, <2>2
  <2> QED BY <2>4, <2>5 DEF ListAt
<1> QED BY <1>3, <1>4

(* A step of one request: what remains to be shown is about its name, and only
   where no other request has been about that name at the same time. *)
LEMMA StepName ==
  ASSUME IInv, IInv', ListInv, NEW c \in Clients, NEW m \in Names, Others(c), raced \subseteq raced',
         reqs[c].pc # "idle" \/ reqs'[c].pc # "idle",
         reqs[c].pc # "idle" => reqs[c].name = m, reqs'[c].pc # "idle" => reqs'[c].name = m,
         \A n \in Names : n # m => reg'[n] = reg[n] /\ ListFrame(n),
         m \notin raced' /\ reqs'[c].pc = "idle" => Matches(m)',
         m \notin raced' /\ reqs'[c].pc # "idle" => ListAt(reqs[c])'
  PROVE  \A n \in Names : NameOK(n)'
<1> SUFFICES ASSUME NEW n \in Names PROVE NameOK(n)'
  OBVIOUS
<1>1. CASE n # m
  <2>1. \A d \in Clients : /\ d \in About(n)' <=> d \in About(n)
                           /\ d \in About(n) => reqs'[d] = reqs[d]
    BY <1>1 DEF About, Others
  <2>2. NameOK(n) /\ reg'[n] = reg[n] /\ ListFrame(n)
    BY <1>1 DEF ListInv
  <2> QED BY <2>1, <2>2, FrameName
<1>2. CASE n = m
  <2> SUFFICES ASSUME m \notin raced'
               PROVE  /\ About(m)' = {} => Matches(m)'
                      /\ \A d \in About(m)' : ListAt(reqs[d])'
    BY <1>2 DEF NameOK
  <2>1. \A d \in About(m)' : d = c
    <3> SUFFICES ASSUME NEW d \in Clients, d # c, reqs'[d].pc # "idle", reqs'[d].name = m PROVE FALSE
      BY DEF About
    <3>1. reqs[d].pc # "idle" /\ reqs[d].name = m
      BY DEF Others
    <3>2. m \notin raced
      OBVIOUS
    <3>3. CASE reqs[c].pc # "idle"
      BY <3>1, <3>2, <3>3 DEF IInv, RacedOK
    <3>4. CASE reqs'[c].pc # "idle"
      BY <3>1, <3>2, <3>4 DEF IInv, RacedOK
    <3> QED BY <3>3, <3>4
  <2>2. c \in About(m)' <=> reqs'[c].pc # "idle"
    BY DEF About
  <2>3. CASE reqs'[c].pc = "idle"
    <3>1. Matches(m)' /\ About(m)' = {}
      BY <2>1, <2>2, <2>3
    <3> QED BY <3>1
  <2>4. CASE reqs'[c].pc # "idle"
    <3>1. ListAt(reqs[c])' /\ About(m)' # {}
      BY <2>2, <2>4
    <3> QED BY <2>1, <3>1
  <2> QED BY <2>3, <2>4
<1> QED BY <1>1, <1>2

(* A request alone with its name finds registry and list as far as it has brought them. *)
LEMMA ListAlone ==
  ASSUME IInv, ListInv, NEW c \in Clients, reqs[c].pc # "idle", reqs[c].name \notin raced
  PROVE  reqs[c].name \in Names /\ ListAt(reqs[c])
<1>1. reqs[c].name \in Names
  BY DEF IInv, RequestOK, RequestAt
<1> QED BY <1>1 DEF ListInv, NameOK, About

LEMMA MadeStep ==
  ASSUME IInv, ListInv, KeptData, NEW c \in Clients, Others(c),
         \/ reqs'[c].obj = 0
         \/ reqs'[c].obj = reqs[c].obj /\ reqs'[c].data = reqs[c].data
         \/ objs'[reqs'[c].obj].data = reqs'[c].data
  PROVE  MadeOK'
<1> SUFFICES ASSUME NEW d \in Clients, reqs'[d].obj # 0
             PROVE  objs'[reqs'[d].obj].data = reqs'[d].data
  BY DEF MadeOK
<1>1. reqs[d].obj \in 0..Len(objs) /\ Len(objs) \in Nat
  BY Shapes DEF IInv
<1>2. reqs[d].obj # 0 => /\ objs[reqs[d].obj].data = reqs[d].data
                         /\ objs'[reqs[d].obj].data = objs[reqs[d].obj].data
  BY <1>1 DEF ListInv, MadeOK, KeptData
<1> QED BY <1>2 DEF Others

(* Steps that change neither registry nor list. *)
LEMMA QuietList ==
  ASSUME IInv, IInv', ListInv, KeptData, NEW c \in Clients, reqs[c].pc # "idle", Others(c),
         raced' = raced, reg' = reg, list' = list,
         reqs'[c].pc # "idle" => reqs'[c].name = reqs[c].name,
         \/ reqs'[c].obj = 0
         \/ reqs'[c].obj = reqs[c].obj /\ reqs'[c].data = reqs[c].data
         \/ objs'[reqs'[c].obj].data = reqs'[c].data,
         NEW r, r = reqs'[c],
         ListAt(reqs[c]) /\ r.pc = "idle" => Matches(reqs[c].name),
         ListAt(reqs[c]) /\ r.pc # "idle" => ListAt(r)
  PROVE  ListInv'
<1>1. MadeOK'
  BY MadeStep
<1>2. reqs[c].name \in Names /\ StateOK
  BY DEF IInv, RequestOK, RequestAt
<1>3a. PICK m \in Names : m = reqs[c].name
  BY <1>2
<1>3. \A n \in Names : reg'[n] = reg[n] /\ ListFrame(n)
  BY <1>2, SameList
<1>4. ASSUME m \notin raced', reqs'[c].pc = "idle" PROVE Matches(m)'
  <2>1. ListAt(reqs[c])
    BY <1>4, <1>3a, ListAlone
  <2>2. Matches(m)
    BY <1>4, <1>3a, <2>1
  <2> QED BY <1>2, <1>3, <2>2 DEF ListFrame
<1>6. ASSUME m \notin raced', reqs'[c].pc # "idle" PROVE ListAt(reqs[c])'
  <2>1. ListAt(reqs[c])
    BY <1>6, <1>3a, ListAlone
  <2>2. ListAt(r) /\ r.name = m
    BY <1>6, <1>3a, <2>1
  <2>3. ListAt(r)'
    BY <1>2, <1>3, <2>2, FrameAt
  <2> QED BY <2>3 DEF ListAt
<1>5. \A n \in Names : NameOK(n)'
  <2>1. reqs[c].name = m /\ raced \subseteq raced' /\ reqs[c].pc # "idle"
    BY <1>3a
  <2>2. reqs'[c].pc # "idle" => reqs'[c].name = m
    BY <2>1
  <2>3. \A n \in Names : n # m => reg'[n] = reg[n] /\ ListFrame(n)
    BY <1>3
  <2> QED BY <1>2, <1>4, <1>6, <2>1, <2>2, <2>3, StepName
<1> QED BY <1>1, <1>5 DEF ListInv

----------------------------------------------------------------------------
LEMMA CloseOldList ==
  ASSUME IInv, IInv', ListInv, NEW c \in Clients, CloseOld(c)
  PROVE  ListInv'
<1>1. reqs[c].pc = "close" /\ kind.service /\ reqs[c].op \in {"update", "delete"} /\ reqs[c].old # 0
  BY DEF CloseOld, IInv, RequestOK, RequestAt
<1>2. KeptData
  <2>1. reqs[c].old \in 1..Len(objs) /\ StateOK /\ objs' = CloseObj(reqs[c].old)
    BY <1>1, Shapes DEF CloseOld, IInv
  <2> QED BY <2>1, ChangedData
<1> DEFINE p == IF reqs[c].op = "update" THEN "parse" ELSE "config"
<1>3. /\ Others(c) /\ reqs'[c].pc = p /\ reqs'[c].op = reqs[c].op /\ reqs'[c].name = reqs[c].name
      /\ reqs'[c].data = reqs[c].data /\ reqs'[c].obj = reqs[c].obj
  <2>1. p \in {"parse", "config"} /\ reqs' = Goto(c, p)
    BY DEF CloseOld
  <2> HIDE DEF p
  <2> QED BY <2>1, GotoEffect DEF IInv
<1>4. PICK r : r = reqs'[c]
  OBVIOUS
<1>5. r.pc # "idle" /\ (ListAt(reqs[c]) => ListAt(r))
  BY <1>1, <1>3, <1>4 DEF ListAt
<1> QED BY <1>1, <1>2, <1>3, <1>4, <1>5, QuietList DEF CloseOld

LEMMA ParseFailsList ==
  ASSUME IInv, IInv', ListInv, NEW c \in Clients, ParseFails(c)
  PROVE  ListInv'
<1>1. reqs[c].pc = "parse" /\ reqs[c].op \in {"create", "update"}
  BY DEF ParseFails, IInv, RequestOK, RequestAt
<1>2. KeptData
  BY UnchangedData DEF ParseFails, IInv
<1>3. Others(c) /\ reqs'[c].pc = "idle" /\ reqs'[c].obj = 0
  BY DoneEffect DEF ParseFails, IInv
<1>4. PICK r : r = reqs'[c]
  OBVIOUS
<1>5. r.pc = "idle" /\ (ListAt(reqs[c]) => Matches(reqs[c].name))
  BY <1>1, <1>3, <1>4 DEF ListAt
<1> QED BY <1>1, <1>2, <1>3, <1>4, <1>5, QuietList DEF ParseFails

LEMMA ParseHandlerFailsList ==
  ASSUME IInv, IInv', ListInv, NEW c \in Clients, ParseHandlerFails(c)
  PROVE  ListInv'
<1>1. /\ reqs[c].pc = "parse" /\ reqs[c].op \in {"create", "update"}
      /\ reqs[c].name \in Names /\ reqs[c].data \in Datas
  BY DEF ParseHandlerFails, IInv, RequestOK, RequestAt
<1>2. KeptData
  <2> DEFINE o == [NewObj(reqs[c].name, reqs[c].data) EXCEPT !.fate = "leaked"]
  <2>1. NewObj(reqs[c].name, reqs[c].data) \in ObjRecord
    BY <1>1, NewType DEF IInv
  <2>2. o \in ObjRecord /\ objs' = Append(objs, o)
    BY <2>1 DEF ParseHandlerFails, ObjRecord
  <2> HIDE DEF o
  <2> QED BY <2>2, AppendedData DEF IInv
<1>3. Others(c) /\ reqs'[c].pc = "idle" /\ reqs'[c].obj = 0
  BY DoneEffect DEF ParseHandlerFails, IInv
<1>4. PICK r : r = reqs'[c]
  OBVIOUS
<1>5. r.pc = "idle" /\ (ListAt(reqs[c]) => Matches(reqs[c].name))
  BY <1>1, <1>3, <1>4 DEF ListAt
<1> QED BY <1>1, <1>2, <1>3, <1>4, <1>5, QuietList DEF ParseHandlerFails

LEMMA ParseList ==
  ASSUME IInv, IInv', ListInv, NEW c \in Clients, Parse(c)
  PROVE  ListInv'
<1>1. /\ reqs[c].pc = "parse" /\ reqs[c].op \in {"create", "update"}
      /\ reqs[c].name \in Names /\ reqs[c].data \in Datas
  BY DEF Parse, IInv, RequestOK, RequestAt
<1>2. KeptData /\ objs'[Len(objs) + 1].data = reqs[c].data /\ Len(objs) + 1 \in Nat
  <2> DEFINE o == NewObj(reqs[c].name, reqs[c].data)
  <2>1. o \in ObjRecord /\ objs' = Append(objs, o) /\ o.data = reqs[c].data
    BY <1>1, NewType DEF Parse, NewObj, IInv
  <2> HIDE DEF o
  <2> QED BY <2>1, AppendedData, AppendEffect, Shapes DEF IInv
<1> DEFINE p == IF reqs[c].op = "create" THEN "register" ELSE "load"
           k == Len(objs) + 1
<1>3. /\ Others(c) /\ reqs'[c].pc = p /\ reqs'[c].op = reqs[c].op /\ reqs'[c].name = reqs[c].name
      /\ reqs'[c].data = reqs[c].data /\ reqs'[c].obj = k
  <2>1. p \in {"load", "register"} /\ reqs' = [reqs EXCEPT ![c].obj = k, ![c].pc = p] /\ k \in Nat
    BY <1>2 DEF Parse
  <2> HIDE DEF p, k
  <2> QED BY <2>1, MadeEffect DEF IInv
<1>4. PICK r : r = reqs'[c]
  OBVIOUS
<1>5. r.pc # "idle" /\ (ListAt(reqs[c]) => ListAt(r))
  BY <1>1, <1>3, <1>4 DEF ListAt
<1> QED BY <1>1, <1>2, <1>3, <1>4, <1>5, QuietList DEF Parse

LEMMA UnregisterLoadList ==
  ASSUME IInv, IInv', ListInv, NEW c \in Clients, UnregisterLoad(c)
  PROVE  ListInv'
<1>1. /\ reqs[c].pc = "load" /\ reqs[c].op \in {"update", "delete"}
      /\ reqs[c].name \in Names /\ reg[reqs[c].name] \in Nat
  <2>1. reqs[c].pc = "load" /\ reqs[c].op \in {"update", "delete"} /\ reqs[c].name \in Names
    BY DEF UnregisterLoad, IInv, RequestOK, RequestAt
  <2> QED BY <2>1, Shapes DEF IInv
<1>2. KeptData
  BY UnchangedData DEF UnregisterLoad, IInv
<1> DEFINE p == IF reg[reqs[c].name] = 0 THEN AfterUnregister(reqs[c])
                ELSE IF kind.runs THEN "unclose" ELSE "delete"
           k == reg[reqs[c].name]
<1>3. /\ Others(c) /\ reqs'[c].pc = p /\ reqs'[c].op = reqs[c].op /\ reqs'[c].name = reqs[c].name
      /\ reqs'[c].data = reqs[c].data /\ reqs'[c].obj = reqs[c].obj
  <2>1. /\ p \in {"unclose", "delete", "register", "close", "config"} /\ k \in Nat
        /\ reqs' = [reqs EXCEPT ![c].cur = k, ![c].pc = p]
    BY <1>1 DEF UnregisterLoad, AfterUnregister
  <2> HIDE DEF p, k
  <2> QED BY <2>1, LoadEffect DEF IInv
<1>4. PICK r : r = reqs'[c]
  OBVIOUS
<1>5. r.pc # "idle" /\ (ListAt(reqs[c]) => ListAt(r))
  BY <1>1, <1>3, <1>4 DEF ListAt, AfterUnregister
<1> QED BY <1>1, <1>2, <1>3, <1>4, <1>5, QuietList DEF UnregisterLoad

LEMMA UnregisterCloseList ==
  ASSUME IInv, IInv', ListInv, NEW c \in Clients, UnregisterClose(c)
  PROVE  ListInv'
<1>1. reqs[c].pc = "unclose" /\ reqs[c].op \in {"update", "delete"} /\ reqs[c].cur # 0
  BY DEF UnregisterClose, IInv, RequestOK, RequestAt
<1>2. KeptData
  <2>1. reqs[c].cur \in 1..Len(objs) /\ StateOK /\ objs' = CloseObj(reqs[c].cur)
    BY <1>1, Shapes DEF UnregisterClose, IInv
  <2> QED BY <2>1, ChangedData
<1>3. /\ Others(c) /\ reqs'[c].pc = "delete" /\ reqs'[c].op = reqs[c].op /\ reqs'[c].name = reqs[c].name
      /\ reqs'[c].data = reqs[c].data /\ reqs'[c].obj = reqs[c].obj
  BY GotoEffect DEF UnregisterClose, IInv
<1>4. PICK r : r = reqs'[c]
  OBVIOUS
<1>5. r.pc # "idle" /\ (ListAt(reqs[c]) => ListAt(r))
  BY <1>1, <1>3, <1>4 DEF ListAt
<1> QED BY <1>1, <1>2, <1>3, <1>4, <1>5, QuietList DEF UnregisterClose

LEMMA StartServeList ==
  ASSUME IInv, IInv', ListInv, NEW c \in Clients, StartServe(c)
  PROVE  ListInv'
<1>1. reqs[c].pc = "serve" /\ reqs[c].op \in {"create", "update"} /\ reqs[c].obj # 0
  BY DEF StartServe, IInv, RequestOK, RequestAt
<1>2. KeptData
  <2>1. reqs[c].obj \in 1..Len(objs) /\ StateOK /\ objs' = [objs EXCEPT ![reqs[c].obj].serving = TRUE]
    BY <1>1, Shapes DEF StartServe, IInv
  <2> QED BY <2>1, ChangedData
<1>3. /\ Others(c) /\ reqs'[c].pc = "config" /\ reqs'[c].op = reqs[c].op /\ reqs'[c].name = reqs[c].name
      /\ reqs'[c].data = reqs[c].data /\ reqs'[c].obj = reqs[c].obj
  BY GotoEffect DEF StartServe, IInv
<1>4. PICK r : r = reqs'[c]
  OBVIOUS
<1>5. r.pc # "idle" /\ (ListAt(reqs[c]) => ListAt(r))
  BY <1>1, <1>3, <1>4 DEF ListAt
<1> QED BY <1>1, <1>2, <1>3, <1>4, <1>5, QuietList DEF StartServe

LEMMA CloseRefusedList ==
  ASSUME IInv, IInv', ListInv, NEW c \in Clients, CloseRefused(c)
  PROVE  ListInv'
<1>1. reqs[c].pc = "drop" /\ reqs[c].op \in {"create", "update"} /\ reqs[c].obj # 0
  BY DEF CloseRefused, IInv, RequestOK, RequestAt
<1>2. KeptData
  <2>1. reqs[c].obj \in 1..Len(objs) /\ StateOK /\ objs' = CloseObj(reqs[c].obj)
    BY <1>1, Shapes DEF CloseRefused, IInv
  <2> QED BY <2>1, ChangedData
<1>3. Others(c) /\ reqs'[c].pc = "idle" /\ reqs'[c].obj = 0
  BY DoneEffect DEF CloseRefused, IInv
<1>4. PICK r : r = reqs'[c]
  OBVIOUS
<1>5. r.pc = "idle" /\ (ListAt(reqs[c]) => Matches(reqs[c].name))
  BY <1>1, <1>3, <1>4 DEF ListAt
<1> QED BY <1>1, <1>2, <1>3, <1>4, <1>5, QuietList DEF CloseRefused

(* Serve returns: no request takes part. *)
LEMMA ServeReturnsList ==
  ASSUME IInv, IInv', ListInv, NEW o \in 1..Len(objs), ServeReturns(o)
  PROVE  ListInv'
<1>1. KeptData
  BY ChangedData DEF ServeReturns, IInv
<1>2. \A n \in Names : ListFrame(n)
  BY <1>1, SameList DEF ServeReturns, IInv
<1>3. \A n \in Names : NameOK(n)'
  <2> SUFFICES ASSUME NEW n \in Names PROVE NameOK(n)'
    OBVIOUS
  <2>1. NameOK(n) /\ ListFrame(n) /\ raced \subseteq raced' /\ reg'[n] = reg[n] /\ reqs' = reqs
    BY <1>2 DEF ListInv, ServeReturns
  <2> QED BY <2>1, FrameName DEF About
<1>4. MadeOK'
  BY <1>1, Shapes DEF ListInv, MadeOK, KeptData, ServeReturns, IInv
<1> QED BY <1>3, <1>4 DEF ListInv, ServeReturns

----------------------------------------------------------------------------
ListRecord == [name: Names, data: Datas]

LEMMA ListType ==
  ASSUME ListInv
  PROVE  list \in Seq(ListRecord) /\ Len(list) \in Nat /\ \A i \in 1..Len(list) : list[i] \in ListRecord
<1>1. list \in Seq(ListRecord)
  BY DEF ListInv, ListRecord
<1> QED BY <1>1

(* An entry more: the others are where they were. *)
LEMMA AppendList ==
  ASSUME ListInv, NEW e \in ListRecord, list' = Append(list, e), reg' = reg, objs' = objs
  PROVE  /\ list' \in Seq(ListRecord)
         /\ \A n \in Names : n # e.name => ListFrame(n)
         /\ Absent(e.name) => Single(e.name)' /\ \A i \in 1..Len(list') : list'[i].name = e.name => list'[i] = e
<1> DEFINE len == Len(list)
           l == list'
<1>1. list \in Seq(ListRecord) /\ len \in Nat
  BY ListType
<1>2. l \in Seq(ListRecord) /\ Len(l) = len + 1 /\ l[len + 1] = e /\ \A i \in 1..len : l[i] = list[i]
  BY <1>1
<1>3. /\ \A i \in 1..(len + 1) : i \in 1..len \/ i = len + 1
      /\ 1..len \subseteq 1..(len + 1) /\ len + 1 \in 1..(len + 1) /\ len + 1 \notin 1..len
  BY <1>1
<1> HIDE DEF l, len
<1>4. ASSUME NEW n \in Names, n # e.name PROVE ListFrame(n)
  <2>1. Absent(n) => \A i \in 1..Len(l) : l[i].name # n
    BY <1>2, <1>3, <1>4 DEF Absent, len
  <2>2. ASSUME NEW i \in 1..len, \A j \in 1..len : list[j].name = n <=> j = i
        PROVE  i \in 1..Len(l) /\ \A j \in 1..Len(l) : l[j].name = n <=> j = i
    BY <1>2, <1>3, <1>4, <2>2
  <2>3. Single(n) => \E i \in 1..Len(l) : \A j \in 1..Len(l) : l[j].name = n <=> j = i
    BY <2>2 DEF Single, len
  <2>4. (\A i \in 1..len : list[i].name = n => list[i] = Entry(objs[reg[n]]))
          => \A i \in 1..Len(l) : l[i].name = n => l[i] = Entry(objs[reg[n]])
    BY <1>2, <1>3, <1>4
  <2> QED BY <2>1, <2>3, <2>4 DEF ListFrame, Matches, Absent, Single, l, len, Entry
<1>5. ASSUME Absent(e.name)
      PROVE  /\ \E i \in 1..Len(l) : \A j \in 1..Len(l) : l[j].name = e.name <=> j = i
             /\ \A i \in 1..Len(l) : l[i].name = e.name => l[i] = e
  <2>1. \A i \in 1..len : list[i].name # e.name
    BY <1>5 DEF Absent, len
  <2>2. \A j \in 1..Len(l) : l[j].name = e.name <=> j = len + 1
    BY <1>2, <1>3, <2>1
  <2> QED BY <1>2, <1>3, <2>2
<1> QED BY <1>2, <1>4, <1>5 DEF Single, l

(* The first entry of a name is replaced. *)
LEMMA ReplaceList ==
  ASSUME ListInv, NEW e \in ListRecord, reg' = reg, objs' = objs,
         list' = [i \in 1..Len(list) |-> IF IsFirst(i, e.name) THEN e ELSE list[i]]
  PROVE  /\ list' \in Seq(ListRecord)
         /\ \A n \in Names : n # e.name => ListFrame(n)
         /\ Single(e.name) => Single(e.name)' /\ \A i \in 1..Len(list') : list'[i].name = e.name => list'[i] = e
<1> DEFINE len == Len(list)
           l == list'
<1>1. list \in Seq(ListRecord) /\ len \in Nat /\ \A i \in 1..len : list[i] \in ListRecord
  BY ListType
<1>2. l \in Seq(ListRecord) /\ Len(l) = len
  <2>1. l \in [1..len -> ListRecord]
    BY <1>1
  <2> HIDE DEF l, len
  <2> QED BY <1>1, <2>1
<1>3. \A i \in 1..len : l[i] = IF IsFirst(i, e.name) THEN e ELSE list[i]
  OBVIOUS
<1> HIDE DEF l, len
<1>4. \A i \in 1..len : l[i].name = list[i].name /\ (list[i].name # e.name => l[i] = list[i])
  BY <1>3 DEF IsFirst
<1>5. ASSUME NEW n \in Names, n # e.name PROVE ListFrame(n)
  <2>1. \A i \in 1..len : list[i].name = n => l[i] = list[i]
    BY <1>4, <1>5
  <2>2. Absent(n) => \A i \in 1..Len(l) : l[i].name # n
    BY <1>2, <1>4 DEF Absent, len
  <2>3. Single(n) => \E i \in 1..Len(l) : \A j \in 1..Len(l) : l[j].name = n <=> j = i
    BY <1>2, <1>4 DEF Single, len
  <2>4. (\A i \in 1..len : list[i].name = n => list[i] = Entry(objs[reg[n]]))
          => \A i \in 1..Len(l) : l[i].name = n => l[i] = Entry(objs[reg[n]])
    BY <1>2, <1>4, <2>1
  <2> QED BY <2>2, <2>3, <2>4 DEF ListFrame, Matches, Absent, Single, l, len, Entry
<1>6. ASSUME Single(e.name)
      PROVE  /\ \E i \in 1..Len(l) : \A j \in 1..Len(l) : l[j].name = e.name <=> j = i
             /\ \A i \in 1..Len(l) : l[i].name = e.name => l[i] = e
  <2>1. PICK i \in 1..len : \A j \in 1..len : list[j].name = e.name <=> j = i
    BY <1>6 DEF Single, len
  <2>2. \A j \in 1..(i - 1) : j \in 1..len /\ j # i
    BY <1>1
  <2>3. IsFirst(i, e.name)
    BY <2>1, <2>2 DEF IsFirst
  <2>4. l[i] = e /\ \A j \in 1..len : l[j].name = e.name <=> j = i
    BY <1>3, <1>4, <2>1, <2>3
  <2> QED BY <1>2, <2>4
<1> QED BY <1>2, <1>5, <1>6 DEF Single, l

(* All entries of a name go. *)
LEMMA FilterList ==
  ASSUME ListInv, NEW m \in Names, list' = Keep(list, NotOf(m)), reg' = reg, objs' = objs
  PROVE  /\ list' \in Seq(ListRecord)
         /\ \A n \in Names : n # m => ListFrame(n)
         /\ Absent(m)'
<1> DEFINE len == Len(list)
           l == list'
<1>1. list \in Seq(ListRecord) /\ len \in Nat /\ \A i \in 1..len : list[i] \in ListRecord
  BY ListType
<1>2. l \in Seq(ListRecord) /\ Len(l) \in Nat
  BY <1>1, KeepElements
<1>3. PICK g \in [1..Len(l) -> 1..len] :
        /\ \A k \in 1..Len(l) : l[k] = list[g[k]] /\ list[g[k]] \in NotOf(m)
        /\ \A j, k \in 1..Len(l) : j < k => g[j] < g[k]
        /\ \A j \in 1..len : list[j] \in NotOf(m) => \E k \in 1..Len(l) : g[k] = j
  BY <1>1, KeepOrder
<1> HIDE DEF l, len
<1>4. \A k \in 1..Len(l) : g[k] \in 1..len /\ l[k] = list[g[k]] /\ l[k].name # m
  BY <1>3 DEF NotOf
<1>5. \A j, k \in 1..Len(l) : g[j] = g[k] => j = k
  <2> SUFFICES ASSUME NEW j \in 1..Len(l), NEW k \in 1..Len(l), j # k PROVE g[j] # g[k]
    OBVIOUS
  <2>1. j < k \/ k < j
    BY <1>2
  <2>2. g[j] < g[k] \/ g[k] < g[j]
    BY <1>3, <2>1
  <2>3. g[j] \in Nat /\ g[k] \in Nat
    BY <1>1, <1>4
  <2> QED BY <2>2, <2>3
<1>6. ASSUME NEW n \in Names, n # m PROVE ListFrame(n)
  <2>1. \A j \in 1..len : list[j].name = n => \E k \in 1..Len(l) : g[k] = j
    <3> SUFFICES ASSUME NEW j \in 1..len, list[j].name = n PROVE list[j] \in NotOf(m)
      BY <1>3
    <3> QED BY <1>1, <1>6 DEF NotOf, ListRecord
  <2>2. Absent(n) => \A k \in 1..Len(l) : l[k].name # n
    BY <1>4 DEF Absent, len
  <2>3. ASSUME NEW i \in 1..len, \A j \in 1..len : list[j].name = n <=> j = i
        PROVE  \E k \in 1..Len(l) : \A j \in 1..Len(l) : l[j].name = n <=> j = k
    <3>1. PICK k \in 1..Len(l) : g[k] = i
      BY <2>1, <2>3
    <3>2. ASSUME NEW j \in 1..Len(l) PROVE l[j].name = n <=> j = k
      BY <1>4, <1>5, <2>3, <3>1
    <3> QED BY <3>2
  <2>4. Single(n) => \E i \in 1..Len(l) : \A j \in 1..Len(l) : l[j].name = n <=> j = i
    BY <2>3 DEF Single, len
  <2>5. (\A i \in 1..len : list[i].name = n => list[i] = Entry(objs[reg[n]]))
          => \A i \in 1..Len(l) : l[i].name = n => l[i] = Entry(objs[reg[n]])
    BY <1>4
  <2> QED BY <2>2, <2>4, <2>5 DEF ListFrame, Matches, Absent, Single, l, len, Entry
<1>7. Absent(m)'
  BY <1>4 DEF Absent, l
<1> QED BY <1>2, <1>6, <1>7 DEF l

LEMMA OnUpdateList ==
  ASSUME IInv, IInv', ListInv, NEW c \in Clients, OnUpdate(c)
  PROVE  ListInv'
<1>1. /\ reqs[c].pc = "config" /\ reqs[c].op \in {"create", "update", "delete"} /\ reqs[c].name \in Names
      /\ reqs[c].op # "delete" => /\ reqs[c].data \in Datas /\ reqs[c].obj # 0
                                  /\ objs[reqs[c].obj].name = reqs[c].name
      /\ reqs[c] \in ReqRecord /\ reqs[c].obj \in 0..Len(objs)
  <2>1. RequestAt(c) /\ reqs[c].pc = "config"
    BY DEF OnUpdate, IInv, RequestOK
  <2> QED BY <2>1, Shapes DEF RequestAt, IInv
<1>2. KeptData
  BY UnchangedData DEF OnUpdate, IInv
<1>3. Others(c) /\ reqs'[c].pc = "idle" /\ reqs'[c].obj = 0
  BY DoneEffect DEF OnUpdate, IInv
<1>4. MadeOK'
  BY <1>2, <1>3, MadeStep
<1>5. PICK m \in Names : m = reqs[c].name
  BY <1>1
<1>6. reg' = reg /\ objs' = objs /\ raced' = raced
  BY DEF OnUpdate
<1> DEFINE e == Entry(reqs[c])
<1>7. /\ list' \in Seq(ListRecord)
      /\ \A n \in Names : n # m => ListFrame(n)
      /\ m \notin raced => Matches(m)'
  <2>1. m \notin raced => ListAt(reqs[c])
    BY <1>1, <1>5, ListAlone
  <2>2. CASE reqs[c].op = "delete"
    <3>1. list' = Keep(list, NotOf(m))
      BY <1>5, <2>2 DEF OnUpdate, Updated
    <3>2. /\ list' \in Seq(ListRecord) /\ Absent(m)'
          /\ \A n \in Names : n # m => ListFrame(n)
      BY <1>6, <3>1, FilterList
    <3>3. m \notin raced => reg[m] = 0
      BY <1>1, <1>5, <2>1, <2>2 DEF ListAt
    <3> QED BY <1>6, <3>2, <3>3 DEF Matches
  <2>3. CASE reqs[c].op # "delete"
    <3>1. PICK x : x = e
      OBVIOUS
    <3>2. x \in ListRecord /\ x.name = m
      BY <1>1, <1>5, <2>3, <3>1 DEF Entry, ListRecord
    <3>3. m \notin raced => reg[m] # 0 /\ x = Entry(objs[reg[m]])
      <4> SUFFICES ASSUME m \notin raced PROVE reg[m] # 0 /\ x = Entry(objs[reg[m]])
        OBVIOUS
      <4>1. reg[m] = reqs[c].obj
        BY <1>1, <1>5, <2>1, <2>3 DEF ListAt
      <4>2. objs[reg[m]].data = reqs[c].data /\ objs[reg[m]].name = reqs[c].name
        BY <1>1, <2>3, <4>1 DEF ListInv, MadeOK
      <4> QED BY <1>1, <2>3, <3>1, <4>1, <4>2 DEF Entry
    <3>4. CASE reqs[c].op = "create"
      <4>1. list' = Append(list, x)
        BY <3>1, <3>4 DEF OnUpdate, Updated
      <4>2. /\ list' \in Seq(ListRecord)
            /\ \A n \in Names : n # m => ListFrame(n)
            /\ Absent(m) => Single(m)' /\ \A i \in 1..Len(list') : list'[i].name = m => list'[i] = x
        BY <1>6, <3>2, <4>1, AppendList
      <4>3. m \notin raced => Absent(m)
        BY <1>1, <1>5, <2>1, <3>4 DEF ListAt
      <4> QED BY <1>6, <3>3, <4>2, <4>3 DEF Matches
    <3>5. CASE reqs[c].op = "update"
      <4>1. list' = [i \in 1..Len(list) |-> IF IsFirst(i, x.name) THEN x ELSE list[i]]
        BY <1>5, <3>1, <3>2, <3>5 DEF OnUpdate, Updated
      <4>2. /\ list' \in Seq(ListRecord)
            /\ \A n \in Names : n # m => ListFrame(n)
            /\ Single(m) => Single(m)' /\ \A i \in 1..Len(list') : list'[i].name = m => list'[i] = x
        BY <1>6, <3>2, <4>1, ReplaceList
      <4>3. m \notin raced => Single(m)
        BY <1>1, <1>5, <2>1, <3>5 DEF ListAt
      <4> QED BY <1>6, <3>3, <4>2, <4>3 DEF Matches
    <3> QED BY <1>1, <2>3, <3>4, <3>5
  <2> QED BY <2>2, <2>3
<1> HIDE DEF e
<1>8. \A n \in Names : NameOK(n)'
  <2>1. reqs[c].name = m /\ raced \subseteq raced' /\ reqs[c].pc # "idle" /\ raced' = raced
    BY <1>1, <1>5, <1>6
  <2>2. \A n \in Names : n # m => reg'[n] = reg[n] /\ ListFrame(n)
    BY <1>6, <1>7
  <2> QED BY <1>3, <1>7, <2>1, <2>2, StepName
<1> QED BY <1>4, <1>7, <1>8 DEF ListInv, ListRecord

----------------------------------------------------------------------------
(* A request that begins alone finds that list and registry match. *)
LEMMA BeginList ==
  ASSUME IInv, IInv', ListInv, NEW c \in Clients, NEW n \in Names, NEW op, NEW d, NEW pc,
         reqs[c].pc = "idle", Begin(c, op, n, d, pc), objs' = objs, reg' = reg, list' = list,
         \/ op = "create" /\ pc = "parse"
         \/ op = "update" /\ pc \in {"close", "parse"} /\ reg[n] # 0
         \/ op = "delete" /\ pc = "load" /\ reg[n] # 0
  PROVE  ListInv'
<1>1. KeptData /\ StateOK
  BY UnchangedData DEF IInv
<1>2. /\ Others(c) /\ reqs'[c].pc = pc /\ reqs'[c].op = op /\ reqs'[c].name = n /\ reqs'[c].obj = 0
  BY Shapes DEF Begin, Others, NoReq, IInv
<1>3. MadeOK'
  BY <1>1, <1>2, MadeStep
<1>4. \A x \in Names : reg'[x] = reg[x] /\ ListFrame(x)
  BY <1>1, SameList
<1>5. pc # "idle" /\ raced \subseteq raced'
  BY DEF Begin
<1>6. ASSUME n \notin raced' PROVE ListAt(reqs[c])'
  <2>1. Matches(n)
    BY <1>6 DEF Begin, ListInv, NameOK
  <2>2. Matches(n)'
    BY <1>4, <2>1 DEF ListFrame
  <2>3. PICK r : r = reqs'[c]
    OBVIOUS
  <2>4. Matches(r.name)' /\ reg'[r.name] = reg[n]
    BY <1>2, <1>4, <2>2, <2>3
  <2>5. ListAt(r)'
    BY <1>2, <2>3, <2>4 DEF ListAt
  <2> QED BY <2>3, <2>5 DEF ListAt
<1>7. \A x \in Names : NameOK(x)'
  <2>1. \A x \in Names : x # n => reg'[x] = reg[x] /\ ListFrame(x)
    BY <1>4
  <2> QED BY <1>2, <1>5, <1>6, <2>1, StepName
<1> QED BY <1>3, <1>7 DEF ListInv

LEMMA CreateList ==
  ASSUME IInv, IInv', ListInv, NEW c \in Clients, NEW n \in Names, NEW d \in Datas, Create(c, n, d)
  PROVE  ListInv'
BY BeginList DEF Create

LEMMA UpdateList ==
  ASSUME IInv, IInv', ListInv, NEW c \in Clients, NEW n \in Names, NEW d \in Datas, Update(c, n, d)
  PROVE  ListInv'
<1> DEFINE p == IF kind.service THEN "close" ELSE "parse"
<1>1. p \in {"close", "parse"} /\ Begin(c, "update", n, d, p)
  BY DEF Update
<1> HIDE DEF p
<1> QED BY <1>1, BeginList DEF Update

LEMMA DeleteList ==
  ASSUME IInv, IInv', ListInv, NEW c \in Clients, NEW n \in Names, Delete(c, n)
  PROVE  ListInv'
BY BeginList DEF Delete

(* Unregister takes the name out: an update leaves its entry to be replaced. *)
LEMMA UnregisterDeleteList ==
  ASSUME IInv, IInv', ListInv, NEW c \in Clients, UnregisterDelete(c)
  PROVE  ListInv'
<1>1. /\ reqs[c].pc = "delete" /\ reqs[c].op \in {"update", "delete"} /\ reqs[c].name \in Names /\ StateOK
  BY DEF UnregisterDelete, IInv, RequestOK, RequestAt
<1>2. PICK m \in Names : m = reqs[c].name
  BY <1>1
<1>3. KeptData
  <2>1. CASE reg[m] = 0
    BY <1>1, <1>2, <2>1, UnchangedData DEF UnregisterDelete, Removed
  <2>2. CASE reg[m] # 0
    <3>1. reg[m] \in 1..Len(objs) /\ objs' = [objs EXCEPT ![reg[m]].fate = "removed"]
      BY <1>1, <1>2, <2>2, Shapes DEF UnregisterDelete, Removed
    <3> QED BY <1>1, <3>1, ChangedData
  <2> QED BY <2>1, <2>2
<1> DEFINE p == AfterUnregister(reqs[c])
<1>4. /\ Others(c) /\ reqs'[c].pc = p /\ reqs'[c].op = reqs[c].op /\ reqs'[c].name = reqs[c].name
      /\ reqs'[c].data = reqs[c].data /\ reqs'[c].obj = reqs[c].obj
      /\ p \in {"register", "close", "config"}
  <2>1. p \in {"register", "close", "config"} /\ reqs' = Goto(c, p)
    BY DEF UnregisterDelete, AfterUnregister
  <2> HIDE DEF p
  <2> QED BY <1>1, <2>1, GotoEffect
<1>5. MadeOK'
  BY <1>3, <1>4, MadeStep
<1>6. reg' = [reg EXCEPT ![m] = 0] /\ list' = list /\ raced' = raced /\ reg \in [Names -> 0..Len(objs)]
  BY <1>1, <1>2, Shapes DEF UnregisterDelete
<1>7. \A n \in Names : n # m => reg'[n] = reg[n] /\ ListFrame(n)
  BY <1>1, <1>3, <1>6, SameList
<1>8. ASSUME m \notin raced' PROVE ListAt(reqs[c])'
  <2>1. ListAt(reqs[c])
    BY <1>1, <1>2, <1>6, <1>8, ListAlone
  <2>2. Single(m) /\ reg[m] # 0
    BY <1>1, <1>2, <2>1 DEF ListAt, Matches
  <2>3. Single(m)' /\ reg'[m] = 0
    BY <1>6, <2>2 DEF Single
  <2>4. PICK r : r = reqs'[c]
    OBVIOUS
  <2>5. Single(r.name)' /\ reg'[r.name] = 0
    BY <1>2, <1>4, <2>3, <2>4
  <2>6. ListAt(r)'
    BY <1>1, <1>4, <2>4, <2>5 DEF ListAt, AfterUnregister
  <2> QED BY <2>4, <2>6 DEF ListAt
<1> HIDE DEF p
<1>9. \A n \in Names : NameOK(n)'
  <2>1. reqs[c].name = m /\ raced \subseteq raced' /\ reqs[c].pc # "idle" /\ reqs'[c].pc # "idle"
    BY <1>1, <1>2, <1>4, <1>6
  <2> QED BY <1>4, <1>7, <1>8, <2>1, StepName
<1> QED BY <1>5, <1>6, <1>9 DEF ListInv

(* Register puts the object in, or refuses it and leaves all as it was. *)
LEMMA RegisterList ==
  ASSUME IInv, IInv', ListInv, NEW c \in Clients, Register(c)
  PROVE  ListInv'
<1>1. /\ reqs[c].pc = "register" /\ reqs[c].op \in {"create", "update"} /\ reqs[c].name \in Names
      /\ reqs[c].obj # 0 /\ StateOK
  BY DEF Register, IInv, RequestOK, RequestAt
<1>2. PICK m \in Names : m = reqs[c].name
  BY <1>1
<1>3. KeptData
  <2> DEFINE f == IF reg[m] = 0 THEN "registered" ELSE "refused"
  <2>1. reqs[c].obj \in 1..Len(objs) /\ f \in {"registered", "refused", "removed"}
    BY <1>1, Shapes
  <2>2. objs' = [objs EXCEPT ![reqs[c].obj].fate = f]
    BY <1>2 DEF Register
  <2> HIDE DEF f
  <2> QED BY <1>1, <2>1, <2>2, ChangedData
<1>4. list' = list /\ raced' = raced /\ reg \in [Names -> 0..Len(objs)]
  BY <1>1, Shapes DEF Register
<1>5. CASE reg[m] = 0
  <2> DEFINE p == IF kind.service THEN "serve" ELSE "config"
  <2>1. /\ Others(c) /\ reqs'[c].pc = p /\ reqs'[c].op = reqs[c].op /\ reqs'[c].name = reqs[c].name
        /\ reqs'[c].data = reqs[c].data /\ reqs'[c].obj = reqs[c].obj
    <3>1. p \in {"serve", "config"} /\ reqs' = Goto(c, p)
      BY <1>2, <1>5 DEF Register
    <3> HIDE DEF p
    <3> QED BY <1>1, <3>1, GotoEffect
  <2>2. p \in {"serve", "config"} /\ p # "idle"
    OBVIOUS
  <2> HIDE DEF p
  <2>3. MadeOK'
    BY <1>3, <2>1, MadeStep
  <2>4. reg' = [reg EXCEPT ![m] = reqs[c].obj]
    BY <1>2, <1>5 DEF Register
  <2>5. \A n \in Names : n # m => reg'[n] = reg[n] /\ ListFrame(n)
    BY <1>1, <1>3, <1>4, <2>4, SameList
  <2>6. ASSUME m \notin raced' PROVE ListAt(reqs[c])'
    <3>1. ListAt(reqs[c])
      BY <1>1, <1>2, <1>4, <2>6, ListAlone
    <3>2. (reqs[c].op = "create" => Absent(m)) /\ (reqs[c].op = "update" => Single(m))
      BY <1>1, <1>2, <1>5, <3>1 DEF ListAt, Matches
    <3>3. PICK r : r = reqs'[c]
      OBVIOUS
    <3>4. reg'[m] = r.obj /\ (r.op = "create" => Absent(m)') /\ (r.op = "update" => Single(m)')
      BY <1>4, <2>1, <2>4, <3>2, <3>3 DEF Absent, Single
    <3>5. r.name = m /\ r.pc \in {"serve", "config"} /\ r.op \in {"create", "update"}
      BY <1>1, <1>2, <2>1, <2>2, <3>3
    <3>6. ListAt(r)'
      BY <3>4, <3>5 DEF ListAt
    <3> QED BY <3>3, <3>6 DEF ListAt
  <2>7. \A n \in Names : NameOK(n)'
    <3>1. reqs[c].name = m /\ raced \subseteq raced' /\ reqs[c].pc # "idle" /\ reqs'[c].pc # "idle"
      BY <1>1, <1>2, <1>4, <2>1, <2>2
    <3> QED BY <2>1, <2>5, <2>6, <3>1, StepName
  <2> QED BY <1>4, <2>3, <2>7 DEF ListInv
<1>6. CASE reg[m] # 0
  <2>1. reg' = reg
    BY <1>2, <1>6 DEF Register
  <2>2. PICK r : r = reqs'[c]
    OBVIOUS
  <2>3. CASE kind.service
    <3>1. /\ Others(c) /\ reqs'[c].pc = "drop" /\ reqs'[c].op = reqs[c].op /\ reqs'[c].name = reqs[c].name
          /\ reqs'[c].data = reqs[c].data /\ reqs'[c].obj = reqs[c].obj
      <4>1. reqs' = Goto(c, "drop")
        BY <1>2, <1>6, <2>3 DEF Register
      <4> QED BY <1>1, <4>1, GotoEffect
    <3>2. r.pc # "idle" /\ (ListAt(reqs[c]) => ListAt(r))
      BY <1>1, <1>2, <1>6, <2>2, <3>1 DEF ListAt
    <3> QED BY <1>1, <1>3, <1>4, <2>1, <2>2, <3>1, <3>2, QuietList
  <2>4. CASE ~kind.service
    <3>1. Others(c) /\ reqs'[c].pc = "idle" /\ reqs'[c].obj = 0
      BY <1>1, <1>2, <1>6, <2>4, DoneEffect DEF Register
    <3>2. r.pc = "idle" /\ (ListAt(reqs[c]) => Matches(reqs[c].name))
      BY <1>1, <1>2, <1>6, <2>2, <3>1 DEF ListAt
    <3> QED BY <1>1, <1>3, <1>4, <2>1, <2>2, <3>1, <3>2, QuietList
  <2> QED BY <2>3, <2>4
<1> QED BY <1>5, <1>6

----------------------------------------------------------------------------
LEMMA ListInit == Init => ListInv
<1> SUFFICES ASSUME Init PROVE ListInv
  OBVIOUS
<1>1. list = <<>> /\ reg = [n \in Names |-> 0] /\ reqs = [c \in Clients |-> NoReq]
  BY DEF Init
<1>2. \A n \in Names : Matches(n) /\ About(n) = {}
  BY <1>1 DEF Matches, Absent, About, NoReq
<1>3. MadeOK
  BY <1>1 DEF MadeOK, NoReq
<1> QED BY <1>1, <1>2, <1>3 DEF ListInv, NameOK

LEMMA ListStep == IInv /\ IInv' /\ ListInv /\ [Next]_vars => ListInv'
<1> SUFFICES ASSUME IInv, IInv', ListInv, [Next]_vars PROVE ListInv'
  OBVIOUS
<1>1. ASSUME UNCHANGED vars PROVE ListInv'
  BY <1>1 DEF vars, ListInv, MadeOK, NameOK, About, ListAt, Matches, Absent, Single, Entry
<1>2. ASSUME NEW c \in Clients, NEW n \in Names, NEW d \in Datas,
             Create(c, n, d) \/ Update(c, n, d)
      PROVE  ListInv'
  BY <1>2, CreateList, UpdateList
<1>3. ASSUME NEW c \in Clients, NEW n \in Names, Delete(c, n)
      PROVE  ListInv'
  BY <1>3, DeleteList
<1>4. ASSUME NEW c \in Clients, Handle(c)
      PROVE  ListInv'
  BY <1>4, CloseOldList, ParseFailsList, ParseHandlerFailsList, ParseList, UnregisterLoadList,
     UnregisterCloseList, UnregisterDeleteList, RegisterList, CloseRefusedList, StartServeList,
     OnUpdateList DEF Handle
<1>5. ASSUME NEW o \in 1..Len(objs), ServeReturns(o)
      PROVE  ListInv'
  BY <1>5, ServeReturnsList
<1> QED
  BY <1>1, <1>2, <1>3, <1>4, <1>5 DEF Next

LEMMA ListInvMatches == IInv /\ ListInv => ConfigMatchesRegistry
<1> SUFFICES ASSUME IInv, ListInv PROVE ConfigMatchesRegistry
  OBVIOUS
<1>1. TypeOK
  BY DEF TypeOK, IInv, ListInv
<1>2. ASSUME NEW n \in Names, Settled(n)
      PROVE  /\ Cardinality(Listed(n)) = IF reg[n] = 0 THEN 0 ELSE 1
             /\ \A i \in Listed(n) : list[i] = Entry(objs[reg[n]])
  <2>1. Matches(n)
    BY <1>2 DEF Settled, ListInv, NameOK
  <2>2. CASE reg[n] = 0
    <3>1. Listed(n) = {}
      BY <2>1, <2>2 DEF Matches, Absent, Listed
    <3> QED BY <2>2, <3>1, FS_EmptySet
  <2>3. CASE reg[n] # 0
    <3>1. PICK i \in 1..Len(list) : \A j \in 1..Len(list) : list[j].name = n <=> j = i
      BY <2>1, <2>3 DEF Matches, Single
    <3>2. Listed(n) = {i}
      BY <3>1 DEF Listed
    <3>3. Cardinality(Listed(n)) = 1
      BY <3>2, FS_Singleton
    <3>4. \A j \in Listed(n) : list[j] = Entry(objs[reg[n]])
      BY <2>1, <2>3 DEF Matches, Listed
    <3> QED BY <2>3, <3>3, <3>4
  <2> QED BY <2>2, <2>3
<1> QED BY <1>1, <1>2 DEF ConfigMatchesRegistry

(***************************************************************************)
(* Where requests about a name come one after the other, the configuration *)
(* list says of it what the registry has, however requests about other     *)
(* names run in between and whichever requests fail.  A request that is    *)
(* alone leaves one of the two behind between Unregister or Register and   *)
(* OnUpdate only, and then knows the other.                                *)
(***************************************************************************)
THEOREM ListMatchesRegistry == Spec => []ConfigMatchesRegistry
<1>1. Init => ListInv
  BY ListInit
<1>2. IInv /\ IInv' /\ ListInv /\ [Next]_vars => ListInv'
  BY ListStep
<1>3. Spec => [](IInv /\ ListInv)
  BY <1>1, <1>2, IInvIsInvariant, PTL DEF Spec
<1>4. IInv /\ ListInv => ConfigMatchesRegistry
  BY ListInvMatches
<1> QED
  BY <1>3, <1>4, PTL
=============================================================================
