----------------------------- MODULE ConfigAPI -----------------------------
(***************************************************************************)
(* The management API (api/config_*.go), the registries it changes         *)
(* (registry/registry.go), the list of configurations it keeps             *)
(* (config/config.go) and the life of the objects it makes: services with  *)
(* a listener (config/parsing/service.go, service/service.go), rule sets   *)
(* that may own a reloading goroutine, and chains, hops and resolvers.     *)
(*                                                                         *)
(* The HTTP server runs each request in a goroutine of its own.  A         *)
(* registry is a sync.Map and the list has a lock of its own, but nothing  *)
(* spans a whole request, so each access to shared state is a step here.   *)
(***************************************************************************)
EXTENDS Naturals, Sequences, FiniteSets, Subsequence

CONSTANTS
  Clients,   \* requests that may be in progress at once
  Names,     \* object names
  Datas,     \* what a request body says; for a service, the address
  Ops,       \* which of "create", "update", "delete" the clients use
  Kinds,     \* the kinds of object looked at
  MaxObjs    \* bound on the number of objects ever made

(***************************************************************************)
(* What tells the kinds apart.  service: has a listener and a Serve loop,  *)
(* and its handlers close it themselves.  fails: parsing may report an     *)
(* error.  runs: the object owns something until it is closed.  missing:   *)
(* what the registry's wrapper answers for a name that is not registered.  *)
(***************************************************************************)
Kind == [service: BOOLEAN, fails: BOOLEAN, runs: BOOLEAN,
         missing: {"nothing", "permit", "deny", "direct", "error"}]

KindOf(service, fails, runs, missing) ==
  [service |-> service, fails |-> fails, runs |-> runs, missing |-> missing]

ServiceKind     == KindOf(TRUE,  TRUE,  TRUE,  "nothing")
ChainKind       == KindOf(FALSE, TRUE,  FALSE, "direct")
HopKind         == KindOf(FALSE, TRUE,  FALSE, "nothing")
ResolverKind    == KindOf(FALSE, TRUE,  FALSE, "error")
AutherKind      == KindOf(FALSE, FALSE, TRUE,  "permit")
AdmissionKind   == KindOf(FALSE, FALSE, TRUE,  "deny")
BypassKind      == KindOf(FALSE, FALSE, TRUE,  "permit")
HostsKind       == KindOf(FALSE, FALSE, TRUE,  "nothing")
IngressKind     == KindOf(FALSE, FALSE, TRUE,  "nothing")
LimiterKind     == KindOf(FALSE, FALSE, TRUE,  "permit")
ConnLimiterKind == KindOf(FALSE, FALSE, TRUE,  "permit")
RateLimiterKind == KindOf(FALSE, FALSE, TRUE,  "permit")

AllKinds == {ServiceKind, ChainKind, HopKind, ResolverKind, AutherKind,
             AdmissionKind, BypassKind, HostsKind, IngressKind, LimiterKind,
             ConnLimiterKind, RateLimiterKind}

ASSUME ConfigAPIAssumption ==
  /\ Ops \subseteq {"create", "update", "delete"}
  /\ Kinds \subseteq Kind
  /\ MaxObjs \in Nat

VARIABLES
  kind,     \* the kind of object in this behaviour
  reg,      \* the registry: the object a name stands for, 0 if none
  list,     \* the configurations of this kind, in config.Global()
  objs,     \* every object made, with what is left of it
  reqs,     \* the requests in progress
  deleted,  \* names that a delete request has removed
  raced     \* names for which two requests were in progress at once

vars == <<kind, reg, list, objs, reqs, deleted, raced>>

NoReq == [pc |-> "idle", op |-> "none", name |-> "none", data |-> "none",
          old |-> 0, cur |-> 0, obj |-> 0]

(* An object that was parsed: up until closed, serving once Serve runs. *)
NewObj(n, d) == [name |-> n, data |-> d, up |-> kind.runs, serving |-> FALSE,
                 fate |-> "parsed"]

Goto(c, pc) == [reqs EXCEPT ![c].pc = pc]

Done(c) == [reqs EXCEPT ![c] = NoReq]

(* A variant with a fault: Close that leaves the listener open. *)
LeaveOpen(o) == objs

(* service.Close, or the Close of a rule set, which ends its reloading. *)
CloseObj(o) == [objs EXCEPT ![o].up = FALSE]

----------------------------------------------------------------------------
(***************************************************************************)
(* The first step of a request looks the name up.  createService refuses a *)
(* name in use at once, the other create handlers find out on Register.    *)
(* Update and delete need a registered name; updateService and             *)
(* deleteService remember the service they found.                          *)
(***************************************************************************)
Room == Len(objs) + Cardinality({c \in Clients : reqs[c].pc # "idle"}) < MaxObjs

About(n) == {c \in Clients : reqs[c].pc # "idle" /\ reqs[c].name = n}

Begin(c, op, n, d, pc) ==
  /\ reqs' = [reqs EXCEPT ![c] = [NoReq EXCEPT !.pc = pc, !.op = op, !.name = n,
                !.data = d, !.old = IF kind.service THEN reg[n] ELSE 0]]
  /\ raced' = IF About(n) = {} THEN raced ELSE raced \cup {n}

Create(c, n, d) ==
  /\ "create" \in Ops /\ Room
  /\ reqs[c].pc = "idle"
  /\ kind.service => reg[n] = 0
  /\ Begin(c, "create", n, d, "parse")
  /\ UNCHANGED <<kind, reg, list, objs, deleted>>

Update(c, n, d) ==
  /\ "update" \in Ops /\ Room
  /\ reqs[c].pc = "idle"
  /\ reg[n] # 0
  /\ Begin(c, "update", n, d, IF kind.service THEN "close" ELSE "parse")
  /\ UNCHANGED <<kind, reg, list, objs, deleted>>

Delete(c, n) ==
  /\ "delete" \in Ops
  /\ reqs[c].pc = "idle"
  /\ reg[n] # 0
  /\ Begin(c, "delete", n, "none", "load")
  /\ UNCHANGED <<kind, reg, list, objs, deleted>>

(* updateService closes before it parses, deleteService after Unregister. *)
CloseOld(c) ==
  LET r == reqs[c]
  IN  /\ r.pc = "close"
      /\ objs' = CloseObj(r.old)
      /\ reqs' = Goto(c, IF r.op = "update" THEN "parse" ELSE "config")
      /\ UNCHANGED <<kind, reg, list, deleted, raced>>

----------------------------------------------------------------------------
(***************************************************************************)
(* Parsing.  A service's listener is bound first; an address that is bound *)
(* already makes it fail, and so may much else.                            *)
(***************************************************************************)
Bound(d) == \E o \in 1..Len(objs) : objs[o].up /\ objs[o].data = d

(* Nothing was made: the request is answered with ErrCreate. *)
ParseFails(c) ==
  /\ reqs[c].pc = "parse"
  /\ kind.fails
  /\ reqs' = Done(c)
  /\ UNCHANGED <<kind, reg, list, objs, deleted, raced>>

(***************************************************************************)
(* ParseService fails on the handler after the listener's Init: the        *)
(* listener is dropped and not closed.                                     *)
(***************************************************************************)
ParseHandlerFails(c) ==
  LET r == reqs[c]
  IN  /\ r.pc = "parse"
      /\ kind.service /\ ~Bound(r.data)
      /\ objs' = Append(objs, [NewObj(r.name, r.data) EXCEPT !.fate = "leaked"])
      /\ reqs' = Done(c)
      /\ UNCHANGED <<kind, reg, list, deleted, raced>>

Parse(c) ==
  LET r == reqs[c]
  IN  /\ r.pc = "parse"
      /\ kind.service => ~Bound(r.data)
      /\ objs' = Append(objs, NewObj(r.name, r.data))
      /\ reqs' = [reqs EXCEPT ![c].obj = Len(objs) + 1,
                    ![c].pc = IF r.op = "create" THEN "register" ELSE "load"]
      /\ UNCHANGED <<kind, reg, list, deleted, raced>>

----------------------------------------------------------------------------
(***************************************************************************)
(* registry.Unregister: load, close what was loaded if it can be closed,   *)
(* delete whatever the name stands for by then.                            *)
(***************************************************************************)
AfterUnregister(r) ==
  IF r.op = "update" THEN "register" ELSE IF kind.service THEN "close" ELSE "config"

UnregisterLoad(c) ==
  LET r == reqs[c]
  IN  /\ r.pc = "load"
      /\ reqs' = [reqs EXCEPT ![c].cur = reg[r.name],
                    ![c].pc = IF reg[r.name] = 0 THEN AfterUnregister(r)
                              ELSE IF kind.runs THEN "unclose" ELSE "delete"]
      /\ UNCHANGED <<kind, reg, list, objs, deleted, raced>>

UnregisterClose(c) ==
  LET r == reqs[c]
  IN  /\ r.pc = "unclose"
      /\ objs' = CloseObj(r.cur)
      /\ reqs' = Goto(c, "delete")
      /\ UNCHANGED <<kind, reg, list, deleted, raced>>

Removed(o) == IF o = 0 THEN objs ELSE [objs EXCEPT ![o].fate = "removed"]

(* A variant with a fault: an update that deletes and then gives up. *)
DeleteAndLeave(c) ==
  /\ reqs[c].pc = "delete"
  /\ reg' = [reg EXCEPT ![reqs[c].name] = 0]
  /\ objs' = Removed(reg[reqs[c].name])
  /\ reqs' = Done(c)
  /\ UNCHANGED <<kind, list, deleted, raced>>

UnregisterDelete(c) ==
  LET r == reqs[c]
  IN  /\ r.pc = "delete"
      /\ reg' = [reg EXCEPT ![r.name] = 0]
      /\ objs' = Removed(reg[r.name])
      /\ deleted' = IF r.op = "delete" THEN deleted \cup {r.name} ELSE deleted
      /\ reqs' = Goto(c, AfterUnregister(r))
      /\ UNCHANGED <<kind, list, raced>>

(* A variant with a fault: Store in place of LoadOrStore. *)
StoreAlways(c) ==
  LET r == reqs[c]
  IN  /\ r.pc = "register"
      /\ reg' = [reg EXCEPT ![r.name] = r.obj]
      /\ reqs' = Goto(c, IF kind.service THEN "serve" ELSE "config")
      /\ objs' = [objs EXCEPT ![r.obj].fate = "registered"]
      /\ UNCHANGED <<kind, list, deleted, raced>>

(* registry.Register: LoadOrStore; a name that is taken refuses the object. *)
Register(c) ==
  LET r == reqs[c]
      free == reg[r.name] = 0
  IN  /\ r.pc = "register"
      /\ reg' = IF free THEN [reg EXCEPT ![r.name] = r.obj] ELSE reg
      /\ objs' = [objs EXCEPT ![r.obj].fate = IF free THEN "registered" ELSE "refused"]
      /\ reqs' = IF free THEN Goto(c, IF kind.service THEN "serve" ELSE "config")
                 ELSE IF kind.service THEN Goto(c, "drop") ELSE Done(c)
      /\ deleted' = IF free THEN deleted \ {r.name} ELSE deleted
      /\ UNCHANGED <<kind, list, raced>>

(* svc.Close() of a service that was refused. *)
CloseRefused(c) ==
  /\ reqs[c].pc = "drop"
  /\ objs' = CloseObj(reqs[c].obj)
  /\ reqs' = Done(c)
  /\ UNCHANGED <<kind, reg, list, deleted, raced>>

(* go svc.Serve() *)
StartServe(c) ==
  /\ reqs[c].pc = "serve"
  /\ objs' = [objs EXCEPT ![reqs[c].obj].serving = TRUE]
  /\ reqs' = Goto(c, "config")
  /\ UNCHANGED <<kind, reg, list, deleted, raced>>

(* Accept on a closed listener fails for good, and the loop returns. *)
ServeReturns(o) ==
  /\ objs[o].serving /\ ~objs[o].up
  /\ objs' = [objs EXCEPT ![o].serving = FALSE]
  /\ UNCHANGED <<kind, reg, list, reqs, deleted, raced>>

----------------------------------------------------------------------------
(***************************************************************************)
(* config.OnUpdate, under the lock of the configuration: append, replace   *)
(* the first entry of the name, or drop every entry of the name.           *)
(***************************************************************************)
Entry(r) == [name |-> r.name, data |-> r.data]

IsFirst(i, n) == /\ list[i].name = n
                 /\ \A j \in 1..(i - 1) : list[j].name # n

NotOf(n) == {e \in [name: Names, data: Datas] : e.name # n}

(* A variant with a fault: an update appends where it should replace. *)
AppendedToo(r) == IF r.op = "delete" THEN Keep(list, NotOf(r.name)) ELSE Append(list, Entry(r))

Updated(r) ==
  CASE r.op = "create" -> Append(list, Entry(r))
    [] r.op = "update" -> [i \in 1..Len(list) |->
                             IF IsFirst(i, r.name) THEN Entry(r) ELSE list[i]]
    [] r.op = "delete" -> Keep(list, NotOf(r.name))

OnUpdate(c) ==
  /\ reqs[c].pc = "config"
  /\ list' = Updated(reqs[c])
  /\ reqs' = Done(c)
  /\ UNCHANGED <<kind, reg, objs, deleted, raced>>

----------------------------------------------------------------------------
Init ==
  /\ kind \in Kinds
  /\ reg = [n \in Names |-> 0]
  /\ list = <<>>
  /\ objs = <<>>
  /\ reqs = [c \in Clients |-> NoReq]
  /\ deleted = {}
  /\ raced = {}

Handle(c) ==
  \/ CloseOld(c)
  \/ ParseFails(c)
  \/ ParseHandlerFails(c)
  \/ Parse(c)
  \/ UnregisterLoad(c)
  \/ UnregisterClose(c)
  \/ UnregisterDelete(c)
  \/ Register(c)
  \/ CloseRefused(c)
  \/ StartServe(c)
  \/ OnUpdate(c)

Next ==
  \/ \E c \in Clients, n \in Names, d \in Datas : Create(c, n, d)
  \/ \E c \in Clients, n \in Names, d \in Datas : Update(c, n, d)
  \/ \E c \in Clients, n \in Names : Delete(c, n)
  \/ \E c \in Clients : Handle(c)
  \/ \E o \in 1..Len(objs) : ServeReturns(o)

Spec == Init /\ [][Next]_vars

----------------------------------------------------------------------------
ObjRecord == [name: Names, data: Datas, up: BOOLEAN, serving: BOOLEAN,
              fate: {"parsed", "leaked", "registered", "refused", "removed"}]

ReqRecord == [pc: {"idle", "close", "parse", "load", "unclose", "delete",
                   "register", "drop", "serve", "config"},
              op: {"none", "create", "update", "delete"},
              name: Names \cup {"none"}, data: Datas \cup {"none"},
              old: Nat, cur: Nat, obj: Nat]

(* The shape of the registry, the objects and the requests, and of the list. *)
StateOK ==
  /\ kind \in Kinds
  /\ reg \in [Names -> 0..Len(objs)]
  /\ objs \in Seq(ObjRecord)
  /\ reqs \in [Clients -> ReqRecord]
  /\ \A c \in Clients : {reqs[c].old, reqs[c].cur, reqs[c].obj} \subseteq 0..Len(objs)
  /\ deleted \subseteq Names /\ raced \subseteq Names

TypeOK == StateOK /\ list \in Seq([name: Names, data: Datas])

(* Nobody is at work on the name, and never two were at once. *)
Settled(n) == About(n) = {} /\ n \notin raced

(***************************************************************************)
(* Requests about one name come one after the other: whatever requests     *)
(* about other names do meanwhile, and whichever requests failed, what     *)
(* GET /config reports of the name in between is the configuration of the  *)
(* object that is registered, once, or nothing if none is.                 *)
(***************************************************************************)
Listed(n) == {i \in 1..Len(list) : list[i].name = n}

ConfigMatchesRegistry ==
  /\ TypeOK
  /\ \A n \in Names : Settled(n) =>
       /\ Cardinality(Listed(n)) = IF reg[n] = 0 THEN 0 ELSE 1
       /\ \A i \in Listed(n) : list[i] = Entry(objs[reg[n]])

(***************************************************************************)
(* Under the same condition a service that accepts connections is one that *)
(* a request can still reach and stop: its name stands for it.             *)
(***************************************************************************)
ServingIsReachable ==
  \A o \in 1..Len(objs) :
    Settled(objs[o].name) /\ objs[o].up /\ objs[o].serving => reg[objs[o].name] = o

(***************************************************************************)
(* Requests that race for a name: createService looks the name up long     *)
(* before Register, an update has taken the old object out, and still an   *)
(* object once registered is never overwritten by another.  It leaves the  *)
(* registry through Unregister only, so at most one per name is in use.    *)
(* The loser does not keep its address: the listener of a service that     *)
(* Register refused is closed before the request ends.                     *)
(***************************************************************************)
OneWinner ==
  \A o \in 1..Len(objs) :
    /\ objs[o].fate = "registered" => reg[objs[o].name] = o
    /\ kind.service /\ objs[o].fate = "refused" =>
         ~objs[o].up \/ \E c \in Clients : reqs[c].obj = o

(***************************************************************************)
(* An update takes the object out of the registry before it puts the new   *)
(* one in, and the wrappers that services hold answer for a name that is   *)
(* not there with a default (authers and limiters with "permit").  The     *)
(* default is only ever seen while an update is inside that window or      *)
(* after a delete: racing updates cannot leave the name unregistered.      *)
(***************************************************************************)
Answer(n) == IF reg[n] = 0 THEN kind.missing ELSE "object"

Created(n) == \E o \in 1..Len(objs) : objs[o].name = n /\ objs[o].fate \in {"registered", "removed"}

InWindow(n) == \E c \in Clients : /\ reqs[c].op = "update" /\ reqs[c].name = n
                                  /\ reqs[c].pc = "register"

DefaultOnlyInWindow ==
  \A n \in Names : Created(n) /\ n \notin deleted => Answer(n) = "object" \/ InWindow(n)

----------------------------------------------------------------------------
(* What makes the last three of these inductive. *)

(* A name stands for an object that was registered under it. *)
RegisteredOK ==
  \A n \in Names : reg[n] # 0 => objs[reg[n]].name = n /\ objs[reg[n]].fate = "registered"

ObjsOK == \A o \in 1..Len(objs) : /\ objs[o].up => kind.runs
                                  /\ objs[o].serving => kind.service

(* How far a request has come tells what became of the object that it made. *)
FatesAt(pc) == CASE pc = "drop" -> {"refused"}
                 [] pc \in {"serve", "config"} -> {"registered", "removed"}
                 [] OTHER -> {"parsed"}

RequestAt(c) ==
  LET r == reqs[c]
      early == r.pc \in {"idle", "parse", "close"} \/ r.op = "delete"
  IN  /\ early => r.obj = 0
      /\ ~early => /\ r.obj # 0 /\ objs[r.obj].name = r.name
                   /\ objs[r.obj].fate \in FatesAt(r.pc)
      /\ r.pc # "idle" =>
           /\ r.name \in Names
           /\ r.op = "delete" => r.pc \in {"load", "unclose", "delete", "close", "config"}
           /\ r.op # "delete" => r.data \in Datas
           /\ \/ r.op \in {"update", "delete"}
              \/ r.op = "create" /\ r.pc \in {"parse", "register", "drop", "serve", "config"}
           /\ r.op \in {"update", "delete"} /\ kind.service => r.old # 0
      /\ r.pc = "close" => kind.service
      /\ r.pc = "unclose" => r.cur # 0
      /\ r.pc = "serve" => kind.service

RequestOK == \A c \in Clients : RequestAt(c)

OwnObject == \A c, d \in Clients : c # d /\ reqs[c].obj # 0 => reqs[c].obj # reqs[d].obj

RacedOK ==
  \A c, d \in Clients : c # d /\ reqs[c].pc # "idle" /\ reqs[d].pc # "idle"
                        /\ reqs[c].name = reqs[d].name => reqs[c].name \in raced

(* A request that is alone with its name knows what is registered. *)
AloneAt(c) ==
  LET r == reqs[c]
  IN  r.pc # "idle" /\ r.name \notin raced =>
        /\ r.pc = "unclose" => r.cur = reg[r.name]
        /\ r.pc = "delete" /\ reg[r.name] # 0 => ~objs[reg[r.name]].up
        /\ r.pc = "serve" => reg[r.name] = r.obj

AloneOK == \A c \in Clients : AloneAt(c)

(* Between requests too, and while one is under way. *)
ServingOK ==
  \A o \in 1..Len(objs) : objs[o].name \notin raced /\ objs[o].up /\ objs[o].serving =>
    reg[objs[o].name] = o

IInv ==
  /\ StateOK /\ RegisteredOK /\ ObjsOK /\ RequestOK /\ OwnObject /\ RacedOK
  /\ AloneOK /\ ServingOK /\ OneWinner /\ DefaultOnlyInWindow

----------------------------------------------------------------------------
(* What makes the first one inductive. *)

Absent(n) == \A i \in 1..Len(list) : list[i].name # n

Single(n) == \E i \in 1..Len(list) : \A j \in 1..Len(list) : list[j].name = n <=> j = i

(* The list says of the name what the registry has. *)
Matches(n) ==
  IF reg[n] = 0 THEN Absent(n)
  ELSE Single(n) /\ \A i \in 1..Len(list) : list[i].name = n => list[i] = Entry(objs[reg[n]])

(***************************************************************************)
(* Registry and list part where the request has changed the one and not    *)
(* yet the other; until then, and when it gives up, they match.            *)
(***************************************************************************)
ListAt(r) ==
  CASE r.op = "create" /\ r.pc \in {"parse", "register", "drop"} -> Matches(r.name)
    [] r.op = "create" /\ r.pc \in {"serve", "config"} -> reg[r.name] = r.obj /\ Absent(r.name)
    [] r.op = "update" /\ r.pc = "register" -> reg[r.name] = 0 /\ Single(r.name)
    [] r.op = "update" /\ r.pc \in {"serve", "config"} -> reg[r.name] = r.obj /\ Single(r.name)
    [] r.op = "delete" /\ r.pc \in {"close", "config"} -> reg[r.name] = 0
    [] OTHER -> reg[r.name] # 0 /\ Matches(r.name) /\ r.pc # "drop"

(* A name that never had two requests at once. *)
NameOK(n) ==
  n \notin raced =>
    /\ About(n) = {} => Matches(n)
    /\ \A c \in About(n) : ListAt(reqs[c])

(* What a request has made is what its body says. *)
MadeOK == \A c \in Clients : reqs[c].obj # 0 => objs[reqs[c].obj].data = reqs[c].data

ListInv ==
  /\ list \in Seq([name: Names, data: Datas])
  /\ MadeOK
  /\ \A n \in Names : NameOK(n)
=============================================================================
