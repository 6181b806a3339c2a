------------------------------ MODULE DnsCache ------------------------------
(***************************************************************************)
(* Names are looked up at name servers: by the resolver, which asks one    *)
(* after the other, first for one type of address and then for the other,  *)
(* and by the DNS handler, which passes on the queries that neither bypass *)
(* nor hosts answer, to the server that its hop selects.  All look-ups of  *)
(* a resolver or a handler share a cache, whose key is the question alone. *)
(* The name is one; time passes in ticks while an answer is waited for,    *)
(* and what a goroutine does between takes none.                           *)
(***************************************************************************)
EXTENDS Integers, Sequences, FiniteSets, SequencesExt, FiniteSetsExt

CONSTANTS
  Looks,    \* the look-ups that may be under way
  NServers, \* how many name servers there are
  Setups,   \* configurations, as below
  Answers,  \* what a server may answer: the TTLs of its records, and those with an address
  Default,  \* how long an answer without a TTL is kept
  Timeout   \* how long an exchange may take

Servers == 1..NServers

(* The types of questions: A and AAAA. *)
Types == {4, 6}

(* A resolver has a ttl and a type it prefers by server, a handler one ttl for
   all; a server asked over https may answer with what is not a DNS message. *)
ASSUME DnsCacheAssumption ==
  /\ NServers \in Nat \ {0} /\ Timeout \in Nat /\ Default \in Nat \ {0}
  /\ Answers \subseteq [rrs : Seq(Nat), ips : SUBSET Nat]
  /\ Setups \subseteq [mode : {"resolver", "handler"}, ttl : [Servers -> Int],
                       prefer : [Servers -> Types], https : SUBSET Servers]
  /\ \A o \in Setups : o.mode = "handler" => \A s \in Servers : o.ttl[s] = o.ttl[1]

VARIABLES
  setup, \* the configuration
  cache, \* for each question the answer that is kept, and how long still
  looks  \* the look-ups

dnsVars == <<setup, cache, looks>>

NoMsg == [rrs |-> <<>>, ips |-> {}, q |-> 0, id |-> 0, from |-> 0, age |-> 0]

NoItem == [msg |-> NoMsg, left |-> -1]

(* An item whose time is over: it is still there, what it holds does not matter. *)
OldItem == [msg |-> NoMsg, left |-> -2]

(* asked and empty are history: the servers asked, and the questions that the
   cache answered without an address. *)
NoQuery == [pc |-> "idle", q |-> 0, server |-> 1, second |-> FALSE, wait |-> 0, msg |-> NoMsg,
           failed |-> FALSE, asked |-> {}, empty |-> {}]

IsResolver == setup.mode = "resolver"

Other(q) == IF q = 4 THEN 6 ELSE 4
----------------------------------------------------------------------------
(* The cache. *)

KeyOfName(q) == 4   \* a variant with a fault: the type does not count

(* NewCacheKey. *)
Key(q) == q

(* A variant with a fault: the TTL of the last record counts. *)
LastTtl(rrs) == IF rrs = <<>> THEN 0 ELSE Last(rrs)

(* The least TTL of the records, where a 0 is taken for none so far. *)
LeastTtl(rrs) ==
  LET least[i \in 0..Len(rrs)] ==
        IF i = 0 THEN 0
        ELSE IF least[i - 1] = 0 \/ least[i - 1] > rrs[i] THEN rrs[i] ELSE least[i - 1]
  IN  least[Len(rrs)]

Kept(msg) ==
  LET t == setup.ttl[msg.from]
      l == LeastTtl(msg.rrs)
  IN  IF t # 0 THEN t ELSE IF l # 0 THEN l ELSE Default

(* Store: a negative ttl keeps nothing. *)
Store(q, msg) ==
  cache' = IF Kept(msg) < 0 THEN cache
           ELSE [cache EXCEPT ![Key(q)] = [msg |-> msg, left |-> Kept(msg)]]

Expired(q) == cache[Key(q)] = OldItem

----------------------------------------------------------------------------
(* A look-up. *)

Ask(l) ==
  /\ looks[l].pc = "idle"
  /\ \E q \in Types :
       /\ IsResolver => q = setup.prefer[1]
       /\ looks' = [looks EXCEPT ![l] = [NoQuery EXCEPT !.pc = "load", !.q = q]]
  /\ UNCHANGED <<setup, cache>>

(* A variant with a fault: the answer keeps the id of another's query. *)
SameId(msg, l) == msg

(* The handler gives a cached answer the id of the query. *)
WithId(msg, l) == IF IsResolver THEN msg ELSE [msg EXCEPT !.id = l]

Hit(l) ==
  LET q == looks[l].q
      item == cache[Key(q)]
  IN  /\ looks[l].pc = "load" /\ item.left >= 0
      /\ looks' = [looks EXCEPT ![l].pc = "got", ![l].msg = WithId(item.msg, l), ![l].failed = FALSE,
                     ![l].empty = IF IsResolver /\ item.msg.ips = {} THEN @ \cup {q} ELSE @]
      /\ UNCHANGED <<setup, cache>>

(* The query goes to the server whose turn it is, or that the hop selects. *)
Send(l) ==
  \E s \in IF IsResolver THEN {looks[l].server} ELSE Servers :
    looks' = [looks EXCEPT ![l].pc = "sent", ![l].server = s, ![l].wait = 0, ![l].msg = NoMsg,
                ![l].asked = IF IsResolver THEN @ \cup {s} ELSE @]

Miss(l) ==
  /\ looks[l].pc = "load" /\ cache[Key(looks[l].q)] = NoItem
  /\ Send(l)
  /\ UNCHANGED <<setup, cache>>

(* The item is too old: it is deleted in a step of its own, by its key. *)
Stale(l) ==
  /\ looks[l].pc = "load" /\ Expired(looks[l].q)
  /\ looks' = [looks EXCEPT ![l].pc = "drop"]
  /\ UNCHANGED <<setup, cache>>

Drop(l) ==
  /\ looks[l].pc = "drop"
  /\ cache' = [cache EXCEPT ![Key(looks[l].q)] = NoItem]
  /\ Send(l)
  /\ UNCHANGED setup

(* The server answers, and from here on the answer gets older. *)
Respond(l) ==
  LET lk == looks[l]
  IN  /\ lk.pc = "sent"
      /\ \E a \in Answers :
           looks' = [looks EXCEPT ![l].pc = "answered",
                       ![l].msg = [rrs |-> a.rrs, ips |-> a.ips, q |-> lk.q,
                                   id |-> IF IsResolver THEN 0 ELSE l,
                                   from |-> lk.server, age |-> 0]]
      /\ UNCHANGED <<setup, cache>>

Receive(l) ==
  /\ looks[l].pc = "answered"
  /\ Store(looks[l].q, looks[l].msg)
  /\ looks' = [looks EXCEPT ![l].pc = "got", ![l].failed = FALSE, ![l].wait = 0]
  /\ UNCHANGED setup

(* What a body that is not a message leaves of it: some of the records, or not
   even the question. *)
Parts(msg) == {[msg EXCEPT !.rrs = SubSeq(msg.rrs, 1, n), !.ips = @ \cap (1..n)] : n \in 0..Len(msg.rrs)}
                \cup {[msg EXCEPT !.rrs = <<>>, !.ips = {}, !.q = 0]}

(* An error for both; but the handler's deferred Store keeps what there is. *)
Garbled(l) ==
  LET lk == looks[l]
  IN  /\ lk.pc = "answered" /\ lk.server \in setup.https
      /\ IF IsResolver THEN UNCHANGED cache ELSE \E m \in Parts(lk.msg) : Store(lk.q, m)
      /\ looks' = [looks EXCEPT ![l].pc = "got", ![l].failed = TRUE, ![l].wait = 0, ![l].msg = NoMsg]
      /\ UNCHANGED setup

(* The exchange fails, if only because it takes too long. *)
Fails(l) ==
  /\ looks[l].pc \in {"sent", "answered"}
  /\ looks' = [looks EXCEPT ![l].pc = "got", ![l].failed = TRUE, ![l].wait = 0, ![l].msg = NoMsg]
  /\ UNCHANGED <<setup, cache>>

(* Of the records only A and AAAA count, not a CNAME. *)
Found(l) == looks[l].msg.ips # {}

(* A variant with a fault: an error ends Resolve. *)
ErrorEnds(l) ==
  ~IsResolver \/ Found(l) \/ looks[l].failed \/ (looks[l].second /\ looks[l].server = NServers)

(* Resolve and resolve go on, after an error or an answer without an address,
   as long as there is a type or a server left. *)
Enough(l) == ~IsResolver \/ Found(l) \/ (looks[l].second /\ looks[l].server = NServers)

GoOn(l) ==
  LET lk == looks[l]
  IN  /\ lk.pc = "got"
      /\ looks' = [looks EXCEPT ![l] =
           IF Enough(l) THEN [NoQuery EXCEPT !.pc = "done", !.msg = lk.msg,
                                             !.asked = lk.asked, !.empty = lk.empty]
           ELSE IF ~lk.second THEN [lk EXCEPT !.pc = "load", !.msg = NoMsg, !.failed = FALSE,
                                              !.second = TRUE, !.q = Other(lk.q)]
           ELSE [lk EXCEPT !.pc = "load", !.msg = NoMsg, !.failed = FALSE,
                             !.second = FALSE, !.server = lk.server + 1,
                             !.q = setup.prefer[lk.server + 1]]]
      /\ UNCHANGED <<setup, cache>>

TakeAnswer(l) ==
  /\ looks[l].pc = "done"
  /\ looks' = [looks EXCEPT ![l] = NoQuery]
  /\ UNCHANGED <<setup, cache>>

----------------------------------------------------------------------------
Waiting == {"sent", "answered"}

Older(msg) == [msg EXCEPT !.age = @ + 1]

(* Time passes.  The deadlines of exchanges end them. *)
Age ==
  /\ \A l \in Looks : looks[l].pc = "idle" \/ (looks[l].pc \in Waiting /\ looks[l].wait < Timeout)
  /\ cache' = [q \in Types |-> CASE cache[q].left < 0 -> cache[q]
                                 [] cache[q].left = 0 -> OldItem
                                 [] OTHER -> [msg |-> Older(cache[q].msg), left |-> cache[q].left - 1]]
  /\ looks' = [l \in Looks |-> IF looks[l].pc = "idle" THEN looks[l]
                               ELSE [looks[l] EXCEPT !.wait = @ + 1,
                                       !.msg = IF looks[l].pc = "answered" THEN Older(@) ELSE @]]
  /\ UNCHANGED setup

DnsInit ==
  /\ setup \in Setups
  /\ cache = [q \in Types |-> NoItem]
  /\ looks = [l \in Looks |-> NoQuery]

Resolve(l) == Ask(l) \/ Hit(l) \/ Miss(l) \/ Stale(l) \/ Drop(l) \/ Respond(l) \/ Receive(l)
             \/ Garbled(l) \/ Fails(l) \/ GoOn(l) \/ TakeAnswer(l)

DnsNext == Age \/ \E l \in Looks : Resolve(l)

DnsSpec == DnsInit /\ [][DnsNext]_dnsVars

----------------------------------------------------------------------------
DnsTypeOK ==
  /\ setup \in Setups
  /\ \A q \in Types : cache[q] \in {NoItem, OldItem} \/ (cache[q].left \in Nat /\ cache[q].msg.age \in Nat)
  /\ \A l \in Looks :
       /\ looks[l].pc \in {"idle", "load", "drop", "sent", "answered", "got", "done"}
       /\ looks[l].server \in Servers /\ looks[l].wait \in 0..Timeout

(* How long an answer may be kept: as the configuration says, or its least TTL;
   with a TTL of 0, or without one, what the code makes of it. *)
Promised(msg) ==
  LET t == setup.ttl[msg.from]
      ttls == ToSet(msg.rrs)
  IN  CASE t # 0 -> IF t > 0 THEN t ELSE 0
        [] t = 0 /\ ttls # {} /\ 0 \notin ttls -> Min(ttls)
        [] t = 0 /\ (ttls = {} \/ 0 \in ttls) -> Max(ttls \cup {Default})

(***************************************************************************)
(* Whoever asked for it first and however long it took, an answer is to    *)
(* the question and query it is given for, and it is no older than it may  *)
(* be kept and an exchange takes (types included), also when concurrent    *)
(* look-ups store their answers late.  The handler's exception is what an  *)
(* https server's broken answer left in the cache.                         *)
(***************************************************************************)
AnswerIsCurrent ==
  /\ DnsTypeOK
  /\ \A l \in Looks : looks[l].pc = "got" /\ ~looks[l].failed =>
       LET msg == looks[l].msg
       IN  /\ msg.q = looks[l].q \/ (msg.q = 0 /\ ~IsResolver /\ msg.from \in setup.https)
           /\ ~IsResolver => msg.id = l
           /\ msg.age <= Promised(msg) + Timeout

(***************************************************************************)
(* A resolver that finds no address has asked every server: an error of    *)
(* one server, or of one question, never ends the search, nor does an      *)
(* answer without an address when it comes.  The exception is one that was *)
(* kept: with no address, though perhaps with a CNAME, for both questions  *)
(* in the cache, the cache answers for all the servers.                    *)
(***************************************************************************)
EveryServerAsked ==
  \A l \in Looks : IsResolver /\ looks[l].pc = "done" /\ ~Found(l) =>
    looks[l].asked = Servers \/ looks[l].empty = Types
=============================================================================
