------------------------------ MODULE RuleSet ------------------------------
(***************************************************************************)
(* The rule sets that reload themselves: admissions, bypasses, host        *)
(* mappings, ingresses, users and rate limits.  Each has rules of its own  *)
(* and up to three sources, which a goroutine loads again on every tick;   *)
(* the new rules replace the old ones under a lock, while look-ups go on.  *)
(* What a line of a source looks like is left out: a source holds a set of *)
(* keys, and the value of a key is where its rule comes from.              *)
(***************************************************************************)
EXTENDS Integers, Sequences, FiniteSets

CONSTANTS
  Contents,  \* for each kind what a source may hold: sets of keys
  Sources    \* the sources there are, of "file", "redis" and "http"

(* What tells the kinds apart: what an answer is, the first step of a look-up
   (all under the lock; a look without it; key by key), whether values of one key
   add up, whether names are matched apart from addresses, and wildcards. *)
Admission == [name |-> "admission", answer |-> "verdict", first |-> "once",
              sums |-> FALSE, names |-> FALSE, wild |-> FALSE]
Bypass == [Admission EXCEPT !.name = "bypass", !.names = TRUE, !.wild = TRUE]
HostMapper == [Admission EXCEPT !.name = "hosts", !.answer = "keys", !.first = "probe", !.sums = TRUE]
Ingress == [Admission EXCEPT !.name = "ingress", !.answer = "keys", !.first = "check"]
Authenticator == [Admission EXCEPT !.name = "auth", !.answer = "user", !.first = "check"]
RateLimiter == [Admission EXCEPT !.name = "rate", !.answer = "group", !.names = TRUE]

Kinds == {Admission, Bypass, HostMapper, Ingress, Authenticator, RateLimiter}

(* The keys that may match what is looked up, the most specific first: an
   address and its network (3 is a name or wildcard of a bypass); a host, it and
   all below it, a domain of it; the user; an address, its network, each address,
   all together.  Else a key is of something that is not looked up. *)
Keys == 1..4
Bad == 4  \* of a bypass: a wildcard that does not compile

(* Where values come from. *)
Places == {"own", "file", "redis", "http"}

ASSUME RuleSetAssumption ==
  /\ \A k \in Kinds : {} \in Contents[k.name] /\ Contents[k.name] \subseteq SUBSET Keys
  /\ Sources \subseteq {"file", "redis", "http"}

VARIABLES
  opts,    \* kind, whether whitelist, the sources whose password is right, own rules
  rules,   \* the rules: for each key where its values come from
  limits,  \* rateLimiter.limits, the cache
  pc,      \* where the reload is
  got,     \* what it has loaded
  closed,  \* the context is cancelled
  redis,   \* the connection to Redis is open
  look,    \* a look-up
  force    \* history: the rules of the last complete reload

config == <<opts, closed, redis>>
vars == <<opts, rules, limits, pc, got, closed, redis, look, force>>

NoRules == [k \in Keys |-> <<>>]

Empty(r) == r = NoRules

(* What is looked up: an address or not, where that makes a difference. *)
Hosts == IF opts.kind.names THEN {"ip", "name"} ELSE {"ip"}

NoLook == [pc |-> "idle", host |-> "ip", i |-> 1, ans |-> <<>>, seen |-> {}]

NoLimits == [h \in {"ip", "name"} |-> <<"unset">>]

NoneGot == [s \in {"file", "redis", "http"} |-> {}]

----------------------------------------------------------------------------
(* Reload. *)

(* Values of one key add up for host mappings; else the last one counts. *)
Add(r, keys, source) ==
  [k \in Keys |-> IF k \notin keys THEN r[k]
                  ELSE IF opts.kind.sums THEN Append(r[k], source) ELSE <<source>>]

(* The rules of its own, then those of the file, of Redis and over HTTP. *)
Merge(g) ==
  LET own == Add(NoRules, opts.own, "own")
  IN  Add(Add(Add(own, g["file"], "file"), g["redis"], "redis"), g["http"], "http")

After(step) == CASE step = "file" -> "redis" [] step = "redis" -> "http" [] step = "http" -> "swap"

(* Of the three kinds of loaders only that of Redis has something to close. *)
Down(s) == s = "redis" /\ ~redis

(* What a source yields: nothing when it cannot be read or is closed. *)
Readable(s) == IF s \notin Sources \/ Down(s) THEN {{}} ELSE Contents[opts.kind.name]

(* A variant with a fault: what is loaded goes into the rules in use. *)
LoadInPlace(s) ==
  /\ pc = s
  /\ \E c \in Readable(s) :
       got' = [got EXCEPT ![s] = c] /\ rules' = Add(rules, c, s)
  /\ pc' = After(s)
  /\ UNCHANGED <<config, limits, look, force>>

(* load: one source after the other, errors are ignored. *)
Load(s) ==
  /\ pc = s
  /\ \E c \in Readable(s) : got' = [got EXCEPT ![s] = c]
  /\ pc' = After(s)
  /\ UNCHANGED <<config, rules, limits, look, force>>

Compiles(g) == opts.kind.wild => \A s \in Sources : Bad \notin g[s]

(* A wildcard does not compile: glob.MustCompile panics. *)
Panic ==
  /\ pc = "swap" /\ ~Compiles(got)
  /\ pc' = "panic" /\ look' = NoLook
  /\ UNCHANGED <<config, rules, limits, got, force>>

(* A variant with a fault: the cache is kept. *)
SwapKeepingCache ==
  /\ pc = "swap" /\ Compiles(got)
  /\ rules' = Merge(got) /\ force' = rules'
  /\ look' = IF look.pc = "idle" THEN look ELSE [look EXCEPT !.seen = @ \cup {force'}]
  /\ got' = NoneGot /\ pc' = "wait"
  /\ UNCHANGED <<config, limits>>

(* reload: under the lock; of rate limits the cache is thrown away. *)
Swap ==
  /\ pc = "swap" /\ Compiles(got)
  /\ rules' = Merge(got) /\ force' = rules'
  /\ limits' = NoLimits
  /\ look' = IF look.pc = "idle" THEN look ELSE [look EXCEPT !.seen = @ \cup {force'}]
  /\ got' = NoneGot /\ pc' = "wait"
  /\ UNCHANGED config

(* periodReload. *)
Tick ==
  /\ pc = "wait" /\ pc' = "file"
  /\ UNCHANGED <<config, rules, limits, got, look, force>>

Done ==
  /\ pc = "wait" /\ closed /\ pc' = "end"
  /\ UNCHANGED <<config, rules, limits, got, look, force>>

(* A variant with a fault: the loaders are closed and the goroutine is not. *)
CloseLoaders ==
  /\ redis /\ redis' = FALSE
  /\ UNCHANGED <<opts, closed, rules, limits, pc, got, look, force>>

(* Close does not wait for a reload under way. *)
Close ==
  /\ ~closed /\ closed' = TRUE
  /\ redis' = FALSE
  /\ UNCHANGED <<opts, rules, limits, pc, got, look, force>>

----------------------------------------------------------------------------
(* Look-ups. *)

(* matched: all under the lock. *)
Matched(r, host) ==
  IF opts.kind.names /\ host = "name" THEN r[3] # <<>>
  ELSE r[1] # <<>> \/ r[2] # <<>>

(* Admit and Contains. *)
Verdict(r, host) ==
  IF opts.kind = Admission THEN Matched(r, host) = opts.white
                             ELSE Matched(r, host) # opts.white

(* Limiter: an address by its own rule or its network, others by the rule for
   each; and by the rule for all. *)
Group(r, host) ==
  LET own == IF host = "name" THEN <<>> ELSE IF r[1] # <<>> THEN r[1] ELSE r[2]
  IN  (IF own # <<>> THEN own ELSE r[3]) \o r[4]

Knows(r) == r[1] # <<>> /\ r[1][1] \in opts.right

Answer(a) == look' = [look EXCEPT !.pc = "done", !.ans = a]

Begin(h) ==
  /\ look.pc = "idle" /\ pc # "panic"
  /\ look' = [NoLook EXCEPT !.host = h, !.seen = {force}, !.pc = opts.kind.first]
  /\ UNCHANGED <<config, rules, limits, pc, got, force>>

Match ==
  /\ look.pc = "once" /\ opts.kind.answer = "verdict"
  /\ Answer(<<Verdict(rules, look.host)>>)
  /\ UNCHANGED <<config, rules, limits, pc, got, force>>

(* Limiter, under the lock: the group in the cache, or a new one. *)
Limiter ==
  LET h == look.host
  IN  /\ look.pc = "once" /\ opts.kind.answer = "group"
      /\ limits' = IF limits[h] = <<"unset">> THEN [limits EXCEPT ![h] = Group(rules, h)] ELSE limits
      /\ Answer(limits'[h])
      /\ UNCHANGED <<config, rules, pc, got, force>>

(* Authenticate and Get first see without the lock whether there are rules;
   that there are no users admits everybody. *)
Check ==
  /\ look.pc = "check"
  /\ IF Empty(rules) THEN Answer(IF opts.kind.answer = "user" THEN <<TRUE>> ELSE <<>>)
                     ELSE look' = [look EXCEPT !.pc = "probe"]
  /\ UNCHANGED <<config, rules, limits, pc, got, force>>

CheckUser ==
  /\ look.pc = "probe" /\ opts.kind.answer = "user"
  /\ Answer(<<Knows(rules)>>)
  /\ UNCHANGED <<config, rules, limits, pc, got, force>>

(* Lookup and Get: key by key, the lock is released in between. *)
Probe ==
  /\ look.pc = "probe" /\ opts.kind.answer = "keys"
  /\ IF rules[look.i] # <<>> \/ look.i = 3
     THEN Answer(rules[look.i])
     ELSE look' = [look EXCEPT !.i = @ + 1]
  /\ UNCHANGED <<config, rules, limits, pc, got, force>>

Use ==
  /\ look.pc = "done" /\ look' = NoLook
  /\ UNCHANGED <<config, rules, limits, pc, got, force>>

----------------------------------------------------------------------------
(* The constructor: the rules are loaded once, and then on every tick if there
   is a period. *)
Init ==
  /\ opts \in [kind : Kinds, white : BOOLEAN, right : SUBSET {"own", "http"}, own : SUBSET Keys]
  /\ opts.own \in Contents[opts.kind.name]
  /\ opts.white => opts.kind.answer = "verdict"
  /\ opts.right # {} => opts.kind.answer = "user"
  /\ opts.kind.wild => Bad \notin opts.own
  /\ \E g \in [DOMAIN NoneGot -> Contents[opts.kind.name]] :
       /\ Compiles(g) /\ \A s \in DOMAIN g : s \notin Sources => g[s] = {}
       /\ rules = Merge(g) /\ force = Merge(g)
  /\ limits = NoLimits
  /\ pc \in {"wait", "end"} /\ got = NoneGot
  /\ closed = FALSE /\ redis = TRUE
  /\ look = NoLook

Reload == (\E s \in DOMAIN got : Load(s)) \/ Panic \/ Swap \/ Tick \/ Done

LookUp == (\E h \in Hosts : Begin(h)) \/ Match \/ Limiter \/ Check \/ CheckUser \/ Probe \/ Use

Next == Reload \/ Close \/ LookUp

(* Loading ends; a select that finds both ready takes Done at some time. *)
Spec == Init /\ [][Next]_vars /\ WF_vars(Reload) /\ SF_vars(Done)

----------------------------------------------------------------------------
(* The shape of the state: values are sources, and one per key but for hosts. *)
RuleSets ==
  {r \in [Keys -> Seq(Places)] : opts.kind.sums \/ \A k \in Keys : Len(r[k]) <= 1}

LookRecord ==
  [pc: {"idle", "once", "check", "probe", "done"}, host: {"ip", "name"}, i: 1..3,
   ans: IF opts.kind.answer \in {"verdict", "user"} THEN Seq(BOOLEAN) ELSE Seq(Places),
   seen: SUBSET RuleSets]

TypeOK ==
  /\ opts.kind \in Kinds /\ opts.white \in BOOLEAN /\ opts.own \subseteq Keys
  /\ rules \in RuleSets /\ look \in LookRecord
  /\ limits \in [{"ip", "name"} -> Seq(Places) \cup {<<"unset">>}]
  /\ pc \in {"wait", "file", "redis", "http", "swap", "end", "panic"}
  /\ got \in [{"file", "redis", "http"} -> Contents[opts.kind.name]]

(***************************************************************************)
(* Every answer is one that complete rule sets give which were in force    *)
(* during the look-up: a verdict or a group of limits by one of them; of   *)
(* users, that one of them admits, or, when it is refused, that one does   *)
(* not know the user and one has users; of hosts and ingresses, the value  *)
(* that one of them has for a key, if for each key that is more specific   *)
(* one of them has none.  Without a reload meanwhile this is the answer.   *)
(***************************************************************************)
AnswerInForce ==
  /\ TypeOK
  /\ look.pc = "done" =>
       LET missed == IF look.ans = <<>> THEN 3 ELSE look.i - 1
       IN  /\ opts.kind.answer = "verdict" =>
                \E r \in look.seen : look.ans = <<Verdict(r, look.host)>>
           /\ opts.kind.answer = "group" => \E r \in look.seen : look.ans = Group(r, look.host)
           /\ opts.kind.answer = "user" =>
                IF look.ans = <<TRUE>> THEN \E r \in look.seen : Empty(r) \/ Knows(r)
                ELSE (\E r \in look.seen : ~Empty(r)) /\ (\E r \in look.seen : ~Knows(r))
           /\ opts.kind.answer = "keys" =>
                /\ look.ans # <<>> => \E r \in look.seen : r[look.i] = look.ans
                /\ \A j \in 1..missed : \E r \in look.seen : r[j] = <<>>

(* After Close, which closes the connection to Redis, the goroutine ends, even if
   Close came in the middle of a reload, unless it brings the process down. *)
CloseEndsReload == ~redis ~> pc \in {"end", "panic"}

----------------------------------------------------------------------------
(***************************************************************************)
(* What every state satisfies, by which AnswerInForce is preserved.        *)
(***************************************************************************)
(* What a look-up that goes on has found out so far. *)
ProbeOK ==
  LET some(j) == \E r \in look.seen : r[j] = <<>>
  IN  look.pc = "probe" =>
        /\ opts.kind.answer = "user" => \E r \in look.seen : ~Empty(r)
        /\ opts.kind.answer = "keys" => \A j \in 1..(look.i - 1) : some(j)

(* The cache of rate limits follows the rules. *)
CacheOK == \A h \in {"ip", "name"} : limits[h] \in {<<"unset">>, Group(rules, h)}

IInv ==
  /\ AnswerInForce /\ ProbeOK /\ CacheOK
  /\ rules = force
  /\ look.pc # "idle" => force \in look.seen
  /\ look.pc = "once" => opts.kind.answer \in {"verdict", "group"}
  /\ look.pc \in {"check", "probe"} => opts.kind.answer \in {"user", "keys"}
  /\ look.pc = "check" => look.i = 1
=============================================================================
