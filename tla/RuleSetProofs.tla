--------------------------- MODULE RuleSetProofs ---------------------------
(***************************************************************************)
(* Proofs about RuleSet for any contents of the sources and any number of  *)
(* reloads and look-ups, then about DnsCache, and last about PHT and       *)
(* LazyConn as MC_Conns puts them together.                                *)
(***************************************************************************)
EXTENDS RuleSet, DnsCache, MC_Conns, SubsequenceProofs, SequenceTheorems, FiniteSetTheorems, TLAPS

(* What each kind's record says. *)
LEMMA KindFacts ==
  ASSUME NEW k \in Kinds
  PROVE  /\ k.answer \in {"verdict", "keys", "user", "group"} /\ k.first \in {"once", "probe", "check"}
         /\ k.first = "once" => k.answer \in {"verdict", "group"}
         /\ k.first # "once" => k.answer \in {"user", "keys"}
         /\ k.answer = "user" => k.first = "check"
<1>1. /\ Admission.answer = "verdict" /\ Admission.first = "once"
      /\ Bypass.answer = "verdict" /\ Bypass.first = "once"
  BY DEF Admission, Bypass
<1>2. HostMapper.answer = "keys" /\ HostMapper.first = "probe"
  BY DEF Admission, HostMapper
<1>3. Ingress.answer = "keys" /\ Ingress.first = "check"
  BY DEF Admission, Ingress
<1>4. Authenticator.answer = "user" /\ Authenticator.first = "check"
  BY DEF Admission, Authenticator
<1>5. RateLimiter.answer = "group" /\ RateLimiter.first = "once"
  BY DEF Admission, RateLimiter
<1> QED BY <1>1, <1>2, <1>3, <1>4, <1>5 DEF Kinds

(* What a source holds are keys. *)
LEMMA ContentFacts ==
  ASSUME NEW k \in Kinds
  PROVE  {} \in Contents[k.name] /\ \A c \in Contents[k.name] : c \in SUBSET Keys
BY RuleSetAssumption

(* Rules to which the keys of a source are added are rules. *)
LEMMA AddType ==
  ASSUME NEW r \in RuleSets, NEW keys \in SUBSET Keys, NEW s \in Places
  PROVE  Add(r, keys, s) \in RuleSets
<1> DEFINE a == Add(r, keys, s)
<1>1. r \in [Keys -> Seq(Places)] /\ (opts.kind.sums \/ \A k \in Keys : Len(r[k]) <= 1)
  BY DEF RuleSets
<1>2. <<s>> \in Seq(Places) /\ Len(<<s>>) = 1 /\ \A k \in Keys : Append(r[k], s) \in Seq(Places)
  BY <1>1
<1>3. a = [k \in Keys |-> IF k \notin keys THEN r[k]
                          ELSE IF opts.kind.sums THEN Append(r[k], s) ELSE <<s>>]
  BY DEF Add
<1> HIDE DEF a
<1>4. a \in [Keys -> Seq(Places)]
  BY <1>1, <1>2, <1>3
<1>5. ~opts.kind.sums => \A k \in Keys : Len(a[k]) <= 1
  BY <1>1, <1>2, <1>3
<1> QED BY <1>4, <1>5 DEF RuleSets, a

LEMMA NoRulesType ==
  NoRules \in RuleSets
<1>1. <<>> \in Seq(Places) /\ Len(<<>>) = 0
  OBVIOUS
<1> QED BY <1>1 DEF NoRules, RuleSets

LEMMA MergeType ==
  ASSUME opts.own \in SUBSET Keys, NEW g,
         g["file"] \in SUBSET Keys, g["redis"] \in SUBSET Keys, g["http"] \in SUBSET Keys
  PROVE  Merge(g) \in RuleSets
<1>1. "own" \in Places /\ "file" \in Places /\ "redis" \in Places /\ "http" \in Places
  BY DEF Places
<1>2. Add(NoRules, opts.own, "own") \in RuleSets
  BY <1>1, NoRulesType, AddType
<1>3. Add(Add(NoRules, opts.own, "own"), g["file"], "file") \in RuleSets
  BY <1>1, <1>2, AddType
<1>4. Add(Add(Add(NoRules, opts.own, "own"), g["file"], "file"), g["redis"], "redis") \in RuleSets
  BY <1>1, <1>3, AddType
<1>5. Add(Add(Add(Add(NoRules, opts.own, "own"), g["file"], "file"), g["redis"], "redis"),
          g["http"], "http") \in RuleSets
  BY <1>1, <1>4, AddType
<1> QED BY <1>5 DEF Merge

(* Answers have their types. *)
LEMMA AnswerTypes ==
  /\ \A b \in BOOLEAN : <<b>> \in Seq(BOOLEAN)
  /\ <<>> \in Seq(Places) /\ <<>> \in Seq(BOOLEAN)
OBVIOUS

LEMMA GroupType ==
  ASSUME NEW r \in RuleSets, NEW h
  PROVE  Group(r, h) \in Seq(Places)
<1>1. r[1] \in Seq(Places) /\ r[2] \in Seq(Places) /\ r[3] \in Seq(Places) /\ r[4] \in Seq(Places)
  BY DEF RuleSets, Keys
<1>2. <<>> \in Seq(Places)
  OBVIOUS
<1> DEFINE own == IF h = "name" THEN <<>> ELSE IF r[1] # <<>> THEN r[1] ELSE r[2]
           first == IF own # <<>> THEN own ELSE r[3]
<1>3. own \in Seq(Places)
  BY <1>1, <1>2
<1>4. first \in Seq(Places)
  BY <1>1, <1>3
<1> HIDE DEF first
<1>5. first \o r[4] \in Seq(Places)
  BY <1>1, <1>4
<1> QED BY <1>5 DEF Group, first

LEMMA VerdictType ==
  ASSUME NEW r, NEW h
  PROVE  Verdict(r, h) \in BOOLEAN
BY DEF Verdict

LEMMA KnowsType ==
  ASSUME NEW r
  PROVE  Knows(r) \in BOOLEAN
BY DEF Knows

(* The look-up, before a step. *)
LEMMA LookType ==
  ASSUME IInv
  PROVE  /\ look \in LookRecord /\ look.host \in {"ip", "name"} /\ look.i \in 1..3
         /\ look.pc \in {"idle", "once", "check", "probe", "done"} /\ look.seen \subseteq RuleSets
         /\ opts.kind \in Kinds /\ rules \in RuleSets /\ rules = force
         /\ opts.kind.answer \in {"verdict", "keys", "user", "group"}
         /\ look.pc # "idle" => rules \in look.seen
         /\ TypeOK
<1>1. TypeOK /\ rules = force /\ (look.pc # "idle" => force \in look.seen)
  BY DEF IInv, AnswerInForce
<1>2. look \in LookRecord /\ opts.kind \in Kinds /\ rules \in RuleSets
  BY <1>1 DEF TypeOK
<1>3. opts.kind.answer \in {"verdict", "keys", "user", "group"}
  BY <1>2, KindFacts
<1> QED BY <1>1, <1>2, <1>3 DEF LookRecord

(***************************************************************************)
(* A step of a look-up that keeps what TypeOK and the answers ask.         *)
(***************************************************************************)
LEMMA LookKeeps ==
  ASSUME IInv, UNCHANGED <<opts, rules, pc, got, force>>, look' \in LookRecord,
         limits' \in [{"ip", "name"} -> Seq(Places) \cup {<<"unset">>}], CacheOK',
         look'.pc # "idle" => rules \in look'.seen,
         look'.pc = "once" => opts.kind.answer \in {"verdict", "group"},
         look'.pc \in {"check", "probe"} => opts.kind.answer \in {"user", "keys"},
         look'.pc = "check" => look'.i = 1,
         ProbeOK', look'.pc # "done" \/ AnswerInForce'
  PROVE  IInv'
<1>1. RuleSets' = RuleSets
  BY DEF RuleSets
<1>2. LookRecord' = LookRecord
  BY <1>1 DEF LookRecord
<1>3. TypeOK'
  BY <1>1, <1>2, LookType DEF TypeOK
<1>4. AnswerInForce'
  BY <1>3 DEF AnswerInForce
<1>5. force' = rules' /\ rules' = rules /\ opts' = opts
  BY LookType
<1> QED BY <1>4, <1>5 DEF IInv

(* A step that a look-up does not see. *)
LEMMA QuietKeeps ==
  ASSUME IInv, UNCHANGED <<opts, rules, limits, look, force>>,
         pc' \in {"wait", "file", "redis", "http", "swap", "end", "panic"},
         got' \in [{"file", "redis", "http"} -> Contents[opts.kind.name]]
  PROVE  IInv'
<1>1. RuleSets' = RuleSets
  BY DEF RuleSets
<1>2. LookRecord' = LookRecord
  BY <1>1 DEF LookRecord
<1>3. TypeOK'
  BY <1>1, <1>2, LookType DEF TypeOK
<1>4. /\ \A r, h : Verdict(r, h)' = Verdict(r, h)
      /\ \A r : Knows(r)' = Knows(r)
  BY DEF Verdict, Matched, Knows
<1>5. AnswerInForce'
  BY <1>3, <1>4 DEF IInv, AnswerInForce, Verdict, Matched, Knows
<1> QED BY <1>5 DEF IInv, ProbeOK, CacheOK

LEMMA BeginKeeps ==
  ASSUME IInv, NEW h \in Hosts, Begin(h)
  PROVE  IInv'
<1> DEFINE x == [NoLook EXCEPT !.host = h, !.seen = {force}, !.pc = opts.kind.first]
<1>1. /\ UNCHANGED <<opts, rules, limits, pc, got, force>> /\ look' = x
  BY DEF Begin, config
<1>2. h \in {"ip", "name"}
  BY DEF Hosts
<1>3. opts.kind.first \in {"once", "probe", "check"} /\ force \in RuleSets /\ force = rules
  BY LookType, KindFacts
<1>4. NoLook \in LookRecord
  BY AnswerTypes DEF NoLook, LookRecord
<1>5. /\ x \in LookRecord /\ x.host = h /\ x.seen = {force} /\ x.pc = opts.kind.first /\ x.i = 1
  BY <1>2, <1>3, <1>4 DEF NoLook, LookRecord
<1> HIDE DEF x
<1>6. CacheOK' /\ limits' \in [{"ip", "name"} -> Seq(Places) \cup {<<"unset">>}]
  BY <1>1, LookType DEF IInv, CacheOK, TypeOK
<1>7. /\ x.pc = "once" => opts.kind.answer \in {"verdict", "group"}
      /\ x.pc \in {"check", "probe"} => opts.kind.answer \in {"user", "keys"}
      /\ x.pc = "probe" => opts.kind.answer # "user"
      /\ x.pc # "done"
  BY <1>3, <1>5, LookType, KindFacts
<1>8. ProbeOK'
  BY <1>1, <1>5, <1>7 DEF ProbeOK
<1> QED BY <1>1, <1>3, <1>5, <1>6, <1>7, <1>8, LookKeeps

LEMMA UseKeeps ==
  ASSUME IInv, Use
  PROVE  IInv'
<1>1. /\ UNCHANGED <<opts, rules, limits, pc, got, force>> /\ look' = NoLook
  BY DEF Use, config
<1>2. NoLook \in LookRecord /\ NoLook.pc = "idle"
  BY AnswerTypes DEF NoLook, LookRecord
<1>3. CacheOK' /\ limits' \in [{"ip", "name"} -> Seq(Places) \cup {<<"unset">>}]
  BY <1>1, LookType DEF IInv, CacheOK, TypeOK
<1>4. ProbeOK'
  BY <1>1, <1>2 DEF ProbeOK
<1> QED BY <1>1, <1>2, <1>3, <1>4, LookKeeps

(* An answer ends a look-up. *)
LEMMA AnswerFacts ==
  ASSUME IInv, NEW a, Answer(a),
         a \in IF opts.kind.answer \in {"verdict", "user"} THEN Seq(BOOLEAN) ELSE Seq(Places)
  PROVE  /\ look' \in LookRecord /\ look'.pc = "done" /\ look'.ans = a
         /\ look'.host = look.host /\ look'.i = look.i /\ look'.seen = look.seen
BY LookType DEF Answer, LookRecord

(* A look-up with an answer, when nothing else has changed. *)
LEMMA AnswerKeeps ==
  ASSUME IInv, NEW a, Answer(a), UNCHANGED <<opts, rules, pc, got, force>>,
         limits' \in [{"ip", "name"} -> Seq(Places) \cup {<<"unset">>}], CacheOK',
         a \in IF opts.kind.answer \in {"verdict", "user"} THEN Seq(BOOLEAN) ELSE Seq(Places),
         look.pc # "idle",
         opts.kind.answer = "verdict" => \E r \in look.seen : a = <<Verdict(r, look.host)>>,
         opts.kind.answer = "group" => \E r \in look.seen : a = Group(r, look.host),
         opts.kind.answer = "user" =>
           IF a = <<TRUE>> THEN \E r \in look.seen : Empty(r) \/ Knows(r)
           ELSE (\E r \in look.seen : ~Empty(r)) /\ (\E r \in look.seen : ~Knows(r)),
         opts.kind.answer = "keys" =>
           /\ a # <<>> => \E r \in look.seen : r[look.i] = a
           /\ \A j \in 1..(IF a = <<>> THEN 3 ELSE look.i - 1) : \E r \in look.seen : r[j] = <<>>
  PROVE  IInv'
<1>1. /\ look' \in LookRecord /\ look'.pc = "done" /\ look'.ans = a
      /\ look'.host = look.host /\ look'.i = look.i /\ look'.seen = look.seen
  BY AnswerFacts
<1>2. rules \in look'.seen /\ rules' = rules /\ opts' = opts /\ force' = force
  BY <1>1, LookType
<1>3. RuleSets' = RuleSets
  BY <1>2 DEF RuleSets
<1>4. LookRecord' = LookRecord
  BY <1>2, <1>3 DEF LookRecord
<1>5. TypeOK'
  BY <1>1, <1>2, <1>3, <1>4, LookType DEF TypeOK
<1>6. AnswerInForce'
  BY <1>1, <1>2, <1>5 DEF AnswerInForce, Verdict, Matched, Knows
<1>7. ProbeOK'
  BY <1>1 DEF ProbeOK
<1> QED BY <1>1, <1>2, <1>6, <1>7, LookKeeps

(* The cache is left alone. *)
LEMMA SameCache ==
  ASSUME IInv, UNCHANGED <<rules, limits>>
  PROVE  CacheOK' /\ limits' \in [{"ip", "name"} -> Seq(Places) \cup {<<"unset">>}]
BY LookType DEF IInv, CacheOK, TypeOK

LEMMA MatchKeeps ==
  ASSUME IInv, Match
  PROVE  IInv'
<1> DEFINE a == <<Verdict(rules, look.host)>>
<1>1. /\ UNCHANGED <<opts, rules, limits, pc, got, force>> /\ Answer(a)
      /\ opts.kind.answer = "verdict" /\ look.pc = "once"
  BY DEF Match, config
<1>2. a \in Seq(BOOLEAN)
  BY VerdictType, AnswerTypes
<1>3. rules \in look.seen
  BY <1>1, LookType
<1> QED BY <1>1, <1>2, <1>3, SameCache, AnswerKeeps

LEMMA LimiterKeeps ==
  ASSUME IInv, Limiter
  PROVE  IInv'
<1> DEFINE h == look.host
           a == limits'[h]
<1>1. /\ UNCHANGED <<opts, rules, pc, got, force>> /\ Answer(a)
      /\ opts.kind.answer = "group" /\ look.pc = "once"
      /\ limits' = IF limits[h] = <<"unset">> THEN [limits EXCEPT ![h] = Group(rules, h)] ELSE limits
  BY DEF Limiter, config
<1>2. /\ rules \in look.seen /\ rules \in RuleSets /\ h \in {"ip", "name"}
      /\ limits \in [{"ip", "name"} -> Seq(Places) \cup {<<"unset">>}]
  BY <1>1, LookType DEF TypeOK
<1>3. Group(rules, h) \in Seq(Places)
  BY <1>2, GroupType
<1>4. limits' \in [{"ip", "name"} -> Seq(Places) \cup {<<"unset">>}]
  BY <1>1, <1>2, <1>3
<1>5. \A k \in {"ip", "name"} : limits'[k] \in {<<"unset">>, Group(rules, k)}
  BY <1>1, <1>2 DEF IInv, CacheOK
<1>6. CacheOK'
  BY <1>1, <1>5 DEF CacheOK, Group
<1>7. a = Group(rules, h)
  BY <1>1, <1>2 DEF IInv, CacheOK
<1> HIDE DEF a, h
<1>8. a \in Seq(Places) /\ \E r \in look.seen : a = Group(r, look.host)
  BY <1>2, <1>3, <1>7 DEF h
<1> QED BY <1>1, <1>4, <1>6, <1>8, AnswerKeeps

LEMMA CheckKeeps ==
  ASSUME IInv, Check
  PROVE  IInv'
<1>1. /\ UNCHANGED <<opts, rules, limits, pc, got, force>> /\ look.pc = "check"
      /\ opts.kind.answer \in {"user", "keys"} /\ rules \in look.seen /\ look.i = 1
  BY LookType DEF Check, config, IInv
<1>2. CASE Empty(rules)
  <2> DEFINE a == IF opts.kind.answer = "user" THEN <<TRUE>> ELSE <<>>
  <2>1. Answer(a)
    BY <1>2 DEF Check
  <2>2. /\ a \in IF opts.kind.answer \in {"verdict", "user"} THEN Seq(BOOLEAN) ELSE Seq(Places)
        /\ opts.kind.answer = "keys" => a = <<>>
        /\ opts.kind.answer = "user" => a = <<TRUE>>
    BY <1>1, AnswerTypes
  <2>3. \A j \in 1..3 : rules[j] = <<>>
    BY <1>2 DEF Empty, NoRules, Keys
  <2> HIDE DEF a
  <2> QED BY <1>1, <1>2, <2>1, <2>2, <2>3, SameCache, AnswerKeeps
<1>3. CASE ~Empty(rules)
  <2> DEFINE x == [look EXCEPT !.pc = "probe"]
  <2>1. look' = x
    BY <1>3 DEF Check
  <2>2. x \in LookRecord /\ x.pc = "probe" /\ x.i = 1 /\ x.seen = look.seen
    BY <1>1, LookType DEF LookRecord
  <2> HIDE DEF x
  <2>3. ProbeOK'
    BY <1>1, <1>3, <2>1, <2>2 DEF ProbeOK
  <2> QED BY <1>1, <2>1, <2>2, <2>3, SameCache, LookKeeps
<1> QED BY <1>2, <1>3

LEMMA CheckUserKeeps ==
  ASSUME IInv, CheckUser
  PROVE  IInv'
<1> DEFINE a == <<Knows(rules)>>
<1>1. /\ UNCHANGED <<opts, rules, limits, pc, got, force>> /\ Answer(a)
      /\ opts.kind.answer = "user" /\ look.pc = "probe"
  BY DEF CheckUser, config
<1>2. a \in Seq(BOOLEAN)
  BY KnowsType, AnswerTypes
<1>3. rules \in look.seen /\ \E r \in look.seen : ~Empty(r)
  BY <1>1, LookType DEF IInv, ProbeOK
<1>4. a = <<TRUE>> <=> Knows(rules)
  BY KnowsType
<1> QED BY <1>1, <1>2, <1>3, <1>4, SameCache, AnswerKeeps

LEMMA ProbeKeeps ==
  ASSUME IInv, Probe
  PROVE  IInv'
<1>1. /\ UNCHANGED <<opts, rules, limits, pc, got, force>> /\ look.pc = "probe"
      /\ opts.kind.answer = "keys" /\ rules \in look.seen /\ rules \in RuleSets
      /\ \A j \in 1..(look.i - 1) : \E r \in look.seen : r[j] = <<>>
      /\ look.i \in 1..3
  BY LookType DEF Probe, config, IInv, ProbeOK
<1>2. CASE rules[look.i] # <<>> \/ look.i = 3
  <2>1. Answer(rules[look.i])
    BY <1>2 DEF Probe
  <2>2. rules[look.i] \in Seq(Places)
    BY <1>1 DEF RuleSets, Keys
  <2>3. rules[look.i] = <<>> => \A j \in 1..3 : \E r \in look.seen : r[j] = <<>>
    <3>1. SUFFICES ASSUME rules[look.i] = <<>>, NEW j \in 1..3 PROVE \E r \in look.seen : r[j] = <<>>
      OBVIOUS
    <3>2. look.i = 3
      BY <1>2, <3>1
    <3>3. CASE j = 3
      BY <1>1, <3>1, <3>2, <3>3
    <3>4. CASE j # 3
      <4>1. j \in 1..(look.i - 1)
        BY <3>2, <3>4
      <4> QED BY <1>1, <4>1
    <3> QED BY <3>3, <3>4
  <2> QED BY <1>1, <2>1, <2>2, <2>3, SameCache, AnswerKeeps
<1>3. CASE ~(rules[look.i] # <<>> \/ look.i = 3)
  <2> DEFINE x == [look EXCEPT !.i = look.i + 1]
  <2>1. look' = x
    BY <1>3 DEF Probe
  <2>2. look.i + 1 \in 1..3 /\ (look.i + 1) - 1 = look.i
    BY <1>1, <1>3
  <2>3. x \in LookRecord /\ x.pc = "probe" /\ x.i = look.i + 1 /\ x.seen = look.seen
    BY <1>1, <2>2, LookType DEF LookRecord
  <2> HIDE DEF x
  <2>4. ASSUME NEW j \in 1..look.i PROVE \E r \in look.seen : r[j] = <<>>
    <3>1. CASE j = look.i
      BY <1>1, <1>3, <3>1
    <3>2. CASE j # look.i
      <4>1. j \in 1..(look.i - 1)
        BY <1>1, <3>2
      <4> QED BY <1>1, <4>1
    <3> QED BY <3>1, <3>2
  <2>5. ProbeOK'
    BY <1>1, <2>1, <2>2, <2>3, <2>4 DEF ProbeOK
  <2> QED BY <1>1, <2>1, <2>3, <2>5, SameCache, LookKeeps
<1> QED BY <1>2, <1>3

(* What each step of the reload does. *)
LEMMA LoadKeeps ==
  ASSUME IInv, NEW s \in DOMAIN got, Load(s)
  PROVE  IInv'
<1>1. /\ UNCHANGED <<opts, rules, limits, look, force>>
      /\ got \in [{"file", "redis", "http"} -> Contents[opts.kind.name]]
      /\ s \in {"file", "redis", "http"} /\ opts.kind \in Kinds
  BY LookType DEF Load, config, TypeOK
<1>2. pc' \in {"wait", "file", "redis", "http", "swap", "end", "panic"}
  BY <1>1 DEF Load, After
<1>3. \A c \in Readable(s) : c \in Contents[opts.kind.name]
  BY <1>1, ContentFacts DEF Readable
<1>4. PICK c \in Readable(s) : got' = [got EXCEPT ![s] = c]
  BY DEF Load
<1>5. got' \in [{"file", "redis", "http"} -> Contents[opts.kind.name]]
  BY <1>1, <1>3, <1>4
<1> QED BY <1>1, <1>2, <1>5, QuietKeeps

LEMMA IdleKeeps ==
  ASSUME IInv, Tick \/ Done \/ Close
  PROVE  IInv'
<1>1. UNCHANGED <<opts, rules, limits, look, force, got>>
  BY DEF Tick, Done, Close, config
<1>2. pc' \in {"wait", "file", "redis", "http", "swap", "end", "panic"}
  BY LookType DEF Tick, Done, Close, TypeOK
<1>3. got' \in [{"file", "redis", "http"} -> Contents[opts.kind.name]]
  BY <1>1, LookType DEF TypeOK
<1> QED BY <1>1, <1>2, <1>3, QuietKeeps

(* The process is gone, and the look-up with it. *)
LEMMA PanicKeeps ==
  ASSUME IInv, Panic
  PROVE  IInv'
<1>1. UNCHANGED <<opts, rules, limits, got, force>> /\ look' = NoLook /\ pc' = "panic"
  BY DEF Panic, config
<1>2. NoLook \in LookRecord /\ NoLook.pc = "idle"
  BY AnswerTypes DEF NoLook, LookRecord
<1>3. RuleSets' = RuleSets
  BY <1>1 DEF RuleSets
<1>4. LookRecord' = LookRecord
  BY <1>1, <1>3 DEF LookRecord
<1>5. TypeOK'
  BY <1>1, <1>2, <1>3, <1>4, LookType DEF TypeOK
<1>6. AnswerInForce' /\ ProbeOK'
  BY <1>1, <1>2, <1>5 DEF AnswerInForce, ProbeOK
<1>7. CacheOK'
  BY <1>1 DEF IInv, CacheOK
<1> QED BY <1>1, <1>2, <1>6, <1>7, LookType DEF IInv

(* What has been loaded are rules. *)
LEMMA LoadedRules ==
  ASSUME IInv
  PROVE  Merge(got) \in RuleSets
<1>1. /\ got \in [{"file", "redis", "http"} -> Contents[opts.kind.name]]
      /\ opts.own \in SUBSET Keys /\ opts.kind \in Kinds
  BY LookType DEF TypeOK
<1>2. got["file"] \in SUBSET Keys /\ got["redis"] \in SUBSET Keys /\ got["http"] \in SUBSET Keys
  BY <1>1, ContentFacts
<1> QED BY <1>1, <1>2, MergeType

(* The rules are replaced at once: what an answer or a look-up under way rests
   on stays among the rules that were in force meanwhile. *)
LEMMA SwapKeeps ==
  ASSUME IInv, Swap
  PROVE  IInv'
<1> DEFINE x == IF look.pc = "idle" THEN look ELSE [look EXCEPT !.seen = @ \cup {force'}]
<1>1. /\ UNCHANGED opts /\ rules' = Merge(got) /\ force' = rules' /\ limits' = NoLimits
      /\ look' = x /\ got' = NoneGot /\ pc' = "wait"
  BY DEF Swap, config
<1>2. RuleSets' = RuleSets
  BY <1>1 DEF RuleSets
<1>3. LookRecord' = LookRecord
  BY <1>1, <1>2 DEF LookRecord
<1>4. rules' \in RuleSets
  BY <1>1, LoadedRules
<1>5. /\ x \in LookRecord /\ x.pc = look.pc /\ x.i = look.i /\ x.ans = look.ans
      /\ x.host = look.host /\ look.seen \subseteq x.seen
      /\ look.pc # "idle" => force' \in x.seen
  BY <1>1, <1>4, LookType DEF LookRecord
<1> HIDE DEF x
<1>6. /\ limits' \in [{"ip", "name"} -> Seq(Places) \cup {<<"unset">>}]
      /\ CacheOK'
  BY <1>1 DEF NoLimits, CacheOK
<1>7. got' \in [{"file", "redis", "http"} -> Contents[opts.kind.name]]
  BY <1>1, LookType, ContentFacts DEF NoneGot
<1>8. TypeOK'
  BY <1>1, <1>2, <1>3, <1>4, <1>5, <1>6, <1>7, LookType DEF TypeOK
<1>9. AnswerInForce'
  <2>1. look'.pc = look.pc /\ look'.i = look.i /\ look'.ans = look.ans /\ look'.host = look.host
    BY <1>1, <1>5
  <2>2. opts' = opts /\ look.seen \subseteq look'.seen
    BY <1>1, <1>5
  <2>3. ASSUME look.pc = "done", opts.kind.answer = "verdict"
        PROVE  (\E r \in look.seen : look.ans = <<Verdict(r, look.host)>>)'
    <3>1. PICK r \in look.seen : look.ans = <<Verdict(r, look.host)>>
      BY <2>3 DEF IInv, AnswerInForce
    <3>2. Verdict(r, look.host)' = Verdict(r, look.host)
      BY <2>1, <2>2 DEF Verdict, Matched
    <3> QED BY <2>1, <2>2, <3>1, <3>2
  <2>4. ASSUME look.pc = "done", opts.kind.answer = "group"
        PROVE  (\E r \in look.seen : look.ans = Group(r, look.host))'
    BY <2>1, <2>2, <2>4 DEF IInv, AnswerInForce, Group
  <2>5. ASSUME look.pc = "done", opts.kind.answer = "user"
        PROVE  (IF look.ans = <<TRUE>> THEN \E r \in look.seen : Empty(r) \/ Knows(r)
                ELSE (\E r \in look.seen : ~Empty(r)) /\ (\E r \in look.seen : ~Knows(r)))'
    BY <2>1, <2>2, <2>5 DEF IInv, AnswerInForce, Knows, Empty
  <2>6. ASSUME look.pc = "done", opts.kind.answer = "keys"
        PROVE  (/\ look.ans # <<>> => \E r \in look.seen : r[look.i] = look.ans
                /\ \A j \in 1..(IF look.ans = <<>> THEN 3 ELSE look.i - 1) :
                     \E r \in look.seen : r[j] = <<>>)'
    BY <2>1, <2>2, <2>6 DEF IInv, AnswerInForce
  <2> QED BY <1>8, <2>1, <2>2, <2>3, <2>4, <2>5, <2>6 DEF AnswerInForce
<1>10. ProbeOK'
  BY <1>1, <1>5 DEF IInv, ProbeOK, Empty
<1>11. /\ look'.pc # "idle" => force' \in look'.seen
       /\ look'.pc = "once" => opts'.kind.answer \in {"verdict", "group"}
       /\ look'.pc \in {"check", "probe"} => opts'.kind.answer \in {"user", "keys"}
       /\ look'.pc = "check" => look'.i = 1
  BY <1>1, <1>5 DEF IInv
<1> QED BY <1>1, <1>6, <1>9, <1>10, <1>11 DEF IInv

LEMMA StayKeeps ==
  ASSUME IInv, UNCHANGED vars
  PROVE  IInv'
<1>1. UNCHANGED <<opts, rules, limits, look, force, got, pc>>
  BY DEF vars
<1> QED BY <1>1, QuietKeeps, LookType DEF TypeOK

----------------------------------------------------------------------------
(* At the start nothing is looked up and the cache is empty. *)
LEMMA Starts ==
  ASSUME Init
  PROVE  IInv
<1>1. /\ opts.kind \in Kinds /\ opts.white \in BOOLEAN /\ opts.own \in SUBSET Keys
      /\ rules = force /\ limits = NoLimits /\ got = NoneGot /\ look = NoLook
      /\ pc \in {"wait", "end"}
  BY DEF Init
<1>2. PICK g \in [DOMAIN NoneGot -> Contents[opts.kind.name]] : rules = Merge(g)
  BY DEF Init
<1>3. g["file"] \in SUBSET Keys /\ g["redis"] \in SUBSET Keys /\ g["http"] \in SUBSET Keys
  BY <1>1, <1>2, ContentFacts DEF NoneGot
<1>4. rules \in RuleSets
  BY <1>1, <1>2, <1>3, MergeType
<1>5. NoLook \in LookRecord /\ NoLook.pc = "idle"
  BY AnswerTypes DEF NoLook, LookRecord
<1>6. limits \in [{"ip", "name"} -> Seq(Places) \cup {<<"unset">>}] /\ CacheOK
  BY <1>1 DEF NoLimits, CacheOK
<1>7. got \in [{"file", "redis", "http"} -> Contents[opts.kind.name]]
  BY <1>1, ContentFacts DEF NoneGot
<1>8. AnswerInForce /\ ProbeOK
  BY <1>1, <1>4, <1>5, <1>6, <1>7 DEF AnswerInForce, TypeOK, ProbeOK
<1> QED BY <1>1, <1>5, <1>6, <1>8 DEF IInv

LEMMA Steps ==
  ASSUME IInv, [Next]_vars
  PROVE  IInv'
<1>1. CASE \E s \in DOMAIN got : Load(s)
  BY <1>1, LoadKeeps
<1>2. CASE Panic
  BY <1>2, PanicKeeps
<1>3. CASE Swap
  BY <1>3, SwapKeeps
<1>4. CASE Tick \/ Done \/ Close
  BY <1>4, IdleKeeps
<1>5. CASE \E h \in Hosts : Begin(h)
  BY <1>5, BeginKeeps
<1>6. CASE Match
  BY <1>6, MatchKeeps
<1>7. CASE Limiter
  BY <1>7, LimiterKeeps
<1>8. CASE Check
  BY <1>8, CheckKeeps
<1>9. CASE CheckUser
  BY <1>9, CheckUserKeeps
<1>10. CASE Probe
  BY <1>10, ProbeKeeps
<1>11. CASE Use
  BY <1>11, UseKeeps
<1>12. CASE UNCHANGED vars
  BY <1>12, StayKeeps
<1> QED
  BY <1>1, <1>2, <1>3, <1>4, <1>5, <1>6, <1>7, <1>8, <1>9, <1>10, <1>11, <1>12
  DEF Next, Reload, LookUp

(***************************************************************************)
(* Whatever the sources hold and however reloads and look-ups interleave,  *)
(* an answer of an admission, a bypass, a rate limiter, an authenticator,  *)
(* an ingress or a host mapping is one that complete rule sets give which  *)
(* were in force during the look-up (reload, load, and the look-ups).      *)
(***************************************************************************)
THEOREM AnswersInForce == Spec => []AnswerInForce
<1>1. Init => IInv
  BY Starts
<1>2. IInv /\ [Next]_vars => IInv'
  BY Steps
<1>3. IInv => AnswerInForce
  BY DEF IInv
<1> QED BY <1>1, <1>2, <1>3, PTL DEF Spec

----------------------------------------------------------------------------
(***************************************************************************)
(* The inductive invariant.  What a message in the cache may be; what a    *)
(* look-up has received; and, for the search through the servers, that a   *)
(* server before the look-up's is done with: it was asked, or the cache    *)
(* had answered both questions without an address.                         *)
(***************************************************************************)
DnsMsg == [rrs : Seq(Nat), ips : SUBSET Nat, q : Types \cup {0}, id : Looks \cup {0},
           from : Servers \cup {0}, age : Nat]

DnsItem == [msg : DnsMsg, left : Int]

DnsLook == [pc : {"idle", "load", "drop", "sent", "answered", "got", "done"}, q : Types \cup {0},
         server : Servers, second : BOOLEAN, wait : 0..Timeout, msg : DnsMsg, failed : BOOLEAN,
         asked : SUBSET Servers, empty : SUBSET Types]

DnsFits(msg, q) == msg.q = q \/ (msg.q = 0 /\ ~IsResolver /\ msg.from \in setup.https)

DnsItemOK(item, q) ==
  \/ item = NoItem
  \/ item = OldItem
  \/ /\ item.left \in Nat /\ item.msg.from \in Servers /\ DnsFits(item.msg, q)
     /\ item.msg.age + item.left <= Promised(item.msg) + Timeout

(* What a look-up that has begun holds. *)
DnsReceived(lk, l) ==
  /\ lk.pc \notin {"idle", "done"} => lk.q \in Types
  /\ lk.pc = "answered" =>
       /\ lk.msg.q = lk.q /\ (~IsResolver => lk.msg.id = l)
       /\ lk.msg.from = lk.server /\ lk.msg.age <= lk.wait
  /\ lk.pc = "got" /\ ~lk.failed =>
       /\ DnsFits(lk.msg, lk.q) /\ (~IsResolver => lk.msg.id = l)
       /\ lk.msg.age <= Promised(lk.msg) + Timeout
  /\ lk.pc = "got" /\ lk.failed => lk.msg.ips = {}

(* A server is done with. *)
DnsPast(lk, s) == s \in lk.asked \/ lk.empty = Types

(* A question is done with at the server of a look-up. *)
DnsTried(lk, q) == lk.server \in lk.asked \/ q \in lk.empty

DnsSearched(lk) ==
  IF lk.pc = "done" THEN lk.msg.ips = {} => \A s \in Servers : DnsPast(lk, s)
  ELSE lk.pc # "idle" =>
       /\ \A s \in 1..(lk.server - 1) : DnsPast(lk, s)
       /\ lk.second => DnsTried(lk, Other(lk.q))
       /\ lk.pc \in {"sent", "answered"} => lk.server \in lk.asked
       /\ lk.pc = "got" /\ lk.msg.ips = {} => DnsTried(lk, lk.q)

DnsTyped ==
  /\ setup \in Setups
  /\ cache \in [Types -> DnsItem]
  /\ looks \in [Looks -> DnsLook]

DnsIInv ==
  /\ DnsTyped
  /\ \A q \in Types : DnsItemOK(cache[q], q)
  /\ \A l \in Looks : DnsReceived(looks[l], l) /\ (IsResolver => DnsSearched(looks[l]))

(* The configuration's parts. *)
LEMMA DnsSetup0 ==
  ASSUME setup \in Setups
  PROVE  /\ setup.mode \in {"resolver", "handler"} /\ setup.ttl \in [Servers -> Int]
         /\ setup.prefer \in [Servers -> Types] /\ setup.https \in SUBSET Servers
         /\ NServers \in Nat \ {0} /\ Timeout \in Nat /\ Default \in Nat \ {0}
         /\ Servers = 1..NServers /\ 1 \in Servers /\ NServers \in Servers
         /\ Answers \subseteq [rrs : Seq(Nat), ips : SUBSET Nat]
BY DnsCacheAssumption DEF Servers

LEMMA DnsNoMsgType ==
  NoMsg \in DnsMsg /\ NoMsg.rrs = <<>> /\ NoMsg.ips = {} /\ NoMsg.age = 0
<1>1. <<>> \in Seq(Nat)
  OBVIOUS
<1> QED BY <1>1 DEF NoMsg, DnsMsg

LEMMA DnsNoLookType ==
         /\ NoQuery \in DnsLook /\ NoQuery.pc = "idle" /\ NoQuery.msg = NoMsg /\ NoQuery.second = FALSE
         /\ NoQuery.asked = {} /\ NoQuery.empty = {} /\ NoQuery.server = 1
         /\ NoItem \in DnsItem /\ NoItem.left = -1 /\ OldItem \in DnsItem /\ OldItem.left = -2
<1>1. 1 \in Servers /\ 0 \in 0..Timeout
  BY DnsCacheAssumption DEF Servers
<1>2. NoItem \in DnsItem /\ NoItem.left = -1 /\ OldItem \in DnsItem /\ OldItem.left = -2
  BY DnsNoMsgType DEF NoItem, OldItem, DnsItem
<1>3. NoQuery = [pc |-> "idle", q |-> 0, server |-> 1, second |-> FALSE, wait |-> 0, msg |-> NoMsg,
           failed |-> FALSE, asked |-> {}, empty |-> {}]
  BY DEF NoQuery
<1> QED BY <1>1, <1>2, <1>3, DnsNoMsgType DEF DnsLook

----------------------------------------------------------------------------
(* The least TTL, where a 0 is taken for none so far. *)
LEMMA DnsLeastTtlIs ==
  ASSUME NEW rrs \in Seq(Nat)
  PROVE  /\ LeastTtl(rrs) \in Nat
         /\ LeastTtl(rrs) = 0 => rrs = <<>> \/ \E i \in 1..Len(rrs) : rrs[i] = 0
         /\ LeastTtl(rrs) # 0 => \E i \in 1..Len(rrs) : rrs[i] = LeastTtl(rrs)
         /\ (\A i \in 1..Len(rrs) : rrs[i] # 0) => \A i \in 1..Len(rrs) : LeastTtl(rrs) <= rrs[i]
<1> DEFINE n == Len(rrs)
           Step(t, i) == IF t = 0 \/ t > rrs[i] THEN rrs[i] ELSE t
           G == [p \in Nat \X (1..n) |-> Step(p[1], p[2])]
           F(f) == [i \in 0..n |-> IF i = 0 THEN 0 ELSE Step(f[i - 1], i)]
           least == CHOOSE f : f = F(f)
<1>1. n \in Nat /\ \A i \in 1..n : rrs[i] \in Nat
  OBVIOUS
<1>2. G \in [Nat \X (1..n) -> Nat]
  BY <1>1
<1>3. PICK f \in [0..n -> Nat] : f[0] = 0 /\ \A i \in 1..n : f[i] = G[<<f[i - 1], i>>]
  <2>1. n \in Nat /\ 0 \in Nat /\ StepsOn(G, n, Nat)
    BY <1>1, <1>2 DEF StepsOn
  <2>2. \E f : Unfolds(f, n, Nat, 0, G)
    <3> HIDE DEF G, n
    <3> QED BY <2>1, Recursion, Zenon
  <2> HIDE DEF G, n
  <2> QED BY <2>2 DEF Unfolds
<1>4. f = F(f)
  <2>1. \A i \in 1..n : f[i] = Step(f[i - 1], i)
    <3>1. \A i \in 1..n : <<f[i - 1], i>> \in Nat \X (1..n)
      <4>1. \A i \in 1..n : i - 1 \in 0..n
        OBVIOUS
      <4> HIDE DEF n
      <4> QED BY <1>1, <1>3, <4>1
    <3> QED BY <1>3, <3>1
  <2> HIDE DEF n
  <2>2. \A i \in 0..n : f[i] = F(f)[i]
    BY <1>1, <1>3, <2>1
  <2> HIDE DEF Step
  <2>3. F(f) = [i \in 0..n |-> F(f)[i]] /\ f = [i \in 0..n |-> f[i]]
    BY <1>3
  <2> QED BY <2>2, <2>3
<1>5. least = F(least)
  <2> HIDE DEF F
  <2> QED BY <1>4
<1>6. LeastTtl(rrs) = least[n]
  BY DEF LeastTtl
<1>7. least[0] = 0 /\ \A i \in 1..n : least[i] = Step(least[i - 1], i)
  <2> HIDE DEF least, n
  <2> QED BY <1>1, <1>5
<1> DEFINE S == {i \in 0..n : /\ least[i] \in Nat
                              /\ least[i] = 0 => i = 0 \/ \E j \in 1..i : rrs[j] = 0
                              /\ least[i] # 0 => \E j \in 1..i : rrs[j] = least[i]
                              /\ (\A j \in 1..i : rrs[j] # 0) => \A j \in 1..i : least[i] <= rrs[j]}
<1> HIDE DEF least, n, Step
<1>8. 0 \in S
  BY <1>1, <1>7
<1>9. ASSUME NEW i \in 0..n, i \in S, i < n PROVE i + 1 \in S
  <2>1. i + 1 \in 1..n /\ i + 1 - 1 = i /\ i + 1 \in 0..n
    BY <1>1, <1>9
  <2>2. least[i + 1] = Step(least[i], i + 1)
    BY <1>7, <2>1
  <2>3. least[i + 1] = IF least[i] = 0 \/ least[i] > rrs[i + 1] THEN rrs[i + 1] ELSE least[i]
    BY <2>2 DEF Step
  <2>4. rrs[i + 1] \in Nat /\ least[i] \in Nat
    BY <1>1, <1>9, <2>1
  <2>5. \A j \in 1..(i + 1) : j \in 1..i \/ j = i + 1
    OBVIOUS
  <2>6. 1..i \subseteq 1..(i + 1) /\ i + 1 \in 1..(i + 1)
    OBVIOUS
  <2>7. least[i + 1] = 0 => \E j \in 1..(i + 1) : rrs[j] = 0
    BY <1>9, <2>3, <2>4, <2>6
  <2>8. least[i + 1] # 0 => \E j \in 1..(i + 1) : rrs[j] = least[i + 1]
    BY <1>9, <2>3, <2>4, <2>6
  <2>9. ASSUME \A j \in 1..(i + 1) : rrs[j] # 0, NEW j \in 1..(i + 1) PROVE least[i + 1] <= rrs[j]
    <3>1. (\A k \in 1..i : rrs[k] # 0) /\ (\A k \in 1..i : rrs[k] \in Nat) /\ rrs[i + 1] # 0
      BY <1>1, <2>1, <2>6, <2>9
    <3>2. \A k \in 1..i : least[i] <= rrs[k]
      BY <1>9, <3>1
    <3>3. CASE i = 0
      <4>1. least[i + 1] = rrs[i + 1] /\ j = i + 1
        BY <1>7, <2>3, <3>3
      <4> QED BY <2>4, <4>1
    <3>4. CASE i # 0
      <4>1. least[i] # 0
        BY <1>9, <3>1, <3>4
      <4>2. least[i + 1] <= least[i] /\ least[i + 1] <= rrs[i + 1] /\ least[i + 1] \in Nat
        BY <2>3, <2>4, <4>1
      <4>3. CASE j \in 1..i
        BY <2>4, <3>1, <3>2, <4>2, <4>3
      <4>4. CASE j = i + 1
        BY <4>2, <4>4
      <4> QED BY <2>5, <4>3, <4>4
    <3> QED BY <3>3, <3>4
  <2>10. least[i + 1] \in Nat
    BY <2>3, <2>4
  <2> QED BY <2>1, <2>7, <2>8, <2>9, <2>10
<1>10. n \in S
  <2>1. \A i \in 0..n : i \in S
    <3> HIDE DEF S
    <3>1. \A i \in 0..n : i \in S /\ i < n => i + 1 \in S
      BY <1>9
    <3> QED BY <1>1, <1>8, <3>1, UpTo, Zenon
  <2>2. n \in 0..n
    BY <1>1
  <2> HIDE DEF S
  <2> QED BY <2>1, <2>2
<1>11. n = 0 => rrs = <<>>
  BY DEF n
<1> QED BY <1>6, <1>10, <1>11 DEF n, S

(* How long an answer is kept is not longer than promised. *)
LEMMA DnsKeptFits ==
  ASSUME setup \in Setups, NEW msg \in DnsMsg, msg.from \in Servers
  PROVE  /\ Promised(msg) \in Nat /\ Kept(msg) \in Int
         /\ Kept(msg) >= 0 => Kept(msg) <= Promised(msg)
<1> DEFINE t == setup.ttl[msg.from]
           rrs == msg.rrs
           l == LeastTtl(rrs)
           ttls == ToSet(rrs)
<1>1. t \in Int /\ rrs \in Seq(Nat) /\ Default \in Nat \ {0}
  BY DnsSetup0 DEF DnsMsg
<1>2. ttls = {rrs[i] : i \in 1..Len(rrs)} /\ \A x \in ttls : x \in Nat
  BY <1>1 DEF ToSet
<1>3. rrs = <<>> => ttls = {}
  BY <1>1, <1>2
<1>4. Kept(msg) = IF t # 0 THEN t ELSE IF l # 0 THEN l ELSE Default
  BY DEF Kept
<1>5. Promised(msg) = CASE t # 0 -> IF t > 0 THEN t ELSE 0
                        [] t = 0 /\ ttls # {} /\ 0 \notin ttls -> Min(ttls)
                        [] t = 0 /\ (ttls = {} \/ 0 \in ttls) -> Max(ttls \cup {Default})
  BY DEF Promised
<1>6. /\ l \in Nat /\ (l = 0 => rrs = <<>> \/ 0 \in ttls) /\ (l # 0 => l \in ttls)
      /\ 0 \notin ttls => \A x \in ttls : l <= x
  <2>1. /\ l \in Nat /\ (l = 0 => rrs = <<>> \/ \E i \in 1..Len(rrs) : rrs[i] = 0)
        /\ l # 0 => \E i \in 1..Len(rrs) : rrs[i] = l
        /\ (\A i \in 1..Len(rrs) : rrs[i] # 0) => \A i \in 1..Len(rrs) : l <= rrs[i]
    <3> HIDE DEF rrs
    <3> QED BY <1>1, DnsLeastTtlIs
  <2> HIDE DEF rrs, l, ttls
  <2> QED BY <1>2, <2>1
<1>7. Max(ttls \cup {Default}) \in ttls \cup {Default}
      /\ \A y \in ttls \cup {Default} : Max(ttls \cup {Default}) >= y
  <2>1. \E x \in ttls \cup {Default} : \A y \in ttls \cup {Default} : x >= y
    BY <1>1, GreatestOf DEF ToSet
  <2> HIDE DEF ttls
  <2> QED BY <2>1 DEF Max
<1>8. ttls # {} => Min(ttls) \in ttls /\ \A y \in ttls : Min(ttls) <= y
  <2>1. ttls # {} => \E x \in ttls : \A y \in ttls : x <= y
    <3> HIDE DEF ttls
    <3>1. ttls \in SUBSET Nat
      BY <1>2
    <3> QED BY <3>1, LeastNat
  <2> HIDE DEF ttls
  <2> QED BY <2>1 DEF Min
<1> HIDE DEF t, rrs, l, ttls
<1>9. CASE t # 0
  BY <1>1, <1>4, <1>5, <1>9
<1>10. CASE t = 0 /\ ttls # {} /\ 0 \notin ttls
  <2>1. l # 0 /\ l \in ttls /\ Kept(msg) = l /\ Promised(msg) = Min(ttls)
    BY <1>3, <1>4, <1>5, <1>6, <1>10
  <2>2. Min(ttls) \in ttls /\ Min(ttls) \in Nat /\ l <= Min(ttls)
    BY <1>2, <1>6, <1>8, <1>10
  <2> QED BY <1>6, <2>1, <2>2
<1>11. CASE t = 0 /\ (ttls = {} \/ 0 \in ttls)
  <2>1. Promised(msg) = Max(ttls \cup {Default}) /\ Kept(msg) = IF l # 0 THEN l ELSE Default
    BY <1>4, <1>5, <1>11
  <2>2. Kept(msg) \in ttls \cup {Default}
    BY <1>6, <2>1
  <2>3. Promised(msg) >= Kept(msg) /\ Promised(msg) \in Nat /\ Kept(msg) \in Nat
    BY <1>1, <1>2, <1>7, <2>1, <2>2
  <2> QED BY <2>3
<1> QED BY <1>9, <1>10, <1>11

(* What is promised is about the records and the server. *)
LEMMA DnsPromisedBy ==
  ASSUME NEW m1, NEW m2, m1.rrs = m2.rrs, m1.from = m2.from
  PROVE  Promised(m1) = Promised(m2)
BY DEF Promised

----------------------------------------------------------------------------
(* Steps of one look-up. *)
LEMMA DnsLookStep ==
  ASSUME DnsIInv, NEW l \in Looks, NEW y \in DnsLook, setup' = setup, looks' = [looks EXCEPT ![l] = y],
         DnsReceived(y, l), IsResolver => DnsSearched(y),
         cache' \in [Types -> DnsItem], \A q \in Types : DnsItemOK(cache'[q], q)
  PROVE  DnsIInv'
<1> USE DEF DnsIInv
<1>1. DnsTyped'
  BY DEF DnsTyped
<1>2. ASSUME NEW q \in Types PROVE DnsItemOK(cache[q], q)'
  BY DEF DnsItemOK, DnsFits, Promised, IsResolver
<1>3. ASSUME NEW k \in Looks PROVE DnsReceived(looks[k], k)' /\ (IsResolver => DnsSearched(looks[k]))'
  <2>1. DnsReceived(looks'[k], k) /\ (IsResolver => DnsSearched(looks'[k]))
    <3>1. CASE k = l
      BY <3>1 DEF DnsTyped
    <3>2. CASE k # l
      <4>1. looks'[k] = looks[k]
        BY <3>2 DEF DnsTyped
      <4> QED BY <4>1
    <3> QED BY <3>1, <3>2
  <2>2. IsResolver' = IsResolver /\ (\A m, q : DnsFits(m, q)' = DnsFits(m, q))
        /\ \A m : Promised(m)' = Promised(m)
    BY DEF DnsFits, Promised, IsResolver
  <2>3. DnsReceived(looks[k], k)'
    BY <2>1 DEF DnsReceived, DnsFits, Promised, IsResolver
  <2>4. (IsResolver => DnsSearched(looks[k]))'
    BY <2>1 DEF IsResolver, DnsSearched, DnsPast, DnsTried
  <2> QED BY <2>3, <2>4
<1> QED BY <1>1, <1>2, <1>3

(* The parts of a look-up. *)
LEMMA DnsLookParts ==
  ASSUME DnsIInv, NEW l \in Looks
  PROVE  /\ looks[l] \in DnsLook /\ DnsReceived(looks[l], l) /\ (IsResolver => DnsSearched(looks[l]))
         /\ looks \in [Looks -> DnsLook] /\ setup \in Setups /\ cache \in [Types -> DnsItem]
         /\ \A q \in Types : DnsItemOK(cache[q], q) /\ cache[q] \in DnsItem
BY DEF DnsIInv, DnsTyped

LEMMA DnsBeginStep ==
  ASSUME DnsIInv, NEW l \in Looks, Ask(l)
  PROVE  DnsIInv'
<1>1. PICK q \in Types : looks' = [looks EXCEPT ![l] = [NoQuery EXCEPT !.pc = "load", !.q = q]]
  BY DEF Ask
<1> DEFINE y == [NoQuery EXCEPT !.pc = "load", !.q = q]
<1>2. /\ y \in DnsLook /\ y.pc = "load" /\ y.q = q /\ y.server = 1 /\ y.second = FALSE
  BY DnsNoLookType DEF DnsLook
<1>3. setup' = setup /\ cache' = cache
  BY DEF Ask
<1> HIDE DEF y
<1>4. DnsReceived(y, l)
  BY <1>2 DEF DnsReceived
<1>5. DnsSearched(y)
  BY <1>2 DEF DnsSearched
<1>6. looks' = [looks EXCEPT ![l] = y]
  BY <1>1 DEF y
<1> QED BY <1>2, <1>3, <1>4, <1>5, <1>6, DnsLookStep, DnsLookParts

LEMMA DnsHitStep ==
  ASSUME DnsIInv, NEW l \in Looks, Hit(l)
  PROVE  DnsIInv'
<1> DEFINE q == looks[l].q
           item == cache[q]
           m == WithId(item.msg, l)
           e == IF IsResolver /\ item.msg.ips = {} THEN looks[l].empty \cup {q} ELSE looks[l].empty
           y == [looks[l] EXCEPT !.pc = "got", !.msg = m, !.failed = FALSE, !.empty = e]
<1>1. looks[l].pc = "load" /\ item.left >= 0 /\ setup' = setup /\ cache' = cache
      /\ looks' = [looks EXCEPT ![l] = y]
  BY DnsLookParts DEF Hit, Key, DnsLook
<1>2. looks[l] \in DnsLook /\ q \in Types /\ item \in DnsItem /\ DnsItemOK(item, q)
  BY <1>1, DnsLookParts DEF DnsReceived
<1>3. item.left \in Nat /\ item.msg.from \in Servers /\ DnsFits(item.msg, q)
      /\ item.msg.age + item.left <= Promised(item.msg) + Timeout
  <2> HIDE DEF item, q
  <2>1. item # NoItem /\ item # OldItem
    <3>1. NoItem.left = -1 /\ OldItem.left = -2
      BY DnsNoLookType
    <3>2. item.left >= 0
      BY <1>1
    <3> QED BY <3>1, <3>2
  <2> QED BY <1>2, <2>1 DEF DnsItemOK
<1>4. item.msg \in DnsMsg /\ item.msg.age \in Nat
  BY <1>2 DEF DnsItem, DnsMsg
<1>5. m \in DnsMsg /\ m.rrs = item.msg.rrs /\ m.ips = item.msg.ips /\ m.q = item.msg.q
      /\ m.from = item.msg.from /\ m.age = item.msg.age
      /\ (~IsResolver => m.id = l)
  <2> HIDE DEF item, q
  <2> QED BY <1>4 DEF WithId, DnsMsg
<1>6. Promised(item.msg) \in Nat /\ Promised(m) = Promised(item.msg) /\ Timeout \in Nat
  <2> HIDE DEF m, item, q
  <2> QED BY <1>3, <1>4, <1>5, DnsKeptFits, DnsPromisedBy, DnsLookParts, DnsSetup0
<1>7. m.age <= Promised(m) + Timeout
  <2> HIDE DEF m, item, q
  <2> QED BY <1>3, <1>4, <1>5, <1>6
<1>8. DnsFits(m, q)
  <2> HIDE DEF m, item, q
  <2> QED BY <1>3, <1>5 DEF DnsFits
<1>9. e \in SUBSET Types /\ looks[l].empty \subseteq e /\ (IsResolver /\ m.ips = {} => q \in e)
  BY <1>2, <1>5 DEF DnsLook
<1> HIDE DEF m, e, item
<1>10. /\ y \in DnsLook /\ y.pc = "got" /\ y.msg = m /\ ~y.failed /\ y.empty = e /\ y.q = q
       /\ y.server = looks[l].server /\ y.second = looks[l].second /\ y.asked = looks[l].asked
  BY <1>2, <1>5, <1>9 DEF DnsLook
<1> HIDE DEF y
<1>11. DnsReceived(y, l)
  BY <1>2, <1>5, <1>7, <1>8, <1>10 DEF DnsReceived
<1>12. ASSUME IsResolver PROVE DnsSearched(y)
  <2>1. DnsSearched(looks[l])
    BY <1>12, DnsLookParts
  <2>2. looks[l].empty \in SUBSET Types
    BY <1>2 DEF DnsLook
  <2>3. \A s : DnsPast(looks[l], s) => DnsPast(y, s)
    BY <1>9, <1>10, <2>2 DEF DnsPast
  <2>4. \A p : DnsTried(looks[l], p) => DnsTried(y, p)
    BY <1>9, <1>10 DEF DnsTried
  <2>5. y.msg.ips = {} => DnsTried(y, y.q)
    BY <1>9, <1>10, <1>12 DEF DnsTried
  <2>6. /\ \A s \in 1..(looks[l].server - 1) : DnsPast(looks[l], s)
        /\ looks[l].second => DnsTried(looks[l], Other(q))
    BY <1>1, <2>1 DEF DnsSearched
  <2>7. /\ \A s \in 1..(y.server - 1) : DnsPast(y, s)
        /\ y.second => DnsTried(y, Other(y.q))
    BY <1>10, <2>3, <2>4, <2>6
  <2> QED BY <1>10, <2>5, <2>7 DEF DnsSearched
<1> QED BY <1>1, <1>10, <1>11, <1>12, DnsLookStep, DnsLookParts

(* A query that is sent to a server, with the cache as it is or without an item. *)
LEMMA DnsSendStep ==
  ASSUME DnsIInv, NEW l \in Looks, looks[l].pc \in {"load", "drop"}, Send(l), setup' = setup,
         cache' \in [Types -> DnsItem], \A q \in Types : DnsItemOK(cache'[q], q)
  PROVE  DnsIInv'
<1>1. PICK s \in (IF IsResolver THEN {looks[l].server} ELSE Servers) :
        looks' = [looks EXCEPT ![l].pc = "sent", ![l].server = s, ![l].wait = 0, ![l].msg = NoMsg,
                    ![l].asked = IF IsResolver THEN @ \cup {s} ELSE @]
  BY DEF Send
<1> DEFINE a == IF IsResolver THEN looks[l].asked \cup {s} ELSE looks[l].asked
           y == [looks[l] EXCEPT !.pc = "sent", !.server = s, !.wait = 0, !.msg = NoMsg, !.asked = a]
<1>2. looks[l] \in DnsLook /\ looks \in [Looks -> DnsLook] /\ looks[l].q \in Types
  BY DnsLookParts DEF DnsReceived
<1>3. s \in Servers /\ a \in SUBSET Servers /\ 0 \in 0..Timeout /\ (IsResolver => s = looks[l].server)
      /\ looks[l].empty \in SUBSET Types
  BY <1>2, DnsLookParts, DnsSetup0 DEF DnsLook
<1>4. looks' = [looks EXCEPT ![l] = y]
  BY <1>1, <1>2 DEF DnsLook
<1>5. IsResolver => looks[l].asked \subseteq a /\ s \in a
  OBVIOUS
<1> HIDE DEF a
<1>6. /\ y \in DnsLook /\ y.pc = "sent" /\ y.q = looks[l].q /\ y.asked = a /\ y.empty = looks[l].empty
      /\ y.second = looks[l].second /\ y.server = s
  BY <1>2, <1>3, DnsNoMsgType DEF DnsLook
<1> HIDE DEF y
<1>7. DnsReceived(y, l)
  BY <1>2, <1>6 DEF DnsReceived
<1>8. ASSUME IsResolver PROVE DnsSearched(y)
  <2>1. DnsSearched(looks[l])
    BY <1>8, DnsLookParts
  <2>2. \A t : DnsPast(looks[l], t) => DnsPast(y, t)
    BY <1>5, <1>6, <1>8 DEF DnsPast
  <2>3. \A p : DnsTried(looks[l], p) => DnsTried(y, p)
    BY <1>3, <1>5, <1>6, <1>8 DEF DnsTried
  <2>4. /\ \A t \in 1..(looks[l].server - 1) : DnsPast(looks[l], t)
        /\ looks[l].second => DnsTried(looks[l], Other(looks[l].q))
    BY <2>1 DEF DnsSearched
  <2>5. /\ \A t \in 1..(y.server - 1) : DnsPast(y, t)
        /\ y.second => DnsTried(y, Other(y.q))
    BY <1>3, <1>6, <1>8, <2>2, <2>3, <2>4
  <2> QED BY <1>3, <1>5, <1>6, <1>8, <2>5 DEF DnsSearched
<1> QED BY <1>4, <1>6, <1>7, <1>8, DnsLookStep

LEMMA DnsMissStep ==
  ASSUME DnsIInv, NEW l \in Looks, Miss(l)
  PROVE  DnsIInv'
<1>1. looks[l].pc \in {"load", "drop"} /\ Send(l) /\ setup' = setup /\ cache' = cache
  BY DEF Miss
<1> QED BY <1>1, DnsSendStep, DnsLookParts

LEMMA DnsDropStep ==
  ASSUME DnsIInv, NEW l \in Looks, Drop(l)
  PROVE  DnsIInv'
<1>1. looks[l].pc \in {"load", "drop"} /\ Send(l) /\ setup' = setup
      /\ cache' = [cache EXCEPT ![Key(looks[l].q)] = NoItem]
  BY DEF Drop
<1>2. cache \in [Types -> DnsItem] /\ \A q \in Types : DnsItemOK(cache[q], q)
  BY DnsLookParts
<1>3. NoItem \in DnsItem /\ \A q : DnsItemOK(NoItem, q)
  BY DnsNoLookType DEF DnsItemOK
<1>4. cache' \in [Types -> DnsItem] /\ \A q \in Types : cache'[q] = cache[q] \/ cache'[q] = NoItem
  BY <1>1, <1>2, <1>3
<1>5. \A q \in Types : DnsItemOK(cache'[q], q)
  BY <1>2, <1>3, <1>4
<1> QED BY <1>1, <1>4, <1>5, DnsSendStep

(* Only the place of a look-up changes, or what it waits for. *)
LEMMA DnsStaleStep ==
  ASSUME DnsIInv, NEW l \in Looks, Stale(l)
  PROVE  DnsIInv'
<1> DEFINE y == [looks[l] EXCEPT !.pc = "drop"]
<1>1. looks[l].pc = "load" /\ setup' = setup /\ cache' = cache /\ looks' = [looks EXCEPT ![l] = y]
  BY DnsLookParts DEF Stale
<1>2. looks[l] \in DnsLook /\ looks[l].q \in Types
  BY <1>1, DnsLookParts DEF DnsReceived
<1>3. /\ y \in DnsLook /\ y.pc = "drop" /\ y.q = looks[l].q /\ y.asked = looks[l].asked
         /\ y.empty = looks[l].empty
      /\ y.second = looks[l].second /\ y.server = looks[l].server
  BY <1>2 DEF DnsLook
<1> HIDE DEF y
<1>4. DnsReceived(y, l)
  BY <1>2, <1>3 DEF DnsReceived
<1>5. IsResolver => DnsSearched(y)
  BY <1>1, <1>3, DnsLookParts DEF DnsSearched, DnsPast, DnsTried
<1> QED BY <1>1, <1>3, <1>4, <1>5, DnsLookStep, DnsLookParts

LEMMA DnsRespondStep ==
  ASSUME DnsIInv, NEW l \in Looks, Respond(l)
  PROVE  DnsIInv'
<1> DEFINE m(a) == [rrs |-> a.rrs, ips |-> a.ips, q |-> looks[l].q, id |-> IF IsResolver THEN 0 ELSE l,
                    from |-> looks[l].server, age |-> 0]
<1>1. PICK a \in Answers : looks' = [looks EXCEPT ![l].pc = "answered", ![l].msg = m(a)]
  BY DEF Respond
<1> DEFINE y == [looks[l] EXCEPT !.pc = "answered", !.msg = m(a)]
<1>2. looks[l].pc = "sent" /\ setup' = setup /\ cache' = cache /\ looks' = [looks EXCEPT ![l] = y]
  BY <1>1, DnsLookParts DEF Respond
<1>3. looks[l] \in DnsLook /\ looks[l].q \in Types /\ looks[l].server \in Servers
      /\ looks[l].wait \in 0..Timeout
  BY <1>2, DnsLookParts DEF DnsReceived, DnsLook
<1>4. a.rrs \in Seq(Nat) /\ a.ips \in SUBSET Nat /\ Timeout \in Nat
  BY DnsLookParts, DnsSetup0
<1>5. m(a) \in DnsMsg /\ m(a).q = looks[l].q /\ (~IsResolver => m(a).id = l) /\ m(a).from = looks[l].server
      /\ m(a).age = 0
  BY <1>3, <1>4 DEF DnsMsg
<1> HIDE DEF m
<1>6. /\ y \in DnsLook /\ y.pc = "answered" /\ y.q = looks[l].q /\ y.asked = looks[l].asked
         /\ y.empty = looks[l].empty
      /\ y.second = looks[l].second /\ y.server = looks[l].server /\ y.msg = m(a) /\ y.wait = looks[l].wait
  BY <1>3, <1>5 DEF DnsLook
<1> HIDE DEF y
<1>7. DnsReceived(y, l)
  BY <1>3, <1>4, <1>5, <1>6 DEF DnsReceived
<1>8. IsResolver => DnsSearched(y)
  BY <1>2, <1>6, DnsLookParts DEF DnsSearched, DnsPast, DnsTried
<1> QED BY <1>2, <1>6, <1>7, <1>8, DnsLookStep, DnsLookParts

(* An exchange ends without an answer. *)
LEMMA DnsNothingStep ==
  ASSUME DnsIInv, NEW l \in Looks, looks[l].pc \in {"sent", "answered"}, setup' = setup,
         looks' = [looks EXCEPT ![l].pc = "got", ![l].failed = TRUE, ![l].wait = 0, ![l].msg = NoMsg],
         cache' \in [Types -> DnsItem], \A q \in Types : DnsItemOK(cache'[q], q)
  PROVE  DnsIInv'
<1> DEFINE y == [looks[l] EXCEPT !.pc = "got", !.failed = TRUE, !.wait = 0, !.msg = NoMsg]
<1>1. looks[l] \in DnsLook /\ looks[l].q \in Types /\ looks' = [looks EXCEPT ![l] = y] /\ 0 \in 0..Timeout
  <2>1. looks[l] \in DnsLook /\ looks \in [Looks -> DnsLook] /\ 0 \in 0..Timeout
    BY DnsLookParts, DnsSetup0
  <2>2. looks[l].q \in Types
    BY DnsLookParts DEF DnsReceived
  <2>3. looks' = [looks EXCEPT ![l] = y]
    BY <2>1 DEF DnsLook
  <2> QED BY <2>1, <2>2, <2>3
<1>2. /\ y \in DnsLook /\ y.pc = "got" /\ y.q = looks[l].q /\ y.asked = looks[l].asked
         /\ y.empty = looks[l].empty
      /\ y.second = looks[l].second /\ y.server = looks[l].server /\ y.msg = NoMsg /\ y.failed
  BY <1>1, DnsNoMsgType DEF DnsLook
<1> HIDE DEF y
<1>3. DnsReceived(y, l)
  BY <1>1, <1>2, DnsNoMsgType DEF DnsReceived
<1>4. IsResolver => DnsSearched(y)
  <2>1. ASSUME IsResolver PROVE looks[l].server \in looks[l].asked /\ DnsSearched(looks[l])
    BY <2>1, DnsLookParts DEF DnsSearched
  <2> QED BY <1>2, <2>1 DEF DnsSearched, DnsPast, DnsTried
<1> QED BY <1>1, <1>2, <1>3, <1>4, DnsLookStep

LEMMA DnsFailsStep ==
  ASSUME DnsIInv, NEW l \in Looks, Fails(l)
  PROVE  DnsIInv'
BY DnsNothingStep, DnsLookParts DEF Fails

(* An answer that is stored may be kept. *)
LEMMA DnsStoreFits ==
  ASSUME DnsIInv, NEW q \in Types, NEW msg \in DnsMsg, msg.from \in Servers, DnsFits(msg, q),
         msg.age <= Timeout, Store(q, msg)
  PROVE  cache' \in [Types -> DnsItem] /\ \A p \in Types : DnsItemOK(cache'[p], p)
<1>1. cache \in [Types -> DnsItem] /\ \A p \in Types : DnsItemOK(cache[p], p)
  BY DEF DnsIInv, DnsTyped
<1>2. /\ Promised(msg) \in Nat /\ Kept(msg) \in Int /\ Timeout \in Nat /\ msg.age \in Nat
      /\ Kept(msg) >= 0 => Kept(msg) <= Promised(msg)
  BY DnsKeptFits, DnsSetup0 DEF DnsIInv, DnsTyped, DnsMsg
<1>3. CASE Kept(msg) < 0
  <2>1. cache' = cache
    BY <1>3 DEF Store
  <2> QED BY <1>1, <2>1
<1>4. CASE Kept(msg) >= 0
  <2> DEFINE item == [msg |-> msg, left |-> Kept(msg)]
  <2>1. cache' = [cache EXCEPT ![q] = item]
    BY <1>2, <1>4 DEF Store, Key
  <2>2. item \in DnsItem /\ item.left = Kept(msg) /\ item.msg = msg
    BY <1>2 DEF DnsItem
  <2> HIDE DEF item
  <2>3. DnsItemOK(item, q)
    BY <1>2, <1>4, <2>2 DEF DnsItemOK
  <2>4. cache'[q] = item /\ \A p \in Types : p # q => cache'[p] = cache[p]
    BY <1>1, <2>1
  <2> QED BY <1>1, <2>1, <2>2, <2>3, <2>4
<1> QED BY <1>2, <1>3, <1>4

(* What an answer is while a look-up has it. *)
LEMMA DnsAnswered ==
  ASSUME DnsIInv, NEW l \in Looks, looks[l].pc = "answered"
  PROVE  /\ looks[l] \in DnsLook /\ looks[l].q \in Types /\ looks[l].msg \in DnsMsg
            /\ looks[l].server \in Servers
         /\ looks[l].msg.q = looks[l].q /\ (~IsResolver => looks[l].msg.id = l)
         /\ looks[l].msg.from = looks[l].server /\ looks[l].msg.age <= Timeout
         /\ looks[l].msg.age \in Nat /\ Timeout \in Nat
<1>1. looks[l] \in DnsLook /\ DnsReceived(looks[l], l) /\ Timeout \in Nat
  BY DnsLookParts, DnsSetup0
<1>2. looks[l].msg \in DnsMsg /\ looks[l].server \in Servers /\ looks[l].wait \in 0..Timeout
  BY <1>1 DEF DnsLook
<1>3. looks[l].msg.age \in Nat
  BY <1>2 DEF DnsMsg
<1>4. looks[l].q \in Types /\ looks[l].msg.q = looks[l].q /\ (~IsResolver => looks[l].msg.id = l)
      /\ looks[l].msg.from = looks[l].server /\ looks[l].msg.age <= looks[l].wait
  BY <1>1 DEF DnsReceived
<1> QED BY <1>1, <1>2, <1>3, <1>4

LEMMA DnsReceiveStep ==
  ASSUME DnsIInv, NEW l \in Looks, Receive(l)
  PROVE  DnsIInv'
<1> DEFINE y == [looks[l] EXCEPT !.pc = "got", !.failed = FALSE, !.wait = 0]
<1>1. looks[l].pc = "answered" /\ setup' = setup /\ Store(looks[l].q, looks[l].msg)
  BY DEF Receive
<1>2. /\ looks[l] \in DnsLook /\ looks[l].q \in Types /\ looks[l].msg \in DnsMsg
         /\ looks[l].server \in Servers
      /\ looks[l].msg.q = looks[l].q /\ (~IsResolver => looks[l].msg.id = l)
      /\ looks[l].msg.from = looks[l].server /\ looks[l].msg.age <= Timeout
      /\ looks[l].msg.age \in Nat /\ Timeout \in Nat
  BY <1>1, DnsAnswered
<1>3. looks' = [looks EXCEPT ![l] = y] /\ 0 \in 0..Timeout
  <2>1. looks \in [Looks -> DnsLook]
    BY DnsLookParts
  <2>2. looks' = [looks EXCEPT ![l].pc = "got", ![l].failed = FALSE, ![l].wait = 0]
    BY DEF Receive
  <2>3. looks' = [looks EXCEPT ![l] = y]
    BY <1>2, <2>1, <2>2 DEF DnsLook
  <2> QED BY <1>2, <2>3
<1>4. DnsFits(looks[l].msg, looks[l].q) /\ looks[l].msg.from \in Servers
  BY <1>2 DEF DnsFits
<1>5. cache' \in [Types -> DnsItem] /\ \A q \in Types : DnsItemOK(cache'[q], q)
  BY <1>1, <1>2, <1>4, DnsStoreFits
<1>6. Promised(looks[l].msg) \in Nat
  BY <1>2, <1>4, DnsKeptFits, DnsLookParts
<1>7. /\ y \in DnsLook /\ y.pc = "got" /\ y.q = looks[l].q /\ y.asked = looks[l].asked
         /\ y.empty = looks[l].empty
      /\ y.second = looks[l].second /\ y.server = looks[l].server /\ y.msg = looks[l].msg /\ ~y.failed
  BY <1>2, <1>3 DEF DnsLook
<1> HIDE DEF y
<1>8. y.msg.age <= Promised(y.msg) + Timeout
  BY <1>2, <1>6, <1>7
<1>9. DnsReceived(y, l)
  BY <1>2, <1>4, <1>7, <1>8 DEF DnsReceived
<1>10. IsResolver => DnsSearched(y)
  <2>1. ASSUME IsResolver PROVE looks[l].server \in looks[l].asked /\ DnsSearched(looks[l])
    BY <1>1, <2>1, DnsLookParts DEF DnsSearched
  <2> QED BY <1>1, <1>7, <2>1 DEF DnsSearched, DnsPast, DnsTried
<1> QED BY <1>1, <1>3, <1>5, <1>7, <1>9, <1>10, DnsLookStep

LEMMA DnsGarbledStep ==
  ASSUME DnsIInv, NEW l \in Looks, Garbled(l)
  PROVE  DnsIInv'
<1>1. /\ looks[l].pc = "answered" /\ setup' = setup /\ looks[l].server \in setup.https
      /\ looks' = [looks EXCEPT ![l].pc = "got", ![l].failed = TRUE, ![l].wait = 0, ![l].msg = NoMsg]
  BY DEF Garbled
<1>2. /\ looks[l].q \in Types /\ looks[l].msg \in DnsMsg /\ looks[l].server \in Servers
      /\ looks[l].msg.q = looks[l].q
      /\ looks[l].msg.from = looks[l].server /\ looks[l].msg.age <= Timeout
  BY <1>1, DnsAnswered
<1>3. CASE IsResolver
  <2>1. cache' = cache
    BY <1>3 DEF Garbled
  <2> QED BY <1>1, <2>1, DnsNothingStep, DnsLookParts
<1>4. CASE ~IsResolver
  <2>1. PICK m \in Parts(looks[l].msg) : Store(looks[l].q, m)
    BY <1>4 DEF Garbled
  <2>2. m \in DnsMsg /\ m.from = looks[l].msg.from /\ m.age = looks[l].msg.age
        /\ (m.q = looks[l].msg.q \/ m.q = 0)
    <3> DEFINE msg == looks[l].msg
    <3>1. msg \in DnsMsg
      BY <1>2
    <3> HIDE DEF msg
    <3>2. msg.rrs \in Seq(Nat) /\ msg.ips \in SUBSET Nat /\ <<>> \in Seq(Nat)
      BY <3>1 DEF DnsMsg
    <3>3. \A n \in 0..Len(msg.rrs) : SubSeq(msg.rrs, 1, n) \in Seq(Nat)
      BY <3>2
    <3>4. CASE \E n \in 0..Len(msg.rrs) :
                 m = [msg EXCEPT !.rrs = SubSeq(msg.rrs, 1, n), !.ips = msg.ips \cap (1..n)]
      <4>1. PICK n \in 0..Len(msg.rrs) :
              m = [msg EXCEPT !.rrs = SubSeq(msg.rrs, 1, n), !.ips = msg.ips \cap (1..n)]
        BY <3>4
      <4>2. SubSeq(msg.rrs, 1, n) \in Seq(Nat)
        BY <3>3
      <4> DEFINE part == SubSeq(msg.rrs, 1, n)
                 some == msg.ips \cap (1..n)
      <4>3. m = [msg EXCEPT !.rrs = part, !.ips = some] /\ part \in Seq(Nat) /\ some \in SUBSET Nat
        BY <3>2, <4>1, <4>2
      <4> HIDE DEF part, some
      <4>4. m \in DnsMsg /\ m.from = msg.from /\ m.age = msg.age /\ m.q = msg.q
        BY <3>1, <4>3 DEF DnsMsg
      <4> QED BY <4>4 DEF msg
    <3>5. CASE m = [msg EXCEPT !.rrs = <<>>, !.ips = {}, !.q = 0]
      <4>1. m \in DnsMsg /\ m.from = msg.from /\ m.age = msg.age /\ m.q = 0
        BY <3>1, <3>2, <3>5 DEF DnsMsg
      <4> QED BY <4>1 DEF msg
    <3> QED BY <2>1, <3>4, <3>5 DEF Parts, msg
  <2>3. DnsFits(m, looks[l].q)
    BY <1>1, <1>2, <1>4, <2>2 DEF DnsFits
  <2>4. cache' \in [Types -> DnsItem] /\ \A q \in Types : DnsItemOK(cache'[q], q)
    BY <1>2, <2>1, <2>2, <2>3, DnsStoreFits
  <2> QED BY <1>1, <2>4, DnsNothingStep
<1> QED BY <1>3, <1>4

(* The next question, the next server, or the end. *)
LEMMA DnsGoOnStep ==
  ASSUME DnsIInv, NEW l \in Looks, GoOn(l)
  PROVE  DnsIInv'
<1> DEFINE lk == looks[l]
<1>1. lk.pc = "got" /\ setup' = setup /\ cache' = cache
  BY DEF GoOn
<1>2. /\ lk \in DnsLook /\ lk.q \in Types /\ lk.server \in Servers /\ lk.msg \in DnsMsg
      /\ lk.second \in BOOLEAN /\ lk.asked \in SUBSET Servers /\ lk.empty \in SUBSET Types
      /\ IsResolver => DnsSearched(lk)
  BY <1>1, DnsLookParts DEF DnsReceived, DnsLook
<1>3. looks \in [Looks -> DnsLook] /\ setup.prefer \in [Servers -> Types] /\ Servers = 1..NServers
      /\ NServers \in Nat \ {0}
  BY DnsLookParts, DnsSetup0
<1>4. \A p \in Types : Other(p) \in Types /\ Other(Other(p)) = p /\ Types = {p, Other(p)}
  BY DEF Types, Other
<1>5. ASSUME IsResolver, ~Found(l)
      PROVE  /\ \A s \in 1..(lk.server - 1) : DnsPast(lk, s)
             /\ DnsTried(lk, lk.q) /\ (lk.second => DnsPast(lk, lk.server))
  <2>1. lk.msg.ips = {}
    BY <1>5 DEF Found
  <2>2. /\ \A s \in 1..(lk.server - 1) : DnsPast(lk, s)
        /\ lk.second => DnsTried(lk, Other(lk.q))
        /\ DnsTried(lk, lk.q)
    <3>1. DnsSearched(lk)
      BY <1>2, <1>5
    <3> HIDE DEF lk
    <3> QED BY <1>1, <2>1, <3>1 DEF DnsSearched
  <2>3. lk.second => DnsPast(lk, lk.server)
    <3>1. lk.empty \subseteq Types /\ Types = {lk.q, Other(lk.q)}
      BY <1>2, <1>4
    <3> HIDE DEF lk
    <3>2. lk.second /\ ~(lk.server \in lk.asked) => lk.empty = Types
      BY <2>2, <3>1 DEF DnsTried
    <3> QED BY <3>2 DEF DnsPast
  <2> QED BY <2>2, <2>3
<1>6. CASE Enough(l)
  <2> DEFINE y == [NoQuery EXCEPT !.pc = "done", !.msg = lk.msg, !.asked = lk.asked, !.empty = lk.empty]
  <2>1. looks' = [looks EXCEPT ![l] = y]
    BY <1>6 DEF GoOn
  <2>2. /\ y \in DnsLook /\ y.pc = "done" /\ y.asked = lk.asked /\ y.empty = lk.empty /\ y.msg = lk.msg
    BY <1>2, DnsNoLookType DEF DnsLook
  <2> HIDE DEF y
  <2>3. DnsReceived(y, l)
    BY <2>2 DEF DnsReceived
  <2>4. ASSUME IsResolver, y.msg.ips = {}, NEW s \in Servers PROVE DnsPast(y, s)
    <3>1. lk.second /\ lk.server = NServers /\ ~Found(l)
      BY <1>6, <2>2, <2>4 DEF Enough, Found
    <3>2. s \in 1..(lk.server - 1) \/ s = lk.server
      BY <1>3, <3>1
    <3>3. DnsPast(lk, s)
      BY <1>5, <2>4, <3>1, <3>2
    <3> QED BY <2>2, <3>3 DEF DnsPast
  <2>5. IsResolver => DnsSearched(y)
    BY <2>2, <2>4 DEF DnsSearched
  <2> QED BY <1>1, <2>1, <2>2, <2>3, <2>5, DnsLookStep, DnsLookParts
<1>7. CASE ~Enough(l) /\ ~lk.second
  <2> DEFINE y == [lk EXCEPT !.pc = "load", !.msg = NoMsg, !.failed = FALSE, !.second = TRUE, !.q = Other(lk.q)]
  <2>1. looks' = [looks EXCEPT ![l] = y]
    BY <1>7 DEF GoOn
  <2>2. /\ y \in DnsLook /\ y.pc = "load" /\ y.asked = lk.asked /\ y.empty = lk.empty
        /\ y.server = lk.server /\ y.q = Other(lk.q) /\ y.second = TRUE
    BY <1>2, <1>4, DnsNoMsgType DEF DnsLook
  <2> HIDE DEF y
  <2>3. DnsReceived(y, l)
    BY <1>2, <1>4, <2>2 DEF DnsReceived
  <2>4. ASSUME IsResolver PROVE DnsSearched(y)
    <3>1. ~Found(l) /\ Other(y.q) = lk.q
      BY <1>2, <1>4, <1>7, <2>2 DEF Enough
    <3>2. DnsTried(y, Other(y.q)) /\ \A s \in 1..(y.server - 1) : DnsPast(y, s)
      BY <1>5, <2>2, <2>4, <3>1 DEF DnsTried, DnsPast
    <3> QED BY <2>2, <3>2 DEF DnsSearched
  <2> QED BY <1>1, <2>1, <2>2, <2>3, <2>4, DnsLookStep, DnsLookParts
<1>8. CASE ~Enough(l) /\ lk.second
  <2> DEFINE y == [lk EXCEPT !.pc = "load", !.msg = NoMsg, !.failed = FALSE,
                     !.second = FALSE, !.server = lk.server + 1, !.q = setup.prefer[lk.server + 1]]
  <2>1. looks' = [looks EXCEPT ![l] = y]
    BY <1>8 DEF GoOn
  <2>2. IsResolver /\ ~Found(l) /\ lk.server # NServers
    BY <1>8 DEF Enough
  <2>3. lk.server + 1 \in Servers
    BY <1>2, <1>3, <2>2
  <2>4. setup.prefer[lk.server + 1] \in Types
    BY <1>3, <2>3
  <2>5. /\ y \in DnsLook /\ y.pc = "load" /\ y.asked = lk.asked /\ y.empty = lk.empty
        /\ y.server = lk.server + 1 /\ y.q \in Types /\ y.second = FALSE
    BY <1>2, <2>3, <2>4, DnsNoMsgType DEF DnsLook
  <2> HIDE DEF y
  <2>6. DnsReceived(y, l)
    BY <2>5 DEF DnsReceived
  <2>7. \A s \in 1..(y.server - 1) : DnsPast(y, s)
    <3>1. \A s \in 1..(y.server - 1) : s \in 1..(lk.server - 1) \/ s = lk.server
      BY <1>2, <1>3, <2>5
    <3>2. \A s \in 1..(y.server - 1) : DnsPast(lk, s)
      BY <1>5, <1>8, <2>2, <3>1
    <3> QED BY <2>5, <3>2 DEF DnsPast
  <2>8. DnsSearched(y)
    BY <2>5, <2>7 DEF DnsSearched
  <2> QED BY <1>1, <2>1, <2>5, <2>6, <2>8, DnsLookStep, DnsLookParts
<1> QED BY <1>2, <1>6, <1>7, <1>8

LEMMA DnsUseStep ==
  ASSUME DnsIInv, NEW l \in Looks, TakeAnswer(l)
  PROVE  DnsIInv'
<1>1. setup' = setup /\ cache' = cache /\ looks' = [looks EXCEPT ![l] = NoQuery]
  BY DEF TakeAnswer
<1>2. DnsReceived(NoQuery, l) /\ DnsSearched(NoQuery) /\ NoQuery \in DnsLook
  BY DnsNoLookType DEF DnsReceived, DnsSearched
<1> QED BY <1>1, <1>2, DnsLookStep, DnsLookParts

LEMMA DnsTickStep ==
  ASSUME DnsIInv, Age
  PROVE  DnsIInv'
<1>1. setup' = setup /\ Timeout \in Nat /\ setup \in Setups /\ cache \in [Types -> DnsItem]
      /\ looks \in [Looks -> DnsLook]
  BY DnsSetup0 DEF Age, DnsIInv, DnsTyped
<1>2. \A m \in DnsMsg : Older(m) \in DnsMsg /\ Older(m).rrs = m.rrs /\ Older(m).ips = m.ips /\ Older(m).q = m.q
      /\ Older(m).id = m.id
                     /\ Older(m).from = m.from /\ Older(m).age = m.age + 1
  <2> SUFFICES ASSUME NEW m \in DnsMsg
               PROVE  Older(m) \in DnsMsg /\ Older(m).rrs = m.rrs /\ Older(m).ips = m.ips
                        /\ Older(m).q = m.q /\ Older(m).id = m.id
                        /\ Older(m).from = m.from /\ Older(m).age = m.age + 1
    OBVIOUS
  <2>1. m.age + 1 \in Nat /\ Older(m) = [m EXCEPT !.age = m.age + 1]
    BY DEF Older, DnsMsg
  <2> DEFINE a == m.age + 1
  <2> HIDE DEF a
  <2>2. a \in Nat /\ Older(m) = [m EXCEPT !.age = a]
    BY <2>1 DEF a
  <2>3. Older(m) \in DnsMsg /\ Older(m).rrs = m.rrs /\ Older(m).ips = m.ips
          /\ Older(m).q = m.q /\ Older(m).id = m.id
          /\ Older(m).from = m.from /\ Older(m).age = a
    BY <2>2 DEF DnsMsg
  <2> QED BY <2>3 DEF a
<1>3. ASSUME NEW q \in Types PROVE cache'[q] \in DnsItem /\ DnsItemOK(cache'[q], q)
  <2> DEFINE item == cache[q]
             new == [msg |-> Older(item.msg), left |-> item.left - 1]
  <2>1. cache'[q] = CASE item.left < 0 -> item [] item.left = 0 -> OldItem [] OTHER -> new
    BY DEF Age
  <2>2. item \in DnsItem /\ DnsItemOK(item, q) /\ item.left \in Int /\ item.msg \in DnsMsg
    BY <1>1, DnsLookParts DEF DnsIInv, DnsItem
  <2> HIDE DEF item
  <2>3. CASE item.left < 0
    BY <2>1, <2>2, <2>3
  <2>4. CASE item.left = 0
    <3>1. cache'[q] = OldItem
      BY <2>1, <2>4
    <3> QED BY <3>1, DnsNoLookType DEF DnsItemOK
  <2>5. CASE item.left > 0
    <3>1. cache'[q] = new
      BY <2>1, <2>2, <2>5
    <3>2. item # NoItem /\ item # OldItem
      <4>1. NoItem.left = -1 /\ OldItem.left = -2
        BY DnsNoLookType
      <4> QED BY <2>5, <4>1
    <3>3. item.left \in Nat /\ item.msg.from \in Servers /\ DnsFits(item.msg, q)
          /\ item.msg.age + item.left <= Promised(item.msg) + Timeout
      BY <2>2, <3>2 DEF DnsItemOK
    <3>4. new \in DnsItem /\ new.msg = Older(item.msg) /\ new.left = item.left - 1
      BY <1>2, <2>2 DEF DnsItem
    <3> HIDE DEF new
    <3> DEFINE m == Older(item.msg)
    <3>5. m \in DnsMsg /\ m.rrs = item.msg.rrs /\ m.q = item.msg.q /\ m.from = item.msg.from
          /\ m.age = item.msg.age + 1 /\ item.msg.age \in Nat
      BY <1>2, <2>2 DEF DnsMsg
    <3> HIDE DEF m
    <3>6. Promised(m) = Promised(item.msg) /\ Promised(item.msg) \in Nat
      BY <1>1, <2>2, <3>3, <3>5, DnsPromisedBy, DnsKeptFits
    <3>7. DnsFits(m, q)
      BY <3>3, <3>5 DEF DnsFits
    <3>8. new.left \in Nat /\ m.age + new.left <= Promised(m) + Timeout
      BY <1>1, <2>5, <3>3, <3>4, <3>5, <3>6
    <3>9. new.msg = m
      BY <3>4 DEF m
    <3> QED BY <3>1, <3>3, <3>4, <3>5, <3>7, <3>8, <3>9 DEF DnsItemOK
  <2> QED BY <2>2, <2>3, <2>4, <2>5
<1>4. ASSUME NEW l \in Looks
      PROVE  looks'[l] \in DnsLook /\ DnsReceived(looks'[l], l) /\ (IsResolver => DnsSearched(looks'[l]))
  <2>1. looks[l] \in DnsLook /\ DnsReceived(looks[l], l) /\ (IsResolver => DnsSearched(looks[l]))
    BY DnsLookParts
  <2>2. looks'[l] = IF looks[l].pc = "idle" THEN looks[l]
                    ELSE [looks[l] EXCEPT !.wait = @ + 1,
                            !.msg = IF looks[l].pc = "answered" THEN Older(@) ELSE @]
    BY DEF Age
  <2>3. CASE looks[l].pc = "idle"
    BY <2>1, <2>2, <2>3
  <2>4. CASE looks[l].pc # "idle"
    <3>1. looks[l].pc \in {"sent", "answered"} /\ looks[l].wait < Timeout
      BY <2>4 DEF Age, Waiting
    <3> DEFINE m == IF looks[l].pc = "answered" THEN Older(looks[l].msg) ELSE looks[l].msg
               y == [looks[l] EXCEPT !.wait = looks[l].wait + 1, !.msg = m]
    <3>2. looks'[l] = y
      BY <2>1, <2>2, <2>4 DEF DnsLook
    <3>3. looks[l].msg \in DnsMsg /\ looks[l].wait \in 0..Timeout /\ looks[l].wait + 1 \in 0..Timeout
          /\ looks[l].msg.age \in Nat
      BY <1>1, <2>1, <3>1 DEF DnsLook, DnsMsg
    <3>4. m \in DnsMsg
      BY <1>2, <3>3
    <3>5. looks[l].pc = "answered" => m.q = looks[l].msg.q /\ m.id = looks[l].msg.id
            /\ m.from = looks[l].msg.from /\ m.age = looks[l].msg.age + 1
      BY <1>2, <3>3
    <3> HIDE DEF m
    <3>6. /\ y \in DnsLook /\ y.pc = looks[l].pc /\ y.q = looks[l].q /\ y.asked = looks[l].asked
          /\ y.empty = looks[l].empty /\ y.wait = looks[l].wait + 1
          /\ y.second = looks[l].second /\ y.server = looks[l].server /\ y.msg = m
      BY <2>1, <3>3, <3>4 DEF DnsLook
    <3> HIDE DEF y
    <3>7. DnsReceived(y, l)
      BY <2>1, <3>1, <3>3, <3>5, <3>6 DEF DnsReceived
    <3>8. IsResolver => DnsSearched(y)
      BY <2>1, <3>1, <3>6 DEF DnsSearched, DnsPast, DnsTried
    <3> QED BY <3>2, <3>6, <3>7, <3>8
  <2> QED BY <2>3, <2>4
<1>5. cache' \in [Types -> DnsItem] /\ looks' \in [Looks -> DnsLook]
  <2> DEFINE C(q) == CASE cache[q].left < 0 -> cache[q]
                       [] cache[q].left = 0 -> OldItem
                       [] OTHER -> [msg |-> Older(cache[q].msg), left |-> cache[q].left - 1]
             L(l) == IF looks[l].pc = "idle" THEN looks[l]
                     ELSE [looks[l] EXCEPT !.wait = @ + 1,
                             !.msg = IF looks[l].pc = "answered" THEN Older(@) ELSE @]
  <2>1. cache' = [q \in Types |-> C(q)] /\ looks' = [l \in Looks |-> L(l)]
    BY DEF Age
  <2> HIDE DEF C, L
  <2>2. (\A q \in Types : C(q) \in DnsItem) /\ (\A l \in Looks : L(l) \in DnsLook)
    BY <1>3, <1>4, <2>1
  <2> QED BY <2>1, <2>2
<1>6. DnsTyped'
  BY <1>1, <1>5 DEF DnsTyped
<1>7. ASSUME NEW q \in Types PROVE DnsItemOK(cache[q], q)'
  BY <1>1, <1>3 DEF DnsItemOK, DnsFits, Promised, IsResolver
<1>8. ASSUME NEW l \in Looks PROVE DnsReceived(looks[l], l)' /\ (IsResolver => DnsSearched(looks[l]))'
  BY <1>1, <1>4 DEF DnsReceived, DnsFits, Promised, IsResolver, DnsSearched, DnsPast, DnsTried
<1> QED BY <1>6, <1>7, <1>8 DEF DnsIInv

----------------------------------------------------------------------------
LEMMA DnsInitInv ==
  ASSUME DnsInit
  PROVE  DnsIInv
<1>1. setup \in Setups /\ cache = [q \in Types |-> NoItem] /\ looks = [l \in Looks |-> NoQuery]
  BY DEF DnsInit
<1>2. DnsTyped
  BY <1>1, DnsNoLookType DEF DnsTyped
<1>3. \A q \in Types : DnsItemOK(cache[q], q)
  BY <1>1 DEF DnsItemOK
<1>4. \A l \in Looks : DnsReceived(looks[l], l) /\ DnsSearched(looks[l])
  BY <1>1, DnsNoLookType DEF DnsReceived, DnsSearched
<1> QED BY <1>2, <1>3, <1>4 DEF DnsIInv

LEMMA DnsNextInv ==
  ASSUME DnsIInv, [DnsNext]_dnsVars
  PROVE  DnsIInv'
<1>1. CASE UNCHANGED dnsVars
  <2>1. setup' = setup /\ cache' = cache /\ looks' = looks
    BY <1>1 DEF dnsVars
  <2> QED BY <2>1 DEF DnsIInv, DnsTyped, DnsItemOK, DnsReceived, DnsFits, Promised, IsResolver, DnsSearched,
                  DnsPast, DnsTried
<1>2. CASE Age
  BY <1>2, DnsTickStep
<1>3. ASSUME NEW l \in Looks, Resolve(l) PROVE DnsIInv'
  BY <1>3, DnsBeginStep, DnsHitStep, DnsMissStep, DnsStaleStep, DnsDropStep, DnsRespondStep, DnsReceiveStep,
         DnsGarbledStep,
     DnsFailsStep, DnsGoOnStep, DnsUseStep DEF Resolve
<1> QED BY <1>1, <1>2, <1>3 DEF DnsNext

(* What the invariant says of the two properties. *)
LEMMA DnsInvCurrent ==
  ASSUME DnsIInv
  PROVE  AnswerIsCurrent
<1>1. DnsTypeOK
  <2>1. setup \in Setups
    BY DnsLookParts DEF DnsIInv, DnsTyped
  <2>2. \A q \in Types : cache[q] \in {NoItem, OldItem} \/ (cache[q].left \in Nat /\ cache[q].msg.age \in Nat)
    <3>1. \A q \in Types : cache[q] \in DnsItem /\ DnsItemOK(cache[q], q)
      BY DEF DnsIInv, DnsTyped
    <3> QED BY <3>1 DEF DnsItemOK, DnsItem, DnsMsg
  <2>3. \A l \in Looks : /\ looks[l].pc \in {"idle", "load", "drop", "sent", "answered", "got", "done"}
                         /\ looks[l].server \in Servers /\ looks[l].wait \in 0..Timeout
    BY DEF DnsIInv, DnsTyped, DnsLook
  <2> QED BY <2>1, <2>2, <2>3 DEF DnsTypeOK
<1>2. ASSUME NEW l \in Looks, looks[l].pc = "got", ~looks[l].failed
      PROVE  LET msg == looks[l].msg
             IN  /\ msg.q = looks[l].q \/ (msg.q = 0 /\ ~IsResolver /\ msg.from \in setup.https)
                 /\ ~IsResolver => msg.id = l
                 /\ msg.age <= Promised(msg) + Timeout
  <2>1. DnsReceived(looks[l], l)
    BY DEF DnsIInv
  <2> QED BY <1>2, <2>1 DEF DnsReceived, DnsFits
<1> QED BY <1>1, <1>2 DEF AnswerIsCurrent

LEMMA DnsInvSearched ==
  ASSUME DnsIInv
  PROVE  EveryServerAsked
<1>1. ASSUME NEW l \in Looks, IsResolver, looks[l].pc = "done", ~Found(l)
      PROVE  looks[l].asked = Servers \/ looks[l].empty = Types
  <2>1. looks[l] \in DnsLook /\ DnsSearched(looks[l]) /\ looks[l].msg.ips = {}
    BY <1>1 DEF DnsIInv, DnsTyped, Found
  <2>2. looks[l].asked \in SUBSET Servers
    BY <2>1 DEF DnsLook
  <2>3. \A s \in Servers : DnsPast(looks[l], s)
    BY <1>1, <2>1 DEF DnsSearched
  <2> QED BY <2>2, <2>3 DEF DnsPast
<1> QED BY <1>1 DEF EveryServerAsked

LEMMA DnsIInvAlways ==
         DnsSpec => []DnsIInv
<1>1. DnsInit => DnsIInv
  BY DnsInitInv
<1>2. DnsIInv /\ [DnsNext]_dnsVars => DnsIInv'
  BY DnsNextInv
<1> QED BY <1>1, <1>2, PTL DEF DnsSpec

(***************************************************************************)
(* A look-up is given an answer to its own question, with its own query's  *)
(* id, that is no older than it may be kept and an exchange takes, however *)
(* many look-ups, servers and setups there are: Hit, Store and Age of the  *)
(* shared cache.                                                           *)
(***************************************************************************)
THEOREM DnsAnswersCurrent ==
         DnsSpec => []AnswerIsCurrent
<1>1. DnsIInv => AnswerIsCurrent
  BY DnsInvCurrent
<1> QED BY <1>1, DnsIInvAlways, PTL

(***************************************************************************)
(* Resolve gives up only after every server was asked, or after another's  *)
(* look-up left answers without an address to both questions in the cache, *)
(* for any number of servers: one server's error never ends the search.    *)
(***************************************************************************)
THEOREM DnsAsksEveryServer ==
         DnsSpec => []EveryServerAsked
<1>1. DnsIInv => EveryServerAsked
  BY DnsInvSearched
<1> QED BY <1>1, DnsIInvAlways, PTL

----------------------------------------------------------------------------
(* The plain HTTP tunnel. *)

(* Lines without empty ones. *)
Filled(lines) == Keep(lines, Nat \ {Blank})

LEMMA FilledParts ==
  ASSUME NEW s \in Seq(Nat), NEW t \in Seq(Nat)
  PROVE  /\ Filled(s) \in Seq(Nat) /\ Filled(<<>>) = <<>>
         /\ Filled(s \o t) = Filled(s) \o Filled(t)
<1>1. Filled(s) \in Seq(Nat)
  BY KeepElements DEF Filled
<1>2. Filled(<<>>) = <<>>
  BY KeepOne DEF Filled
<1>3. Filled(s \o t) = Filled(s) \o Filled(t)
  BY KeepConcat DEF Filled
<1> QED BY <1>1, <1>2, <1>3

LEMMA FilledEnds ==
  ASSUME NEW s \in Seq(Nat), NEW x \in Nat
  PROVE  /\ x # Blank => Filled(Append(s, x)) = Append(Filled(s), x)
         /\ x = Blank => Filled(Append(s, x)) = Filled(s)
<1>1. /\ <<x>> \in Seq(Nat) /\ Append(s, x) = s \o <<x>>
      /\ Filled(s) \in Seq(Nat) /\ Filled(s \o <<x>>) = Filled(s) \o Filled(<<x>>)
  <2>1. <<x>> \in Seq(Nat) /\ Append(s, x) = s \o <<x>>
    OBVIOUS
  <2> QED BY <2>1, FilledParts
<1>2. /\ x # Blank => Filled(<<x>>) = <<x>>
      /\ x = Blank => Filled(<<x>>) = <<>>
  <2>1. x # Blank => x \in Nat \ {Blank}
    OBVIOUS
  <2>2. x = Blank => x \notin Nat \ {Blank}
    OBVIOUS
  <2> QED BY <2>1, <2>2, KeepOne DEF Filled
<1>3. ASSUME x # Blank PROVE Filled(s) \o <<x>> = Append(Filled(s), x)
  BY <1>1
<1>4. Filled(s) \o <<>> = Filled(s)
  BY <1>1
<1> QED BY <1>1, <1>2, <1>3, <1>4, Zenon

LEMMA FilledHead ==
  ASSUME NEW s \in Seq(Nat), s # <<>>
  PROVE  /\ Head(s) \in Nat /\ Tail(s) \in Seq(Nat)
         /\ Head(s) # Blank => Filled(s) = <<Head(s)>> \o Filled(Tail(s))
         /\ Head(s) = Blank => Filled(s) = Filled(Tail(s))
<1> DEFINE x == Head(s)
           t == Tail(s)
<1>1. x \in Nat /\ t \in Seq(Nat) /\ <<x>> \in Seq(Nat) /\ s = <<x>> \o t
  OBVIOUS
<1> HIDE DEF x, t
<1>2. Filled(s) = Filled(<<x>>) \o Filled(t) /\ Filled(t) \in Seq(Nat)
  BY <1>1, FilledParts
<1>3. /\ x # Blank => Filled(<<x>>) = <<x>>
      /\ x = Blank => Filled(<<x>>) = <<>>
  <2>1. x # Blank => x \in Nat \ {Blank}
    BY <1>1
  <2>2. x = Blank => x \notin Nat \ {Blank}
    OBVIOUS
  <2> QED BY <1>1, <2>1, <2>2, KeepOne DEF Filled
<1>4. <<>> \o Filled(t) = Filled(t)
  BY <1>2
<1> QED BY <1>1, <1>2, <1>3, <1>4, Zenon DEF x, t

----------------------------------------------------------------------------
(* The records of the state stay what they are, whatever field is set. *)
LEMMA ClientSets ==
  ASSUME NEW r \in Clients
  PROVE  /\ r.phase \in {"new", "up", "refused"} /\ r.closed \in BOOLEAN
         /\ r.loop \in {"off", "next", "pulling", "ended"} /\ r.rxc \in Seq(Nat) /\ r.got \in Seq(Nat)
         /\ \A x \in {"off", "next", "pulling", "ended"} :
              /\ [r EXCEPT !.loop = x] \in Clients
              /\ [r EXCEPT !.phase = "up", !.loop = x] \in Clients
              /\ [r EXCEPT !.closed = TRUE, !.loop = x] \in Clients
         /\ [r EXCEPT !.phase = "refused"] \in Clients /\ [r EXCEPT !.closed = TRUE] \in Clients
         /\ \A q \in Seq(Nat) : [r EXCEPT !.rxc = q] \in Clients
         /\ \A q, g \in Seq(Nat) : [r EXCEPT !.rxc = q, !.got = g] \in Clients
BY DEF Clients

LEMMA WriterSets ==
  ASSUME NEW r \in Writers
  PROVE  /\ r.st \in {"ready", "waiting", "failed"} /\ r.n \in Nat /\ r.acked \in Nat
         /\ \A n, k \in Nat : [st |-> "waiting", n |-> n, acked |-> k] \in Writers
         /\ \A k \in Nat : [r EXCEPT !.st = "ready", !.acked = k] \in Writers
         /\ [r EXCEPT !.st = "failed"] \in Writers
BY DEF Writers

LEMMA PushSets ==
  ASSUME NEW r \in Pushes
  PROVE  /\ r.at \in {"none", "sent", "writing", "done"} /\ r.data \in Nat
         /\ \A x \in {"none", "sent", "writing", "done"} : [r EXCEPT !.at = x] \in Pushes
         /\ \A n \in Nat : [at |-> "sent", data |-> n] \in Pushes
         /\ NoPush \in Pushes /\ NoPush.at = "none"
BY DEF Pushes, NoPush

LEMMA PullSets ==
  ASSUME NEW r \in Pulls
  PROVE  /\ r.at \in {"none", "sent", "open", "left"} /\ r.lines \in Seq(Nat)
         /\ r.seen \in BOOLEAN /\ r.ended \in {"no", "clean", "error"}
         /\ \A x \in {"none", "sent", "open", "left"} : [r EXCEPT !.at = x] \in Pulls
         /\ \A l \in Seq(Nat), x \in {"none", "sent", "open", "left"}, e \in {"no", "clean", "error"} :
              /\ [r EXCEPT !.at = x, !.lines = l, !.ended = e] \in Pulls
              /\ [r EXCEPT !.lines = l, !.ended = e, !.at = x] \in Pulls
              /\ [r EXCEPT !.at = x, !.ended = e] \in Pulls
         /\ \A l \in Seq(Nat) : [r EXCEPT !.lines = l] \in Pulls
         /\ \A l \in Seq(Nat) : [r EXCEPT !.lines = l, !.seen = TRUE] \in Pulls
BY DEF Pulls

LEMMA NoPullIs ==
  /\ NoPull \in Pulls /\ [NoPull EXCEPT !.at = "sent"] \in Pulls
  /\ NoPull.at = "none" /\ NoPull.lines = <<>> /\ NoPull.seen = FALSE /\ NoPull.ended = "no"
  /\ [NoPull EXCEPT !.at = "sent"].at = "sent" /\ [NoPull EXCEPT !.at = "sent"].lines = <<>>
  /\ [NoPull EXCEPT !.at = "sent"].ended = "no"
<1> DEFINE e == <<>>
<1>1. e \in Seq(Nat) /\ NoPull = [at |-> "none", lines |-> e, seen |-> FALSE, ended |-> "no"]
  BY DEF NoPull
<1> SUFFICES /\ NoPull \in Pulls /\ [NoPull EXCEPT !.at = "sent"] \in Pulls
             /\ NoPull.at = "none" /\ NoPull.lines = e /\ NoPull.seen = FALSE /\ NoPull.ended = "no"
             /\ [NoPull EXCEPT !.at = "sent"].at = "sent" /\ [NoPull EXCEPT !.at = "sent"].lines = e
             /\ [NoPull EXCEPT !.at = "sent"].ended = "no"
  OBVIOUS
<1> HIDE DEF e
<1> QED BY <1>1 DEF Pulls

LEMMA PipeAppSets ==
  /\ \A r \in Pipes : [r EXCEPT !.c1 = TRUE] \in Pipes /\ [r EXCEPT !.c2 = TRUE] \in Pipes
  /\ \A r \in Apps :
       /\ r.on \in BOOLEAN /\ r.got \in Seq(Nat) /\ r.n \in Nat
       /\ \A b \in BOOLEAN : [r EXCEPT !.on = b] \in Apps
       /\ \A g \in Seq(Nat) : [r EXCEPT !.got = g] \in Apps
       /\ \A n \in Nat : [r EXCEPT !.n = n] \in Apps
BY DEF Pipes, Apps

(* What an answer does to the writer, and the end of a response to the pull. *)
LEMMA AnswerMeans ==
  ASSUME writer \in Writers, push \in Pushes, NEW ok \in BOOLEAN, PushAnswer(ok)
  PROVE  /\ writer' \in Writers /\ writer'.n = writer.n
         /\ writer.st # "waiting" => writer' = writer
         /\ writer.st = "waiting" /\ ok => writer'.st = "ready" /\ writer'.acked = push.data
         /\ writer.st = "waiting" /\ ~ok => writer'.st = "failed" /\ writer'.acked = writer.acked
<1>1. push.data \in Nat
  BY PushSets
<1>2. writer' \in Writers
  BY <1>1, WriterSets DEF PushAnswer
<1> QED BY <1>1, <1>2 DEF PushAnswer, Writers

LEMMA EndPullMeans ==
  ASSUME pull \in Pulls, NEW lines \in Seq(Nat), EndPull(lines)
  PROVE  /\ pull' \in Pulls /\ pull'.at = "left" /\ pull'.seen = pull.seen
         /\ pull.ended = "no" => pull'.ended = "clean" /\ pull'.lines = pull.lines \o lines
         /\ pull.ended # "no" => pull'.ended = pull.ended /\ pull'.lines = pull.lines
<1>1. pull.lines \in Seq(Nat) /\ pull.ended \in {"no", "clean", "error"}
  BY PullSets
<1> DEFINE l == IF pull.ended = "no" THEN pull.lines \o lines ELSE pull.lines
           x == IF pull.ended = "no" THEN "clean" ELSE pull.ended
<1>2. pull' = [pull EXCEPT !.at = "left", !.lines = l, !.ended = x]
  BY DEF EndPull
<1>3. l \in Seq(Nat) /\ x \in {"no", "clean", "error"}
  <2>1. pull.lines \o lines \in Seq(Nat)
    BY <1>1
  <2> QED BY <1>1, <2>1
<1>4. /\ pull.ended = "no" => x = "clean" /\ l = pull.lines \o lines
      /\ pull.ended # "no" => x = pull.ended /\ l = pull.lines
  OBVIOUS
<1> HIDE DEF l, x
<1>5. pull' \in Pulls
  BY <1>2, <1>3, PullSets
<1>6. pull'.at = "left" /\ pull'.seen = pull.seen /\ pull'.ended = x /\ pull'.lines = l
  BY <1>2 DEF Pulls
<1> QED BY <1>4, <1>5, <1>6

(* The shape of the state, step by step. *)
LEMMA PhtShapeStep ==
  ASSUME PHTAssumption, PhtShape, PhtNext
  PROVE  PhtShape'
<1>a. /\ client \in Clients /\ writer \in Writers /\ push \in Pushes
      /\ pull \in Pulls /\ pipe \in Pipes /\ app \in Apps
  BY DEF PhtShape
<1>b. SUFFICES /\ client' \in Clients /\ writer' \in Writers /\ push' \in Pushes
               /\ pull' \in Pulls /\ pipe' \in Pipes /\ app' \in Apps
  BY DEF PhtShape
<1>c. TRUE \in BOOLEAN /\ FALSE \in BOOLEAN
  OBVIOUS
<1>1. CASE Authorize
  BY <1>1, <1>a, ClientSets DEF Authorize
<1>2. CASE OthersQueue
  BY <1>2, <1>a DEF OthersQueue
<1>3. CASE AcceptConn
  BY <1>3, <1>a, PipeAppSets DEF AcceptConn
<1>4. CASE Write
  <2>0. writer.n \in Nat /\ writer.acked \in Nat
    BY <1>a, WriterSets
  <2>1. writer.n + 1 \in Nat /\ writer.acked \in Nat
    BY <2>0
  <2> QED BY <1>4, <1>a, <2>1, WriterSets, PushSets DEF Write
<1>5. CASE HandlePush
  BY <1>5, <1>a, <1>c, PushSets, AnswerMeans DEF HandlePush
<1>6. CASE AppRead
  <2>1. push.data \in Nat /\ app.got \in Seq(Nat)
    BY <1>a, PushSets, PipeAppSets
  <2>2. Append(app.got, push.data) \in Seq(Nat)
    BY <2>1
  <2> QED BY <1>6, <1>a, <2>2, PushSets, PipeAppSets DEF AppRead
<1>7. CASE PushAnswered
  BY <1>7, <1>a, <1>c, PushSets, AnswerMeans DEF PushAnswered
<1>8. CASE PushTimeout
  BY <1>8, <1>a, <1>c, PushSets, AnswerMeans, PipeAppSets DEF PushTimeout
<1>9. CASE PushCut
  BY <1>9, <1>a, <1>c, PushSets, AnswerMeans, PipeAppSets DEF PushCut
<1>10. CASE PushLost
  BY <1>10, <1>a, <1>c, PushSets, AnswerMeans DEF PushLost
<1>11. CASE Pull
  BY <1>11, <1>a, ClientSets, NoPullIs DEF Pull
<1>12. CASE HandlePull
  BY <1>12, <1>a, PullSets DEF HandlePull
<1>13. CASE AppWrite
  <2>0. pull.lines \in Seq(Nat) /\ app.n \in Nat
    BY <1>a, PullSets, PipeAppSets
  <2>1. pull.lines \in Seq(Nat) /\ app.n + 1 \in Nat
    BY <2>0
  <2>2. Append(pull.lines, app.n + 1) \in Seq(Nat)
    BY <2>1
  <2> QED BY <1>13, <1>a, <2>1, <2>2, PullSets, PipeAppSets DEF AppWrite
<1>14. CASE PullDeadline
  <2>1. <<Blank>> \in Seq(Nat)
    BY DEF Blank
  <2> QED BY <1>14, <1>a, <2>1, EndPullMeans DEF PullDeadline
<1>15. CASE PullEOF
  <2>1. <<>> \in Seq(Nat)
    OBVIOUS
  <2> QED BY <1>15, <1>a, <2>1, EndPullMeans DEF PullEOF
<1>16. CASE PullClosed
  <2>1. <<>> \in Seq(Nat)
    OBVIOUS
  <2> QED BY <1>16, <1>a, <2>1, EndPullMeans DEF PullClosed
<1>17. CASE PullCut
  <2>1. PICK k \in 0..Len(pull.lines) :
          pull' = [pull EXCEPT !.lines = SubSeq(pull.lines, 1, k), !.ended = "error",
                               !.at = IF pull.at = "sent" THEN "left" ELSE pull.at]
    BY <1>17 DEF PullCut
  <2>2. SubSeq(pull.lines, 1, k) \in Seq(Nat)
    BY <1>a, PullSets, CutInTwo
  <2>3. (IF pull.at = "sent" THEN "left" ELSE pull.at) \in {"none", "sent", "open", "left"}
    BY <1>a, PullSets
  <2>4. pull' \in Pulls
    BY <1>a, <2>1, <2>2, <2>3, PullSets
  <2> QED BY <1>17, <1>a, <2>4 DEF PullCut
<1>18. CASE PullBroken
  BY <1>18, <1>a, PullSets, NoPullIs DEF PullBroken
<1>19. CASE Scan
  <2>1. /\ pull.lines \in Seq(Nat) /\ pull.lines # <<>> /\ client.rxc \in Seq(Nat)
    BY <1>19, <1>a, PullSets, ClientSets DEF Scan
  <2>2. Tail(pull.lines) \in Seq(Nat) /\ Append(client.rxc, Head(pull.lines)) \in Seq(Nat)
    BY <2>1
  <2>3. [pull EXCEPT !.lines = Tail(pull.lines), !.seen = TRUE] \in Pulls
    BY <1>a, <2>2, PullSets
  <2>4. /\ [client EXCEPT !.rxc = Append(client.rxc, Head(pull.lines))] \in Clients
        /\ [client EXCEPT !.loop = "ended"] \in Clients
    BY <1>a, <2>2, ClientSets
  <2> QED BY <1>19, <1>a, <2>3, <2>4 DEF Scan
<1>20. CASE PullDone
  BY <1>20, <1>a, ClientSets, NoPullIs DEF PullDone
<1>21. CASE Read
  <2>1. client.rxc \in Seq(Nat) /\ client.rxc # <<>> /\ client.got \in Seq(Nat)
    BY <1>21, <1>a, ClientSets DEF Read
  <2>2. Tail(client.rxc) \in Seq(Nat) /\ Append(client.got, Head(client.rxc)) \in Seq(Nat)
    BY <2>1
  <2> QED BY <1>21, <1>a, <2>2, ClientSets DEF Read
<1>22. CASE ClientClose
  BY <1>22, <1>a, ClientSets DEF ClientClose
<1>23. CASE AppClose
  BY <1>23, <1>a, PipeAppSets DEF AppClose
<1> QED
  BY <1>1, <1>2, <1>3, <1>4, <1>5, <1>6, <1>7, <1>8, <1>9, <1>10, <1>11, <1>12, <1>13, <1>14,
     <1>15, <1>16, <1>17, <1>18, <1>19, <1>20, <1>21, <1>22, <1>23, Zenon DEF PhtNext

(* A pull that has not begun or has ended leaves nothing behind. *)
LEMMA PullStep ==
  ASSUME PHTAssumption, PhtShape, PhtShape', PullOK, PhtNext
  PROVE  PullOK'
<1>a. PullOK /\ client \in Clients /\ pull \in Pulls
  BY DEF PhtShape
<1>b. UNCHANGED <<client, pull>> => PullOK'
  BY DEF PullOK
<1> USE DEF PullOK
<1>1. CASE Authorize
  BY <1>1, <1>a DEF Authorize, Clients, Pulls
<1>2. CASE OthersQueue
  BY <1>2, <1>b DEF OthersQueue
<1>3. CASE AcceptConn
  BY <1>3, <1>b DEF AcceptConn
<1>4. CASE Write
  BY <1>4, <1>b DEF Write
<1>5. CASE HandlePush
  BY <1>5, <1>b DEF HandlePush
<1>6. CASE AppRead
  BY <1>6, <1>b DEF AppRead
<1>7. CASE PushAnswered
  BY <1>7, <1>b DEF PushAnswered
<1>8. CASE PushTimeout
  BY <1>8, <1>b DEF PushTimeout
<1>9. CASE PushCut
  BY <1>9, <1>b DEF PushCut
<1>10. CASE PushLost
  BY <1>10, <1>b DEF PushLost
<1>11. CASE Pull
  <2>1. CASE client.closed
    <3>1. pull' = pull /\ client'.loop = "ended" /\ client'.closed /\ client.loop = "next"
               /\ client'.phase = client.phase
      BY <1>11, <1>a, <2>1 DEF Pull, Clients
    <3> QED BY <1>a, <3>1
  <2>2. CASE ~client.closed
    <3>1. pull' = [NoPull EXCEPT !.at = "sent"] /\ client'.loop = "pulling" /\ client.loop = "next"
               /\ client'.phase = client.phase
      BY <1>11, <1>a, <2>2 DEF Pull, Clients
    <3>2. pull'.at = "sent" /\ pull'.lines = <<>> /\ pull'.ended = "no"
      BY <3>1, NoPullIs
    <3> QED BY <1>a, <3>1, <3>2
  <2> QED BY <2>1, <2>2
<1>12. CASE HandlePull
  BY <1>12, <1>a DEF HandlePull, Clients, Pulls
<1>13. CASE AppWrite
  BY <1>13, <1>a DEF AppWrite, Clients, Pulls
<1>14. CASE PullDeadline
  <2>1. <<Blank>> \in Seq(Nat)
    BY DEF Blank
  <2> QED BY <1>14, <1>a, <2>1, EndPullMeans DEF PullDeadline
<1>15. CASE PullEOF
  <2>1. <<>> \in Seq(Nat)
    OBVIOUS
  <2> QED BY <1>15, <1>a, <2>1, EndPullMeans DEF PullEOF
<1>16. CASE PullClosed
  <2>1. <<>> \in Seq(Nat)
    OBVIOUS
  <2> QED BY <1>16, <1>a, <2>1, EndPullMeans DEF PullClosed
<1>17. CASE PullCut
  <2>1. PICK k \in 0..Len(pull.lines) :
          pull' = [pull EXCEPT !.lines = SubSeq(pull.lines, 1, k), !.ended = "error",
                               !.at = IF pull.at = "sent" THEN "left" ELSE pull.at]
    BY <1>17 DEF PullCut
  <2>2. UNCHANGED client /\ pull.at \in {"sent", "open"} /\ pull.ended = "no"
    BY <1>17 DEF PullCut
  <2>3. /\ pull'.ended = "error" /\ pull'.at = IF pull.at = "sent" THEN "left" ELSE pull.at
    BY <1>a, <2>1 DEF Pulls
  <2> QED BY <1>a, <2>2, <2>3
<1>18. CASE PullBroken
  <2>1. UNCHANGED client /\ pull.at = "open" /\ pull.ended = "error"
    BY <1>18 DEF PullBroken
  <2>2. pull' = NoPull \/ pull' = [pull EXCEPT !.at = "left"]
    BY <1>18 DEF PullBroken
  <2>3. CASE client.loop = "pulling"
    <3>1. pull'.at = "left" /\ pull'.lines = pull.lines /\ pull'.ended = pull.ended
      BY <1>18, <1>a, <2>3 DEF PullBroken, Pulls
    <3> QED BY <1>a, <2>1, <2>3, <3>1
  <2>4. CASE client.loop # "pulling"
    <3>1. pull' = NoPull
      BY <1>18, <2>4 DEF PullBroken
    <3> QED BY <1>a, <2>1, <2>4, <3>1, NoPullIs
  <2> QED BY <2>3, <2>4
<1>19. CASE Scan
  BY <1>19, <1>a DEF Scan, Clients, Pulls
<1>20. CASE PullDone
  BY <1>20, <1>a, NoPullIs DEF PullDone, Clients, Pulls
<1>21. CASE Read
  BY <1>21, <1>a DEF Read, Clients, Pulls
<1>22. CASE ClientClose
  BY <1>22, <1>a DEF ClientClose, Clients, Pulls
<1>23. CASE AppClose
  BY <1>23, <1>b DEF AppClose
<1> QED
  BY <1>1, <1>2, <1>3, <1>4, <1>5, <1>6, <1>7, <1>8, <1>9, <1>10, <1>11, <1>12, <1>13, <1>14,
     <1>15, <1>16, <1>17, <1>18, <1>19, <1>20, <1>21, <1>22, <1>23, Zenon DEF PhtNext

(* No queue is above its capacity. *)
LEMMA QueueStep ==
  ASSUME PHTAssumption, PhtShape, PhtNext
  PROVE  /\ \/ queue' = queue
            \/ queue < Backlog /\ queue' = queue + 1
            \/ queue > 0 /\ queue' = queue - 1
         /\ \/ client'.rxc = client.rxc
            \/ client.rxc # <<>> /\ client'.rxc = Tail(client.rxc)
            \/ Len(client.rxc) < RxCap /\ client'.rxc = Append(client.rxc, Head(pull.lines))
<1>a. client \in Clients
  BY DEF PhtShape
<1>b. client' = client => client'.rxc = client.rxc
  OBVIOUS
<1>1. CASE Authorize
  BY <1>1, <1>a DEF Authorize, Clients
<1>2. CASE OthersQueue
  BY <1>2, <1>a, <1>b DEF OthersQueue
<1>3. CASE AcceptConn
  BY <1>3, <1>a, <1>b DEF AcceptConn
<1>4. CASE Write
  BY <1>4, <1>a, <1>b DEF Write
<1>5. CASE HandlePush
  BY <1>5, <1>a, <1>b DEF HandlePush
<1>6. CASE AppRead
  BY <1>6, <1>a, <1>b DEF AppRead
<1>7. CASE PushAnswered
  BY <1>7, <1>a, <1>b DEF PushAnswered
<1>8. CASE PushTimeout
  BY <1>8, <1>a, <1>b DEF PushTimeout
<1>9. CASE PushCut
  BY <1>9, <1>a, <1>b DEF PushCut
<1>10. CASE PushLost
  BY <1>10, <1>a, <1>b DEF PushLost
<1>11. CASE Pull
  BY <1>11, <1>a DEF Pull, Clients
<1>12. CASE HandlePull
  BY <1>12, <1>a, <1>b DEF HandlePull
<1>13. CASE AppWrite
  BY <1>13, <1>a, <1>b DEF AppWrite
<1>14. CASE PullDeadline
  BY <1>14, <1>a, <1>b DEF PullDeadline
<1>15. CASE PullEOF
  BY <1>15, <1>a, <1>b DEF PullEOF
<1>16. CASE PullClosed
  BY <1>16, <1>a, <1>b DEF PullClosed
<1>17. CASE PullCut
  BY <1>17, <1>a, <1>b DEF PullCut
<1>18. CASE PullBroken
  BY <1>18, <1>a, <1>b DEF PullBroken
<1>19. CASE Scan
  BY <1>19, <1>a DEF Scan, Clients
<1>20. CASE PullDone
  BY <1>20, <1>a DEF PullDone, Clients
<1>21. CASE Read
  BY <1>21, <1>a DEF Read, Clients
<1>22. CASE ClientClose
  BY <1>22, <1>a DEF ClientClose, Clients
<1>23. CASE AppClose
  BY <1>23, <1>a, <1>b DEF AppClose
<1> QED
  BY <1>1, <1>2, <1>3, <1>4, <1>5, <1>6, <1>7, <1>8, <1>9, <1>10, <1>11, <1>12, <1>13, <1>14,
     <1>15, <1>16, <1>17, <1>18, <1>19, <1>20, <1>21, <1>22, <1>23, Zenon DEF PhtNext

LEMMA PhtTypeStep ==
  ASSUME PHTAssumption, PhtTypeOK, PhtShape, PhtNext
  PROVE  PhtTypeOK'
<1>1. /\ Len(client.rxc) <= RxCap /\ queue \in 0..Backlog /\ RxCap \in Nat /\ Backlog \in Nat
      /\ known \in BOOLEAN
  BY PHTAssumption DEF PhtTypeOK, PHTAssumption
<1>2. queue' \in 0..Backlog
  BY <1>1, QueueStep
<1>3. Len(client'.rxc) <= RxCap
  <2>1. client.rxc \in Seq(Nat)
    BY ClientSets DEF PhtShape
  <2>2. /\ client.rxc # <<>> => Len(Tail(client.rxc)) <= Len(client.rxc)
        /\ Len(Append(client.rxc, Head(pull.lines))) = Len(client.rxc) + 1
        /\ Len(client.rxc) \in Nat
    BY <2>1
  <2>3. CASE client'.rxc = client.rxc
    BY <1>1, <2>3
  <2>4. CASE client.rxc # <<>> /\ client'.rxc = Tail(client.rxc)
    <3>1. Len(client'.rxc) <= Len(client.rxc) /\ Len(client'.rxc) \in Nat
      BY <2>1, <2>4
    <3> QED BY <1>1, <2>2, <3>1
  <2>5. CASE Len(client.rxc) < RxCap /\ client'.rxc = Append(client.rxc, Head(pull.lines))
    BY <1>1, <2>2, <2>5
  <2> QED BY <2>3, <2>4, <2>5, QueueStep
<1>4. known' \in BOOLEAN
  BY <1>1 DEF PhtNext, Authorize, OthersQueue, AcceptConn, Write, HandlePush, AppRead,
     PushAnswered, PushTimeout, PushCut, PushLost, Pull, HandlePull, AppWrite, PullDeadline, PullEOF,
     PullClosed, PullCut, PullBroken, Scan, PullDone, Read, ClientClose, AppClose
<1>5. PhtShape'
  BY PhtShapeStep
<1>6. /\ client' \in Clients /\ writer' \in Writers /\ push' \in Pushes /\ pull' \in Pulls
  BY <1>5 DEF PhtShape
<1> QED BY <1>2, <1>3, <1>4, <1>6, ClientSets, WriterSets, PushSets, PullSets DEF PhtTypeOK

----------------------------------------------------------------------------
(* What the client's end has, in the order in which the application wrote it:
   the blocks read, those in the queue and those in the response. *)
Row(a, b, c) == (a \o b) \o c

LEMMA Associates ==
  ASSUME NEW a \in Seq(Nat), NEW b \in Seq(Nat), NEW c \in Seq(Nat)
  PROVE  (a \o b) \o c = a \o (b \o c)
BY ConcatAssociative

LEMMA RowIs ==
  ASSUME NEW a \in Seq(Nat), NEW b \in Seq(Nat), NEW c \in Seq(Nat)
  PROVE  /\ Row(a, b, c) \in Seq(Nat) /\ b \o c \in Seq(Nat)
         /\ Row(a, b, c) = a \o (b \o c)
         /\ Row(a, b, c) = Row(a, b, <<>>) \o c
<1>1. a \o b \in Seq(Nat) /\ b \o c \in Seq(Nat)
  OBVIOUS
<1>2. (a \o b) \o c \in Seq(Nat) /\ (a \o b) \o <<>> = a \o b
  BY <1>1
<1>3. (a \o b) \o c = a \o (b \o c)
  BY Associates, Zenon
<1> QED BY <1>1, <1>2, <1>3, Zenon DEF Row

LEMMA RowBegins ==
  ASSUME NEW a \in Seq(Nat), NEW b \in Seq(Nat), NEW c \in Seq(Nat)
  PROVE  \E d \in Seq(Nat) : Row(a, b, c) = a \o d
<1>1. b \o c \in Seq(Nat)
  OBVIOUS
<1>2. Row(a, b, c) = a \o (b \o c)
  BY RowIs
<1> QED BY <1>1, <1>2

LEMMA RowAppend ==
  ASSUME NEW a \in Seq(Nat), NEW b \in Seq(Nat), NEW c \in Seq(Nat), NEW x \in Nat
  PROVE  Row(a, b, Append(c, x)) = Append(Row(a, b, c), x)
<1>1. a \o b \in Seq(Nat)
  OBVIOUS
<1>2. (a \o b) \o Append(c, x) = Append((a \o b) \o c, x)
  BY <1>1, AppendConcat
<1> QED BY <1>2 DEF Row

LEMMA RowScan ==
  ASSUME NEW a \in Seq(Nat), NEW b \in Seq(Nat), NEW c \in Seq(Nat), NEW x \in Nat
  PROVE  Row(a, Append(b, x), c) = Row(a, b, <<x>> \o c)
<1>1. a \o b \in Seq(Nat) /\ <<x>> \in Seq(Nat) /\ Append(b, x) = b \o <<x>>
  BY AppendIsConcat
<1>2. a \o (b \o <<x>>) = (a \o b) \o <<x>>
  BY <1>1, Associates, Zenon
<1>3. ((a \o b) \o <<x>>) \o c = (a \o b) \o (<<x>> \o c)
  BY <1>1, Associates, Zenon
<1> QED BY <1>1, <1>2, <1>3, Zenon DEF Row

LEMMA RowRead ==
  ASSUME NEW a \in Seq(Nat), NEW b \in Seq(Nat), NEW c \in Seq(Nat), b # <<>>
  PROVE  Row(Append(a, Head(b)), Tail(b), c) = Row(a, b, c)
<1>1. Head(b) \in Nat /\ Tail(b) \in Seq(Nat) /\ <<Head(b)>> \in Seq(Nat) /\ b = <<Head(b)>> \o Tail(b)
  OBVIOUS
<1>2. Append(a, Head(b)) = a \o <<Head(b)>>
  BY <1>1, AppendIsConcat
<1>3. (a \o <<Head(b)>>) \o Tail(b) = a \o (<<Head(b)>> \o Tail(b))
  BY <1>1, Associates, Zenon
<1>4. a \o b = a \o (<<Head(b)>> \o Tail(b))
  BY <1>1, Zenon
<1>5. Append(a, Head(b)) \o Tail(b) = a \o b
  BY <1>2, <1>3, <1>4, Zenon
<1> QED BY <1>5, Zenon DEF Row

LEMMA RowCut ==
  ASSUME NEW a \in Seq(Nat), NEW b \in Seq(Nat), NEW c \in Seq(Nat), NEW d \in Seq(Nat)
  PROVE  Row(a, b, c \o d) = Row(a, b, c) \o d
<1>1. a \o b \in Seq(Nat)
  OBVIOUS
<1>2. (a \o b) \o (c \o d) = ((a \o b) \o c) \o d
  BY <1>1, Associates, Zenon
<1> QED BY <1>2, Zenon DEF Row

LEMMA BlocksAre ==
  ASSUME PhtShape
  PROVE  /\ Blocks = Row(client.got, client.rxc, Filled(pull.lines)) /\ Blocks \in Seq(Nat)
         /\ client.got \in Seq(Nat) /\ client.rxc \in Seq(Nat) /\ pull.lines \in Seq(Nat)
         /\ Filled(pull.lines) \in Seq(Nat) /\ app.n \in Nat /\ Len(Blocks) \in Nat
<1>1. client \in Clients /\ pull \in Pulls /\ app \in Apps
  BY DEF PhtShape
<1>2. Blocks = Row(client.got, client.rxc, Filled(pull.lines))
  BY DEF Blocks, Filled, Row
<1>3. client.got \in Seq(Nat) /\ client.rxc \in Seq(Nat) /\ pull.lines \in Seq(Nat) /\ app.n \in Nat
  BY <1>1, ClientSets, PullSets, PipeAppSets
<1>4. Filled(pull.lines) \in Seq(Nat)
  BY <1>3, FilledParts
<1>5. Blocks \in Seq(Nat)
  BY <1>2, <1>3, <1>4, RowIs
<1>6. Len(Blocks) \in Nat
  BY <1>5
<1> QED BY <1>2, <1>3, <1>4, <1>5, <1>6

LEMMA BlocksAreThen ==
  ASSUME PhtShape'
  PROVE  /\ Blocks' = Row(client'.got, client'.rxc, Filled(pull'.lines)) /\ Blocks' \in Seq(Nat)
         /\ client'.got \in Seq(Nat) /\ client'.rxc \in Seq(Nat) /\ pull'.lines \in Seq(Nat)
         /\ Filled(pull'.lines) \in Seq(Nat) /\ app'.n \in Nat /\ Len(Blocks') \in Nat
<1>1. client' \in Clients /\ pull' \in Pulls /\ app' \in Apps
  BY DEF PhtShape
<1>2. Blocks' = Row(client'.got, client'.rxc, Filled(pull'.lines))
  BY DEF Blocks, Filled, Row
<1>3. client'.got \in Seq(Nat) /\ client'.rxc \in Seq(Nat) /\ pull'.lines \in Seq(Nat) /\ app'.n \in Nat
  BY <1>1, ClientSets, PullSets, PipeAppSets
<1>4. Filled(pull'.lines) \in Seq(Nat)
  BY <1>3, FilledParts
<1>5. Blocks' \in Seq(Nat)
  BY <1>2, <1>3, <1>4, RowIs
<1>6. Len(Blocks') \in Nat
  BY <1>5
<1> QED BY <1>2, <1>3, <1>4, <1>5, <1>6

(* A sequence that counts up from 1 still does when the next number comes, and
   when its end is cut off. *)
Counts(s) == \A i \in 1..Len(s) : s[i] = i

LEMMA CountsOn ==
  ASSUME NEW s \in Seq(Nat), Counts(s)
  PROVE  Counts(Append(s, Len(s) + 1)) /\ Len(Append(s, Len(s) + 1)) = Len(s) + 1
BY DEF Counts

LEMMA CountsBefore ==
  ASSUME NEW a \in Seq(Nat), NEW b \in Seq(Nat), Counts(a \o b)
  PROVE  /\ Counts(a) /\ Len(a) <= Len(a \o b) /\ Len(a) \in Nat /\ Len(a \o b) \in Nat
BY DEF Counts

(* Nothing is lost but by a cut: step by step. *)
Lossy(c, p) == p.ended = "error" \/ (c.loop = "ended" /\ p.at = "none" /\ c.closed)

LEMMA DownStep ==
  ASSUME PHTAssumption, PhtShape, PhtShape', PullOK, DownOK, PhtNext
  PROVE  DownOK'
<1> DEFINE L == Lossy(client, pull)
           LN == Lossy(client', pull')
<1> USE DEF Lossy
<1>0. client \in Clients /\ pull \in Pulls /\ app \in Apps
  BY DEF PhtShape
<1>p. PullOK
  OBVIOUS
<1>a. /\ Blocks = Row(client.got, client.rxc, Filled(pull.lines)) /\ Blocks \in Seq(Nat)
      /\ client.got \in Seq(Nat) /\ client.rxc \in Seq(Nat) /\ pull.lines \in Seq(Nat)
      /\ Filled(pull.lines) \in Seq(Nat) /\ app.n \in Nat /\ Len(Blocks) \in Nat
  BY BlocksAre
<1>b. /\ Blocks' = Row(client'.got, client'.rxc, Filled(pull'.lines)) /\ Blocks' \in Seq(Nat)
      /\ client'.got \in Seq(Nat) /\ client'.rxc \in Seq(Nat) /\ pull'.lines \in Seq(Nat)
      /\ Filled(pull'.lines) \in Seq(Nat) /\ app'.n \in Nat /\ Len(Blocks') \in Nat
  BY BlocksAreThen
<1>t. /\ \A x \in Nat : Row(client.got, client.rxc, Append(Filled(pull.lines), x))
                         = Append(Row(client.got, client.rxc, Filled(pull.lines)), x)
      /\ \A r \in Seq(Nat) : Row(client.got, client.rxc, Filled(pull'.lines) \o r)
                              = Row(client.got, client.rxc, Filled(pull'.lines)) \o r
      /\ \A x \in Nat : Row(client.got, Append(client.rxc, x), Filled(pull'.lines))
                         = Row(client.got, client.rxc, <<x>> \o Filled(pull'.lines))
  <2> DEFINE g == client.got
             q == client.rxc
             f == Filled(pull.lines)
             h == Filled(pull'.lines)
  <2>1. g \in Seq(Nat) /\ q \in Seq(Nat) /\ f \in Seq(Nat) /\ h \in Seq(Nat)
    BY <1>a, <1>b
  <2> HIDE DEF g, q, f, h
  <2>2. \A x \in Nat : Row(g, q, Append(f, x)) = Append(Row(g, q, f), x)
    BY <2>1, RowAppend, Zenon
  <2>3. \A r \in Seq(Nat) : Row(g, q, h \o r) = Row(g, q, h) \o r
    BY <2>1, RowCut, Zenon
  <2>4. \A x \in Nat : Row(g, Append(q, x), h) = Row(g, q, <<x>> \o h)
    BY <2>1, RowScan, Zenon
  <2> QED BY <2>2, <2>3, <2>4, Zenon DEF g, q, f, h
<1>c. Counts(Blocks) /\ Len(Blocks) <= app.n /\ (Len(Blocks) = app.n \/ L)
  BY DEF DownOK, Counts
<1>d. ASSUME Counts(Blocks'), Len(Blocks') <= app'.n, Len(Blocks') = app'.n \/ LN
      PROVE  DownOK'
  BY <1>d DEF DownOK, Counts
<1>e. ASSUME Blocks' = Blocks, app'.n = app.n, L => LN PROVE DownOK'
  BY <1>c, <1>d, <1>e
<1>s. client'.got = client.got /\ client'.rxc = client.rxc /\ pull'.lines = pull.lines => Blocks' = Blocks
  BY <1>a, <1>b
<1>f. Filled(<<>>) = <<>>
  <2>1. <<>> \in Seq(Nat)
    OBVIOUS
  <2> QED BY <2>1, FilledParts
<1>1. CASE Authorize
  <2>1. /\ client'.got = client.got /\ client'.rxc = client.rxc /\ pull'.lines = pull.lines
        /\ app'.n = app.n /\ (L => LN)
    BY <1>1, <1>0, <1>p DEF Authorize, Clients, PullOK
  <2> QED BY <1>e, <1>s, <2>1
<1>2. CASE OthersQueue
  <2>1. /\ client'.got = client.got /\ client'.rxc = client.rxc /\ pull'.lines = pull.lines
        /\ app'.n = app.n /\ (L => LN)
    BY <1>2, <1>0, <1>p DEF OthersQueue
  <2> QED BY <1>e, <1>s, <2>1
<1>3. CASE AcceptConn
  <2>1. /\ client'.got = client.got /\ client'.rxc = client.rxc /\ pull'.lines = pull.lines
        /\ app'.n = app.n /\ (L => LN)
    BY <1>3, <1>0, <1>p DEF AcceptConn, Apps
  <2> QED BY <1>e, <1>s, <2>1
<1>4. CASE Write
  <2>1. /\ client'.got = client.got /\ client'.rxc = client.rxc /\ pull'.lines = pull.lines
        /\ app'.n = app.n /\ (L => LN)
    BY <1>4, <1>0, <1>p DEF Write
  <2> QED BY <1>e, <1>s, <2>1
<1>5. CASE HandlePush
  <2>1. /\ client'.got = client.got /\ client'.rxc = client.rxc /\ pull'.lines = pull.lines
        /\ app'.n = app.n /\ (L => LN)
    BY <1>5, <1>0, <1>p DEF HandlePush
  <2> QED BY <1>e, <1>s, <2>1
<1>6. CASE AppRead
  <2>1. /\ client'.got = client.got /\ client'.rxc = client.rxc /\ pull'.lines = pull.lines
        /\ app'.n = app.n /\ (L => LN)
    BY <1>6, <1>0, <1>p DEF AppRead, Apps
  <2> QED BY <1>e, <1>s, <2>1
<1>7. CASE PushAnswered
  <2>1. /\ client'.got = client.got /\ client'.rxc = client.rxc /\ pull'.lines = pull.lines
        /\ app'.n = app.n /\ (L => LN)
    BY <1>7, <1>0, <1>p DEF PushAnswered
  <2> QED BY <1>e, <1>s, <2>1
<1>8. CASE PushTimeout
  <2>1. /\ client'.got = client.got /\ client'.rxc = client.rxc /\ pull'.lines = pull.lines
        /\ app'.n = app.n /\ (L => LN)
    BY <1>8, <1>0, <1>p DEF PushTimeout
  <2> QED BY <1>e, <1>s, <2>1
<1>9. CASE PushCut
  <2>1. /\ client'.got = client.got /\ client'.rxc = client.rxc /\ pull'.lines = pull.lines
        /\ app'.n = app.n /\ (L => LN)
    BY <1>9, <1>0, <1>p DEF PushCut
  <2> QED BY <1>e, <1>s, <2>1
<1>10. CASE PushLost
  <2>1. /\ client'.got = client.got /\ client'.rxc = client.rxc /\ pull'.lines = pull.lines
        /\ app'.n = app.n /\ (L => LN)
    BY <1>10, <1>0, <1>p DEF PushLost
  <2> QED BY <1>e, <1>s, <2>1
<1>11. CASE Pull
  <2>1. /\ pull.at = "none" /\ pull = NoPull /\ app' = app
        /\ client'.got = client.got /\ client'.rxc = client.rxc
    BY <1>11, <1>0, <1>p DEF Pull, Clients, PullOK
  <2>2. pull' \in {NoPull, [NoPull EXCEPT !.at = "sent"]}
    BY <1>11, <2>1 DEF Pull
  <2>3. pull'.lines = pull.lines /\ pull.ended = "no"
    BY <2>1, <2>2, NoPullIs
  <2>4. ~L
    BY <1>11, <2>3 DEF Pull
  <2> QED BY <1>e, <1>s, <2>1, <2>3, <2>4
<1>12. CASE HandlePull
  <2>1. /\ client' = client /\ app' = app /\ pull'.lines = pull.lines /\ pull.at = "sent"
        /\ pull.ended = "error" => pull'.ended = "error"
    BY <1>12, <1>0 DEF HandlePull, Pulls
  <2> QED BY <1>e, <1>s, <2>1
<1>13. CASE AppWrite
  <2>1. /\ pull.at = "open" /\ app'.n = app.n + 1 /\ client' = client
        /\ pull.ended = "no" => pull'.lines = Append(pull.lines, app.n + 1)
        /\ pull.ended # "no" => pull' = pull
    BY <1>13, <1>0 DEF AppWrite, Pulls, Apps
  <2>2. CASE pull.ended = "no"
    <3>1. pull'.lines = Append(pull.lines, app.n + 1) /\ Len(Blocks) = app.n
      BY <1>c, <2>1, <2>2
    <3>2. Filled(pull'.lines) = Append(Filled(pull.lines), app.n + 1)
      <4>1. app.n + 1 \in Nat /\ app.n + 1 # Blank
        BY <1>a DEF Blank
      <4> QED BY <1>a, <3>1, <4>1, FilledEnds
    <3>3. Blocks' = Append(Blocks, app.n + 1)
      <4>1. app.n + 1 \in Nat
        BY <1>a
      <4>2. Row(client.got, client.rxc, Append(Filled(pull.lines), app.n + 1))
              = Append(Row(client.got, client.rxc, Filled(pull.lines)), app.n + 1)
        BY <1>t, <4>1, Zenon
      <4>3. Blocks' = Row(client.got, client.rxc, Append(Filled(pull.lines), app.n + 1))
        BY <1>b, <2>1, <3>2
      <4> QED BY <1>a, <4>2, <4>3, Zenon
    <3>4. Counts(Blocks') /\ Len(Blocks') = app'.n
      BY <1>a, <1>c, <2>1, <3>1, <3>3, CountsOn
    <3>5. Len(Blocks') <= app'.n
      BY <1>b, <3>4
    <3> QED BY <1>d, <3>4, <3>5
  <2>3. CASE pull.ended # "no"
    <3>1. Blocks' = Blocks
      BY <1>s, <2>1, <2>3
    <3>2. pull.ended = "error" /\ pull'.ended = "error"
      BY <1>0, <1>p, <2>1, <2>3, PullSets DEF PullOK
    <3>3. Counts(Blocks') /\ Len(Blocks') <= app'.n
      <4>1. Len(Blocks) \in Nat /\ app.n \in Nat
        BY <1>a
      <4>2. Len(Blocks) <= app.n + 1
        BY <1>c, <4>1
      <4> QED BY <1>c, <2>1, <3>1, <4>2
    <3> QED BY <1>d, <3>2, <3>3
  <2> QED BY <2>2, <2>3
<1>14. CASE PullDeadline
  <2>0. <<Blank>> \in Seq(Nat)
    BY DEF Blank
  <2>1. client' = client /\ app' = app /\ EndPull(<<Blank>>) /\ pull.at = "open"
    BY <1>14 DEF PullDeadline
  <2>2. /\ pull.ended = "no" => pull'.lines = pull.lines \o <<Blank>>
        /\ pull.ended # "no" => pull'.lines = pull.lines /\ pull'.ended = pull.ended
    BY <1>0, <2>0, <2>1, EndPullMeans
  <2>3. L => LN
    BY <2>1, <2>2
  <2>4. Filled(pull'.lines) = Filled(pull.lines)
    <3>1. Filled(pull.lines \o <<Blank>>) = Filled(pull.lines)
      <4>1. Blank \in Nat /\ pull.lines \o <<Blank>> = Append(pull.lines, Blank)
        BY <1>a DEF Blank
      <4> QED BY <1>a, <4>1, FilledEnds
    <3> QED BY <2>2, <3>1
  <2>5. Blocks' = Blocks
    BY <1>a, <1>b, <2>1, <2>4, Zenon
  <2> QED BY <1>e, <2>1, <2>3, <2>5
<1>15. CASE PullEOF
  <2>0. <<>> \in Seq(Nat)
    OBVIOUS
  <2>1. client' = client /\ app' = app /\ EndPull(<<>>) /\ pull.at = "open"
    BY <1>15 DEF PullEOF
  <2>2. /\ pull.ended = "no" => pull'.lines = pull.lines \o <<>>
        /\ pull.ended # "no" => pull'.lines = pull.lines /\ pull'.ended = pull.ended
    BY <1>0, <2>0, <2>1, EndPullMeans
  <2>3. pull.lines \o <<>> = pull.lines
    BY <1>a
  <2>4. pull'.lines = pull.lines /\ (L => LN)
    BY <2>1, <2>2, <2>3
  <2> QED BY <1>e, <1>s, <2>1, <2>4
<1>16. CASE PullClosed
  <2>0. <<>> \in Seq(Nat)
    OBVIOUS
  <2>1. client' = client /\ app' = app /\ EndPull(<<>>) /\ pull.at = "open"
    BY <1>16 DEF PullClosed
  <2>2. /\ pull.ended = "no" => pull'.lines = pull.lines \o <<>>
        /\ pull.ended # "no" => pull'.lines = pull.lines /\ pull'.ended = pull.ended
    BY <1>0, <2>0, <2>1, EndPullMeans
  <2>3. pull.lines \o <<>> = pull.lines
    BY <1>a
  <2>4. pull'.lines = pull.lines /\ (L => LN)
    BY <2>1, <2>2, <2>3
  <2> QED BY <1>e, <1>s, <2>1, <2>4
<1>17. CASE PullCut
  <2>1. PICK k \in 0..Len(pull.lines) :
          pull' = [pull EXCEPT !.lines = SubSeq(pull.lines, 1, k), !.ended = "error",
                               !.at = IF pull.at = "sent" THEN "left" ELSE pull.at]
    BY <1>17 DEF PullCut
  <2>2. client' = client /\ app' = app
    BY <1>17 DEF PullCut
  <2>3. pull'.lines = SubSeq(pull.lines, 1, k) /\ pull'.ended = "error"
    BY <1>0, <2>1 DEF Pulls
  <2>4. /\ pull.lines = pull'.lines \o SubSeq(pull.lines, k + 1, Len(pull.lines))
        /\ SubSeq(pull.lines, k + 1, Len(pull.lines)) \in Seq(Nat)
    BY <1>a, <2>3, CutInTwo
  <2>5. PICK r \in Seq(Nat) : Filled(pull.lines) = Filled(pull'.lines) \o r
    <3> DEFINE t == SubSeq(pull.lines, k + 1, Len(pull.lines))
    <3>1. t \in Seq(Nat) /\ pull.lines = pull'.lines \o t
      BY <2>4
    <3> HIDE DEF t
    <3>2. Filled(pull'.lines \o t) = Filled(pull'.lines) \o Filled(t) /\ Filled(t) \in Seq(Nat)
      BY <1>b, <3>1, FilledParts
    <3> QED BY <3>1, <3>2
  <2>6. Blocks = Blocks' \o r
    <3>1. Row(client.got, client.rxc, Filled(pull'.lines) \o r)
            = Row(client.got, client.rxc, Filled(pull'.lines)) \o r
      BY <1>t, Zenon
    <3>2. Blocks = Row(client.got, client.rxc, Filled(pull'.lines) \o r)
      BY <1>a, <2>5, Zenon
    <3>3. Blocks' = Row(client.got, client.rxc, Filled(pull'.lines))
      BY <1>b, <2>2
    <3> QED BY <3>1, <3>2, <3>3, Zenon
  <2>7. Counts(Blocks') /\ Len(Blocks') <= Len(Blocks) /\ Len(Blocks) \in Nat /\ Len(Blocks') \in Nat
    <3>1. Counts(Blocks' \o r)
      BY <1>c, <2>6, Zenon
    <3>2. \A a, b \in Seq(Nat) : Counts(a \o b) =>
            Counts(a) /\ Len(a) <= Len(a \o b) /\ Len(a) \in Nat /\ Len(a \o b) \in Nat
      BY CountsBefore
    <3> QED BY <1>b, <2>6, <3>1, <3>2, Zenon
  <2>8. Len(Blocks') <= app'.n
    BY <1>a, <1>c, <2>2, <2>7
  <2> QED BY <1>d, <2>3, <2>7, <2>8
<1>18. CASE PullBroken
  <2>1. client' = client /\ app' = app /\ pull.ended = "error" /\ pull.at = "open"
    BY <1>18 DEF PullBroken
  <2>2. CASE client.loop = "pulling"
    <3>1. pull'.lines = pull.lines /\ pull'.ended = "error"
      BY <1>18, <1>0, <2>1, <2>2 DEF PullBroken, Pulls
    <3> QED BY <1>e, <1>s, <2>1, <3>1
  <2>3. CASE client.loop # "pulling"
    <3>1. pull' = NoPull /\ client.loop = "ended" /\ client.closed
      BY <1>18, <1>0, <1>p, <2>1, <2>3, ClientSets DEF PullBroken, PullOK
    <3>2. pull'.lines = <<>> /\ pull'.at = "none"
      BY <3>1, NoPullIs
    <3>3. Blocks = Blocks' \o Filled(pull.lines)
      <4>1. Blocks = Row(client.got, client.rxc, <<>>) \o Filled(pull.lines)
        BY <1>a, RowIs, Zenon
      <4>2. Blocks' = Row(client.got, client.rxc, <<>>)
        BY <1>b, <1>f, <2>1, <3>2, Zenon
      <4> QED BY <4>1, <4>2, Zenon
    <3>4. Counts(Blocks') /\ Len(Blocks') <= Len(Blocks) /\ Len(Blocks) \in Nat /\ Len(Blocks') \in Nat
      <4>1. Counts(Blocks' \o Filled(pull.lines))
        BY <1>c, <3>3, Zenon
      <4>2. \A a, b \in Seq(Nat) : Counts(a \o b) =>
              Counts(a) /\ Len(a) <= Len(a \o b) /\ Len(a) \in Nat /\ Len(a \o b) \in Nat
        BY CountsBefore
      <4> QED BY <1>a, <1>b, <3>3, <4>1, <4>2, Zenon
    <3>5. Len(Blocks') <= app'.n
      BY <1>a, <1>c, <2>1, <3>4
    <3> QED BY <1>d, <2>1, <3>1, <3>2, <3>4, <3>5
  <2> QED BY <2>2, <2>3
<1>19. CASE Scan
  <2>0. /\ pull.lines # <<>> /\ app' = app /\ client.loop = "pulling"
        /\ pull'.ended = pull.ended /\ pull'.at = pull.at
    BY <1>19, <1>0 DEF Scan, Pulls
  <2>1. CASE Head(pull.lines) = Blank /\ pull'.lines = Tail(pull.lines) /\ client' = client
    <3>1. Filled(pull'.lines) = Filled(pull.lines)
      BY <1>a, <2>0, <2>1, FilledHead
    <3>2. Blocks' = Blocks
      BY <1>a, <1>b, <2>1, <3>1, Zenon
    <3> QED BY <1>e, <2>0, <2>1, <3>2
  <2>2. CASE /\ Head(pull.lines) # Blank /\ pull'.lines = Tail(pull.lines)
             /\ client'.got = client.got /\ client'.rxc = Append(client.rxc, Head(pull.lines))
             /\ client'.closed = client.closed /\ client'.loop = client.loop
    <3> DEFINE x == Head(pull.lines)
    <3>1. x \in Nat /\ Filled(pull.lines) = <<x>> \o Filled(pull'.lines)
      BY <1>a, <2>0, <2>2, FilledHead
    <3>2. client'.got = client.got /\ client'.rxc = Append(client.rxc, x)
      BY <2>2
    <3>0. x \in Nat
      BY <3>1
    <3> HIDE DEF x
    <3>6. Blocks' = Blocks
      <4>1. Row(client.got, Append(client.rxc, x), Filled(pull'.lines))
              = Row(client.got, client.rxc, <<x>> \o Filled(pull'.lines))
        BY <1>t, <3>0, Zenon
      <4>2. Blocks = Row(client.got, client.rxc, <<x>> \o Filled(pull'.lines))
        BY <1>a, <3>1, Zenon
      <4>3. Blocks' = Row(client.got, Append(client.rxc, x), Filled(pull'.lines))
        BY <1>b, <3>2
      <4> QED BY <4>1, <4>2, <4>3, Zenon
    <3> QED BY <1>e, <2>0, <2>2, <3>6
  <2>3. CASE /\ client'.got = client.got /\ client'.rxc = client.rxc /\ pull' = pull
             /\ client.closed /\ client'.closed = client.closed /\ client'.loop = "ended"
    BY <1>e, <1>s, <2>0, <2>3
  <2> QED BY <1>19, <1>0, <2>1, <2>2, <2>3 DEF Scan, Clients, Pulls
<1>20. CASE PullDone
  <2>1. /\ pull.lines = <<>> /\ app' = app /\ client.loop = "pulling"
        /\ client'.got = client.got /\ client'.rxc = client.rxc
        /\ pull.ended = "error" => client'.closed /\ client'.loop = "ended"
        /\ pull' = pull \/ pull' = NoPull
    BY <1>20, <1>0 DEF PullDone, Clients
  <2>2. pull'.lines = pull.lines /\ (L => LN)
    BY <2>1, NoPullIs
  <2> QED BY <1>e, <1>s, <2>1, <2>2
<1>21. CASE Read
  <2>1. /\ client.rxc # <<>> /\ app' = app /\ pull' = pull
        /\ client'.got = Append(client.got, Head(client.rxc)) /\ client'.rxc = Tail(client.rxc)
        /\ client'.loop = client.loop /\ client'.closed = client.closed
    BY <1>21, <1>0 DEF Read, Clients
  <2>3. Blocks' = Blocks
    <3>1. Row(Append(client.got, Head(client.rxc)), Tail(client.rxc), Filled(pull.lines)) = Blocks
      BY <1>a, <2>1, RowRead
    <3>2. Blocks' = Row(Append(client.got, Head(client.rxc)), Tail(client.rxc), Filled(pull.lines))
      BY <1>b, <2>1
    <3> QED BY <3>1, <3>2
  <2> QED BY <1>e, <2>1, <2>3
<1>22. CASE ClientClose
  <2>1. /\ client'.got = client.got /\ client'.rxc = client.rxc /\ pull'.lines = pull.lines
        /\ app'.n = app.n /\ (L => LN)
    BY <1>22, <1>0, <1>p DEF ClientClose, Clients
  <2> QED BY <1>e, <1>s, <2>1
<1>23. CASE AppClose
  <2>1. /\ client'.got = client.got /\ client'.rxc = client.rxc /\ pull'.lines = pull.lines
        /\ app'.n = app.n /\ (L => LN)
    BY <1>23, <1>0, <1>p DEF AppClose
  <2> QED BY <1>e, <1>s, <2>1
<1> QED
  BY <1>1, <1>2, <1>3, <1>4, <1>5, <1>6, <1>7, <1>8, <1>9, <1>10, <1>11, <1>12, <1>13, <1>14,
     <1>15, <1>16, <1>17, <1>18, <1>19, <1>20, <1>21, <1>22, <1>23, Zenon DEF PhtNext

----------------------------------------------------------------------------
(* The application gets block after block. *)
LEMMA UpStep ==
  ASSUME PHTAssumption, PhtShape, UpOK, PhtNext
  PROVE  UpOK'
<1>a. /\ writer \in Writers /\ push \in Pushes /\ app \in Apps
      /\ writer.n \in Nat /\ push.data \in Nat /\ app.got \in Seq(Nat)
      /\ writer.st \in {"ready", "waiting", "failed"} /\ push.at \in {"none", "sent", "writing", "done"}
      /\ NoPush.at = "none"
  BY WriterSets, PushSets, PipeAppSets DEF PhtShape
<1>b. UpOK
  OBVIOUS
<1>c. TRUE \in BOOLEAN /\ FALSE \in BOOLEAN
  OBVIOUS
<1>d. ASSUME UNCHANGED <<writer, push>>, app'.got = app.got
      PROVE  UpOK'
  BY <1>d DEF UpOK, GotUpTo
(* The push request ends, or is given up by a client that waited for it. *)
<1>e. ASSUME push' = NoPush \/ push' = push, PushAnswer(FALSE), app'.got = app.got,
             push.at = "none" => push' = push,
             push' = push => push.at # "none" /\ writer.st = "waiting"
      PROVE  UpOK'
  <2>1. /\ writer'.n = writer.n
        /\ writer.st # "waiting" => writer' = writer
        /\ writer.st = "waiting" => writer'.st = "failed"
    BY <1>a, <1>c, <1>e, AnswerMeans
  <2> QED BY <1>a, <1>b, <1>e, <2>1 DEF UpOK, GotUpTo
<1>1. CASE Authorize
  BY <1>1, <1>d DEF Authorize
<1>2. CASE OthersQueue
  BY <1>2, <1>d DEF OthersQueue
<1>3. CASE AcceptConn
  BY <1>3, <1>a, <1>d DEF AcceptConn, Apps
<1>4. CASE Write
  <2>1. /\ writer.st = "ready" /\ app' = app
        /\ writer'.st = "waiting" /\ writer'.n = writer.n + 1
        /\ push'.at = "sent" /\ push'.data = writer.n + 1
    BY <1>4 DEF Write
  <2>2. writer.n + 1 > 0 /\ writer.n + 1 - 1 = writer.n
    BY <1>a
  <2>3. GotUpTo(writer.n)
    BY <1>b, <2>1 DEF UpOK
  <2> QED BY <1>a, <2>1, <2>2, <2>3 DEF UpOK, GotUpTo
<1>5. CASE HandlePush
  <2>1. CASE known
    <3>1. writer' = writer /\ app' = app /\ push.at = "sent" /\ push'.at = "writing" /\ push'.data = push.data
      BY <1>5, <1>a, <2>1 DEF HandlePush, Pushes
    <3> QED BY <1>b, <3>1 DEF UpOK, GotUpTo
  <2>2. CASE ~known
    BY <1>5, <1>a, <1>e, <2>2 DEF HandlePush
  <2> QED BY <2>1, <2>2
<1>6. CASE AppRead
  <2>1. /\ push.at = "writing" /\ writer' = writer /\ push'.at = "done" /\ push'.data = push.data
        /\ app'.got = Append(app.got, push.data)
    BY <1>6, <1>a DEF AppRead, Pushes, Apps
  <2>2. GotUpTo(writer.n - 1) /\ push.data = writer.n /\ writer.n > 0
    BY <1>b, <2>1 DEF UpOK
  <2>3. Len(app'.got) = writer.n /\ \A i \in 1..writer.n : app'.got[i] = i
    BY <1>a, <2>1, <2>2 DEF GotUpTo
  <2> QED BY <1>a, <1>b, <2>1, <2>2, <2>3 DEF UpOK, GotUpTo
<1>7. CASE PushAnswered
  <2>1. push.at = "done" /\ push' = NoPush /\ app' = app /\ PushAnswer(TRUE)
    BY <1>7 DEF PushAnswered
  <2>2. /\ writer'.n = writer.n
        /\ writer.st # "waiting" => writer' = writer
        /\ writer.st = "waiting" => writer'.st = "ready"
    BY <1>a, <1>c, <2>1, AnswerMeans
  <2> QED BY <1>a, <1>b, <2>1, <2>2 DEF UpOK, GotUpTo
<1>8. CASE PushTimeout
  BY <1>8, <1>a, <1>e DEF PushTimeout
<1>9. CASE PushCut
  BY <1>9, <1>a, <1>e DEF PushCut
<1>10. CASE PushLost
  <2>1. /\ push' \in {push, NoPush} /\ push.at # "none" /\ writer.st = "waiting"
        /\ app' = app /\ PushAnswer(FALSE)
    BY <1>10 DEF PushLost
  <2> QED BY <1>e, <2>1
<1>11. CASE Pull
  BY <1>11, <1>d DEF Pull
<1>12. CASE HandlePull
  BY <1>12, <1>d DEF HandlePull
<1>13. CASE AppWrite
  BY <1>13, <1>a, <1>d DEF AppWrite, Apps
<1>14. CASE PullDeadline
  BY <1>14, <1>d DEF PullDeadline
<1>15. CASE PullEOF
  BY <1>15, <1>d DEF PullEOF
<1>16. CASE PullClosed
  BY <1>16, <1>d DEF PullClosed
<1>17. CASE PullCut
  BY <1>17, <1>d DEF PullCut
<1>18. CASE PullBroken
  BY <1>18, <1>d DEF PullBroken
<1>19. CASE Scan
  BY <1>19, <1>d DEF Scan
<1>20. CASE PullDone
  BY <1>20, <1>d DEF PullDone
<1>21. CASE Read
  BY <1>21, <1>d DEF Read
<1>22. CASE ClientClose
  BY <1>22, <1>d DEF ClientClose
<1>23. CASE AppClose
  BY <1>23, <1>d DEF AppClose
<1> QED
  BY <1>1, <1>2, <1>3, <1>4, <1>5, <1>6, <1>7, <1>8, <1>9, <1>10, <1>11, <1>12, <1>13, <1>14,
     <1>15, <1>16, <1>17, <1>18, <1>19, <1>20, <1>21, <1>22, <1>23, Zenon DEF PhtNext

LEMMA PhtStart == PHTAssumption /\ PhtInit => PhtIInv
<1> SUFFICES ASSUME PHTAssumption, PhtInit PROVE PhtIInv
  OBVIOUS
<1> DEFINE e == <<>>
<1>1. e \in Seq(Nat) /\ Len(e) = 0 /\ (e \o e) \o e = e /\ Filled(e) = e
  <2>1. e \in Seq(Nat) /\ Len(e) = 0 /\ (e \o e) \o e = e
    OBVIOUS
  <2> QED BY <2>1, FilledParts
<1>2. /\ client = [phase |-> "new", closed |-> FALSE, loop |-> "off", rxc |-> e, got |-> e]
      /\ writer = [st |-> "ready", n |-> 0, acked |-> 0]
      /\ push = [at |-> "none", data |-> 0]
      /\ pull = [at |-> "none", lines |-> e, seen |-> FALSE, ended |-> "no"]
      /\ known = FALSE /\ pipe = [c1 |-> FALSE, c2 |-> FALSE]
      /\ app = [on |-> FALSE, got |-> e, n |-> 0] /\ queue = 0
  BY DEF PhtInit, NoPush, NoPull
<1>3. NoPull = [at |-> "none", lines |-> e, seen |-> FALSE, ended |-> "no"]
  BY DEF NoPull
<1> HIDE DEF e
<1>4. PhtShape
  <2>0. e \in Seq(Nat) /\ 0 \in Nat /\ FALSE \in BOOLEAN
    BY <1>1
  <2>1. client \in Clients
    BY <1>2, <2>0 DEF Clients
  <2>2. writer \in Writers /\ push \in Pushes
    BY <1>2 DEF Writers, Pushes
  <2>3. pull \in Pulls
    BY <1>2, <2>0 DEF Pulls
  <2>4. pipe \in Pipes /\ app \in Apps
    BY <1>2, <2>0 DEF Pipes, Apps
  <2> QED BY <2>1, <2>2, <2>3, <2>4 DEF PhtShape
<1>5. PhtTypeOK
  <2>0. RxCap \in Nat /\ Backlog \in Nat /\ 0 \in 0..Backlog
    BY PHTAssumption DEF PHTAssumption
  <2>1. /\ client.phase = "new" /\ client.closed = FALSE /\ client.loop = "off"
        /\ client.rxc = e /\ writer.st = "ready" /\ push.at = "none"
        /\ pull.at = "none" /\ pull.ended = "no" /\ known = FALSE /\ queue = 0
    BY <1>2
  <2>2. Len(client.rxc) <= RxCap
    BY <1>1, <2>0, <2>1
  <2> QED BY <2>0, <2>1, <2>2 DEF PhtTypeOK
<1>6. PullOK
  BY <1>1, <1>2, <1>3 DEF PullOK
<1>7. DownOK
  <2>1. Blocks = e
    BY <1>1, <1>2, <1>4, BlocksAre DEF Row
  <2>2. Len(Blocks) = 0 /\ app.n = 0 /\ 1..0 = {}
    BY <1>1, <1>2, <2>1
  <2> QED BY <2>2 DEF DownOK
<1>8. UpOK
  BY <1>1, <1>2 DEF UpOK, GotUpTo
<1> QED BY <1>4, <1>5, <1>6, <1>7, <1>8 DEF PhtIInv

LEMMA PhtStep ==
  ASSUME PHTAssumption, PhtIInv, PhtNext
  PROVE  PhtIInv'
<1>1. PhtTypeOK /\ PhtShape /\ PullOK /\ DownOK /\ UpOK
  BY DEF PhtIInv
<1>2. PhtShape'
  BY <1>1, PhtShapeStep
<1>3. PhtTypeOK' /\ PullOK' /\ DownOK' /\ UpOK'
  BY <1>1, <1>2, PhtTypeStep, PullStep, DownStep, UpStep
<1> QED BY <1>2, <1>3 DEF PhtIInv

LEMMA PhtUntouched ==
  ASSUME PhtIInv, UNCHANGED phtVars
  PROVE  PhtIInv'
BY DEF phtVars, PhtIInv, PhtTypeOK, PhtShape, PullOK, DownOK, UpOK, GotUpTo, Blocks

LEMMA PhtInvMeans ==
  ASSUME PhtIInv
  PROVE  Conserved
<1>1. PhtTypeOK /\ PhtShape /\ PullOK /\ DownOK
  BY DEF PhtIInv
<1>2. Blocks \in Seq(Nat)
  BY <1>1, BlocksAre
<1>3. Blocks = [i \in 1..Len(Blocks) |-> i]
  <2>1. Blocks = [i \in 1..Len(Blocks) |-> Blocks[i]]
    BY <1>2
  <2>2. \A i \in 1..Len(Blocks) : Blocks[i] = i
    BY <1>1 DEF DownOK
  <2> QED BY <2>1, <2>2
<1>4. Len(Blocks) <= app.n /\ (client.closed \/ pull.ended = "error" \/ Len(Blocks) = app.n)
  BY <1>1 DEF DownOK
<1> QED BY <1>1, <1>3, <1>4 DEF Conserved

----------------------------------------------------------------------------
(* The steps of the tunnel are steps of Stream. *)

LEMMA FirstOnes ==
  ASSUME NEW s \in Seq(Nat), NEW n \in Nat, Len(s) = n, \A i \in 1..n : s[i] = i
  PROVE  s = Ends!FirstBlocks(n)
<1>1. s = [i \in 1..n |-> s[i]]
  OBVIOUS
<1> QED BY <1>1 DEF Ends!FirstBlocks

LEMMA StreamStart == PHTAssumption /\ PhtInit => Ends!StreamInit
BY DEF PhtInit, Ends!StreamInit, NoPush, NoPull

StreamStepOr == Ends!StreamNext \/ UNCHANGED Ends!streamVars

LEMMA StreamStep ==
  ASSUME PHTAssumption, PhtIInv, PhtIInv', PhtNext
  PROVE  StreamStepOr
<1>a. PhtShape /\ PhtShape' /\ UpOK /\ DownOK'
  BY DEF PhtIInv
<1>b. /\ client \in Clients /\ writer \in Writers /\ push \in Pushes /\ app \in Apps
      /\ writer.n \in Nat /\ push.data \in Nat /\ app.got \in Seq(Nat) /\ app.n \in Nat
      /\ client.got \in Seq(Nat) /\ client.rxc \in Seq(Nat)
  BY <1>a, ClientSets, WriterSets, PushSets, PipeAppSets DEF PhtShape
<1>c. TRUE \in BOOLEAN /\ FALSE \in BOOLEAN
  OBVIOUS
<1>q. ASSUME writer'.n = writer.n, app'.got = app.got, writer'.acked = writer.acked,
             writer'.st = writer.st, app'.n = app.n, client'.got = client.got,
             client'.closed = client.closed
      PROVE  StreamStepOr
  BY <1>q DEF StreamStepOr, Ends!streamVars
<1>r. ASSUME writer'.n = writer.n, app'.got = app.got, writer'.acked = writer.acked,
             app'.n = app.n, client'.got = client.got, client'.closed = client.closed,
             writer'.st = writer.st \/ (writer.st = "waiting" /\ writer'.st = "failed")
      PROVE  StreamStepOr
  BY <1>r, <1>q DEF StreamStepOr, Ends!StreamNext, Ends!Fail
<1>f. ASSUME PushAnswer(FALSE), UNCHANGED <<client, app>> PROVE StreamStepOr
  <2>1. /\ writer'.n = writer.n
        /\ writer.st # "waiting" => writer' = writer
        /\ writer.st = "waiting" => writer'.st = "failed" /\ writer'.acked = writer.acked
    BY <1>b, <1>c, <1>f, AnswerMeans
  <2> QED BY <1>f, <1>r, <1>q, <2>1
<1>1. CASE Authorize
  BY <1>q, <1>1, <1>b DEF Authorize, Clients
<1>2. CASE OthersQueue
  BY <1>q, <1>2 DEF OthersQueue
<1>3. CASE AcceptConn
  BY <1>q, <1>3, <1>b DEF AcceptConn, Apps
<1>4. CASE Write
  <2>1. /\ ~client.closed /\ writer.st = "ready" /\ UNCHANGED <<client, app>>
        /\ writer'.st = "waiting" /\ writer'.n = writer.n + 1 /\ writer'.acked = writer.acked
    BY <1>4 DEF Write
  <2> QED BY <2>1 DEF StreamStepOr, Ends!StreamNext, Ends!Begin
<1>5. CASE HandlePush
  <2>1. UNCHANGED <<client, app>> /\ (writer' = writer \/ PushAnswer(FALSE))
    BY <1>5 DEF HandlePush
  <2> QED BY <1>q, <1>f, <2>1
<1>6. CASE AppRead
  <2>1. /\ push.at = "writing" /\ app'.got = Append(app.got, push.data) /\ app'.n = app.n
        /\ UNCHANGED <<client, writer>> /\ writer.n > 0 /\ push.data = writer.n /\ GotUpTo(writer.n - 1)
    BY <1>6, <1>a, <1>b DEF AppRead, Apps, UpOK
  <2>2. /\ Len(app.got) = writer.n - 1 /\ writer.n - 1 \in Nat /\ writer.n \in 1..writer.n
        /\ \A i \in 1..(writer.n - 1) : app.got[i] = i
    BY <1>b, <2>1 DEF GotUpTo
  <2>3. app'.got \in Seq(Nat) /\ Len(app'.got) = writer.n /\ \A i \in 1..writer.n : app'.got[i] = i
    BY <1>b, <2>1, <2>2
  <2>4. app.got = Ends!FirstBlocks(writer.n - 1) /\ app'.got = Ends!FirstBlocks(writer.n)
    BY <1>b, <2>1, <2>2, <2>3, FirstOnes
  <2> QED BY <2>1, <2>2, <2>4 DEF StreamStepOr, Ends!StreamNext, Ends!ReadUp
<1>7. CASE PushAnswered
  <2>1. /\ push.at = "done" /\ UNCHANGED <<client, app>> /\ push.data = writer.n /\ GotUpTo(writer.n)
        /\ PushAnswer(TRUE)
    BY <1>7, <1>a DEF PushAnswered, UpOK
  <2>m. /\ writer'.n = writer.n
        /\ writer.st # "waiting" => writer' = writer
        /\ writer.st = "waiting" => writer'.st = "ready" /\ writer'.acked = push.data
    BY <1>b, <1>c, <2>1, AnswerMeans
  <2>2. CASE writer.st # "waiting"
    BY <1>q, <2>1, <2>2, <2>m
  <2>3. CASE writer.st = "waiting"
    <3>1. app.got = Ends!FirstBlocks(writer.n)
      BY <1>b, <2>1, FirstOnes DEF GotUpTo
    <3> QED BY <2>1, <2>3, <2>m, <3>1 DEF StreamStepOr, Ends!StreamNext, Ends!Succeed
  <2> QED BY <2>2, <2>3
<1>8. CASE PushTimeout
  BY <1>f, <1>8 DEF PushTimeout
<1>9. CASE PushCut
  BY <1>f, <1>9 DEF PushCut
<1>10. CASE PushLost
  BY <1>f, <1>10 DEF PushLost
<1>11. CASE Pull
  BY <1>q, <1>11, <1>b DEF Pull, Clients
<1>12. CASE HandlePull
  BY <1>q, <1>12 DEF HandlePull
<1>13. CASE AppWrite
  <2>1. UNCHANGED <<client, writer>> /\ app'.n = app.n + 1 /\ app'.got = app.got
    BY <1>13, <1>b DEF AppWrite, Apps
  <2> QED BY <2>1 DEF StreamStepOr, Ends!StreamNext, Ends!WriteDown
<1>14. CASE PullDeadline
  BY <1>q, <1>14 DEF PullDeadline
<1>15. CASE PullEOF
  BY <1>q, <1>15 DEF PullEOF
<1>16. CASE PullClosed
  BY <1>q, <1>16 DEF PullClosed
<1>17. CASE PullCut
  BY <1>q, <1>17 DEF PullCut
<1>18. CASE PullBroken
  BY <1>q, <1>18 DEF PullBroken
<1>19. CASE Scan
  BY <1>q, <1>19, <1>b DEF Scan, Clients
<1>20. CASE PullDone
  <2>0. client.closed \in BOOLEAN
    BY <1>b, ClientSets
  <2>1. /\ UNCHANGED <<writer, app>> /\ client'.got = client.got
        /\ client'.closed = client.closed \/ client'.closed = TRUE
    BY <1>20, <1>b DEF PullDone, Clients
  <2>2. client'.closed = client.closed \/ (client'.closed = TRUE /\ ~client.closed)
    BY <2>0, <2>1
  <2> QED BY <1>q, <2>1, <2>2 DEF StreamStepOr, Ends!StreamNext, Ends!Close
<1>21. CASE Read
  <2>1. /\ UNCHANGED <<writer, app>> /\ client.rxc # <<>> /\ client'.closed = client.closed
        /\ client'.got = Append(client.got, Head(client.rxc)) /\ app' = app
    BY <1>21, <1>b DEF Read, Clients
  <2>2. /\ Blocks' = Row(client'.got, client'.rxc, Filled(pull'.lines)) /\ app'.n \in Nat
        /\ client'.got \in Seq(Nat) /\ client'.rxc \in Seq(Nat) /\ Filled(pull'.lines) \in Seq(Nat)
    BY <1>a, BlocksAreThen
  <2>3. Counts(Blocks') /\ Len(Blocks') <= app'.n
    BY <1>a DEF DownOK, Counts
  <2>4. /\ Counts(client'.got) /\ Len(client'.got) <= Len(Blocks')
        /\ Len(client'.got) \in Nat /\ Len(Blocks') \in Nat
    <3>1. PICK b \in Seq(Nat) : Blocks' = client'.got \o b
      BY <2>2, RowBegins
    <3> QED BY <2>2, <2>3, <3>1, CountsBefore
  <2>5. PICK n \in Nat : n = Len(client'.got)
    BY <2>4
  <2>6. Len(client.got) \in Nat /\ n = Len(client.got) + 1
        /\ \A i \in 1..Len(client.got) : client'.got[i] = client.got[i]
    BY <1>b, <2>1, <2>5
  <2>7. n \in 1..app.n /\ n - 1 \in Nat /\ Len(client.got) = n - 1
    BY <1>b, <2>1, <2>3, <2>4, <2>5, <2>6
  <2>8. \A i \in 1..n : client'.got[i] = i
    BY <2>4, <2>5 DEF Counts
  <2>9. \A i \in 1..(n - 1) : client.got[i] = i
    <3>1. \A i \in 1..(n - 1) : i \in 1..n
      BY <2>5
    <3> QED BY <2>6, <2>7, <2>8, <3>1
  <2>10. client.got = Ends!FirstBlocks(n - 1) /\ client'.got = Ends!FirstBlocks(n)
    BY <1>b, <2>2, <2>5, <2>7, <2>8, <2>9, FirstOnes
  <2> QED BY <2>1, <2>7, <2>10 DEF StreamStepOr, Ends!StreamNext, Ends!ReadDown
<1>22. CASE ClientClose
  <2>1. UNCHANGED <<writer, app>> /\ client'.got = client.got /\ ~client.closed /\ client'.closed = TRUE
    BY <1>22, <1>b DEF ClientClose, Clients
  <2> QED BY <2>1 DEF StreamStepOr, Ends!StreamNext, Ends!Close
<1>23. CASE AppClose
  BY <1>q, <1>23 DEF AppClose
<1> QED
  BY <1>1, <1>2, <1>3, <1>4, <1>5, <1>6, <1>7, <1>8, <1>9, <1>10, <1>11, <1>12, <1>13, <1>14,
     <1>15, <1>16, <1>17, <1>18, <1>19, <1>20, <1>21, <1>22, <1>23, Zenon DEF PhtNext

----------------------------------------------------------------------------
(* Connections with a handshake on the way. *)

(* The kind of a connection is one of those that are looked at. *)
LEMMA KindParts ==
  ASSUME LazyConnAssumption, LazyShape
  PROVE  /\ kind.name \in {"ohttp", "otls", "relay", "ss", "sni"}
         /\ kind.cnow \in BOOLEAN /\ kind.snow \in BOOLEAN /\ kind.udp \in BOOLEAN
BY DEF LazyConnAssumption, LazyShape

(* The types of the two ends and of what is between them. *)
LEMMA EndTypes ==
  ASSUME LazyConnAssumption, LazyShape, NEW e \in BothEnds
  PROVE  /\ conn[e] \in Ends2 /\ Peer(e) \in BothEnds /\ Peer(Peer(e)) = e /\ Peer(e) # e
         /\ conn[e].up \in BOOLEAN /\ conn[e].wbuf \in Kepts
         /\ conn[e].rbuf \in Seq(Int) /\ conn[e].drained \in BOOLEAN /\ conn[e].shaken \in BOOLEAN
         /\ conn[e].sent \in Nat /\ conn[e].sent \in 0..MaxItems /\ conn[e].got \in Seq(Int)
         /\ conn[e].reading \in BOOLEAN /\ conn[e].open \in BOOLEAN
         /\ link[e] \in Seq(Int) /\ damaged[e] \in BOOLEAN
<1>1. conn[e] \in Ends2 /\ link[e] \in Seq(Int) /\ damaged[e] \in BOOLEAN
  BY DEF LazyShape
<1>2. /\ conn[e].up \in BOOLEAN /\ conn[e].wbuf \in Kepts
      /\ conn[e].rbuf \in Seq(Int) /\ conn[e].drained \in BOOLEAN /\ conn[e].shaken \in BOOLEAN
      /\ conn[e].sent \in 0..MaxItems /\ conn[e].got \in Seq(Int)
      /\ conn[e].reading \in BOOLEAN /\ conn[e].open \in BOOLEAN
  BY <1>1 DEF Ends2
<1>3. MaxItems \in Nat
  BY DEF LazyConnAssumption
<1>4. Peer(e) \in BothEnds /\ Peer(Peer(e)) = e /\ Peer(e) # e
  BY DEF Peer, BothEnds
<1> QED BY <1>1, <1>2, <1>3, <1>4

LEMMA TwoEnds ==
  /\ "c" \in BothEnds /\ "s" \in BothEnds /\ Peer("c") = "s" /\ Peer("s") = "c"
  /\ \A e \in BothEnds : e = "c" \/ e = "s"
BY DEF BothEnds, Peer

----------------------------------------------------------------------------
(* Units on the link: items, and what is not. *)

LEMMA ItemsParts ==
  ASSUME NEW s \in Seq(Int), NEW t \in Seq(Int)
  PROVE  /\ Items(s) \in Seq(Int) /\ Items(<<>>) = <<>>
         /\ Items(s \o t) = Items(s) \o Items(t)
<1>1. Items(s) \in Seq(Int)
  BY KeepElements DEF Items
<1>2. Items(<<>>) = <<>>
  BY KeepOne DEF Items
<1>3. Items(s \o t) = Items(s) \o Items(t)
  BY KeepConcat DEF Items
<1> QED BY <1>1, <1>2, <1>3

LEMMA PlainItems ==
  ASSUME NEW s \in Seq(Int), Plain(s)
  PROVE  Items(s) = s
<1>1. \A i \in 1..Len(s) : s[i] \in Nat \ {0}
  BY DEF Plain
<1> QED BY <1>1, KeepAll DEF Items

LEMMA NotItems == Items(<<Header>>) = <<>> /\ Items(<<Refusal>>) = <<>>
<1>1. /\ Header \in Int /\ Refusal \in Int
      /\ Header \notin Nat \ {0} /\ Refusal \notin Nat \ {0}
  BY DEF Header, Refusal
<1> QED BY <1>1, KeepOne DEF Items

Heads == {Header, Refusal}

LEMMA PlainCut ==
  ASSUME NEW s \in Seq(Int), Plain(s), NEW n \in 0..Len(s)
  PROVE  /\ SubSeq(s, 1, n) \in Seq(Int) /\ SubSeq(s, n + 1, Len(s)) \in Seq(Int)
         /\ s = SubSeq(s, 1, n) \o SubSeq(s, n + 1, Len(s))
         /\ Plain(SubSeq(s, 1, n)) /\ Plain(SubSeq(s, n + 1, Len(s)))
<1> DEFINE a == SubSeq(s, 1, n)
           b == SubSeq(s, n + 1, Len(s))
<1>1. /\ a \in Seq(Int) /\ b \in Seq(Int) /\ s = a \o b
      /\ Len(a) = n /\ Len(b) = Len(s) - n
      /\ \A i \in 1..n : a[i] = s[i]
      /\ \A i \in 1..(Len(s) - n) : b[i] = s[n + i]
  BY CutInTwo
<1> HIDE DEF a, b
<1>2. Plain(a)
  <2>1. \A i \in 1..n : i \in 1..Len(s)
    OBVIOUS
  <2> QED BY <1>1, <2>1 DEF Plain
<1>3. Plain(b)
  <2>1. \A i \in 1..(Len(s) - n) : n + i \in 1..Len(s)
    OBVIOUS
  <2> QED BY <1>1, <2>1 DEF Plain
<1> QED BY <1>1, <1>2, <1>3 DEF a, b

LEMMA Joined ==
  ASSUME NEW s \in Seq(Int), NEW t \in Seq(Int), NEW h, Plain(t)
  PROVE  /\ Plain(s) => Plain(s \o t)
         /\ Headed(s, h) => Headed(s \o t, h)
<1>1. Plain(s) => Plain(s \o t)
  BY DEF Plain
<1>2. ASSUME Headed(s, h) PROVE Headed(s \o t, h)
  <2>1. s # <<>> /\ Head(s) \in h /\ Plain(Tail(s)) /\ Tail(s) \in Seq(Int)
    BY <1>2 DEF Headed
  <2>2. s \o t # <<>> /\ Head(s \o t) = Head(s) /\ Tail(s \o t) = Tail(s) \o t
    BY <2>1
  <2>3. Plain(Tail(s) \o t)
    BY <2>1 DEF Plain
  <2> QED BY <2>1, <2>2, <2>3 DEF Headed
<1> QED BY <1>1, <1>2

LEMMA HeadedFirst ==
  ASSUME NEW t \in Seq(Int), Plain(t), NEW h, NEW x \in h, x \in Int
  PROVE  Headed(<<x>> \o t, h) /\ Headed(<<x>>, h)
<1>1. /\ <<x>> \o t # <<>> /\ Head(<<x>> \o t) = x /\ Tail(<<x>> \o t) = t
      /\ <<x>> # <<>> /\ Head(<<x>>) = x /\ Tail(<<x>>) = <<>>
  OBVIOUS
<1>2. Plain(<<>>)
  BY DEF Plain
<1> QED BY <1>1, <1>2 DEF Headed

LEMMA HeadedCut ==
  ASSUME NEW s \in Seq(Int), NEW h, h \subseteq Heads, Headed(s, h), NEW n \in 0..Len(s)
  PROVE  /\ n = 0 => SubSeq(s, 1, n) = <<>>
         /\ n > 0 => /\ Headed(SubSeq(s, 1, n), h)
                     /\ SubSeq(s, 2, n) \in Seq(Int) /\ Plain(SubSeq(s, 2, n))
                     /\ SubSeq(s, n + 1, Len(s)) \in Seq(Int) /\ Plain(SubSeq(s, n + 1, Len(s)))
                     /\ Items(s) = SubSeq(s, 2, n) \o SubSeq(s, n + 1, Len(s))
         /\ Tail(s) \in Seq(Int) /\ Plain(Tail(s)) /\ Items(s) = Tail(s) /\ Head(s) \in h
         /\ Len(s) > 0
<1>1. s # <<>> /\ Head(s) \in h /\ Plain(Tail(s)) /\ Tail(s) \in Seq(Int) /\ Head(s) \in Heads
  BY DEF Headed
<1>2. Items(s) = Tail(s)
  <2>1. Items(<<Head(s)>>) = <<>>
    BY <1>1, NotItems DEF Heads
  <2>2. <<Head(s)>> \in Seq(Int) /\ s = <<Head(s)>> \o Tail(s)
    BY <1>1
  <2>3. Items(s) = <<>> \o Items(Tail(s)) /\ Items(Tail(s)) = Tail(s)
    BY <1>1, <2>1, <2>2, ItemsParts, PlainItems
  <2> QED BY <1>1, <2>3
<1>3. \A i \in 2..Len(s) : s[i] > 0
  <2>1. \A i \in 2..Len(s) : i - 1 \in 1..Len(Tail(s)) /\ s[i] = Tail(s)[i - 1]
    BY <1>1
  <2> QED BY <1>1, <2>1 DEF Plain
<1>4. n = 0 => SubSeq(s, 1, n) = <<>>
  OBVIOUS
<1>5. ASSUME n > 0
      PROVE  /\ Headed(SubSeq(s, 1, n), h)
             /\ SubSeq(s, 2, n) \in Seq(Int) /\ Plain(SubSeq(s, 2, n))
             /\ SubSeq(s, n + 1, Len(s)) \in Seq(Int) /\ Plain(SubSeq(s, n + 1, Len(s)))
             /\ Items(s) = SubSeq(s, 2, n) \o SubSeq(s, n + 1, Len(s))
  <2>1. /\ SubSeq(s, 1, n) # <<>> /\ Head(SubSeq(s, 1, n)) = Head(s)
        /\ Tail(SubSeq(s, 1, n)) = SubSeq(s, 2, n) /\ SubSeq(s, 2, n) \in Seq(Int)
    BY <1>5
  <2>2. SubSeq(s, n + 1, Len(s)) \in Seq(Int) /\ Plain(SubSeq(s, n + 1, Len(s)))
    BY <1>3, <1>5 DEF Plain
  <2>3. Plain(SubSeq(s, 2, n))
    BY <1>3, <1>5 DEF Plain
  <2>4. Tail(s) = SubSeq(s, 2, n) \o SubSeq(s, n + 1, Len(s))
    <3> DEFINE t == Tail(s)
    <3>1. t \in Seq(Int) /\ Len(t) = Len(s) - 1 /\ n - 1 \in 0..Len(t) /\ n - 1 + 1 = n
      BY <1>1, <1>5
    <3>2. SubSeq(t, 1, n - 1) \o SubSeq(t, n, Len(t)) = t
      BY <3>1, CutInTwo
    <3>3. SubSeq(t, 1, n - 1) = SubSeq(s, 2, n)
      BY <1>1, <1>5
    <3>4. SubSeq(t, n, Len(t)) = SubSeq(s, n + 1, Len(s))
      BY <1>1, <1>5
    <3> QED BY <3>2, <3>3, <3>4
  <2> QED BY <1>1, <1>2, <2>1, <2>2, <2>3, <2>4 DEF Headed
<1>6. Len(s) > 0
  BY <1>1
<1> QED BY <1>1, <1>2, <1>4, <1>5, <1>6

LEMMA ItemsCut ==
  ASSUME NEW s \in Seq(Int), NEW n \in 0..Len(s)
  PROVE  /\ SubSeq(s, 1, n) \in Seq(Int) /\ SubSeq(s, n + 1, Len(s)) \in Seq(Int)
         /\ Items(s) = Items(SubSeq(s, 1, n)) \o Items(SubSeq(s, n + 1, Len(s)))
<1> DEFINE a == SubSeq(s, 1, n)
           b == SubSeq(s, n + 1, Len(s))
<1>1. a \in Seq(Int) /\ b \in Seq(Int) /\ a \o b = s
  BY CutInTwo
<1> HIDE DEF a, b
<1>2. Items(a \o b) = Items(a) \o Items(b)
  BY <1>1, ItemsParts
<1> QED BY <1>1, <1>2 DEF a, b

----------------------------------------------------------------------------
(* The ends stay what they are, whatever field is set. *)
LEMMA EndSets ==
  ASSUME NEW r \in Ends2
  PROVE  /\ \A x, y \in BOOLEAN : [r EXCEPT !.up = x, !.open = y] \in Ends2
         /\ [r EXCEPT !.up = TRUE] \in Ends2
         /\ \A w \in Kepts : [r EXCEPT !.wbuf = w] \in Ends2
         /\ \A w \in Kepts : [r EXCEPT !.shaken = TRUE, !.wbuf = w] \in Ends2
         /\ \A q \in Seq(Int), w \in Kepts : [r EXCEPT !.rbuf = q, !.wbuf = w] \in Ends2
         /\ [r EXCEPT !.open = FALSE] \in Ends2
         /\ [r EXCEPT !.reading = FALSE] \in Ends2
         /\ \A q \in Seq(Int) : [r EXCEPT !.drained = TRUE, !.rbuf = q] \in Ends2
         /\ \A x \in BOOLEAN : [r EXCEPT !.drained = TRUE, !.reading = x] \in Ends2
         /\ \A g \in Seq(Int) : [r EXCEPT !.got = g] \in Ends2
         /\ \A g, q \in Seq(Int) : [r EXCEPT !.got = g, !.rbuf = q] \in Ends2
         /\ \A n \in 0..MaxItems : [r EXCEPT !.sent = n] \in Ends2
BY DEF Ends2

LEMMA KeptSets == <<>> \in Kepts /\ <<Header>> \in Kepts /\ \A w \in Kepts : w # <<>> => w = <<Header>>
BY DEF Kepts

(* The state after a step at one end. *)
LEMMA OneEnd ==
  ASSUME LazyConnAssumption, LazyShape, NEW e \in BothEnds, NEW r \in Ends2,
         conn' = [conn EXCEPT ![e] = r]
  PROVE  /\ conn' \in [BothEnds -> Ends2]
         /\ conn'[e] = r /\ conn'[Peer(e)] = conn[Peer(e)]
<1>1. conn \in [BothEnds -> Ends2] /\ Peer(e) # e /\ Peer(e) \in BothEnds
  BY EndTypes DEF LazyShape
<1> QED BY <1>1

LEMMA OneLink ==
  ASSUME LazyConnAssumption, LazyShape, NEW e \in BothEnds, NEW q \in Seq(Int),
         link' = [link EXCEPT ![e] = q]
  PROVE  /\ link' \in [BothEnds -> Seq(Int)]
         /\ link'[e] = q /\ link'[Peer(e)] = link[Peer(e)]
<1>1. link \in [BothEnds -> Seq(Int)] /\ Peer(e) # e /\ Peer(e) \in BothEnds
  BY EndTypes DEF LazyShape
<1> QED BY <1>1

LEMMA TwoLinks ==
  ASSUME LazyConnAssumption, LazyShape, NEW e \in BothEnds, NEW q \in Seq(Int), NEW p \in Seq(Int),
         link' = [link EXCEPT ![e] = q, ![Peer(e)] = p]
  PROVE  /\ link' \in [BothEnds -> Seq(Int)]
         /\ link'[e] = q /\ link'[Peer(e)] = p
<1>1. link \in [BothEnds -> Seq(Int)] /\ Peer(e) # e /\ Peer(e) \in BothEnds
  BY EndTypes DEF LazyShape
<1> QED BY <1>1

LEMMA ShapeThen ==
  ASSUME LazyConnAssumption, LazyShape, kind' = kind, conn' \in [BothEnds -> Ends2],
         link' \in [BothEnds -> Seq(Int)], damaged' \in [BothEnds -> BOOLEAN]
  PROVE  LazyShape' /\ LazyTypeOK'
<1>1. LazyShape'
  BY DEF LazyShape
<1>2. \A e \in BothEnds : /\ conn'[e].sent \in 0..MaxItems /\ conn'[e].up \in BOOLEAN
                           /\ conn'[e].reading \in BOOLEAN /\ conn'[e].open \in BOOLEAN
  <2>1. \A r \in Ends2 : /\ r.sent \in 0..MaxItems /\ r.up \in BOOLEAN
                          /\ r.reading \in BOOLEAN /\ r.open \in BOOLEAN
    BY DEF Ends2
  <2> QED BY <2>1
<1> QED BY <1>1, <1>2 DEF LazyTypeOK, LazyShape

----------------------------------------------------------------------------
(* What an end has and what is on its way, in a row. *)
LEMMA AssociatesInt ==
  ASSUME NEW a \in Seq(Int), NEW b \in Seq(Int), NEW c \in Seq(Int)
  PROVE  (a \o b) \o c = a \o (b \o c)
BY ConcatAssociative

LEMMA RowType ==
  ASSUME NEW a \in Seq(Int), NEW b \in Seq(Int), NEW c \in Seq(Int)
  PROVE  Row(a, b, c) \in Seq(Int)
BY DEF Row

LEMMA RowInts ==
  ASSUME NEW a \in Seq(Int), NEW b \in Seq(Int), NEW c \in Seq(Int)
  PROVE  /\ Row(a \o b, <<>>, c) = Row(a, b, c)
         /\ Row(a, <<>>, b \o c) = Row(a, b, c)
<1>1. a \o b \in Seq(Int)
  OBVIOUS
<1>2. (a \o b) \o c \in Seq(Int) /\ (a \o b) \o <<>> = a \o b /\ a \o <<>> = a
  BY <1>1
<1>3. (a \o b) \o c = a \o (b \o c)
  BY ConcatAssociative
<1> QED BY <1>2, <1>3, Zenon DEF Row

LEMMA WholeIs ==
  ASSUME LazyConnAssumption, LazyShape, NEW e \in BothEnds
  PROVE  /\ Whole(e) = Row(conn[Peer(e)].got, conn[Peer(e)].rbuf, Items(link[e]))
         /\ Whole(e) \in Seq(Int) /\ Len(Whole(e)) \in Nat
         /\ conn[Peer(e)].got \in Seq(Int) /\ conn[Peer(e)].rbuf \in Seq(Int)
         /\ Items(link[e]) \in Seq(Int)
<1>1. conn[Peer(e)].got \in Seq(Int) /\ conn[Peer(e)].rbuf \in Seq(Int) /\ link[e] \in Seq(Int)
  <2>1. Peer(e) \in BothEnds
    BY EndTypes
  <2> QED BY <2>1, EndTypes
<1>2. Items(link[e]) \in Seq(Int)
  BY <1>1, ItemsParts
<1>3. Whole(e) = Row(conn[Peer(e)].got, conn[Peer(e)].rbuf, Items(link[e]))
  BY DEF Whole, Row
<1>4. Whole(e) \in Seq(Int)
  BY <1>1, <1>2, <1>3, RowType
<1>5. Len(Whole(e)) \in Nat
  BY <1>4
<1> QED BY <1>1, <1>2, <1>3, <1>4, <1>5

LEMMA WholeThen ==
  ASSUME LazyConnAssumption, LazyShape', NEW e \in BothEnds
  PROVE  /\ Whole(e)' = Row(conn'[Peer(e)].got, conn'[Peer(e)].rbuf, Items(link'[e]))
         /\ Whole(e)' \in Seq(Int) /\ Len(Whole(e)') \in Nat
         /\ conn'[Peer(e)].got \in Seq(Int) /\ conn'[Peer(e)].rbuf \in Seq(Int)
         /\ Items(link'[e]) \in Seq(Int)
<1>1. conn'[Peer(e)].got \in Seq(Int) /\ conn'[Peer(e)].rbuf \in Seq(Int) /\ link'[e] \in Seq(Int)
  <2>1. Peer(e) \in BothEnds
    BY DEF Peer, BothEnds
  <2>2. conn'[Peer(e)] \in Ends2 /\ link'[e] \in Seq(Int)
    BY <2>1 DEF LazyShape
  <2> QED BY <2>2 DEF Ends2
<1>2. Items(link'[e]) \in Seq(Int)
  BY <1>1, ItemsParts
<1>3. Whole(e)' = Row(conn'[Peer(e)].got, conn'[Peer(e)].rbuf, Items(link'[e]))
  BY DEF Whole, Row
<1>4. Whole(e)' \in Seq(Int)
  BY <1>1, <1>2, <1>3, RowType
<1>5. Len(Whole(e)') \in Nat
  BY <1>4
<1> QED BY <1>1, <1>2, <1>3, <1>4, <1>5

(* The order stays when nothing is lost, when the end is lost and nothing is
   promised any more, and when the next items are written. *)
LEMMA OrderKept ==
  ASSUME LazyConnAssumption, LazyShape, LazyShape', NEW e \in BothEnds, InOrder(e),
         damaged'[e] \/ (/\ Whole(e)' = Whole(e) /\ conn'[e].sent = conn[e].sent
                         /\ NobodyCloses' => NobodyCloses),
         damaged[e] => damaged'[e]
  PROVE  InOrder(e)'
BY DEF InOrder

LEMMA OrderCut ==
  ASSUME LazyConnAssumption, LazyShape, LazyShape', NEW e \in BothEnds, InOrder(e),
         NEW r \in Seq(Int), Whole(e) = Whole(e)' \o r, conn'[e].sent = conn[e].sent,
         ~NobodyCloses', damaged'[e] = damaged[e]
  PROVE  InOrder(e)'
<1>1. CASE damaged[e]
  BY <1>1 DEF InOrder
<1>2. CASE ~damaged[e]
  <2>1. /\ \A i \in 1..Len(Whole(e)) : Whole(e)[i] = i
        /\ Len(Whole(e)) <= conn[e].sent /\ conn[e].sent \in Nat
    BY <1>2, EndTypes DEF InOrder
  <2> DEFINE a == Whole(e)'
             b == Whole(e)
  <2>2. a \in Seq(Int) /\ b \in Seq(Int) /\ b = a \o r
    BY WholeIs, WholeThen
  <2> HIDE DEF a, b
  <2>3. Len(b) = Len(a) + Len(r) /\ Len(a) \in Nat /\ Len(r) \in Nat /\ \A i \in 1..Len(a) : a[i] = b[i]
    BY <2>2
  <2>4. /\ \A i \in 1..Len(b) : b[i] = i
        /\ Len(b) <= conn[e].sent
    BY <2>1 DEF b
  <2>5. (\A i \in 1..Len(a) : a[i] = i) /\ Len(a) <= conn[e].sent
    BY <2>1, <2>3, <2>4
  <2> QED BY <2>5 DEF InOrder, a
<1> QED BY <1>1, <1>2

LEMMA OrderOn ==
  ASSUME LazyConnAssumption, LazyShape, LazyShape', NEW e \in BothEnds, InOrder(e),
         NEW n \in Nat, NEW items \in Seq(Int), Len(items) = n,
         \A i \in 1..n : items[i] = conn[e].sent + i,
         Whole(e)' = Whole(e) \o items, conn'[e].sent = conn[e].sent + n,
         NobodyCloses, damaged[e] => damaged'[e]
  PROVE  InOrder(e)'
<1>1. CASE damaged[e]
  BY <1>1 DEF InOrder
<1>2. CASE ~damaged[e]
  <2>1. /\ \A i \in 1..Len(Whole(e)) : Whole(e)[i] = i
        /\ Len(Whole(e)) = conn[e].sent /\ conn[e].sent \in Nat
    BY <1>2, EndTypes DEF InOrder
  <2> DEFINE a == Whole(e)
             b == Whole(e)'
  <2>2. a \in Seq(Int) /\ b = a \o items
    BY WholeIs
  <2>3. /\ \A i \in 1..Len(a) : a[i] = i
        /\ Len(a) = conn[e].sent
    BY <2>1
  <2> HIDE DEF a, b
  <2>4. /\ Len(b) = Len(a) + n /\ \A i \in 1..Len(a) : b[i] = a[i]
        /\ \A i \in (Len(a) + 1)..(Len(a) + n) : b[i] = items[i - Len(a)]
    BY <2>2
  <2>5. (\A i \in 1..Len(b) : b[i] = i) /\ Len(b) = conn'[e].sent
    <3>1. Len(a) \in Nat /\ Len(b) = conn'[e].sent
      BY <2>1, <2>3, <2>4
    <3>2. ASSUME NEW i \in 1..Len(b) PROVE b[i] = i
      <4>1. CASE i <= Len(a)
        BY <2>3, <2>4, <3>1, <4>1
      <4>2. CASE i > Len(a)
        <5>1. i \in (Len(a) + 1)..(Len(a) + n) /\ i - Len(a) \in 1..n /\ i \in Int
          BY <2>4, <3>1, <4>2
        <5>2. b[i] = items[i - Len(a)] /\ items[i - Len(a)] = conn[e].sent + (i - Len(a))
          BY <2>4, <5>1
        <5> QED BY <2>1, <2>3, <5>1, <5>2
      <4> QED BY <3>1, <4>1, <4>2
    <3> QED BY <3>1, <3>2
  <2>6. conn'[e].sent \in Nat
    BY <2>1
  <2> QED BY <2>5, <2>6 DEF InOrder, b
<1> QED BY <1>1, <1>2

(* The same, by what happens to the link and the ends. *)
LEMMA OrderSame ==
  ASSUME LazyConnAssumption, LazyShape, LazyShape', NEW e \in BothEnds, InOrder(e),
         conn'[Peer(e)].got = conn[Peer(e)].got, conn'[Peer(e)].rbuf = conn[Peer(e)].rbuf,
         Items(link'[e]) = Items(link[e]), conn'[e].sent = conn[e].sent,
         NobodyCloses' => NobodyCloses, damaged[e] => damaged'[e]
  PROVE  InOrder(e)'
<1>1. Whole(e)' = Whole(e)
  BY WholeIs, WholeThen
<1> QED BY <1>1, OrderKept

LEMMA OrderLost ==
  ASSUME LazyConnAssumption, LazyShape, LazyShape', NEW e \in BothEnds, InOrder(e),
         conn'[Peer(e)].got = conn[Peer(e)].got, conn'[Peer(e)].rbuf = conn[Peer(e)].rbuf,
         NEW r \in Seq(Int), Items(link[e]) = Items(link'[e]) \o r, conn'[e].sent = conn[e].sent,
         ~NobodyCloses', damaged'[e] = damaged[e]
  PROVE  InOrder(e)'
<1> DEFINE g == conn[Peer(e)].got
           b == conn[Peer(e)].rbuf
           l == Items(link'[e])
<1>1. g \in Seq(Int) /\ b \in Seq(Int) /\ l \in Seq(Int)
  BY WholeIs, WholeThen
<1>2. Whole(e) = Row(g, b, l \o r) /\ Whole(e)' = Row(g, b, l)
  <2>1. Whole(e) = Row(g, b, l \o r)
    BY WholeIs
  <2>2. Whole(e)' = Row(g, b, l)
    BY WholeThen
  <2> QED BY <2>1, <2>2
<1> HIDE DEF g, b, l
<1> DEFINE h == g \o b
<1>3. h \in Seq(Int) /\ Row(g, b, l \o r) = h \o (l \o r) /\ Row(g, b, l) = h \o l
  BY <1>1 DEF Row
<1> HIDE DEF h
<1>4. h \o (l \o r) = (h \o l) \o r
  BY <1>1, <1>3, AssociatesInt
<1>5. Whole(e) = Whole(e)' \o r
  BY <1>2, <1>3, <1>4, Zenon
<1> QED BY <1>5, OrderCut

LEMMA OrderMoved ==
  ASSUME LazyConnAssumption, LazyShape, LazyShape', NEW e \in BothEnds, InOrder(e),
         conn[Peer(e)].rbuf = <<>>, NEW x \in Seq(Int), Items(link[e]) = x \o Items(link'[e]),
         \/ conn'[Peer(e)].got = conn[Peer(e)].got /\ conn'[Peer(e)].rbuf = x
         \/ conn'[Peer(e)].got = conn[Peer(e)].got \o x /\ conn'[Peer(e)].rbuf = <<>>,
         conn'[e].sent = conn[e].sent,
         NobodyCloses' => NobodyCloses, damaged[e] => damaged'[e]
  PROVE  InOrder(e)'
<1> DEFINE g == conn[Peer(e)].got
           l == Items(link'[e])
<1>1. g \in Seq(Int) /\ l \in Seq(Int)
  BY WholeIs, WholeThen
<1>2. Whole(e) = Row(g, <<>>, x \o l)
  BY WholeIs
<1>3. Whole(e)' = Row(g, x, l) \/ Whole(e)' = Row(g \o x, <<>>, l)
  BY WholeThen
<1> HIDE DEF g, l
<1>4. Row(g \o x, <<>>, l) = Row(g, x, l) /\ Row(g, <<>>, x \o l) = Row(g, x, l)
  BY <1>1, RowInts
<1>5. Whole(e)' = Whole(e)
  BY <1>2, <1>3, <1>4, Zenon
<1> QED BY <1>5, OrderKept

----------------------------------------------------------------------------
(* What holds before a step, and what is to be shown after it. *)
LEMMA LazyNow ==
  ASSUME LazyConnAssumption, LazyIInv
  PROVE  /\ LazyShape /\ BufferOK /\ RequestOK /\ ResponseOK /\ InOrder("c") /\ InOrder("s")
         /\ "c" \in BothEnds /\ "s" \in BothEnds /\ Peer("c") = "s" /\ Peer("s") = "c"
         /\ conn["c"] \in Ends2 /\ conn["s"] \in Ends2
         /\ link["c"] \in Seq(Int) /\ link["s"] \in Seq(Int)
         /\ conn \in [BothEnds -> Ends2] /\ link \in [BothEnds -> Seq(Int)]
         /\ damaged \in [BothEnds -> BOOLEAN]
<1>1. LazyShape
  BY DEF LazyIInv
<1> QED BY <1>1, TwoEnds DEF LazyIInv, LazyShape

LEMMA LazyThen ==
  ASSUME LazyShape', LazyTypeOK', BufferOK', RequestOK', ResponseOK', InOrder("c")', InOrder("s")'
  PROVE  LazyIInv'
BY DEF LazyIInv

LEMMA TakeResponseStep ==
  ASSUME LazyConnAssumption, LazyIInv, TakeResponse
  PROVE  LazyIInv'
<1>a. /\ LazyShape /\ BufferOK /\ RequestOK /\ ResponseOK /\ InOrder("c") /\ InOrder("s")
      /\ "c" \in BothEnds /\ "s" \in BothEnds /\ Peer("c") = "s" /\ Peer("s") = "c"
      /\ conn["c"] \in Ends2 /\ conn["s"] \in Ends2
      /\ link["c"] \in Seq(Int) /\ link["s"] \in Seq(Int)
      /\ conn \in [BothEnds -> Ends2] /\ link \in [BothEnds -> Seq(Int)]
      /\ damaged \in [BothEnds -> BOOLEAN]
  BY LazyNow
<1>k. kind.name \in {"ohttp", "otls", "relay", "ss", "sni"} /\ kind.cnow \in BOOLEAN
  BY <1>a, KindParts
<1> DEFINE ok == (Head(link["s"]) = Header)
           r == [conn["c"] EXCEPT !.up = ok, !.open = ok]
<1>1. /\ ~conn["c"].up /\ conn["c"].open /\ kind' = kind /\ damaged' = damaged
      /\ link["s"] # <<>>
      /\ link' = [link EXCEPT !["s"] = Tail(link["s"])]
  BY DEF TakeResponse
<1>2. conn' = [conn EXCEPT !["c"] = r]
  BY <1>a DEF TakeResponse
<1>3. ok \in BOOLEAN
  OBVIOUS
<1> HIDE DEF ok
<1>4. /\ r \in Ends2 /\ r.up = ok /\ r.open = ok /\ r.wbuf = conn["c"].wbuf /\ r.rbuf = conn["c"].rbuf
      /\ r.drained = conn["c"].drained /\ r.shaken = conn["c"].shaken /\ r.sent = conn["c"].sent
      /\ r.got = conn["c"].got
  BY <1>a, <1>3 DEF Ends2
<1> HIDE DEF r
<1>5. kind.name = "relay" /\ kind.cnow /\ Awaits
  BY <1>a, <1>1 DEF BufferOK, Awaits
<1>6. Headed(link["s"], Heads) /\ (conn["s"].open => ~Silent)
  BY <1>a, <1>1, <1>5 DEF ResponseOK, Heads
<1>7. Tail(link["s"]) \in Seq(Int) /\ Plain(Tail(link["s"])) /\ Items(link["s"]) = Tail(link["s"])
  <2>1. 0 \in 0..Len(link["s"])
    BY <1>a
  <2> QED BY <1>a, <1>6, <2>1, HeadedCut
<1>8. Items(Tail(link["s"])) = Tail(link["s"])
  BY <1>7, PlainItems
<1>9. /\ conn' \in [BothEnds -> Ends2] /\ conn'["c"] = r /\ conn'["s"] = conn["s"]
  BY <1>a, <1>2, <1>4, OneEnd
<1>10. /\ link' \in [BothEnds -> Seq(Int)] /\ link'["s"] = Tail(link["s"]) /\ link'["c"] = link["c"]
  BY <1>a, <1>1, <1>7, OneLink
<1>11. LazyShape' /\ LazyTypeOK'
  BY <1>a, <1>1, <1>9, <1>10, ShapeThen
<1>12. BufferOK'
  BY <1>a, <1>1, <1>4, <1>5, <1>9 DEF BufferOK
<1>13. RequestOK'
  BY <1>a, <1>1, <1>4, <1>5, <1>9, <1>10 DEF RequestOK, Unsaid
<1>14. ResponseOK'
  BY <1>a, <1>1, <1>4, <1>5, <1>6, <1>7, <1>9, <1>10 DEF ResponseOK, Awaits, Silent
<1>15. NobodyCloses' => NobodyCloses
  BY <1>1, <1>9 DEF NobodyCloses
<1>16. InOrder("c")'
  BY <1>a, <1>1, <1>4, <1>9, <1>10, <1>11, <1>15, OrderSame
<1>17. InOrder("s")'
  BY <1>a, <1>1, <1>4, <1>7, <1>8, <1>9, <1>10, <1>11, <1>15, OrderSame
<1> QED BY <1>11, <1>12, <1>13, <1>14, <1>16, <1>17, LazyThen

(* The server's end takes the request, and answers at once or later. *)
LEMMA TakeRequestStep ==
  ASSUME LazyConnAssumption, LazyIInv, NEW n \in Nat \ {0}, NEW end \in Ends2, NEW answer,
         TakeRequest(n, end, answer), end.rbuf = SubSeq(link["c"], 2, n),
         \/ answer = <<Header>> /\ end.wbuf = <<>> /\ kind.name # "ss"
         \/ answer = <<>> /\ end.wbuf = <<Header>> /\ kind.name # "ss"
         \/ answer = <<>> /\ end.wbuf = <<>> /\ kind.name = "ss",
         end.got = conn["s"].got, end.drained, end.sent = conn["s"].sent, end.open
  PROVE  LazyIInv'
<1>a. /\ LazyShape /\ BufferOK /\ RequestOK /\ ResponseOK /\ InOrder("c") /\ InOrder("s")
      /\ "c" \in BothEnds /\ "s" \in BothEnds /\ Peer("c") = "s" /\ Peer("s") = "c"
      /\ conn["c"] \in Ends2 /\ conn["s"] \in Ends2
      /\ link["c"] \in Seq(Int) /\ link["s"] \in Seq(Int)
      /\ conn \in [BothEnds -> Ends2] /\ link \in [BothEnds -> Seq(Int)]
      /\ damaged \in [BothEnds -> BOOLEAN]
  BY LazyNow
<1>k. kind.name \in {"ohttp", "otls", "relay", "ss", "sni"}
  BY <1>a, KindParts
<1> DEFINE r == [end EXCEPT !.up = TRUE]
           q == SubSeq(link["c"], n + 1, Len(link["c"]))
           p == link["s"] \o answer
<1>1. /\ ~conn["s"].up /\ conn["s"].open /\ kind' = kind /\ damaged' = damaged
      /\ n <= Len(link["c"])
      /\ link' = [link EXCEPT !["c"] = q, !["s"] = p] /\ conn' = [conn EXCEPT !["s"] = r]
  BY DEF TakeRequest
<1>2. /\ r \in Ends2 /\ r.up /\ r.open /\ r.wbuf = end.wbuf /\ r.rbuf = SubSeq(link["c"], 2, n)
      /\ r.drained /\ r.sent = conn["s"].sent /\ r.got = conn["s"].got
  BY DEF Ends2
<1>3. n \in 0..Len(link["c"]) /\ n > 0 /\ link["c"] # <<>> /\ Len(link["c"]) \in Nat
  BY <1>a, <1>1
<1>4. Headed(link["c"], {Header}) /\ ~Unsaid
  BY <1>a, <1>1, <1>3 DEF RequestOK
<1>5. /\ SubSeq(link["c"], 2, n) \in Seq(Int) /\ q \in Seq(Int) /\ Plain(q)
      /\ Items(link["c"]) = SubSeq(link["c"], 2, n) \o q
  <2>1. {Header} \subseteq Heads
    BY DEF Heads
  <2> DEFINE l == link["c"]
  <2>2. l \in Seq(Int) /\ Headed(l, {Header}) /\ n \in 0..Len(l)
    BY <1>a, <1>3, <1>4
  <2> HIDE DEF l
  <2>3. /\ SubSeq(l, 2, n) \in Seq(Int) /\ Plain(SubSeq(l, 2, n))
        /\ SubSeq(l, n + 1, Len(l)) \in Seq(Int) /\ Plain(SubSeq(l, n + 1, Len(l)))
        /\ Items(l) = SubSeq(l, 2, n) \o SubSeq(l, n + 1, Len(l))
    BY <1>3, <2>1, <2>2, HeadedCut
  <2> QED BY <2>3 DEF l
<1>6. Items(q) = q
  BY <1>5, PlainItems
<1>7. /\ answer \in Seq(Int) /\ p \in Seq(Int) /\ Items(p) = Items(link["s"])
      /\ answer = <<>> => p = link["s"]
      /\ link["s"] = <<>> => p = answer
  <2>0. <<>> \in Seq(Int) /\ <<Header>> \in Seq(Int)
    BY DEF Header
  <2>1. answer \in Seq(Int) /\ Items(answer) = <<>>
    BY <2>0, NotItems, ItemsParts
  <2>2. Items(p) = Items(link["s"]) \o Items(answer) /\ Items(link["s"]) \in Seq(Int)
    BY <1>a, <2>1, ItemsParts
  <2>3. Items(link["s"]) \o <<>> = Items(link["s"])
    BY <2>2
  <2>4. p \in Seq(Int) /\ (answer = <<>> => p = link["s"]) /\ (link["s"] = <<>> => p = answer)
    BY <1>a, <2>1
  <2> QED BY <2>1, <2>2, <2>3, <2>4
<1> HIDE DEF r, q, p
<1>8. /\ conn' \in [BothEnds -> Ends2] /\ conn'["s"] = r /\ conn'["c"] = conn["c"]
  BY <1>a, <1>1, <1>2, OneEnd
<1>9. /\ link' \in [BothEnds -> Seq(Int)] /\ link'["c"] = q /\ link'["s"] = p
  BY <1>a, <1>1, <1>5, <1>7, TwoLinks
<1>10. LazyShape' /\ LazyTypeOK'
  BY <1>a, <1>1, <1>8, <1>9, ShapeThen
<1>11. BufferOK'
  BY <1>a, <1>1, <1>2, <1>8 DEF BufferOK
<1>12. RequestOK'
  BY <1>1, <1>2, <1>4, <1>5, <1>8, <1>9 DEF RequestOK, Unsaid
<1>13. ResponseOK'
  <2>1. Headed(<<Header>>, {Header, Refusal}) /\ <<Header>> # <<>>
    <3>1. <<>> \in Seq(Int) /\ Plain(<<>>) /\ Header \in {Header, Refusal} /\ Header \in Int
      BY DEF Plain, Header
    <3>2. Headed(<<Header>>, {Header, Refusal})
      BY <3>1, HeadedFirst
    <3> QED BY <3>2
  <2>2. Awaits' <=> Awaits
    BY <1>1, <1>8 DEF Awaits
  <2>3. Silent /\ (Silent' <=> end.wbuf # <<>>)
    BY <1>1, <1>2, <1>8 DEF Silent
  <2>4. ASSUME conn["c"].open, kind.name \in {"ohttp", "relay"} PROVE Awaits /\ link["s"] = <<>>
    BY <1>a, <1>1, <2>3, <2>4 DEF ResponseOK
  <2> QED BY <1>a, <1>k, <1>1, <1>2, <1>7, <1>8, <1>9, <2>1, <2>2, <2>3, <2>4 DEF ResponseOK, BufferOK
<1>14. NobodyCloses' => NobodyCloses
  BY <1>1, <1>8 DEF NobodyCloses
<1>15. InOrder("c")'
  <2>1. conn["s"].rbuf = <<>>
    BY <1>a, <1>1 DEF BufferOK
  <2>2. Items(link["c"]) = SubSeq(link["c"], 2, n) \o Items(link'["c"])
    BY <1>5, <1>6, <1>9
  <2> QED BY <1>a, <1>1, <1>2, <1>5, <1>8, <1>10, <1>14, <2>1, <2>2, OrderMoved
<1>16. InOrder("s")'
  BY <1>a, <1>1, <1>2, <1>7, <1>8, <1>9, <1>10, <1>14, OrderSame
<1> QED BY <1>10, <1>11, <1>12, <1>13, <1>15, <1>16, LazyThen

LEMMA TakeStep ==
  ASSUME LazyConnAssumption, LazyIInv, Take
  PROVE  LazyIInv'
<1>a. /\ LazyShape /\ BufferOK /\ RequestOK /\ ResponseOK /\ InOrder("c") /\ InOrder("s")
      /\ "c" \in BothEnds /\ "s" \in BothEnds /\ Peer("c") = "s" /\ Peer("s") = "c"
      /\ conn["c"] \in Ends2 /\ conn["s"] \in Ends2
      /\ link["c"] \in Seq(Int) /\ link["s"] \in Seq(Int)
      /\ conn \in [BothEnds -> Ends2] /\ link \in [BothEnds -> Seq(Int)]
      /\ damaged \in [BothEnds -> BOOLEAN]
  BY LazyNow
<1>b. /\ \A n \in Nat \ {0}, end \in Ends2 : \A answer :
           TakeRequest(n, end, answer) => ~conn["s"].up /\ conn["s"].open
  BY DEF TakeRequest
<1>c. ~conn["s"].up => conn["s"].rbuf = <<>> /\ conn["s"].wbuf = <<>>
  BY <1>a DEF BufferOK
<1>d. conn["s"].drained
  BY <1>a DEF BufferOK
<1>e. SubSeq(link["c"], 2, 1) = <<>> /\ <<>> \in Seq(Int) /\ 1 \in Nat \ {0}
  BY <1>a
<1>f. [conn["s"] EXCEPT !.wbuf = <<Header>>] \in Ends2
  BY <1>a, EndSets, KeptSets
<1>1. CASE TakeUpgrade
  <2>1. PICK n \in 1..Len(link["c"]) :
          LET rest == SubSeq(link["c"], 2, n)
          IN  IF rest = <<>> THEN TakeRequest(n, conn["s"], <<Header>>)
              ELSE TakeRequest(n, [conn["s"] EXCEPT !.rbuf = rest, !.wbuf = <<Header>>], <<>>)
    BY <1>1 DEF TakeUpgrade, Extra
  <2> DEFINE rest == SubSeq(link["c"], 2, n)
             end == [conn["s"] EXCEPT !.rbuf = rest, !.wbuf = <<Header>>]
  <2>2. n \in Nat \ {0} /\ rest \in Seq(Int)
    BY <1>a
  <2>3. kind.name # "ss"
    BY <1>1 DEF TakeUpgrade, Named
  <2>4. CASE rest = <<>>
    <3>1. TakeRequest(n, conn["s"], <<Header>>)
      BY <2>1, <2>4
    <3>2. ~conn["s"].up /\ conn["s"].open
      BY <1>a, <1>b, <2>2, <3>1
    <3> QED BY <1>a, <1>c, <1>d, <2>2, <2>3, <2>4, <3>1, <3>2, TakeRequestStep
  <2>5. CASE rest # <<>>
    <3>1. TakeRequest(n, end, <<>>)
      BY <2>1, <2>5
    <3>2. end \in Ends2
      BY <1>a, <2>2, EndSets, KeptSets
    <3>3. ~conn["s"].up /\ conn["s"].open
      BY <1>b, <2>2, <3>1, <3>2
    <3> DEFINE w == <<Header>>
    <3>w. w \in Kepts
      BY KeptSets
    <3> HIDE DEF rest, w
    <3>4. /\ end.rbuf = rest /\ end.wbuf = w /\ end.got = conn["s"].got
          /\ end.drained /\ end.sent = conn["s"].sent /\ end.open
      BY <1>a, <1>d, <3>3 DEF Ends2, w
    <3> HIDE DEF end
    <3>5. end.rbuf = SubSeq(link["c"], 2, n) /\ end.wbuf = <<Header>>
      BY <3>4 DEF rest, w
    <3> QED BY <1>a, <2>2, <2>3, <3>1, <3>2, <3>4, <3>5, TakeRequestStep
  <2> QED BY <2>4, <2>5
<1> DEFINE end == [conn["s"] EXCEPT !.wbuf = <<Header>>]
<1>g. /\ end \in Ends2 /\ end.wbuf = <<Header>> /\ end.rbuf = conn["s"].rbuf
      /\ end.got = conn["s"].got /\ end.drained = conn["s"].drained /\ end.sent = conn["s"].sent
      /\ end.open = conn["s"].open
  <2> DEFINE w == <<Header>>
  <2> HIDE DEF w
  <2>1. /\ [conn["s"] EXCEPT !.wbuf = w].wbuf = w
        /\ [conn["s"] EXCEPT !.wbuf = w].rbuf = conn["s"].rbuf
        /\ [conn["s"] EXCEPT !.wbuf = w].got = conn["s"].got
        /\ [conn["s"] EXCEPT !.wbuf = w].drained = conn["s"].drained
        /\ [conn["s"] EXCEPT !.wbuf = w].sent = conn["s"].sent
        /\ [conn["s"] EXCEPT !.wbuf = w].open = conn["s"].open
    BY <1>a DEF Ends2
  <2> QED BY <1>f, <2>1 DEF w
<1>h. ASSUME TakeRequest(1, end, <<>>), kind.name # "ss" PROVE LazyIInv'
  <2> HIDE DEF end
  <2>1. ~conn["s"].up /\ conn["s"].open
    BY <1>b, <1>e, <1>g, <1>h
  <2> QED BY <1>c, <1>d, <1>e, <1>g, <1>h, <2>1, TakeRequestStep
<1>i. ASSUME NEW answer, TakeRequest(1, conn["s"], answer),
             (answer = <<Header>> /\ kind.name # "ss") \/ (answer = <<>> /\ kind.name = "ss")
      PROVE  LazyIInv'
  <2>1. ~conn["s"].up /\ conn["s"].open
    BY <1>a, <1>b, <1>e, <1>i
  <2> QED BY <1>a, <1>c, <1>d, <1>e, <1>i, <2>1, TakeRequestStep
<1>2. CASE TakeHello
  BY <1>2, <1>h DEF TakeHello, Named
<1>3. CASE TakeRelay
  <2>1. kind.name = "relay"
    BY <1>3 DEF TakeRelay, Named
  <2>2. TakeRequest(1, conn["s"], <<Header>>) \/ TakeRequest(1, end, <<>>)
    BY <1>3 DEF TakeRelay
  <2> HIDE DEF end
  <2>3. CASE TakeRequest(1, conn["s"], <<Header>>)
    BY <1>i, <2>1, <2>3
  <2>4. CASE TakeRequest(1, end, <<>>)
    BY <1>h, <2>1, <2>4
  <2> QED BY <2>2, <2>3, <2>4
<1>4. CASE TakeAddr
  BY <1>4, <1>i DEF TakeAddr, Named
<1> QED BY <1>1, <1>2, <1>3, <1>4 DEF Take

LEMMA RefuseRequestStep ==
  ASSUME LazyConnAssumption, LazyIInv, RefuseRequest
  PROVE  LazyIInv'
<1>a. /\ LazyShape /\ BufferOK /\ RequestOK /\ ResponseOK /\ InOrder("c") /\ InOrder("s")
      /\ "c" \in BothEnds /\ "s" \in BothEnds /\ Peer("c") = "s" /\ Peer("s") = "c"
      /\ conn["c"] \in Ends2 /\ conn["s"] \in Ends2
      /\ link["c"] \in Seq(Int) /\ link["s"] \in Seq(Int)
      /\ conn \in [BothEnds -> Ends2] /\ link \in [BothEnds -> Seq(Int)]
      /\ damaged \in [BothEnds -> BOOLEAN]
  BY LazyNow
<1> DEFINE r == [conn["s"] EXCEPT !.open = FALSE]
           p == Append(link["s"], Refusal)
<1>1. /\ kind.name = "relay" /\ ~conn["s"].up /\ conn["s"].open /\ kind' = kind /\ damaged' = damaged
      /\ link' = [link EXCEPT !["c"] = <<>>, !["s"] = p]
  BY DEF RefuseRequest, Named
<1>2. conn' = [conn EXCEPT !["s"] = r]
  BY <1>a DEF RefuseRequest
<1>3. /\ r \in Ends2 /\ r.up = conn["s"].up /\ ~r.open /\ r.wbuf = conn["s"].wbuf /\ r.rbuf = conn["s"].rbuf
      /\ r.drained = conn["s"].drained /\ r.sent = conn["s"].sent /\ r.got = conn["s"].got
  BY <1>a DEF Ends2
<1>4. /\ p \in Seq(Int) /\ <<>> \in Seq(Int) /\ Items(p) = Items(link["s"]) /\ Items(<<>>) = <<>>
      /\ link["s"] = <<>> => p = <<Refusal>>
  <2>1. <<Refusal>> \in Seq(Int) /\ p = link["s"] \o <<Refusal>> /\ Items(<<Refusal>>) = <<>>
    BY <1>a, NotItems DEF Refusal
  <2>2. Items(p) = Items(link["s"]) \o <<>> /\ Items(link["s"]) \in Seq(Int)
    BY <1>a, <2>1, ItemsParts
  <2>3. Items(p) = Items(link["s"])
    BY <2>2
  <2>4. Items(<<>>) = <<>> /\ p \in Seq(Int) /\ <<>> \in Seq(Int)
    BY <1>a, <2>1, ItemsParts
  <2>5. link["s"] = <<>> => p = <<Refusal>>
    OBVIOUS
  <2> QED BY <2>3, <2>4, <2>5
<1> HIDE DEF r, p
<1>5. /\ conn' \in [BothEnds -> Ends2] /\ conn'["s"] = r /\ conn'["c"] = conn["c"]
  BY <1>a, <1>2, <1>3, OneEnd
<1>6. /\ link' \in [BothEnds -> Seq(Int)] /\ link'["c"] = <<>> /\ link'["s"] = p
  BY <1>a, <1>1, <1>4, TwoLinks
<1>7. LazyShape' /\ LazyTypeOK'
  BY <1>a, <1>1, <1>5, <1>6, ShapeThen
<1>8. BufferOK'
  BY <1>a, <1>1, <1>3, <1>5 DEF BufferOK
<1>9. RequestOK'
  BY <1>3, <1>5 DEF RequestOK
<1>10. ResponseOK'
  <2>1. Headed(<<Refusal>>, {Header, Refusal})
    <3>1. <<>> \in Seq(Int) /\ Plain(<<>>) /\ Refusal \in {Header, Refusal} /\ Refusal \in Int
      BY DEF Plain, Refusal
    <3> QED BY <3>1, HeadedFirst
  <2>2. Awaits' <=> Awaits
    BY <1>1, <1>5 DEF Awaits
  <2>3. conn["c"].open => Awaits /\ link["s"] = <<>>
    BY <1>a, <1>1 DEF ResponseOK, Silent
  <2> QED BY <1>1, <1>3, <1>4, <1>5, <1>6, <2>1, <2>2, <2>3 DEF ResponseOK
<1>11. ~NobodyCloses'
  BY <1>3, <1>5 DEF NobodyCloses
<1>12. InOrder("c")'
  <2>1. Items(link["c"]) \in Seq(Int) /\ Items(link["c"]) = <<>> \o Items(link["c"])
    BY <1>a, ItemsParts
  <2>2. Items(link["c"]) = Items(link'["c"]) \o Items(link["c"])
    BY <1>4, <1>6, <2>1, Zenon
  <2> QED BY <1>a, <1>1, <1>3, <1>5, <1>7, <1>11, <2>1, <2>2, OrderLost
<1>13. InOrder("s")'
  BY <1>a, <1>1, <1>3, <1>4, <1>5, <1>6, <1>7, <1>11, OrderSame
<1> QED BY <1>7, <1>8, <1>9, <1>10, <1>12, <1>13, LazyThen

(* What an end that closes has sent may arrive in part. *)
LEMMA CloseEndStep ==
  ASSUME LazyConnAssumption, LazyIInv, NEW e \in BothEnds, CloseEnd(e)
  PROVE  LazyIInv'
<1>a. /\ LazyShape /\ BufferOK /\ RequestOK /\ ResponseOK /\ InOrder("c") /\ InOrder("s")
      /\ "c" \in BothEnds /\ "s" \in BothEnds /\ Peer("c") = "s" /\ Peer("s") = "c"
      /\ conn["c"] \in Ends2 /\ conn["s"] \in Ends2
      /\ link["c"] \in Seq(Int) /\ link["s"] \in Seq(Int)
      /\ conn \in [BothEnds -> Ends2] /\ link \in [BothEnds -> Seq(Int)]
      /\ damaged \in [BothEnds -> BOOLEAN]
  BY LazyNow
<1> DEFINE r == [conn[e] EXCEPT !.open = FALSE]
<1>0. conn[e] \in Ends2 /\ link[e] \in Seq(Int) /\ Peer(e) \in BothEnds /\ Peer(Peer(e)) = e
  BY <1>a, EndTypes
<1>1. conn[e].open /\ kind' = kind /\ damaged' = damaged
  BY DEF CloseEnd
<1>2. conn' = [conn EXCEPT ![e] = r]
  BY <1>a DEF CloseEnd
<1>n. PICK n \in 0..Len(link[e]) : link' = [link EXCEPT ![e] = SubSeq(link[e], 1, n), ![Peer(e)] = <<>>]
  BY DEF CloseEnd
<1> DEFINE q == SubSeq(link[e], 1, n)
           t == SubSeq(link[e], n + 1, Len(link[e]))
<1>3. /\ r \in Ends2 /\ r.up = conn[e].up /\ ~r.open /\ r.wbuf = conn[e].wbuf /\ r.rbuf = conn[e].rbuf
      /\ r.drained = conn[e].drained /\ r.sent = conn[e].sent /\ r.got = conn[e].got
      /\ r.shaken = conn[e].shaken
  BY <1>0 DEF Ends2
<1>4. /\ q \in Seq(Int) /\ <<>> \in Seq(Int) /\ Items(<<>>) = <<>> /\ Items(t) \in Seq(Int)
      /\ Items(link[e]) = Items(q) \o Items(t)
  <2>1. q \in Seq(Int) /\ t \in Seq(Int) /\ Items(link[e]) = Items(q) \o Items(t)
    BY <1>0, ItemsCut
  <2> HIDE DEF q, t
  <2>2. <<>> \in Seq(Int)
    OBVIOUS
  <2>3. Items(<<>>) = <<>> /\ Items(t) \in Seq(Int)
    BY <2>1, <2>2, ItemsParts
  <2> QED BY <2>1, <2>2, <2>3
<1>5. Plain(link[e]) => Plain(q)
  BY <1>0, PlainCut
<1>6. link[e] = <<>> => q = <<>>
  BY <1>0
<1>7. ASSUME NEW h, h \subseteq Heads, Headed(link[e], h) PROVE q = <<>> \/ Headed(q, h)
  <2>1. n = 0 \/ n > 0
    OBVIOUS
  <2> QED BY <1>0, <1>7, <2>1, HeadedCut
<1> HIDE DEF r, q, t
<1>8. /\ conn' \in [BothEnds -> Ends2] /\ conn'[e] = r /\ conn'[Peer(e)] = conn[Peer(e)]
  BY <1>a, <1>2, <1>3, OneEnd
<1>9. /\ link' \in [BothEnds -> Seq(Int)] /\ link'[e] = q /\ link'[Peer(e)] = <<>>
  <2>1. link' = [link EXCEPT ![e] = q, ![Peer(e)] = <<>>]
    BY <1>n DEF q
  <2> QED BY <1>a, <1>4, <2>1, TwoLinks
<1>10. LazyShape' /\ LazyTypeOK'
  BY <1>a, <1>1, <1>8, <1>9, ShapeThen
<1>11. /\ conn'["c"].up = conn["c"].up /\ conn'["c"].wbuf = conn["c"].wbuf
       /\ conn'["c"].rbuf = conn["c"].rbuf /\ conn'["c"].drained = conn["c"].drained
       /\ conn'["c"].shaken = conn["c"].shaken
       /\ conn'["s"].up = conn["s"].up /\ conn'["s"].wbuf = conn["s"].wbuf
       /\ conn'["s"].rbuf = conn["s"].rbuf /\ conn'["s"].drained = conn["s"].drained
  <2>1. CASE e = "c"
    BY <1>a, <1>3, <1>8, <2>1
  <2>2. CASE e = "s"
    BY <1>a, <1>3, <1>8, <2>2
  <2> QED BY <2>1, <2>2, TwoEnds
<1>12. BufferOK' /\ (Unsaid' <=> Unsaid) /\ (Silent' <=> Silent) /\ (Awaits' <=> Awaits)
  <2>2. BufferOK /\ kind' = kind
    BY <1>a, <1>1
  <2>3. BufferOK'
    BY <1>11, <2>2 DEF BufferOK
  <2>4. (Unsaid' <=> Unsaid) /\ (Silent' <=> Silent) /\ (Awaits' <=> Awaits)
    BY <1>11, <2>2 DEF Unsaid, Silent, Awaits
  <2> QED BY <2>3, <2>4
<1>13. RequestOK'
  <2>1. CASE e = "s"
    BY <1>3, <1>8, <2>1 DEF RequestOK
  <2>2. CASE e = "c"
    <3>1. conn'["s"] = conn["s"] /\ ~conn'["c"].open /\ link'["c"] = q
      BY <1>a, <1>3, <1>8, <1>9, <2>2
    <3>2. {Header} \subseteq Heads
      BY DEF Heads
    <3> QED BY <1>a, <1>5, <1>6, <1>7, <1>12, <2>2, <3>1, <3>2 DEF RequestOK
  <2> QED BY <2>1, <2>2, TwoEnds
<1>14. ResponseOK'
  <2>1. CASE e = "c"
    BY <1>3, <1>8, <2>1 DEF ResponseOK
  <2>2. CASE e = "s"
    <3>1. conn'["c"] = conn["c"] /\ ~conn'["s"].open /\ link'["s"] = q
      BY <1>a, <1>3, <1>8, <1>9, <2>2
    <3>2. {Header, Refusal} \subseteq Heads
      BY DEF Heads
    <3> QED BY <1>a, <1>1, <1>5, <1>6, <1>7, <1>12, <2>2, <3>1, <3>2 DEF ResponseOK
  <2> QED BY <2>1, <2>2, TwoEnds
<1>15. ~NobodyCloses'
  BY <1>3, <1>8, TwoEnds DEF NobodyCloses
<1>x. /\ conn'[e].got = conn[e].got /\ conn'[e].rbuf = conn[e].rbuf /\ conn'[e].sent = conn[e].sent
      /\ conn'[Peer(e)].got = conn[Peer(e)].got /\ conn'[Peer(e)].rbuf = conn[Peer(e)].rbuf
      /\ conn'[Peer(e)].sent = conn[Peer(e)].sent
  BY <1>3, <1>8
<1>y. LazyShape /\ damaged'[e] = damaged[e] /\ damaged'[Peer(e)] = damaged[Peer(e)]
  BY <1>a, <1>1
<1>16. InOrder(e)'
  <2>1. InOrder(e)
    BY <1>a, TwoEnds
  <2>2. Items(link[e]) = Items(link'[e]) \o Items(t) /\ Items(t) \in Seq(Int)
    BY <1>4, <1>9
  <2> QED BY <1>10, <1>15, <1>x, <1>y, <2>1, <2>2, OrderLost
<1>17. InOrder(Peer(e))'
  <2>1. InOrder(Peer(e))
    BY <1>a, TwoEnds
  <2>2. link[Peer(e)] \in Seq(Int)
    BY <1>a, <1>0
  <2>3. Items(link[Peer(e)]) \in Seq(Int) /\ Items(link[Peer(e)]) = <<>> \o Items(link[Peer(e)])
    BY <2>2, ItemsParts
  <2>4. Items(link[Peer(e)]) = Items(link'[Peer(e)]) \o Items(link[Peer(e)])
    BY <1>4, <1>9, <2>3, Zenon
  <2> DEFINE p == Peer(e)
  <2>5. /\ p \in BothEnds /\ InOrder(p) /\ conn'[Peer(p)].got = conn[Peer(p)].got
        /\ conn'[Peer(p)].rbuf = conn[Peer(p)].rbuf /\ conn'[p].sent = conn[p].sent
        /\ damaged'[p] = damaged[p] /\ Items(link[p]) \in Seq(Int)
        /\ Items(link[p]) = Items(link'[p]) \o Items(link[p])
    BY <1>0, <1>x, <1>y, <2>1, <2>3, <2>4
  <2> HIDE DEF p
  <2>6. InOrder(p)'
    BY <1>10, <1>15, <1>y, <2>5, OrderLost
  <2> QED BY <2>6 DEF p
<1>18. InOrder("c")' /\ InOrder("s")'
  BY <1>16, <1>17, TwoEnds
<1> QED BY <1>10, <1>12, <1>13, <1>14, <1>18, LazyThen

(* The client's end of obfs-http handshakes because it reads. *)
LEMMA ReadShakesStep ==
  ASSUME LazyConnAssumption, LazyIInv, ReadShakes
  PROVE  LazyIInv'
<1>a. /\ LazyShape /\ BufferOK /\ RequestOK /\ ResponseOK /\ InOrder("c") /\ InOrder("s")
      /\ "c" \in BothEnds /\ "s" \in BothEnds /\ Peer("c") = "s" /\ Peer("s") = "c"
      /\ conn["c"] \in Ends2 /\ conn["s"] \in Ends2
      /\ link["c"] \in Seq(Int) /\ link["s"] \in Seq(Int)
      /\ conn \in [BothEnds -> Ends2] /\ link \in [BothEnds -> Seq(Int)]
      /\ damaged \in [BothEnds -> BOOLEAN]
  BY LazyNow
<1> DEFINE w == <<Header>>
           r == [conn["c"] EXCEPT !.shaken = TRUE, !.wbuf = w]
<1>1. /\ kind.name = "ohttp" /\ ~conn["c"].shaken /\ kind' = kind /\ damaged' = damaged /\ link' = link
  BY DEF ReadShakes, Named
<1>2. conn' = [conn EXCEPT !["c"] = r]
  BY <1>1, <1>a DEF ReadShakes, Shaken
<1>w. w \in Kepts /\ w # <<>>
  BY KeptSets
<1> HIDE DEF w
<1>3. /\ r \in Ends2 /\ r.up = conn["c"].up /\ r.open = conn["c"].open /\ r.wbuf = w /\ r.rbuf = conn["c"].rbuf
      /\ r.drained = conn["c"].drained /\ r.sent = conn["c"].sent /\ r.got = conn["c"].got /\ r.shaken = TRUE
  BY <1>a, <1>w DEF Ends2
<1> HIDE DEF r
<1>4. /\ conn' \in [BothEnds -> Ends2] /\ conn'["c"] = r /\ conn'["s"] = conn["s"]
  BY <1>a, <1>2, <1>3, OneEnd
<1>5. LazyShape' /\ LazyTypeOK'
  BY <1>a, <1>1, <1>4, ShapeThen
<1>6. BufferOK'
  BY <1>a, <1>1, <1>3, <1>4 DEF BufferOK
<1>u. Unsaid /\ Unsaid' /\ (Silent' <=> Silent) /\ (Awaits' <=> Awaits)
  BY <1>1, <1>w, <1>3, <1>4 DEF Unsaid, Silent, Awaits
<1>7. RequestOK'
  BY <1>a, <1>1, <1>3, <1>4, <1>u DEF RequestOK
<1>8. ResponseOK'
  BY <1>a, <1>1, <1>3, <1>4, <1>u DEF ResponseOK
<1>9. NobodyCloses' => NobodyCloses
  BY <1>3, <1>4 DEF NobodyCloses
<1>10. InOrder("c")' /\ InOrder("s")'
  BY <1>a, <1>1, <1>3, <1>4, <1>5, <1>9, OrderSame
<1> QED BY <1>5, <1>6, <1>7, <1>8, <1>10, LazyThen

(* It takes the response off, and keeps what has come with it. *)
LEMMA DrainHeaderStep ==
  ASSUME LazyConnAssumption, LazyIInv, DrainHeader
  PROVE  LazyIInv'
<1>a. /\ LazyShape /\ BufferOK /\ RequestOK /\ ResponseOK /\ InOrder("c") /\ InOrder("s")
      /\ "c" \in BothEnds /\ "s" \in BothEnds /\ Peer("c") = "s" /\ Peer("s") = "c"
      /\ conn["c"] \in Ends2 /\ conn["s"] \in Ends2
      /\ link["c"] \in Seq(Int) /\ link["s"] \in Seq(Int)
      /\ conn \in [BothEnds -> Ends2] /\ link \in [BothEnds -> Seq(Int)]
      /\ damaged \in [BothEnds -> BOOLEAN]
  BY LazyNow
<1>1. /\ kind.name = "ohttp" /\ ~conn["c"].drained /\ conn["c"].up /\ conn["c"].open
      /\ kind' = kind /\ damaged' = damaged
  BY DEF DrainHeader, Named, MayRead, Takes
<1>n. PICK n \in 1..Len(link["s"]) :
        Takes("c", n, [conn["c"] EXCEPT !.drained = TRUE, !.rbuf = SubSeq(link["s"], 2, n)])
  BY DEF DrainHeader, Extra
<1> DEFINE l == link["s"]
           x == SubSeq(l, 2, n)
           q == SubSeq(l, n + 1, Len(l))
           r == [conn["c"] EXCEPT !.drained = TRUE, !.rbuf = x]
<1>2. conn' = [conn EXCEPT !["c"] = r] /\ link' = [link EXCEPT !["s"] = q]
  BY <1>n, <1>a DEF Takes
<1>l. l \in Seq(Int) /\ n \in 0..Len(l) /\ n > 0 /\ l # <<>>
  BY <1>a
<1>3. Awaits
  BY <1>1 DEF Awaits
<1>4. Headed(l, Heads) /\ (conn["s"].open => ~Silent)
  BY <1>a, <1>1, <1>3, <1>l DEF ResponseOK, Heads
<1> HIDE DEF l
<1>5. /\ x \in Seq(Int) /\ q \in Seq(Int) /\ Plain(q) /\ Items(l) = x \o q
  BY <1>l, <1>4, HeadedCut
<1> HIDE DEF x, q
<1>6. Items(q) = q
  BY <1>5, PlainItems
<1>7. /\ r \in Ends2 /\ r.up = conn["c"].up /\ r.open = conn["c"].open /\ r.wbuf = conn["c"].wbuf /\ r.rbuf = x
      /\ r.drained /\ r.sent = conn["c"].sent /\ r.got = conn["c"].got /\ r.shaken = conn["c"].shaken
  BY <1>a, <1>5 DEF Ends2
<1> HIDE DEF r
<1>8. /\ conn' \in [BothEnds -> Ends2] /\ conn'["c"] = r /\ conn'["s"] = conn["s"]
  BY <1>a, <1>2, <1>7, OneEnd
<1>9. /\ link' \in [BothEnds -> Seq(Int)] /\ link'["s"] = q /\ link'["c"] = link["c"]
  BY <1>a, <1>2, <1>5, OneLink
<1>10. LazyShape' /\ LazyTypeOK'
  BY <1>a, <1>1, <1>8, <1>9, ShapeThen
<1>11. BufferOK'
  BY <1>a, <1>1, <1>7, <1>8 DEF BufferOK
<1>u. (Unsaid' <=> Unsaid) /\ (Silent' <=> Silent) /\ ~Awaits'
  BY <1>1, <1>7, <1>8 DEF Unsaid, Silent, Awaits
<1>12. RequestOK'
  BY <1>a, <1>7, <1>8, <1>9, <1>u DEF RequestOK
<1>13. ResponseOK'
  BY <1>1, <1>4, <1>5, <1>8, <1>9, <1>u DEF ResponseOK
<1>14. NobodyCloses' => NobodyCloses
  BY <1>7, <1>8 DEF NobodyCloses
<1>15. InOrder("c")'
  BY <1>a, <1>1, <1>7, <1>8, <1>9, <1>10, <1>14, OrderSame
<1>16. InOrder("s")'
  <2>1. conn["c"].rbuf = <<>>
    BY <1>a, <1>1 DEF BufferOK
  <2>2. Items(link["s"]) = x \o Items(link'["s"])
    BY <1>5, <1>6, <1>9 DEF l
  <2> QED BY <1>a, <1>1, <1>5, <1>7, <1>8, <1>10, <1>14, <2>1, <2>2, OrderMoved
<1> QED BY <1>10, <1>11, <1>12, <1>13, <1>15, <1>16, LazyThen

(* Relay's client takes the response off, or a datagram in its place. *)
LEMMA ReadResponseStep ==
  ASSUME LazyConnAssumption, LazyIInv, ReadResponse
  PROVE  LazyIInv'
<1>a. /\ LazyShape /\ BufferOK /\ RequestOK /\ ResponseOK /\ InOrder("c") /\ InOrder("s")
      /\ "c" \in BothEnds /\ "s" \in BothEnds /\ Peer("c") = "s" /\ Peer("s") = "c"
      /\ conn["c"] \in Ends2 /\ conn["s"] \in Ends2
      /\ link["c"] \in Seq(Int) /\ link["s"] \in Seq(Int)
      /\ conn \in [BothEnds -> Ends2] /\ link \in [BothEnds -> Seq(Int)]
      /\ damaged \in [BothEnds -> BOOLEAN]
  BY LazyNow
<1>k. kind.cnow \in BOOLEAN /\ kind.udp \in BOOLEAN
  BY <1>a, KindParts
<1> DEFINE l == link["s"]
           ok == (Head(l) = Header)
           q == SubSeq(l, 1 + 1, Len(l))
           r == [conn["c"] EXCEPT !.drained = TRUE, !.reading = ok]
<1>1. /\ kind.name = "relay" /\ ~conn["c"].drained /\ conn["c"].up /\ conn["c"].open /\ kind' = kind
      /\ l # <<>> /\ damaged' = [damaged EXCEPT !["s"] = damaged["s"] \/ Head(l) > 0]
  BY DEF ReadResponse, Named, MayRead, Takes
<1>2. conn' = [conn EXCEPT !["c"] = r] /\ link' = [link EXCEPT !["s"] = q]
  BY <1>a DEF ReadResponse, Takes
<1>3. ok \in BOOLEAN /\ l \in Seq(Int) /\ 1 \in 0..Len(l)
  BY <1>a, <1>1
<1>4. /\ damaged' \in [BothEnds -> BOOLEAN] /\ damaged'["c"] = damaged["c"]
      /\ damaged'["s"] <=> (damaged["s"] \/ Head(l) > 0)
  BY <1>a, <1>1
<1>5. ~kind.cnow => Awaits
  BY <1>1 DEF Awaits
<1>6. kind.cnow => ~Awaits
  BY <1>1 DEF Awaits
<1>7. Awaits => Headed(l, Heads) /\ (conn["s"].open => ~Silent)
  BY <1>a, <1>1 DEF ResponseOK, Heads
<1>8. ~Awaits => Plain(l) /\ (conn["s"].open => ~Silent)
  BY <1>a, <1>1 DEF ResponseOK
<1> HIDE DEF l, ok
<1>9. q \in Seq(Int) /\ Plain(q) /\ (Items(l) = q \/ Head(l) > 0)
  <2>1. CASE Awaits
    <3>1. SubSeq(l, 2, 1) \o q = q /\ q \in Seq(Int)
      BY <1>3
    <3>h. Headed(l, Heads) /\ Heads \subseteq Heads /\ 0 \in 0..Len(l)
      BY <1>3, <1>7, <2>1
    <3>t. Tail(l) \in Seq(Int) /\ Plain(Tail(l)) /\ Items(l) = Tail(l)
      BY <1>3, <3>h, HeadedCut
    <3>2. Plain(q) /\ Items(l) = q
      <4>1. q = Tail(l)
        BY <1>1, <1>3 DEF l
      <4> QED BY <3>t, <4>1
    <3> QED BY <3>1, <3>2
  <2>2. CASE ~Awaits
    <3>1. q \in Seq(Int) /\ Plain(q)
      BY <1>3, <1>8, <2>2, PlainCut
    <3>2. Head(l) > 0
      BY <1>1, <1>3, <1>8, <2>2 DEF Plain
    <3> QED BY <3>1, <3>2
  <2> QED BY <2>1, <2>2
<1> HIDE DEF q
<1>10. Items(q) = q
  BY <1>9, PlainItems
<1>11. /\ r \in Ends2 /\ r.up = conn["c"].up /\ r.open = conn["c"].open /\ r.wbuf = conn["c"].wbuf
       /\ r.rbuf = conn["c"].rbuf /\ r.drained /\ r.sent = conn["c"].sent /\ r.got = conn["c"].got
       /\ r.shaken = conn["c"].shaken
  BY <1>a, <1>3 DEF Ends2
<1> HIDE DEF r
<1>12. /\ conn' \in [BothEnds -> Ends2] /\ conn'["c"] = r /\ conn'["s"] = conn["s"]
  BY <1>a, <1>2, <1>11, OneEnd
<1>13. /\ link' \in [BothEnds -> Seq(Int)] /\ link'["s"] = q /\ link'["c"] = link["c"]
  BY <1>a, <1>2, <1>9, OneLink
<1>14. LazyShape' /\ LazyTypeOK'
  BY <1>a, <1>1, <1>4, <1>12, <1>13, ShapeThen
<1>15. BufferOK'
  BY <1>a, <1>1, <1>11, <1>12 DEF BufferOK
<1>u. (Unsaid' <=> Unsaid) /\ (Silent' <=> Silent) /\ ~Awaits'
  BY <1>1, <1>11, <1>12 DEF Unsaid, Silent, Awaits
<1>16. RequestOK'
  BY <1>a, <1>11, <1>12, <1>13, <1>u DEF RequestOK
<1>17. ResponseOK'
  BY <1>1, <1>7, <1>8, <1>9, <1>12, <1>13, <1>u DEF ResponseOK
<1>18. NobodyCloses' => NobodyCloses
  BY <1>11, <1>12 DEF NobodyCloses
<1>19. InOrder("c")'
  BY <1>a, <1>1, <1>4, <1>11, <1>12, <1>13, <1>14, <1>18, OrderSame
<1>20. InOrder("s")'
  <2>1. CASE Head(l) > 0
    <3>1. damaged'["s"] = TRUE
      BY <1>4, <2>1
    <3> QED BY <3>1 DEF InOrder
  <2>2. CASE ~(Head(l) > 0)
    <3>1. Items(link'["s"]) = Items(link["s"])
      BY <1>9, <1>10, <1>13, <2>2 DEF l
    <3> QED BY <1>a, <1>1, <1>4, <1>11, <1>12, <1>14, <1>18, <3>1, OrderSame
  <2> QED BY <2>1, <2>2
<1> QED BY <1>14, <1>15, <1>16, <1>17, <1>19, <1>20, LazyThen

(* What is said of requests and responses stays when an end reads data. *)
LEMMA TalkSame ==
  ASSUME BufferOK, RequestOK, ResponseOK, kind' = kind,
         \A e \in BothEnds :
           /\ conn'[e].up = conn[e].up /\ conn'[e].wbuf = conn[e].wbuf
           /\ conn'[e].drained = conn[e].drained /\ conn'[e].shaken = conn[e].shaken
           /\ conn'[e].open = conn[e].open
           /\ conn'[e].rbuf = conn[e].rbuf \/ conn'[e].rbuf = <<>>,
         \/ link'["c"] = link["c"]
         \/ conn["s"].up /\ (Plain(link["c"]) => Plain(link'["c"])),
         \/ link'["s"] = link["s"] \/ kind.name = "otls"
         \/ ~Awaits /\ (Plain(link["s"]) => Plain(link'["s"]))
  PROVE  BufferOK' /\ RequestOK' /\ ResponseOK' /\ (NobodyCloses' <=> NobodyCloses)
<1>1. /\ conn'["c"].up = conn["c"].up /\ conn'["c"].wbuf = conn["c"].wbuf
      /\ conn'["c"].drained = conn["c"].drained /\ conn'["c"].shaken = conn["c"].shaken
      /\ conn'["c"].open = conn["c"].open
      /\ conn'["c"].rbuf = conn["c"].rbuf \/ conn'["c"].rbuf = <<>>
      /\ conn'["s"].up = conn["s"].up /\ conn'["s"].wbuf = conn["s"].wbuf
      /\ conn'["s"].drained = conn["s"].drained /\ conn'["s"].open = conn["s"].open
      /\ conn'["s"].rbuf = conn["s"].rbuf \/ conn'["s"].rbuf = <<>>
  BY TwoEnds
<1>2. (Unsaid' <=> Unsaid) /\ (Silent' <=> Silent) /\ (Awaits' <=> Awaits)
  BY <1>1 DEF Unsaid, Silent, Awaits
<1>3. BufferOK'
  BY <1>1 DEF BufferOK
<1>4. RequestOK'
  BY <1>1, <1>2 DEF RequestOK
<1>5. ResponseOK'
  <2>1. CASE ~conn["c"].open \/ kind.name = "otls"
    BY <1>1, <2>1 DEF ResponseOK
  <2>2. CASE link'["s"] = link["s"]
    BY <1>1, <1>2, <2>2 DEF ResponseOK
  <2>3. CASE conn["c"].open /\ ~Awaits /\ (Plain(link["s"]) => Plain(link'["s"]))
    BY <1>1, <1>2, <2>3 DEF ResponseOK
  <2> QED BY <2>1, <2>2, <2>3
<1>6. NobodyCloses' <=> NobodyCloses
  BY <1>1 DEF NobodyCloses
<1> QED BY <1>3, <1>4, <1>5, <1>6

LEMMA ReadBufferStep ==
  ASSUME LazyConnAssumption, LazyIInv, NEW e \in BothEnds, ReadBuffer(e)
  PROVE  LazyIInv'
<1>a. /\ LazyShape /\ BufferOK /\ RequestOK /\ ResponseOK /\ InOrder("c") /\ InOrder("s")
      /\ conn[e] \in Ends2 /\ Peer(e) \in BothEnds /\ Peer(Peer(e)) = e /\ Peer(e) # e
      /\ conn[e].got \in Seq(Int) /\ conn[e].rbuf \in Seq(Int)
      /\ conn \in [BothEnds -> Ends2] /\ link \in [BothEnds -> Seq(Int)]
      /\ damaged \in [BothEnds -> BOOLEAN]
  BY LazyNow, EndTypes
<1> DEFINE g == conn[e].got \o conn[e].rbuf
           q == <<>>
           r == [conn[e] EXCEPT !.got = g, !.rbuf = q]
<1>1. kind' = kind /\ damaged' = damaged /\ link' = link /\ conn' = [conn EXCEPT ![e] = r]
  BY <1>a DEF ReadBuffer
<1>q. g \in Seq(Int) /\ q \in Seq(Int)
  BY <1>a
<1> HIDE DEF g, q
<1>2. /\ r \in Ends2 /\ r.up = conn[e].up /\ r.open = conn[e].open /\ r.wbuf = conn[e].wbuf
      /\ r.rbuf = q /\ r.drained = conn[e].drained /\ r.sent = conn[e].sent
      /\ r.got = g /\ r.shaken = conn[e].shaken
  BY <1>a, <1>q DEF Ends2
<1> HIDE DEF r
<1>3. /\ conn' \in [BothEnds -> Ends2] /\ conn'[e] = r /\ conn'[Peer(e)] = conn[Peer(e)]
  BY <1>a, <1>1, <1>2, OneEnd
<1>4. LazyShape' /\ LazyTypeOK'
  BY <1>a, <1>1, <1>3, ShapeThen
<1>5. \A x \in BothEnds : x = e \/ x = Peer(e)
  BY DEF BothEnds, Peer
<1>6. BufferOK' /\ RequestOK' /\ ResponseOK' /\ (NobodyCloses' <=> NobodyCloses)
  <2>1. \A x \in BothEnds :
           /\ conn'[x].up = conn[x].up /\ conn'[x].wbuf = conn[x].wbuf
           /\ conn'[x].drained = conn[x].drained /\ conn'[x].shaken = conn[x].shaken
           /\ conn'[x].open = conn[x].open
           /\ conn'[x].rbuf = conn[x].rbuf \/ conn'[x].rbuf = <<>>
    BY <1>2, <1>3, <1>5 DEF q
  <2> QED BY <1>a, <1>1, <2>1, TalkSame
<1>7. InOrder(e)'
  <2>1. InOrder(e)
    BY <1>a, TwoEnds
  <2> QED BY <1>a, <1>1, <1>2, <1>3, <1>4, <1>6, <2>1, OrderSame
<1>8. InOrder(Peer(e))'
  <2> DEFINE p == Peer(e)
  <2>1. InOrder(p) /\ p \in BothEnds /\ Peer(p) = e
    BY <1>a, TwoEnds
  <2>s. conn'[p].sent = conn[p].sent
    BY <1>3
  <2> HIDE DEF p
  <2> DEFINE i == Items(link[p])
             h == conn[e].got
             b == conn[e].rbuf
  <2>2. Whole(p) = Row(h, b, i) /\ i \in Seq(Int) /\ h \in Seq(Int) /\ b \in Seq(Int)
    BY <1>a, <2>1, WholeIs
  <2>3. Whole(p)' = Row(h \o b, <<>>, i)
    BY <1>1, <1>2, <1>3, <1>4, <2>1, WholeThen DEF g, q
  <2> HIDE DEF i, h, b
  <2>4. Row(h \o b, <<>>, i) = Row(h, b, i)
    BY <2>2, RowInts
  <2>5. Whole(p)' = Whole(p)
    BY <2>2, <2>3, <2>4
  <2>6. InOrder(p)'
    BY <1>a, <1>1, <1>4, <1>6, <2>1, <2>5, <2>s, OrderKept
  <2> QED BY <2>6 DEF p
<1>9. InOrder("c")' /\ InOrder("s")'
  BY <1>7, <1>8, TwoEnds
<1> QED BY <1>4, <1>6, <1>9, LazyThen

LEMMA ReadingEndsStep ==
  ASSUME LazyConnAssumption, LazyIInv, NEW e \in BothEnds, ReadingEnds(e)
  PROVE  LazyIInv'
<1>a. /\ LazyShape /\ BufferOK /\ RequestOK /\ ResponseOK /\ InOrder("c") /\ InOrder("s")
      /\ conn[e] \in Ends2 /\ Peer(e) \in BothEnds /\ Peer(Peer(e)) = e /\ Peer(e) # e
      /\ conn \in [BothEnds -> Ends2] /\ link \in [BothEnds -> Seq(Int)]
      /\ damaged \in [BothEnds -> BOOLEAN]
  BY LazyNow, EndTypes
<1> DEFINE r == [conn[e] EXCEPT !.reading = FALSE]
<1>1. kind' = kind /\ damaged' = damaged /\ link' = link /\ conn' = [conn EXCEPT ![e] = r]
  BY <1>a DEF ReadingEnds
<1>2. /\ r \in Ends2 /\ r.up = conn[e].up /\ r.open = conn[e].open /\ r.wbuf = conn[e].wbuf
      /\ r.rbuf = conn[e].rbuf /\ r.drained = conn[e].drained /\ r.sent = conn[e].sent
      /\ r.got = conn[e].got /\ r.shaken = conn[e].shaken
  BY <1>a DEF Ends2
<1> HIDE DEF r
<1>3. /\ conn' \in [BothEnds -> Ends2] /\ conn'[e] = r /\ conn'[Peer(e)] = conn[Peer(e)]
  BY <1>a, <1>1, <1>2, OneEnd
<1>4. LazyShape' /\ LazyTypeOK'
  BY <1>a, <1>1, <1>3, ShapeThen
<1>5. \A x \in BothEnds : x = e \/ x = Peer(e)
  BY DEF BothEnds, Peer
<1>6. \A x \in BothEnds :
           /\ conn'[x].up = conn[x].up /\ conn'[x].wbuf = conn[x].wbuf
           /\ conn'[x].drained = conn[x].drained /\ conn'[x].shaken = conn[x].shaken
           /\ conn'[x].open = conn[x].open /\ conn'[x].rbuf = conn[x].rbuf
           /\ conn'[x].got = conn[x].got /\ conn'[x].sent = conn[x].sent
  BY <1>2, <1>3, <1>5
<1>7. BufferOK' /\ RequestOK' /\ ResponseOK' /\ (NobodyCloses' <=> NobodyCloses)
  BY <1>a, <1>1, <1>6, TalkSame
<1>8. ASSUME NEW x \in BothEnds, InOrder(x) PROVE InOrder(x)'
  <2>1. Peer(x) \in BothEnds
    BY <1>a, EndTypes
  <2> QED BY <1>a, <1>1, <1>4, <1>6, <1>7, <1>8, <2>1, OrderSame
<1>9. InOrder("c")' /\ InOrder("s")'
  BY <1>a, <1>8, TwoEnds
<1> QED BY <1>4, <1>7, <1>9, LazyThen

(* An end that takes n units off the link, which are read as x. *)
LEMMA ReadStep ==
  ASSUME LazyConnAssumption, LazyIInv, NEW e \in BothEnds, NEW n \in 0..Len(link[Peer(e)]),
         NEW x \in Seq(Int), Takes(e, n, [conn[e] EXCEPT !.got = conn[e].got \o x]),
         conn[e].rbuf = <<>>, conn[e].up, e = "c" => kind.name = "otls" \/ ~Awaits,
         damaged' \in [BothEnds -> BOOLEAN], damaged'[e] = damaged[e],
         damaged[Peer(e)] => damaged'[Peer(e)],
         \/ damaged'[Peer(e)]
         \/ Items(link[Peer(e)]) = x \o Items(SubSeq(link[Peer(e)], n + 1, Len(link[Peer(e)])))
  PROVE  LazyIInv'
<1>a. /\ LazyShape /\ BufferOK /\ RequestOK /\ ResponseOK /\ InOrder("c") /\ InOrder("s")
      /\ conn[e] \in Ends2 /\ Peer(e) \in BothEnds /\ Peer(Peer(e)) = e /\ Peer(e) # e
      /\ conn[e].got \in Seq(Int) /\ link[Peer(e)] \in Seq(Int)
      /\ conn \in [BothEnds -> Ends2] /\ link \in [BothEnds -> Seq(Int)]
  <2>1. LazyShape /\ BufferOK /\ RequestOK /\ ResponseOK /\ InOrder("c") /\ InOrder("s")
    BY LazyNow
  <2>2. Peer(e) \in BothEnds /\ Peer(Peer(e)) = e /\ Peer(e) # e /\ conn[e] \in Ends2 /\ conn[e].got \in Seq(Int)
    BY <2>1, EndTypes
  <2> QED BY <2>1, <2>2 DEF LazyShape
<1> DEFINE p == Peer(e)
           l == link[p]
           q == SubSeq(l, n + 1, Len(l))
           g == conn[e].got \o x
           r == [conn[e] EXCEPT !.got = g]
<1>1. kind' = kind /\ link' = [link EXCEPT ![p] = q] /\ conn' = [conn EXCEPT ![e] = r]
  BY DEF Takes
<1>q. g \in Seq(Int) /\ q \in Seq(Int) /\ (Plain(l) => Plain(q))
  <2>1. l \in Seq(Int) /\ n \in 0..Len(l)
    BY <1>a
  <2> HIDE DEF l
  <2>2. q \in Seq(Int) /\ (Plain(l) => Plain(q))
    BY <2>1, PlainCut, ItemsCut
  <2> QED BY <1>a, <2>2
<1>i. damaged'[p] \/ Items(l) = x \o Items(q)
  OBVIOUS
<1> HIDE DEF g, q
<1>2. /\ r \in Ends2 /\ r.up = conn[e].up /\ r.open = conn[e].open /\ r.wbuf = conn[e].wbuf
      /\ r.rbuf = conn[e].rbuf /\ r.drained = conn[e].drained /\ r.sent = conn[e].sent
      /\ r.got = g /\ r.shaken = conn[e].shaken
  BY <1>a, <1>q DEF Ends2
<1> HIDE DEF r
<1>3. /\ conn' \in [BothEnds -> Ends2] /\ conn'[e] = r /\ conn'[p] = conn[p]
  BY <1>a, <1>1, <1>2, OneEnd
<1>l. /\ p \in BothEnds /\ Peer(p) = e
  BY <1>a
<1>t. l \in Seq(Int)
  BY <1>a
<1> HIDE DEF l, p
<1>4. /\ link' \in [BothEnds -> Seq(Int)] /\ link'[p] = q /\ link'[e] = link[e]
  BY <1>a, <1>1, <1>q, <1>l, OneLink
<1>5. LazyShape' /\ LazyTypeOK'
  BY <1>a, <1>1, <1>3, <1>4, ShapeThen
<1>6. \A y \in BothEnds : y = e \/ y = p
  BY DEF BothEnds, Peer, p
<1>7. BufferOK' /\ RequestOK' /\ ResponseOK' /\ (NobodyCloses' <=> NobodyCloses)
  <2>1. \A y \in BothEnds :
           /\ conn'[y].up = conn[y].up /\ conn'[y].wbuf = conn[y].wbuf
           /\ conn'[y].drained = conn[y].drained /\ conn'[y].shaken = conn[y].shaken
           /\ conn'[y].open = conn[y].open
           /\ conn'[y].rbuf = conn[y].rbuf \/ conn'[y].rbuf = <<>>
    BY <1>2, <1>3, <1>6
  <2>2. CASE e = "c"
    <3>1. p = "s"
      BY <2>2 DEF p, Peer
    <3>2. link'["c"] = link["c"] /\ (Plain(link["s"]) => Plain(link'["s"]))
      BY <1>4, <1>q, <2>2, <3>1 DEF l
    <3> QED BY <1>a, <1>1, <2>1, <2>2, <3>2, TalkSame
  <2>3. CASE e = "s"
    <3>1. p = "c"
      BY <2>3 DEF p, Peer
    <3>2. link'["s"] = link["s"] /\ (Plain(link["c"]) => Plain(link'["c"])) /\ conn["s"].up
      BY <1>4, <1>q, <2>3, <3>1 DEF l
    <3> QED BY <1>a, <1>1, <2>1, <3>2, TalkSame
  <2> QED BY <2>2, <2>3, TwoEnds
<1>8. InOrder(e)'
  <2>1. InOrder(e)
    BY <1>a, TwoEnds
  <2>2. conn'[Peer(e)] = conn[Peer(e)]
    BY <1>3 DEF p
  <2>3. conn'[e].sent = conn[e].sent
    BY <1>2, <1>3
  <2> QED BY <1>a, <1>4, <1>5, <1>7, <2>1, <2>2, <2>3, OrderSame
<1>9. InOrder(p)'
  <2>1. CASE damaged'[p]
    BY <2>1 DEF InOrder
  <2>2. CASE ~damaged'[p]
    <3>1. InOrder(p) /\ Items(link[p]) = x \o Items(link'[p])
      BY <1>a, <1>i, <1>4, <1>l, <2>2, TwoEnds DEF l
    <3>2. conn[Peer(p)].rbuf = <<>> /\ conn'[Peer(p)].rbuf = <<>> /\ conn'[Peer(p)].got = conn[Peer(p)].got \o x
      BY <1>2, <1>3, <1>l DEF g
    <3>3. conn'[p].sent = conn[p].sent /\ (damaged[p] => damaged'[p])
      BY <1>3 DEF p
    <3> QED BY <1>a, <1>l, <1>5, <1>7, <3>1, <3>2, <3>3, OrderMoved
  <2> QED BY <2>1, <2>2
<1>10. InOrder("c")' /\ InOrder("s")'
  BY <1>6, <1>8, <1>9, TwoEnds
<1> QED BY <1>5, <1>7, <1>10, LazyThen

LEMMA ReadLinkStep ==
  ASSUME LazyConnAssumption, LazyIInv, NEW e \in BothEnds, ReadLink(e)
  PROVE  LazyIInv'
<1>a. /\ LazyShape /\ BufferOK /\ RequestOK /\ ResponseOK
      /\ Peer(e) \in BothEnds /\ link[Peer(e)] \in Seq(Int)
      /\ damaged \in [BothEnds -> BOOLEAN]
  <2>1. LazyShape /\ BufferOK /\ RequestOK /\ ResponseOK
    BY LazyNow
  <2> QED BY <2>1, EndTypes DEF LazyShape
<1>k. kind.name \in {"ohttp", "otls", "relay", "ss", "sni"}
  BY <1>a, KindParts
<1> DEFINE l == link[Peer(e)]
<1>1. /\ conn[e].up /\ conn[e].open /\ conn[e].drained /\ conn[e].rbuf = <<>> /\ damaged' = damaged
      /\ ~(e = "c" /\ kind.name = "otls")
  BY DEF ReadLink, MayRead, Named
<1>2. PICK n \in 1..Len(l) : Takes(e, n, [conn[e] EXCEPT !.got = conn[e].got \o SubSeq(l, 1, n)])
  BY DEF ReadLink
<1>3. Plain(l) /\ (e = "c" => ~Awaits)
  <2>1. CASE e = "c"
    <3>1. ~Awaits /\ Peer(e) = "s"
      BY <1>1, <2>1 DEF Awaits, Peer
    <3> QED BY <1>a, <1>1, <2>1, <3>1 DEF ResponseOK
  <2>2. CASE e = "s"
    BY <1>a, <1>1, <2>2 DEF RequestOK, Peer
  <2> QED BY <2>1, <2>2, TwoEnds
<1>4. l \in Seq(Int) /\ n \in 0..Len(l)
  BY <1>a
<1>5. /\ SubSeq(l, 1, n) \in Seq(Int)
      /\ Items(l) = SubSeq(l, 1, n) \o Items(SubSeq(l, n + 1, Len(l)))
  <2> HIDE DEF l
  <2>1. SubSeq(l, 1, n) \in Seq(Int) /\ Plain(SubSeq(l, 1, n))
    BY <1>3, <1>4, PlainCut
  <2>2. Items(SubSeq(l, 1, n)) = SubSeq(l, 1, n)
    BY <2>1, PlainItems
  <2>3. Items(l) = Items(SubSeq(l, 1, n)) \o Items(SubSeq(l, n + 1, Len(l)))
    BY <1>4, ItemsCut
  <2> QED BY <2>1, <2>2, <2>3
<1>6. damaged' \in [BothEnds -> BOOLEAN] /\ damaged'[e] = damaged[e] /\ damaged'[Peer(e)] = damaged[Peer(e)]
  BY <1>a, <1>1
<1> QED BY <1>1, <1>2, <1>3, <1>4, <1>5, <1>6, ReadStep

----------------------------------------------------------------------------
(* What Parse makes of a chunk. *)
LEMMA ParsedType ==
  ASSUME NEW chunk \in Seq(Int)
  PROVE  AfterData(chunk) \in Seq(Int) /\ Parse(chunk) \in Seq(Int)
         /\ (AfterData(chunk) = <<>> => Parse(chunk) = Items(chunk))
<1> DEFINE EndsAt(i) == /\ i > 0 => chunk[i] > 0
                      /\ \A j \in (i + 1)..Len(chunk) : chunk[j] <= 0
<1>1. \E i \in 0..Len(chunk) : EndsAt(i)
  <2> DEFINE S == {k \in Nat : \A j \in (k + 1)..Len(chunk) : chunk[j] <= 0}
  <2>1. Len(chunk) \in S
    OBVIOUS
  <2>2. PICK k \in S : \A m \in S : k <= m
    BY <2>1, LeastNat
  <2>3. k \in 0..Len(chunk)
    BY <2>1, <2>2
  <2>4. ASSUME k > 0 PROVE chunk[k] > 0
    <3>1. SUFFICES ASSUME ~(chunk[k] > 0) PROVE FALSE
      OBVIOUS
    <3>2. k - 1 \in Nat /\ chunk[k] \in Int
      BY <2>3, <2>4
    <3>3. \A j \in ((k - 1) + 1)..Len(chunk) : chunk[j] <= 0
      <4> TAKE j \in ((k - 1) + 1)..Len(chunk)
      <4>1. CASE j = k
        BY <3>1, <3>2, <4>1
      <4>2. CASE j # k
        BY <2>2, <2>3, <4>2
      <4> QED BY <4>1, <4>2
    <3>4. k - 1 \in S
      BY <3>2, <3>3
    <3> QED BY <2>2, <3>2, <3>4
  <2> QED BY <2>2, <2>3, <2>4
<1> DEFINE last == CHOOSE i \in 0..Len(chunk) : EndsAt(i)
<1>2. last \in 0..Len(chunk)
  BY <1>1
<1>3. AfterData(chunk) = IF last = 0 THEN <<>> ELSE SubSeq(chunk, last + 1, Len(chunk))
  BY DEF AfterData
<1> HIDE DEF last
<1>4. AfterData(chunk) \in Seq(Int)
  BY <1>2, <1>3
<1> DEFINE rest == AfterData(chunk)
           data == Items(chunk)
<1>5. data \in Seq(Int) /\ Parse(chunk) = IF data = <<>> \/ rest = <<>> THEN data ELSE SubSeq(data \o rest, 1, Len(rest))
  BY ItemsParts DEF Parse
<1> HIDE DEF rest, data
<1>6. rest \in Seq(Int)
  BY <1>4 DEF rest
<1>7. SubSeq(data \o rest, 1, Len(rest)) \in Seq(Int)
  BY <1>5, <1>6
<1>8. Parse(chunk) \in Seq(Int) /\ (rest = <<>> => Parse(chunk) = data)
  BY <1>5, <1>7
<1> QED BY <1>4, <1>8 DEF rest, data

LEMMA ReadParsedStep ==
  ASSUME LazyConnAssumption, LazyIInv, ReadParsed
  PROVE  LazyIInv'
<1>a. /\ LazyShape /\ BufferOK /\ link["s"] \in Seq(Int) /\ damaged \in [BothEnds -> BOOLEAN]
      /\ "c" \in BothEnds /\ "s" \in BothEnds /\ Peer("c") = "s"
  BY LazyNow
<1> DEFINE l == link["s"]
<1>1. conn["c"].up /\ kind.name = "otls"
  BY DEF ReadParsed, MayRead, Named
<1>2. PICK n \in 1..Len(l) :
         /\ Takes("c", n, [conn["c"] EXCEPT !.got = conn["c"].got \o Parse(SubSeq(l, 1, n))])
         /\ damaged' = [damaged EXCEPT !["s"] = damaged["s"] \/ AfterData(SubSeq(l, 1, n)) # <<>>]
  BY <1>a DEF ReadParsed
<1> DEFINE chunk == SubSeq(l, 1, n)
<1>3. l \in Seq(Int) /\ n \in 0..Len(l)
  BY <1>a
<1>4. chunk \in Seq(Int) /\ Items(l) = Items(chunk) \o Items(SubSeq(l, n + 1, Len(l)))
  <2> HIDE DEF l
  <2> QED BY <1>3, ItemsCut
<1>5. conn["c"].rbuf = <<>>
  BY <1>a, <1>1 DEF BufferOK
<1>6. /\ Takes("c", n, [conn["c"] EXCEPT !.got = conn["c"].got \o Parse(chunk)])
      /\ damaged' = [damaged EXCEPT !["s"] = damaged["s"] \/ AfterData(chunk) # <<>>]
  BY <1>2
<1> HIDE DEF chunk
<1>7. Parse(chunk) \in Seq(Int) /\ (AfterData(chunk) = <<>> => Parse(chunk) = Items(chunk))
  BY <1>4, ParsedType
<1>8. /\ damaged' \in [BothEnds -> BOOLEAN] /\ damaged'["c"] = damaged["c"]
      /\ damaged["s"] => damaged'["s"]
      /\ damaged'["s"] \/ AfterData(chunk) = <<>>
  BY <1>a, <1>6
<1>9. damaged'["s"] \/ Items(l) = Parse(chunk) \o Items(SubSeq(l, n + 1, Len(l)))
  BY <1>4, <1>7, <1>8
<1> QED BY <1>a, <1>1, <1>3, <1>5, <1>6, <1>7, <1>8, <1>9, ReadStep

(* What a Write puts on the link: with the request or response in front, when that
   is still to be sent, and otherwise nothing but items. *)
LEMMA RecordsType ==
  ASSUME NEW items \in Seq(Int)
  PROVE  Records(items) \in Seq(Int)
<1> DEFINE n == Len(items)
           f(k) == IF k % 3 = 0 THEN items[k \div 3] ELSE RecordHeader[k % 3]
<1>1. ASSUME NEW k \in 1..(3 * n) PROVE f(k) \in Int
  <2>1. k \in Int /\ n \in Nat /\ k % 3 \in 0..2
    OBVIOUS
  <2>2. CASE k % 3 = 0
    <3>1. k \div 3 \in 1..n
      BY <2>1, <2>2
    <3> QED BY <2>2, <3>1
  <2>3. CASE k % 3 # 0
    <3>1. k % 3 \in 1..2
      BY <2>1, <2>3
    <3>2. RecordHeader[1] \in Int /\ RecordHeader[2] \in Int
      BY DEF RecordHeader
    <3> HIDE DEF n
    <3> QED BY <2>3, <3>1, <3>2
  <2> QED BY <2>2, <2>3
<1>2. Records(items) = [k \in 1..(3 * n) |-> f(k)]
  BY DEF Records
<1>3. 3 * n \in Nat
  OBVIOUS
<1> HIDE DEF n, f
<1>4. [k \in 1..(3 * n) |-> f(k)] \in [1..(3 * n) -> Int]
  BY <1>1
<1> QED BY <1>2, <1>3, <1>4

LEMMA WithHead ==
  ASSUME NEW items \in Seq(Int), Plain(items), NEW w \in Kepts
  PROVE  /\ w \o items \in Seq(Int)
         /\ w = <<>> => Plain(w \o items)
         /\ w # <<>> => Headed(w \o items, {Header})
<1>1. Header \in Int /\ Header \in {Header}
  BY DEF Header
<1>2. CASE w = <<>>
  BY <1>2
<1>3. CASE w = <<Header>>
  <2>1. Headed(<<Header>> \o items, {Header})
    BY <1>1, HeadedFirst
  <2> DEFINE h == Header
  <2>2. h \in Int
    BY <1>1
  <2> HIDE DEF h
  <2>3. <<h>> \o items \in Seq(Int) /\ <<h>> # <<>>
    BY <2>2
  <2> QED BY <1>3, <2>1, <2>3 DEF h
<1> QED BY <1>2, <1>3 DEF Kepts

LEMMA ClientWire ==
  ASSUME LazyConnAssumption, LazyShape, BufferOK,
         NEW items \in Seq(Int), Plain(items), items # <<>>, NEW wire \in Wire("c", items)
  PROVE  /\ wire \in Seq(Int)
         /\ Unsaid => Headed(wire, {Header})
         /\ ~Unsaid => Plain(wire)
<1>k. kind.name \in {"ohttp", "otls", "relay", "ss", "sni"}
  BY KindParts
<1>w. conn["c"].wbuf \in Kepts /\ conn["c"].shaken \in BOOLEAN /\ conn["c"] \in Ends2
  BY EndTypes, TwoEnds
<1>1. <<Header>> \in Kepts /\ <<>> \in Kepts /\ <<Header>> # <<>>
  BY KeptSets
<1>2. CASE kind.name = "otls"
  <2>1. wire = ClientRecords(items) /\ (Unsaid <=> ~conn["c"].shaken)
    BY <1>2 DEF Wire, Named, Unsaid
  <2>2. CASE conn["c"].shaken
    BY <2>1, <2>2 DEF ClientRecords
  <2>3. CASE ~conn["c"].shaken
    <3>1. wire = <<Header>> \o items
      BY <2>1, <2>3 DEF ClientRecords
    <3> QED BY <1>1, <2>1, <2>3, <3>1, WithHead
  <2> QED BY <2>2, <2>3
<1>3. CASE kind.name = "sni"
  <2>1. wire \in {items, <<Head(items)>>}
    BY <1>3 DEF Wire, Named, Obfuscated
  <2>2. ~Unsaid
    BY <1>3 DEF Unsaid, BufferOK
  <2>3. <<Head(items)>> \in Seq(Int) /\ Plain(<<Head(items)>>)
    BY DEF Plain
  <2> QED BY <2>1, <2>2, <2>3
<1>4. CASE kind.name = "ohttp"
  <2> DEFINE w == Shaken(conn["c"]).wbuf
  <2>1. wire = w \o items
    BY <1>4 DEF Wire, Named, WithUpgrade
  <2>2. w \in Kepts /\ (Unsaid <=> w # <<>>)
    <3>1. CASE conn["c"].shaken
      BY <1>4, <1>w, <3>1 DEF Shaken, Unsaid
    <3>2. CASE ~conn["c"].shaken
      <4> DEFINE h == <<Header>>
      <4>1. h \in Kepts /\ h # <<>>
        BY <1>1
      <4>2. w = [conn["c"] EXCEPT !.shaken = TRUE, !.wbuf = h].wbuf
        BY <3>2 DEF Shaken
      <4> HIDE DEF h, w
      <4>3. w = h
        BY <1>w, <4>2 DEF Ends2
      <4> QED BY <1>4, <3>2, <4>1, <4>3 DEF Unsaid
    <3> QED BY <3>1, <3>2, <1>w
  <2> HIDE DEF w
  <2> QED BY <2>1, <2>2, WithHead
<1>5. CASE kind.name \in {"relay", "ss"}
  <2>1. wire = conn["c"].wbuf \o items /\ (Unsaid <=> conn["c"].wbuf # <<>>)
    BY <1>5 DEF Wire, Named, Unsaid
  <2> QED BY <1>w, <2>1, WithHead
<1> QED BY <1>k, <1>2, <1>3, <1>4, <1>5

LEMMA ServerWire ==
  ASSUME LazyConnAssumption, LazyShape,
         NEW items \in Seq(Int), Plain(items), NEW wire \in Wire("s", items)
  PROVE  /\ wire \in Seq(Int)
         /\ kind.name # "otls" /\ conn["s"].wbuf # <<>> => Headed(wire, {Header})
         /\ kind.name # "otls" /\ conn["s"].wbuf = <<>> => Plain(wire)
<1>w. conn["s"].wbuf \in Kepts
  BY EndTypes, TwoEnds
<1>2. CASE kind.name = "otls"
  <2>1. wire = ServerRecords(items)
    BY <1>2 DEF Wire, Named
  <2> DEFINE part == SubSeq(items, 1, IF RecordCap < Len(items) THEN RecordCap ELSE Len(items))
  <2>2. part \in Seq(Int)
    BY DEF LazyConnAssumption
  <2>3. Records(items) \in Seq(Int) /\ Records(part) \in Seq(Int)
    <3> HIDE DEF part
    <3> QED BY <2>2, RecordsType
  <2> DEFINE w == conn["s"].wbuf
             a == Records(items)
             b == Records(part)
  <2>4. w \in Seq(Int)
    <3>1. <<>> \in Seq(Int) /\ <<0>> \in Seq(Int)
      OBVIOUS
    <3> QED BY <1>w, <3>1 DEF Kepts, Header
  <2>5. wire = a \/ wire = w \o b
    BY <2>1 DEF ServerRecords
  <2> HIDE DEF part, w, a, b
  <2>6. a \in Seq(Int) /\ b \in Seq(Int)
    BY <2>3 DEF a, b
  <2>7. w \o b \in Seq(Int)
    BY <2>4, <2>6
  <2>8. wire \in Seq(Int)
    BY <2>5, <2>6, <2>7
  <2> QED BY <1>2, <2>8
<1>3. CASE kind.name # "otls"
  <2>1. wire = conn["s"].wbuf \o items
    BY <1>3 DEF Wire, Named
  <2> QED BY <1>w, <1>3, <2>1, WithHead
<1> QED BY <1>2, <1>3

(* The link with what is written on it. *)
LEMMA Longer ==
  ASSUME NEW l \in Seq(Int), NEW wire \in Seq(Int)
  PROVE  /\ l \o wire \in Seq(Int)
         /\ l = <<>> => l \o wire = wire
         /\ Plain(l) /\ Plain(wire) => Plain(l \o wire)
         /\ \A h : /\ Headed(l, h) /\ Plain(wire) => Headed(l \o wire, h)
                   /\ Headed(l \o wire, h) => l \o wire # <<>>
<1>1. l \o wire \in Seq(Int) /\ (l = <<>> => l \o wire = wire)
  OBVIOUS
<1>2. Plain(l) /\ Plain(wire) => Plain(l \o wire)
  BY Joined
<1>3. ASSUME NEW h PROVE /\ Headed(l, h) /\ Plain(wire) => Headed(l \o wire, h)
                         /\ Headed(l \o wire, h) => l \o wire # <<>>
  BY Joined DEF Headed
<1> QED BY <1>1, <1>2, <1>3

(* What is written, and what an end is after it. *)
LEMMA WriteIs ==
  ASSUME LazyConnAssumption, LazyShape, NEW e \in BothEnds, WriteBlock(e)
  PROVE  \E n \in 1..MaxBlock : \E items \in Seq(Int) : \E wire \in Wire(e, items) :
           /\ Len(items) = n /\ \A i \in 1..n : items[i] = conn[e].sent + i
           /\ Plain(items) /\ items # <<>>
           /\ link' = [link EXCEPT ![e] = IF conn[Peer(e)].open THEN link[e] \o wire ELSE link[e]]
           /\ damaged' = [damaged EXCEPT ![e] = damaged[e] \/ Items(wire) # items]
           /\ conn' \in [BothEnds -> Ends2] /\ conn'[Peer(e)] = conn[Peer(e)]
           /\ conn'[e].up = conn[e].up /\ conn'[e].wbuf = <<>> /\ conn'[e].rbuf = conn[e].rbuf
           /\ conn'[e].drained = conn[e].drained /\ conn'[e].shaken /\ conn'[e].got = conn[e].got
           /\ conn'[e].sent = conn[e].sent + n /\ conn'[e].open = conn[e].open
<1>0. /\ conn[e] \in Ends2 /\ conn[e].sent \in Nat /\ MaxBlock \in Nat \ {0} /\ MaxItems \in Nat
      /\ conn \in [BothEnds -> Ends2] /\ link \in [BothEnds -> Seq(Int)]
      /\ damaged \in [BothEnds -> BOOLEAN]
  BY EndTypes DEF LazyConnAssumption, LazyShape
<1>1. PICK n \in 1..(IF kind.udp THEN 1 ELSE MaxBlock) :
        LET items == [i \in 1..n |-> conn[e].sent + i]
        IN  /\ conn[e].sent + n <= MaxItems
            /\ \E wire \in Wire(e, items) :
                 /\ link' = [link EXCEPT ![e] = IF conn[Peer(e)].open THEN @ \o wire ELSE @]
                 /\ damaged' = [damaged EXCEPT ![e] = @ \/ Items(wire) # items]
            /\ conn' = [conn EXCEPT ![e] = [Flushed(Shaken(conn[e])) EXCEPT !.sent = @ + n]]
  BY DEF WriteBlock
<1>2. n \in 1..MaxBlock /\ n \in Nat
  BY <1>0
<1> DEFINE items == [i \in 1..n |-> conn[e].sent + i]
<1>3. /\ items \in Seq(Int) /\ Len(items) = n /\ \A i \in 1..n : items[i] = conn[e].sent + i
      /\ items # <<>>
  <2>1. items \in [1..n -> Int]
    BY <1>0, <1>2
  <2>2. \A i \in 1..n : items[i] = conn[e].sent + i
    OBVIOUS
  <2> HIDE DEF items
  <2>3. items \in Seq(Int) /\ Len(items) = n
    BY <1>2, <2>1
  <2>4. items # <<>>
    BY <1>0, <1>2, <2>3
  <2> QED BY <2>2, <2>3, <2>4
<1>4. Plain(items)
  BY <1>0, <1>2, <1>3 DEF Plain
<1>5. PICK wire \in Wire(e, items) :
         /\ link' = [link EXCEPT ![e] = IF conn[Peer(e)].open THEN link[e] \o wire ELSE link[e]]
         /\ damaged' = [damaged EXCEPT ![e] = damaged[e] \/ Items(wire) # items]
  BY <1>0, <1>1
<1> HIDE DEF items
<1> DEFINE s == Shaken(conn[e])
           f == Flushed(s)
           r == [f EXCEPT !.sent = f.sent + n]
<1>6. /\ s \in Ends2 /\ s.up = conn[e].up /\ s.rbuf = conn[e].rbuf /\ s.drained = conn[e].drained
      /\ s.shaken /\ s.got = conn[e].got /\ s.sent = conn[e].sent /\ s.open = conn[e].open
  <2>1. CASE conn[e].shaken
    BY <1>0, <2>1 DEF Shaken
  <2>2. CASE ~conn[e].shaken
    <3> DEFINE h == <<Header>>
    <3>1. h \in Kepts /\ s = [conn[e] EXCEPT !.shaken = TRUE, !.wbuf = h]
      BY <2>2, KeptSets DEF Shaken
    <3> HIDE DEF h, s
    <3> QED BY <1>0, <3>1 DEF Ends2
  <2> QED BY <2>1, <2>2
<1> HIDE DEF s
<1>7. /\ f \in Ends2 /\ f.up = conn[e].up /\ f.rbuf = conn[e].rbuf /\ f.drained = conn[e].drained
      /\ f.shaken /\ f.got = conn[e].got /\ f.sent = conn[e].sent /\ f.open = conn[e].open
      /\ f.wbuf = <<>>
  <2> DEFINE w == <<>>
  <2>1. w \in Kepts /\ f = [s EXCEPT !.wbuf = w]
    BY KeptSets DEF Flushed
  <2> HIDE DEF w, f
  <2>2. /\ f \in Ends2 /\ f.up = conn[e].up /\ f.rbuf = conn[e].rbuf /\ f.drained = conn[e].drained
        /\ f.shaken /\ f.got = conn[e].got /\ f.sent = conn[e].sent /\ f.open = conn[e].open
        /\ f.wbuf = w
    BY <1>6, <2>1 DEF Ends2
  <2> QED BY <2>2 DEF w
<1>8. conn' = [conn EXCEPT ![e] = r]
  BY <1>0, <1>1 DEF s
<1> HIDE DEF f
<1>9. conn[e].sent + n \in 0..MaxItems
  BY <1>0, <1>1, <1>2
<1>10. /\ r \in Ends2 /\ r.up = conn[e].up /\ r.rbuf = conn[e].rbuf /\ r.drained = conn[e].drained
       /\ r.shaken /\ r.got = conn[e].got /\ r.sent = conn[e].sent + n /\ r.open = conn[e].open
       /\ r.wbuf = f.wbuf
  BY <1>7, <1>9 DEF Ends2
<1> HIDE DEF r
<1>11. conn' \in [BothEnds -> Ends2] /\ conn'[e] = r /\ conn'[Peer(e)] = conn[Peer(e)]
  BY <1>8, <1>10, OneEnd
<1>12. /\ conn'[e].up = conn[e].up /\ conn'[e].wbuf = <<>> /\ conn'[e].rbuf = conn[e].rbuf
       /\ conn'[e].drained = conn[e].drained /\ conn'[e].shaken /\ conn'[e].got = conn[e].got
       /\ conn'[e].sent = conn[e].sent + n /\ conn'[e].open = conn[e].open
  BY <1>7, <1>10, <1>11
<1> QED BY <1>2, <1>3, <1>4, <1>5, <1>11, <1>12

LEMMA WholeOn ==
  ASSUME LazyConnAssumption, LazyShape, LazyShape', NEW e \in BothEnds, NEW x \in Seq(Int),
         conn'[Peer(e)].got = conn[Peer(e)].got, conn'[Peer(e)].rbuf = conn[Peer(e)].rbuf,
         Items(link'[e]) = Items(link[e]) \o x
  PROVE  Whole(e)' = Whole(e) \o x
<1> DEFINE g == conn[Peer(e)].got
           b == conn[Peer(e)].rbuf
           l == Items(link[e])
<1>1. g \in Seq(Int) /\ b \in Seq(Int) /\ l \in Seq(Int)
  BY WholeIs
<1>2. Whole(e) = Row(g, b, l)
  BY WholeIs
<1>3. Whole(e)' = Row(g, b, l \o x)
  BY WholeThen
<1> HIDE DEF g, b, l
<1> DEFINE h == g \o b
<1>4. h \in Seq(Int)
  BY <1>1
<1>5. Row(g, b, l \o x) = h \o (l \o x) /\ Row(g, b, l) = h \o l
  BY DEF Row
<1> HIDE DEF h
<1>6. h \o (l \o x) = (h \o l) \o x
  BY <1>1, <1>4, AssociatesInt
<1> QED BY <1>2, <1>3, <1>5, <1>6, Zenon

LEMMA WriteOrder ==
  ASSUME LazyConnAssumption, LazyShape, LazyShape', NEW e \in BothEnds, InOrder(e), InOrder(Peer(e)),
         NEW n \in Nat, NEW items \in Seq(Int), NEW wire \in Seq(Int), Len(items) = n,
         \A i \in 1..n : items[i] = conn[e].sent + i, conn[e].open,
         link'[e] = IF conn[Peer(e)].open THEN link[e] \o wire ELSE link[e],
         link'[Peer(e)] = link[Peer(e)],
         damaged'[e] <=> damaged[e] \/ Items(wire) # items, damaged'[Peer(e)] = damaged[Peer(e)],
         conn'[Peer(e)] = conn[Peer(e)], conn'[e].open = conn[e].open,
         conn'[e].got = conn[e].got, conn'[e].rbuf = conn[e].rbuf, conn'[e].sent = conn[e].sent + n
  PROVE  InOrder(e)' /\ InOrder(Peer(e))'
<1>1. /\ Peer(e) \in BothEnds /\ Peer(Peer(e)) = e /\ conn[e].sent \in Nat /\ link[e] \in Seq(Int)
      /\ conn[Peer(e)].open \in BOOLEAN
  BY EndTypes
<1>2. /\ NobodyCloses <=> conn[Peer(e)].open
      /\ NobodyCloses' <=> conn[Peer(e)].open
  <2>1. CASE e = "c"
    BY <2>1, TwoEnds DEF NobodyCloses
  <2>2. CASE e = "s"
    BY <2>2, TwoEnds DEF NobodyCloses
  <2> QED BY <2>1, <2>2, TwoEnds
<1>3. InOrder(e)'
  <2>1. CASE damaged'[e]
    BY <2>1 DEF InOrder
  <2>2. CASE ~damaged'[e] /\ conn[Peer(e)].open
    <3>1. Items(link'[e]) = Items(link[e]) \o items
      BY <1>1, <2>2, ItemsParts
    <3>2. conn'[Peer(e)].got = conn[Peer(e)].got /\ conn'[Peer(e)].rbuf = conn[Peer(e)].rbuf
      OBVIOUS
    <3>5. Whole(e)' = Whole(e) \o items
      BY <3>1, <3>2, WholeOn
    <3> QED BY <1>2, <2>2, <3>5, OrderOn
  <2>3. CASE ~damaged'[e] /\ ~conn[Peer(e)].open
    <3>1. Whole(e)' = Whole(e) /\ Len(Whole(e)) \in Nat
      BY <2>3, WholeIs, WholeThen
    <3>2. ~damaged[e] /\ ~NobodyCloses'
      BY <1>2, <2>3
    <3> DEFINE w == Whole(e)
    <3>3. (\A i \in 1..Len(w) : w[i] = i) /\ Len(w) <= conn[e].sent
      BY <3>2 DEF InOrder
    <3> HIDE DEF w
    <3>4. Len(w) <= conn'[e].sent
      BY <1>1, <3>1, <3>3 DEF w
    <3>5. (\A i \in 1..Len(Whole(e)') : Whole(e)'[i] = i) /\ Len(Whole(e)') <= conn'[e].sent
      BY <3>1, <3>3, <3>4 DEF w
    <3> QED BY <3>2, <3>5 DEF InOrder
  <2> QED BY <2>1, <2>2, <2>3
<1>4. InOrder(Peer(e))'
  <2> DEFINE p == Peer(e)
  <2>1. /\ p \in BothEnds /\ Peer(p) = e /\ InOrder(p) /\ link'[p] = link[p] /\ conn'[p] = conn[p]
        /\ damaged'[p] = damaged[p]
    BY <1>1
  <2> HIDE DEF p
  <2>2. conn'[Peer(p)].got = conn[Peer(p)].got /\ conn'[Peer(p)].rbuf = conn[Peer(p)].rbuf
    BY <2>1
  <2>3. InOrder(p)'
    BY <1>2, <2>1, <2>2, OrderSame
  <2> QED BY <2>3 DEF p
<1> QED BY <1>3, <1>4

LEMMA ClientWriteTalk ==
  ASSUME LazyConnAssumption, LazyShape, BufferOK, RequestOK, ResponseOK, kind' = kind,
         NEW wire \in Seq(Int), Unsaid => Headed(wire, {Header}), ~Unsaid => Plain(wire),
         conn["c"].open, link["c"] \in Seq(Int),
         link'["c"] = IF conn["s"].open THEN link["c"] \o wire ELSE link["c"],
         link'["s"] = link["s"], conn'["s"] = conn["s"],
         conn'["c"].up = conn["c"].up, conn'["c"].wbuf = <<>>, conn'["c"].rbuf = conn["c"].rbuf,
         conn'["c"].drained = conn["c"].drained, conn'["c"].shaken, conn'["c"].open
  PROVE  BufferOK' /\ RequestOK' /\ ResponseOK'
<1>1. ~Unsaid' /\ (Awaits' <=> Awaits) /\ (Silent' <=> Silent)
  BY DEF Unsaid, Awaits, Silent
<1>2. BufferOK'
  BY DEF BufferOK
<1>3. ResponseOK'
  BY <1>1 DEF ResponseOK
<1>4. RequestOK'
  <2>1. CASE ~conn["s"].open
    BY <2>1 DEF RequestOK
  <2> DEFINE l == link["c"]
             m == l \o wire
  <2>2. /\ m \in Seq(Int) /\ (l = <<>> => m = wire) /\ (Plain(l) /\ Plain(wire) => Plain(m))
        /\ Headed(l, {Header}) /\ Plain(wire) => Headed(m, {Header})
        /\ Headed(m, {Header}) => m # <<>>
    <3> DEFINE h == {Header}
    <3> HIDE DEF l, h
    <3>1. /\ m \in Seq(Int) /\ (l = <<>> => m = wire) /\ (Plain(l) /\ Plain(wire) => Plain(m))
          /\ Headed(l, h) /\ Plain(wire) => Headed(m, h)
          /\ Headed(m, h) => m # <<>>
      BY Longer DEF l
    <3> QED BY <3>1 DEF h
  <2>3. CASE conn["s"].open
    <3>1. link'["c"] = m
      BY <2>3
    <3> HIDE DEF m
    <3>2. CASE conn["s"].up
      BY <1>1, <2>2, <2>3, <3>1, <3>2 DEF RequestOK, l
    <3>3. CASE ~conn["s"].up
      <4>1. Headed(m, {Header})
        BY <2>2, <2>3, <3>3 DEF RequestOK, l
      <4> QED BY <1>1, <2>2, <3>1, <3>3, <4>1 DEF RequestOK
    <3> QED BY <3>2, <3>3
  <2> QED BY <2>1, <2>3
<1> QED BY <1>2, <1>3, <1>4

LEMMA ServerWriteTalk ==
  ASSUME LazyConnAssumption, LazyShape, BufferOK, RequestOK, ResponseOK, kind' = kind,
         NEW wire \in Seq(Int), link["s"] \in Seq(Int), conn["s"].up, conn["s"].open,
         kind.name # "otls" /\ conn["s"].wbuf # <<>> => Headed(wire, {Header}),
         kind.name # "otls" /\ conn["s"].wbuf = <<>> => Plain(wire),
         link'["s"] = IF conn["c"].open THEN link["s"] \o wire ELSE link["s"],
         link'["c"] = link["c"], conn'["c"] = conn["c"],
         conn'["s"].up = conn["s"].up, conn'["s"].wbuf = <<>>, conn'["s"].rbuf = conn["s"].rbuf,
         conn'["s"].drained = conn["s"].drained, conn'["s"].open
  PROVE  BufferOK' /\ RequestOK' /\ ResponseOK'
<1>1. (Unsaid' <=> Unsaid) /\ (Awaits' <=> Awaits) /\ ~Silent' /\ (Silent <=> conn["s"].wbuf # <<>>)
  BY DEF Unsaid, Awaits, Silent
<1>2. BufferOK'
  BY DEF BufferOK
<1>3. RequestOK'
  BY <1>1 DEF RequestOK
<1>4. ResponseOK'
  <2>1. CASE ~conn["c"].open \/ kind.name = "otls"
    BY <2>1 DEF ResponseOK
  <2> DEFINE l == link["s"]
             m == l \o wire
             h == {Header, Refusal}
  <2>2. /\ m \in Seq(Int) /\ (l = <<>> => m = wire) /\ (Plain(l) /\ Plain(wire) => Plain(m))
        /\ Headed(l, h) /\ Plain(wire) => Headed(m, h)
        /\ Headed(m, h) => m # <<>>
    <3> HIDE DEF l, h
    <3>1. /\ m \in Seq(Int) /\ (l = <<>> => m = wire) /\ (Plain(l) /\ Plain(wire) => Plain(m))
          /\ Headed(l, h) /\ Plain(wire) => Headed(m, h)
          /\ Headed(m, h) => m # <<>>
      BY Longer DEF l
    <3> QED BY <3>1
  <2>3. CASE conn["c"].open /\ kind.name # "otls"
    <3>1. link'["s"] = m
      BY <2>3
    <3>2. Headed(wire, {Header}) => Headed(wire, h)
      BY DEF Headed
    <3> HIDE DEF m, h
    <3>3. CASE kind.name \in {"ss", "sni"}
      <4>1. Plain(l) /\ Plain(wire)
        BY <2>3, <3>3 DEF ResponseOK, BufferOK
      <4> QED BY <2>2, <2>3, <3>1, <3>3, <4>1 DEF ResponseOK
    <3>4. CASE kind.name \notin {"ss", "sni"} /\ Awaits
      <4>1. (l = <<>> \/ Headed(l, h)) /\ (Silent <=> l = <<>>)
        BY <2>3, <3>4 DEF ResponseOK, h
      <4>2. Headed(m, h)
        BY <1>1, <2>2, <2>3, <3>2, <4>1
      <4> QED BY <1>1, <2>2, <2>3, <3>1, <3>4, <4>2 DEF ResponseOK, h
    <3>5. CASE kind.name \notin {"ss", "sni"} /\ ~Awaits
      <4>1. Plain(l) /\ ~Silent
        BY <2>3, <3>5 DEF ResponseOK
      <4> QED BY <1>1, <2>2, <2>3, <3>1, <3>5, <4>1 DEF ResponseOK
    <3> QED BY <3>3, <3>4, <3>5
  <2> QED BY <2>1, <2>3
<1> QED BY <1>2, <1>3, <1>4

LEMMA WriteBlockStep ==
  ASSUME LazyConnAssumption, LazyIInv, NEW e \in BothEnds, WriteBlock(e)
  PROVE  LazyIInv'
<1>a. /\ LazyShape /\ BufferOK /\ RequestOK /\ ResponseOK /\ InOrder("c") /\ InOrder("s")
      /\ link \in [BothEnds -> Seq(Int)] /\ damaged \in [BothEnds -> BOOLEAN]
  BY LazyNow
<1>b. /\ Peer(e) \in BothEnds /\ Peer(Peer(e)) = e /\ Peer(e) # e /\ link[e] \in Seq(Int)
      /\ conn[e].open \in BOOLEAN
  BY <1>a, EndTypes
<1>c. kind' = kind /\ conn[e].up /\ conn[e].open
  BY DEF WriteBlock
<1>1. PICK n \in 1..MaxBlock : \E items \in Seq(Int) : \E wire \in Wire(e, items) :
           /\ Len(items) = n /\ \A i \in 1..n : items[i] = conn[e].sent + i
           /\ Plain(items) /\ items # <<>>
           /\ link' = [link EXCEPT ![e] = IF conn[Peer(e)].open THEN link[e] \o wire ELSE link[e]]
           /\ damaged' = [damaged EXCEPT ![e] = damaged[e] \/ Items(wire) # items]
           /\ conn' \in [BothEnds -> Ends2] /\ conn'[Peer(e)] = conn[Peer(e)]
           /\ conn'[e].up = conn[e].up /\ conn'[e].wbuf = <<>> /\ conn'[e].rbuf = conn[e].rbuf
           /\ conn'[e].drained = conn[e].drained /\ conn'[e].shaken /\ conn'[e].got = conn[e].got
           /\ conn'[e].sent = conn[e].sent + n /\ conn'[e].open = conn[e].open
  BY <1>a, WriteIs
<1>2. PICK items \in Seq(Int) : \E wire \in Wire(e, items) :
           /\ Len(items) = n /\ \A i \in 1..n : items[i] = conn[e].sent + i
           /\ Plain(items) /\ items # <<>>
           /\ link' = [link EXCEPT ![e] = IF conn[Peer(e)].open THEN link[e] \o wire ELSE link[e]]
           /\ damaged' = [damaged EXCEPT ![e] = damaged[e] \/ Items(wire) # items]
           /\ conn' \in [BothEnds -> Ends2] /\ conn'[Peer(e)] = conn[Peer(e)]
           /\ conn'[e].up = conn[e].up /\ conn'[e].wbuf = <<>> /\ conn'[e].rbuf = conn[e].rbuf
           /\ conn'[e].drained = conn[e].drained /\ conn'[e].shaken /\ conn'[e].got = conn[e].got
           /\ conn'[e].sent = conn[e].sent + n /\ conn'[e].open = conn[e].open
  BY <1>1
<1>3. PICK wire \in Wire(e, items) :
           /\ Len(items) = n /\ \A i \in 1..n : items[i] = conn[e].sent + i
           /\ Plain(items) /\ items # <<>>
           /\ link' = [link EXCEPT ![e] = IF conn[Peer(e)].open THEN link[e] \o wire ELSE link[e]]
           /\ damaged' = [damaged EXCEPT ![e] = damaged[e] \/ Items(wire) # items]
           /\ conn' \in [BothEnds -> Ends2] /\ conn'[Peer(e)] = conn[Peer(e)]
           /\ conn'[e].up = conn[e].up /\ conn'[e].wbuf = <<>> /\ conn'[e].rbuf = conn[e].rbuf
           /\ conn'[e].drained = conn[e].drained /\ conn'[e].shaken /\ conn'[e].got = conn[e].got
           /\ conn'[e].sent = conn[e].sent + n /\ conn'[e].open = conn[e].open
  BY <1>2
<1>4. wire \in Seq(Int)
  <2>1. CASE e = "c"
    BY <1>a, <1>3, <2>1, ClientWire
  <2>2. CASE e = "s"
    BY <1>a, <1>3, <2>2, ServerWire
  <2> QED BY <2>1, <2>2, TwoEnds
<1> DEFINE q == IF conn[Peer(e)].open THEN link[e] \o wire ELSE link[e]
<1>5. q \in Seq(Int)
  BY <1>b, <1>4
<1>6. link' \in [BothEnds -> Seq(Int)] /\ link'[e] = q /\ link'[Peer(e)] = link[Peer(e)]
  <2>1. link' = [link EXCEPT ![e] = q]
    BY <1>3
  <2> HIDE DEF q
  <2> QED BY <1>a, <1>5, <2>1, OneLink
<1>7. /\ damaged' \in [BothEnds -> BOOLEAN] /\ damaged'[Peer(e)] = damaged[Peer(e)]
      /\ damaged'[e] <=> damaged[e] \/ Items(wire) # items
  BY <1>a, <1>b, <1>3
<1>8. LazyShape' /\ LazyTypeOK'
  BY <1>a, <1>c, <1>3, <1>6, <1>7, ShapeThen
<1>9. BufferOK' /\ RequestOK' /\ ResponseOK'
  <2>1. CASE e = "c"
    <3>1. (Unsaid => Headed(wire, {Header})) /\ (~Unsaid => Plain(wire))
      BY <1>a, <1>3, <2>1, ClientWire
    <3>2. /\ link["c"] \in Seq(Int) /\ conn["c"].open /\ link'["s"] = link["s"] /\ conn'["s"] = conn["s"]
          /\ link'["c"] = IF conn["s"].open THEN link["c"] \o wire ELSE link["c"]
      BY <1>b, <1>c, <1>3, <1>6, <2>1, TwoEnds
    <3>3. /\ conn'["c"].up = conn["c"].up /\ conn'["c"].wbuf = <<>> /\ conn'["c"].rbuf = conn["c"].rbuf
          /\ conn'["c"].drained = conn["c"].drained /\ conn'["c"].shaken /\ conn'["c"].open
      BY <1>c, <1>3, <2>1
    <3> QED BY <1>a, <1>c, <1>4, <3>1, <3>2, <3>3, ClientWriteTalk
  <2>2. CASE e = "s"
    <3>1. /\ kind.name # "otls" /\ conn["s"].wbuf # <<>> => Headed(wire, {Header})
          /\ kind.name # "otls" /\ conn["s"].wbuf = <<>> => Plain(wire)
      BY <1>a, <1>3, <2>2, ServerWire
    <3>2. /\ link["s"] \in Seq(Int) /\ conn["s"].open /\ link'["c"] = link["c"] /\ conn'["c"] = conn["c"]
          /\ link'["s"] = (IF conn["c"].open THEN link["s"] \o wire ELSE link["s"]) /\ conn["s"].up
      BY <1>b, <1>c, <1>3, <1>6, <2>2, TwoEnds
    <3>3. /\ conn'["s"].up = conn["s"].up /\ conn'["s"].wbuf = <<>> /\ conn'["s"].rbuf = conn["s"].rbuf
          /\ conn'["s"].drained = conn["s"].drained /\ conn'["s"].open
      BY <1>c, <1>3, <2>2
    <3> QED BY <1>a, <1>c, <1>4, <3>1, <3>2, <3>3, ServerWriteTalk
  <2> QED BY <2>1, <2>2, TwoEnds
<1>10. InOrder(e)' /\ InOrder(Peer(e))'
  <2>1. InOrder(e) /\ InOrder(Peer(e))
    BY <1>a, TwoEnds DEF Peer
  <2>2. n \in Nat
    BY DEF LazyConnAssumption
  <2> QED BY <1>a, <1>c, <1>3, <1>4, <1>6, <1>7, <1>8, <2>1, <2>2, WriteOrder
<1>11. InOrder("c")' /\ InOrder("s")'
  BY <1>10, TwoEnds
<1> QED BY <1>8, <1>9, <1>11, LazyThen

LEMMA ClientStart ==
  ASSUME LazyConnAssumption, kind \in ConnKinds
  PROVE  /\ Client \in Ends2 /\ Client.rbuf = <<>> /\ Client.got = <<>> /\ Client.sent = 0
         /\ Client.open /\ ~Client.shaken
         /\ kind.name = "relay" =>
              /\ Client.up <=> ~kind.cnow
              /\ Client.drained <=> kind.cnow /\ ~kind.udp
         /\ kind.name # "relay" => Client.up /\ (Client.drained <=> kind.name # "ohttp")
         /\ Client.wbuf # <<>> <=> kind.name \in {"relay", "ss"} /\ ~kind.cnow
<1>k. /\ kind.name \in {"ohttp", "otls", "relay", "ss", "sni"}
      /\ kind.cnow \in BOOLEAN /\ kind.snow \in BOOLEAN /\ kind.udp \in BOOLEAN
  BY DEF LazyConnAssumption
<1>f. /\ Fresh \in Ends2 /\ ~Fresh.up /\ Fresh.wbuf = <<>> /\ Fresh.rbuf = <<>> /\ Fresh.drained
      /\ ~Fresh.shaken /\ Fresh.sent = 0 /\ Fresh.got = <<>> /\ Fresh.open
  BY KeptSets DEF Fresh, Ends2, LazyConnAssumption
<1> DEFINE w == KeptFirst
<1>w. w \in Kepts /\ (w # <<>> <=> ~kind.cnow)
  BY <1>k, KeptSets DEF KeptFirst
<1> HIDE DEF w
<1>1. CASE kind.name = "relay"
  <2>1. Client = [Fresh EXCEPT !.up = ~kind.cnow, !.wbuf = w, !.drained = kind.cnow /\ ~kind.udp]
    BY <1>1 DEF Client, RelayClient, w
  <2> DEFINE u == ~kind.cnow
             d == kind.cnow /\ ~kind.udp
  <2>2. u \in BOOLEAN /\ d \in BOOLEAN /\ Client = [Fresh EXCEPT !.up = u, !.wbuf = w, !.drained = d]
    BY <2>1
  <2> HIDE DEF u, d
  <2>3. /\ Client \in Ends2 /\ Client.rbuf = <<>> /\ Client.got = <<>> /\ Client.sent = 0
        /\ Client.open /\ ~Client.shaken /\ Client.up = u /\ Client.drained = d /\ Client.wbuf = w
    BY <1>f, <1>w, <2>2 DEF Ends2
  <2> QED BY <1>1, <1>w, <2>3 DEF u, d
<1>2. CASE kind.name = "ss"
  <2>1. Client = [Fresh EXCEPT !.up = TRUE, !.wbuf = w]
    BY <1>2 DEF Client, SsClient, w
  <2>3. /\ Client \in Ends2 /\ Client.rbuf = <<>> /\ Client.got = <<>> /\ Client.sent = 0
        /\ Client.open /\ ~Client.shaken /\ Client.up = TRUE /\ Client.drained = Fresh.drained
        /\ Client.wbuf = w
    BY <1>f, <1>w, <2>1 DEF Ends2
  <2> QED BY <1>2, <1>w, <1>f, <2>3
<1>3. CASE kind.name \notin {"relay", "ss"}
  <2> DEFINE d == kind.name # "ohttp"
  <2>1. d \in BOOLEAN /\ Client = [Fresh EXCEPT !.up = TRUE, !.drained = d]
    BY <1>3 DEF Client
  <2> HIDE DEF d
  <2>3. /\ Client \in Ends2 /\ Client.rbuf = <<>> /\ Client.got = <<>> /\ Client.sent = 0
        /\ Client.open /\ ~Client.shaken /\ Client.up = TRUE /\ Client.drained = d
        /\ Client.wbuf = <<>>
    BY <1>f, <2>1 DEF Ends2
  <2> QED BY <1>3, <2>3 DEF d
<1> QED BY <1>1, <1>2, <1>3

LEMMA ServerStart ==
  ASSUME LazyConnAssumption
  PROVE  \A u \in BOOLEAN :
           LET r == [Fresh EXCEPT !.up = u]
           IN  /\ r \in Ends2 /\ r.rbuf = <<>> /\ r.got = <<>> /\ r.sent = 0 /\ r.wbuf = <<>>
               /\ r.open /\ r.drained /\ r.up = u
<1>f. /\ Fresh \in Ends2 /\ Fresh.wbuf = <<>> /\ Fresh.rbuf = <<>> /\ Fresh.drained
      /\ Fresh.sent = 0 /\ Fresh.got = <<>> /\ Fresh.open
  BY KeptSets DEF Fresh, Ends2, LazyConnAssumption
<1> QED BY <1>f DEF Ends2

LEMMA LazyStart ==
  ASSUME LazyConnAssumption, LazyInit
  PROVE  LazyIInv
<1>k. /\ kind \in ConnKinds /\ kind.name \in {"ohttp", "otls", "relay", "ss", "sni"}
      /\ kind.cnow \in BOOLEAN /\ kind.snow \in BOOLEAN /\ kind.udp \in BOOLEAN
  BY DEF LazyConnAssumption, LazyInit
<1> DEFINE c == Client
           u == kind.name = "sni"
           s == [Fresh EXCEPT !.up = u]
           now == kind.name \in {"relay", "ss"} /\ kind.cnow
           q == IF now THEN <<Header>> ELSE <<>>
<1>1. /\ conn = [e \in BothEnds |-> IF e = "c" THEN c ELSE s]
      /\ link = [e \in BothEnds |-> IF e = "c" /\ now THEN <<Header>> ELSE <<>>]
      /\ damaged = [e \in BothEnds |-> FALSE]
  BY DEF LazyInit
<1>2. /\ c \in Ends2 /\ c.rbuf = <<>> /\ c.got = <<>> /\ c.sent = 0 /\ c.open /\ ~c.shaken
      /\ kind.name = "relay" =>
           (c.up <=> ~kind.cnow) /\ (c.drained <=> kind.cnow /\ ~kind.udp)
      /\ kind.name # "relay" => c.up /\ (c.drained <=> kind.name # "ohttp")
      /\ c.wbuf # <<>> <=> kind.name \in {"relay", "ss"} /\ ~kind.cnow
  BY <1>k, ClientStart
<1>3. /\ s \in Ends2 /\ s.rbuf = <<>> /\ s.got = <<>> /\ s.sent = 0 /\ s.wbuf = <<>>
      /\ s.open /\ s.drained /\ s.up = u
  BY ServerStart
<1>4. q \in Seq(Int) /\ <<>> \in Seq(Int) /\ (q = <<>> <=> ~now) /\ Items(q) = <<>>
  <2>1. <<>> \in Seq(Int) /\ <<0>> \in Seq(Int) /\ <<0>> # <<>> /\ Header = 0
    BY DEF Header
  <2>2. Items(<<>>) = <<>>
    BY <2>1, ItemsParts
  <2> QED BY <2>1, <2>2, NotItems
<1>5. link = [e \in BothEnds |-> IF e = "c" THEN q ELSE <<>>]
  BY <1>1
<1> HIDE DEF c, s, q
<1>6. /\ conn \in [BothEnds -> Ends2] /\ conn["c"] = c /\ conn["s"] = s
      /\ link \in [BothEnds -> Seq(Int)] /\ link["c"] = q /\ link["s"] = <<>>
      /\ damaged \in [BothEnds -> BOOLEAN] /\ damaged["c"] = FALSE /\ damaged["s"] = FALSE
  BY <1>1, <1>2, <1>3, <1>4, <1>5, TwoEnds
<1>7. LazyShape /\ LazyTypeOK
  <2>1. LazyShape
    BY <1>k, <1>6 DEF LazyShape
  <2>2. \A e \in BothEnds : /\ conn[e].sent \in 0..MaxItems /\ conn[e].up \in BOOLEAN
                             /\ conn[e].reading \in BOOLEAN /\ conn[e].open \in BOOLEAN
    BY <2>1, EndTypes
  <2> QED BY <1>k, <1>6, <2>1, <2>2 DEF LazyTypeOK
<1>8. BufferOK
  BY <1>k, <1>2, <1>3, <1>6 DEF BufferOK
<1>9. Unsaid <=> kind.name \in {"ohttp", "otls"} \/ (kind.name \in {"relay", "ss"} /\ ~kind.cnow)
  BY <1>k, <1>2, <1>6 DEF Unsaid
<1>10. RequestOK
  <2>1. Plain(<<>>)
    BY DEF Plain
  <2>2. now => Headed(q, {Header})
    <3>1. <<>> \in Seq(Int) /\ Header \in Int /\ Header \in {Header}
      BY DEF Header
    <3>2. Headed(<<Header>>, {Header})
      BY <2>1, <3>1, HeadedFirst
    <3> QED BY <3>2 DEF q
  <2>3. CASE kind.name = "sni"
    BY <1>3, <1>4, <1>6, <1>9, <2>1, <2>3 DEF RequestOK
  <2>4. CASE kind.name # "sni"
    BY <1>k, <1>2, <1>3, <1>4, <1>6, <1>9, <2>2, <2>4 DEF RequestOK
  <2> QED BY <2>3, <2>4
<1>11. ResponseOK
  <2>1. Plain(<<>>)
    BY DEF Plain
  <2>2. kind.name \in {"ohttp", "relay"} => Awaits /\ Silent
    BY <1>k, <1>2, <1>3, <1>6 DEF Awaits, Silent
  <2> QED BY <1>k, <1>6, <2>1, <2>2 DEF ResponseOK
<1>12. ASSUME NEW e \in BothEnds PROVE InOrder(e)
  <2>1. conn[Peer(e)].got = <<>> /\ conn[Peer(e)].rbuf = <<>> /\ Items(link[e]) = <<>> /\ conn[e].sent = 0
    <3>1. CASE e = "c"
      BY <1>3, <1>4, <1>6, <1>2, <3>1, TwoEnds
    <3>2. CASE e = "s"
      <4>1. Items(<<>>) = <<>>
        BY <1>4, ItemsParts
      <4> QED BY <1>2, <1>3, <1>6, <3>2, <4>1, TwoEnds
    <3> QED BY <3>1, <3>2, TwoEnds
  <2>2. Whole(e) = <<>>
    <3>1. (<<>> \o <<>>) \o <<>> = <<>>
      OBVIOUS
    <3> QED BY <2>1, <3>1 DEF Whole
  <2> QED BY <2>1, <2>2 DEF InOrder
<1> QED BY <1>7, <1>8, <1>10, <1>11, <1>12, TwoEnds DEF LazyIInv

LEMMA LazyStep ==
  ASSUME LazyConnAssumption, LazyIInv, LazyNext
  PROVE  LazyIInv'
<1>1. ASSUME NEW e \in BothEnds, Reading(e) PROVE LazyIInv'
  <2>1. CASE e = "c" /\ ReadShakes
    BY <2>1, ReadShakesStep
  <2>2. CASE e = "c" /\ DrainHeader
    BY <2>2, DrainHeaderStep
  <2>3. CASE e = "c" /\ ReadResponse
    BY <2>3, ReadResponseStep
  <2>4. CASE e = "c" /\ ReadParsed
    BY <2>4, ReadParsedStep
  <2>5. CASE ReadBuffer(e)
    BY <2>5, ReadBufferStep
  <2>6. CASE ReadLink(e)
    BY <2>6, ReadLinkStep
  <2>7. CASE ReadingEnds(e)
    BY <2>7, ReadingEndsStep
  <2> QED BY <1>1, <2>1, <2>2, <2>3, <2>4, <2>5, <2>6, <2>7 DEF Reading
<1>2. CASE TakeResponse \/ Take \/ RefuseRequest
  BY <1>2, TakeResponseStep, TakeStep, RefuseRequestStep
<1>3. CASE \E e \in BothEnds : WriteBlock(e) \/ CloseEnd(e) \/ Reading(e)
  BY <1>1, <1>3, WriteBlockStep, CloseEndStep
<1> QED BY <1>2, <1>3 DEF LazyNext

LEMMA LazyUntouched ==
  ASSUME LazyIInv, UNCHANGED lazyVars
  PROVE  LazyIInv'
<1>1. kind' = kind /\ conn' = conn /\ link' = link /\ damaged' = damaged
  BY DEF lazyVars
<1>2. LazyTypeOK' /\ LazyShape'
  BY <1>1 DEF LazyIInv, LazyTypeOK, LazyShape
<1>3. BufferOK'
  BY <1>1 DEF LazyIInv, BufferOK
<1>4. RequestOK' /\ ResponseOK'
  BY <1>1 DEF LazyIInv, RequestOK, ResponseOK, Unsaid, Silent, Awaits
<1>5. InOrder("c")' /\ InOrder("s")'
  BY <1>1 DEF LazyIInv, InOrder, Whole, NobodyCloses
<1> QED BY <1>2, <1>3, <1>4, <1>5 DEF LazyIInv

(* What is read is the beginning of what there is in a row. *)
LEMMA LazyInvMeans ==
  ASSUME LazyConnAssumption, LazyIInv
  PROVE  ReadInOrder
<1>1. LazyTypeOK /\ LazyShape
  BY DEF LazyIInv
<1>2. ASSUME NEW e \in BothEnds, ~damaged[e]
      PROVE  IsPrefix(conn[Peer(e)].got, [i \in 1..conn[e].sent |-> i])
  <2> DEFINE w == Whole(e)
             g == conn[Peer(e)].got
             rest == conn[Peer(e)].rbuf \o Items(link[e])
             n == conn[e].sent
             f == [i \in 1..n |-> i]
  <2>1. (\A i \in 1..Len(w) : w[i] = i) /\ Len(w) <= n
    BY <1>2, TwoEnds DEF LazyIInv, InOrder
  <2>2. g \in Seq(Int) /\ rest \in Seq(Int) /\ w = g \o rest /\ n \in Nat
    <3>1. /\ conn[Peer(e)].got \in Seq(Int) /\ conn[Peer(e)].rbuf \in Seq(Int)
          /\ Items(link[e]) \in Seq(Int)
      BY <1>1, WholeIs
    <3>2. w = (conn[Peer(e)].got \o conn[Peer(e)].rbuf) \o Items(link[e])
      BY DEF Whole
    <3>3. w = g \o rest
      BY <3>1, <3>2, AssociatesInt
    <3>4. n \in Nat
      BY <1>1, EndTypes
    <3> QED BY <3>1, <3>3, <3>4
  <2> HIDE DEF w, g, rest, n
  <2>3. Len(g) <= Len(w) /\ \A i \in 1..Len(g) : g[i] = i
    BY <2>1, <2>2
  <2>4. Len(f) = n /\ f \in Seq(Int)
    BY <2>2
  <2>5. SubSeq(g, 1, Len(g)) = SubSeq(f, 1, Len(g))
    <3>1. \A i \in 1..Len(g) : f[i] = i
      BY <2>1, <2>2, <2>3
    <3> HIDE DEF f
    <3> QED BY <2>1, <2>2, <2>3, <2>4, <3>1
  <2>6. IsPrefix(g, f)
    BY <2>1, <2>2, <2>3, <2>4, <2>5 DEF IsPrefix
  <2> QED BY <2>6 DEF g, f, n
<1>3. damaged \in [BothEnds -> BOOLEAN]
  BY <1>1 DEF LazyShape
<1> QED BY <1>1, <1>2, <1>3 DEF ReadInOrder

----------------------------------------------------------------------------
(* The two together. *)
ConnsIInv == PhtIInv /\ LazyIInv

LEMMA ConnsStart ==
  ASSUME PHTAssumption, LazyConnAssumption, ConnsInit
  PROVE  ConnsIInv /\ Ends!StreamInit
BY PhtStart, LazyStart, StreamStart DEF ConnsInit, ConnsIInv

LEMMA ConnsStep ==
  ASSUME PHTAssumption, LazyConnAssumption, ConnsIInv, [ConnsNext]_<<phtVars, lazyVars, tunnel>>
  PROVE  ConnsIInv' /\ StreamStepOr
<1>1. CASE PhtNext /\ UNCHANGED lazyVars
  <2>1. PhtIInv'
    BY <1>1, PhtStep DEF ConnsIInv
  <2>2. LazyIInv'
    BY <1>1, LazyUntouched DEF ConnsIInv
  <2>3. StreamStepOr
    BY <1>1, <2>1, StreamStep DEF ConnsIInv
  <2> QED BY <2>1, <2>2, <2>3 DEF ConnsIInv
<1>2. CASE (LazyNext \/ UNCHANGED lazyVars) /\ UNCHANGED phtVars
  <2>1. PhtIInv'
    BY <1>2, PhtUntouched DEF ConnsIInv
  <2>2. LazyIInv'
    BY <1>2, LazyStep, LazyUntouched DEF ConnsIInv
  <2>3. StreamStepOr
    BY <1>2 DEF StreamStepOr, Ends!streamVars, phtVars
  <2> QED BY <2>1, <2>2, <2>3 DEF ConnsIInv
<1> QED BY <1>1, <1>2 DEF ConnsNext

LEMMA ConnsIInvAlways == ConnsSpec => []ConnsIInv
<1>1. ConnsInit => ConnsIInv
  BY ConnsStart, PHTAssumption, LazyConnAssumption
<1>2. ConnsIInv /\ [ConnsNext]_<<phtVars, lazyVars, tunnel>> => ConnsIInv'
  BY ConnsStep, PHTAssumption, LazyConnAssumption
<1> QED BY <1>1, <1>2, PTL DEF ConnsSpec

(***************************************************************************)
(* Nothing is lost between two ends, made up or out of order, in the plain *)
(* HTTP tunnel (pushData, pullData, readLoop) and where a handshake waits  *)
(* for the first data (Read and Write of obfs, relay, shadowsocks, sni):   *)
(* for any amount of data, cut up in any way, and for any mix of the kinds *)
(* of connections.  ReadInOrder says what the code itself damages.         *)
(***************************************************************************)
THEOREM DataAlwaysInOrder ==
         ConnsSpec => []DataInOrder
<1>1. ConnsIInv => DataInOrder
  BY PhtInvMeans, LazyInvMeans, PHTAssumption, LazyConnAssumption DEF ConnsIInv, DataInOrder
<1> QED BY <1>1, ConnsIInvAlways, PTL

(***************************************************************************)
(* The plain HTTP tunnel is a connection to its ends: each of its steps is *)
(* one of module Stream, or none that either end can see.  What Write and  *)
(* Read return is what a connection returns, the requests, their losses    *)
(* and cuts being out of sight.                                            *)
(***************************************************************************)
THEOREM TunnelImplementsStream ==
         ConnsSpec => Ends!StreamInit /\ [][Ends!StreamNext]_(Ends!streamVars)
<1>1. ConnsInit => Ends!StreamInit
  BY ConnsStart, PHTAssumption, LazyConnAssumption
<1>2. ConnsIInv /\ [ConnsNext]_<<phtVars, lazyVars, tunnel>> => [Ends!StreamNext]_(Ends!streamVars)
  BY ConnsStep, PHTAssumption, LazyConnAssumption DEF StreamStepOr
<1> QED BY <1>1, <1>2, ConnsIInvAlways, PTL DEF ConnsSpec
=============================================================================
