-------------------------------- MODULE Quota --------------------------------
(***************************************************************************)
(* What connection limits promise, without limiters, counters or caches: a *)
(* connection is admitted under a rule set, and with it no host has more   *)
(* connections admitted under that rule set than the most specific rule    *)
(* for it says, and all hosts together no more than the rule for all.      *)
(***************************************************************************)
EXTENDS Naturals, Sequences, FiniteSets

CONSTANTS Conns, Hosts, Configs

VARIABLES
  rules,    \* the rule sets so far, the one in force last
  admitted  \* by connection, its host and the number of the rule set; 0: none

quotaVars == <<rules, admitted>>

NotAdmitted == [host |-> 0, under |-> 0]

LimitOf(r, h) ==
  IF r.ip[h] > 0 THEN r.ip[h] ELSE IF r.cidr[h] > 0 THEN r.cidr[h] ELSE r.perIP

AdmittedFrom(H, n) == {c \in Conns : admitted[c].under = n /\ admitted[c].host \in H}

Within(n) ==
  LET r == rules[n]
  IN  /\ \A h \in Hosts : LimitOf(r, h) > 0 => Cardinality(AdmittedFrom({h}, n)) <= LimitOf(r, h)
      /\ r.global > 0 => Cardinality(AdmittedFrom(Hosts, n)) <= r.global

(* The rules may have changed since the connection came. *)
Admit(c) ==
  /\ admitted[c] = NotAdmitted
  /\ \E h \in Hosts, n \in 1..Len(rules) :
       /\ admitted' = [admitted EXCEPT ![c] = [host |-> h, under |-> n]]
       /\ Within(n)'
  /\ UNCHANGED rules

Leave(c) ==
  /\ admitted[c] # NotAdmitted
  /\ admitted' = [admitted EXCEPT ![c] = NotAdmitted]
  /\ UNCHANGED rules

Change ==
  /\ \E r \in Configs : rules' = Append(rules, r)
  /\ UNCHANGED admitted

QuotaInit == (\E r \in Configs : rules = <<r>>) /\ admitted = [c \in Conns |-> NotAdmitted]

QuotaNext == Change \/ \E c \in Conns : Admit(c) \/ Leave(c)

QuotaSpec == QuotaInit /\ [][QuotaNext]_quotaVars
=============================================================================
