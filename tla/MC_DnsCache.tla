----------------------------- MODULE MC_DnsCache -----------------------------
(* Instances of DnsCache for TLC. *)
EXTENDS DnsCache, TLC

(* Two servers: ttls that keep nothing, follow the answer, or are fixed; either
   type preferred; the second server over https or not. *)
Setup(mode, t1, t2, p1, p2, https) ==
  [mode |-> mode, ttl |-> <<t1, t2>>, prefer |-> <<p1, p2>>, https |-> https]

SomeSetups ==
  {Setup("handler", -1, -1, 4, 4, {}), Setup("handler", 1, 1, 4, 4, {}),
   Setup("handler", 0, 0, 4, 4, {2})}
    \cup {Setup("resolver", -1, 1, 4, 6, {}), Setup("resolver", 0, 0, 4, 6, {2}),
          Setup("resolver", 0, 1, 4, 4, {2})}

(* No record; a CNAME and its address; and CNAMEs that lead to none, one of them with
   a TTL of 0. *)
Records(rrs, ips) == [rrs |-> rrs, ips |-> ips]

SomeAnswers == {Records(<<>>, {}), Records(<<1, 2>>, {2}), Records(<<0, 2>>, {})}

Symmetry == Permutations(Looks)
=============================================================================
