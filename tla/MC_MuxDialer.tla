---------------------------- MODULE MC_MuxDialer ----------------------------
(* Instances of MuxDialer for TLC. *)
EXTENDS MuxDialer, TLC

AllKinds == {MTLS, MWS, SSH, SSHD, KCP, QUIC, ICMP, GRPC, H2, HTTP3, PHTDialer, HTTP2}

Symmetry == Permutations(Dials)
=============================================================================
