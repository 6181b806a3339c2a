------------------------------- MODULE Stream -------------------------------
(***************************************************************************)
(* What a tunnelled connection promises its two ends, seen from outside:   *)
(* the client writes block by block and learns of each whether it was      *)
(* read; the other end writes without waiting; both directions are FIFO.   *)
(***************************************************************************)
EXTENDS Naturals

VARIABLES
  upSent,   \* blocks the client has begun to write
  upGot,    \* what the other end has read
  acked,    \* blocks whose write has succeeded
  writing,  \* the client's Write: "ready", "waiting" or "failed", for good
  downSent, \* blocks the other end has written
  downGot,  \* what the client has read
  closed    \* the client has closed, or given up, the connection

streamVars == <<upSent, upGot, acked, writing, downSent, downGot, closed>>

(* What is read is always the next block: 1 to n, in this order. *)
FirstBlocks(n) == [i \in 1..n |-> i]

Begin ==
  /\ ~closed /\ writing = "ready"
  /\ upSent' = upSent + 1 /\ writing' = "waiting"
  /\ UNCHANGED <<upGot, acked, downSent, downGot, closed>>

(* Also after the client was told that the write failed. *)
ReadUp ==
  /\ \E n \in 1..upSent : upGot = FirstBlocks(n - 1) /\ upGot' = FirstBlocks(n)
  /\ UNCHANGED <<upSent, acked, writing, downSent, downGot, closed>>

Succeed ==
  /\ writing = "waiting" /\ upGot = FirstBlocks(upSent)
  /\ acked' = upSent /\ writing' = "ready"
  /\ UNCHANGED <<upSent, upGot, downSent, downGot, closed>>

Fail ==
  /\ writing = "waiting" /\ writing' = "failed"
  /\ UNCHANGED <<upSent, upGot, acked, downSent, downGot, closed>>

WriteDown ==
  /\ downSent' = downSent + 1
  /\ UNCHANGED <<upSent, upGot, acked, writing, downGot, closed>>

ReadDown ==
  /\ \E n \in 1..downSent : downGot = FirstBlocks(n - 1) /\ downGot' = FirstBlocks(n)
  /\ UNCHANGED <<upSent, upGot, acked, writing, downSent, closed>>

Close ==
  /\ ~closed /\ closed' = TRUE
  /\ UNCHANGED <<upSent, upGot, acked, writing, downSent, downGot>>

StreamInit ==
  /\ upSent = 0 /\ upGot = <<>> /\ acked = 0 /\ writing = "ready"
  /\ downSent = 0 /\ downGot = <<>> /\ closed = FALSE

StreamNext == Begin \/ ReadUp \/ Succeed \/ Fail \/ WriteDown \/ ReadDown \/ Close

(* As long as the client has not closed, what was written to it arrives. *)
StreamSpec ==
  /\ StreamInit /\ [][StreamNext]_streamVars
  /\ WF_streamVars(~closed /\ ReadDown)
=============================================================================
