---------------------------- MODULE ForwardHTTP ----------------------------
(***************************************************************************)
(* One visitor's connection in handleHTTP of the forward handlers, local   *)
(* and remote (handler/forward): a loop reads requests and passes each on  *)
(* to the node that the hop selects for it, over a connection that it      *)
(* keeps, and for each of these a goroutine copies the answers back.       *)
(* Any node may be selected: filters and markers are in ChainRoute.        *)
(***************************************************************************)
EXTENDS Integers, Sequences, FiniteSets, SequencesExt

CONSTANTS
  Nodes,       \* the nodes of the hop, or the hosts that are asked for
  Forwards,    \* the ways in which this is set up, as below
  MaxRequests  \* a bound on the requests of a visitor

(* Whether it is the local handler, whether there is a hop, the nodes there are,
   whether the visitor waits for each answer, and how many requests it has. *)
ASSUME ForwardAssumption ==
  /\ MaxRequests \in Nat
  /\ Forwards \subseteq [local : BOOLEAN, hop : BOOLEAN, nodes : SUBSET Nodes,
                         waits : BOOLEAN, reqs : 0..MaxRequests]

VARIABLES
  forward,  \* how it is set up
  loop,     \* the loop and its visitor
  outs,     \* the connections to nodes and the goroutines that copy from them
  pool,     \* connPool, the connections in it
  broken    \* history: how many of these connections failed, and how many
            \* requests broke off when a part had been sent

forwardVars == <<forward, loop, outs, pool, broken>>

Outs == DOMAIN outs

(* A connection for the node at: far is the node's end. *)
NewOut(at) == [at |-> at, far |-> "open", near |-> TRUE, pc |-> "copy", pend |-> <<>>]

AtEnd(k) == outs[k].far = "closed"
Failing(k) == ~outs[k].near \/ outs[k].far = "failed"

(* Keys are pointers to nodes: without a hop each request makes a node of its own. *)
SameKey(j, k) == j = k \/ (forward.hop /\ outs[j].at = outs[k].at)

----------------------------------------------------------------------------
(* The loop. *)

Asked == Last(loop.asked)

Requested == Len(loop.asked)

(* The visitor sends a request for a node, whether or not those before are
   answered unless it waits. *)
ReadRequest ==
  /\ loop.pc = "read" /\ Requested < forward.reqs
  /\ forward.waits => Len(loop.got) >= Requested
  /\ \E at \in forward.nodes : loop' = [loop EXCEPT !.pc = "check", !.asked = Append(@, at)]
  /\ UNCHANGED <<forward, outs, pool, broken>>

(* A response of the handler's own is 0; if it cannot be sent, the loop ends. *)
Told(x) == IF x.left THEN x ELSE [x EXCEPT !.got = Append(@, 0)]

TellAndGoOn ==
  \E pc \in IF loop.left THEN {"read", "range"} ELSE {"read"} :
    loop' = Told([loop EXCEPT !.pc = pc, !.cc = 0])

(* No node for this host, 502; or its auther refuses, 401. *)
NotAllowed ==
  /\ loop.pc = "check" /\ forward.hop
  /\ TellAndGoOn
  /\ UNCHANGED <<forward, outs, pool, broken>>

(* For a 401 the local handler sets a header in a nil map: the process ends. *)
Crash ==
  /\ loop.pc = "check" /\ forward.hop /\ forward.local
  /\ loop' = [loop EXCEPT !.pc = "crashed", !.left = TRUE]
  /\ outs' = [k \in Outs |-> [outs[k] EXCEPT !.near = FALSE, !.pc = "done"]]
  /\ UNCHANGED <<forward, pool, broken>>

(* A variant with a fault: the pool is not asked. *)
FromPoolNot ==
  /\ loop.pc = "check"
  /\ loop' = [loop EXCEPT !.pc = "dial"]
  /\ UNCHANGED <<forward, outs, pool, broken>>

FromPool ==
  LET found == {k \in pool : forward.hop /\ outs[k].at = Asked}
  IN  /\ loop.pc = "check"
      /\ IF found = {} THEN loop' = [loop EXCEPT !.pc = "dial"]
         ELSE \E k \in found : loop' = [loop EXCEPT !.pc = "write", !.cc = k]
      /\ UNCHANGED <<forward, outs, pool, broken>>

(* router.Dial fails: 503. *)
DialFails ==
  /\ loop.pc = "dial"
  /\ TellAndGoOn
  /\ UNCHANGED <<forward, outs, pool, broken>>

(* It succeeds: the connection is stored under the node's key. *)
DialNode ==
  LET k == Len(outs) + 1
  IN  /\ loop.pc = "dial"
      /\ outs' = Append(outs, NewOut(Asked))
      /\ pool' = {j \in pool : ~forward.hop \/ outs[j].at # Asked} \cup {k}
      /\ loop' = [loop EXCEPT !.pc = "write", !.cc = k]
      /\ UNCHANGED <<forward, broken>>

(* req.Write, which reads the body from the visitor as it goes: a first part
   arrives, and may be answered, or is lost at an end that is closed. *)
WriteRequest ==
  LET k == loop.cc
  IN  /\ loop.pc = "write" /\ ~Failing(k)
      /\ outs' = IF AtEnd(k) THEN outs ELSE [outs EXCEPT ![k].pend = Append(@, Requested)]
      /\ loop' = [loop EXCEPT !.pc = "body"]
      /\ UNCHANGED <<forward, pool, broken>>

(* All of it is sent; if it is for a websocket, what else the visitor sends is copied. *)
WriteDone ==
  /\ loop.pc = "body"
  /\ \/ loop' = [loop EXCEPT !.pc = "read", !.cc = 0]
     \/ loop' = [loop EXCEPT !.pc = "ws"]
  /\ UNCHANGED <<forward, outs, pool, broken>>

(* It fails before, at the node's connection or with the visitor's body: 503, and
   the connection stays in the pool for its goroutine to remove. *)
WriteRequestFails ==
  /\ loop.pc = "write"
  /\ TellAndGoOn
  /\ UNCHANGED <<forward, outs, pool, broken>>

(* It fails midway, likewise, and what the node answers to its part is copied too. *)
WriteBreaksOff ==
  /\ loop.pc = "body"
  /\ TellAndGoOn
  /\ broken' = broken + 1
  /\ UNCHANGED <<forward, outs, pool>>

(* No more requests, or one that is malformed; the end of a websocket. *)
ForwardEnds ==
  /\ \/ loop.pc = "read"
     \/ loop.pc = "ws" /\ (loop.left \/ Failing(loop.cc) \/ AtEnd(loop.cc))
  /\ loop' = [loop EXCEPT !.pc = "range", !.cc = 0]
  /\ UNCHANGED <<forward, outs, pool, broken>>

(* A variant with a fault: what is in the pool is left to itself. *)
LeavePool ==
  /\ loop.pc = "range"
  /\ loop' = [loop EXCEPT !.pc = "close"]
  /\ UNCHANGED <<forward, outs, pool, broken>>

ClosePool ==
  /\ loop.pc = "range"
  /\ outs' = [k \in Outs |-> IF k \in pool THEN [outs[k] EXCEPT !.near = FALSE] ELSE outs[k]]
  /\ loop' = [loop EXCEPT !.pc = "close"]
  /\ UNCHANGED <<forward, pool, broken>>

(* The deferred Close of Handle. *)
CloseVisitor ==
  /\ loop.pc = "close"
  /\ loop' = [loop EXCEPT !.pc = "done", !.left = TRUE]
  /\ UNCHANGED <<forward, outs, pool, broken>>

VisitorLeaves ==
  /\ ~loop.left
  /\ loop' = [loop EXCEPT !.left = TRUE]
  /\ UNCHANGED <<forward, outs, pool, broken>>

----------------------------------------------------------------------------
(* Connections to nodes: the node's end, and the goroutine. *)

NodeEnds(k) ==
  /\ outs[k].far = "open" /\ outs[k].near
  /\ \E far \in {"closed", "failed"} : outs' = [outs EXCEPT ![k].far = far, ![k].pend = <<>>]
  /\ UNCHANGED <<forward, loop, pool, broken>>

(* An answer is copied; for a visitor that has left this ends the copying. *)
CopyAnswer(k) ==
  /\ outs[k].pc = "copy" /\ outs[k].near /\ outs[k].pend # <<>>
  /\ outs' = [outs EXCEPT ![k].pend = Tail(@), ![k].pc = IF loop.left THEN "err" ELSE @]
  /\ loop' = IF loop.left THEN loop ELSE [loop EXCEPT !.got = Append(@, Head(outs[k].pend))]
  /\ UNCHANGED <<forward, pool, broken>>

(* A variant with a fault: every end is reported as an error. *)
CopyDoneTold(k) ==
  /\ outs[k].pc = "copy" /\ AtEnd(k)
  /\ outs' = [outs EXCEPT ![k].pc = "err"]
  /\ UNCHANGED <<forward, loop, pool, broken>>

CopyDone(k) ==
  /\ outs[k].pc = "copy" /\ AtEnd(k) /\ outs[k].near
  /\ outs' = [outs EXCEPT ![k].pc = "remove"]
  /\ UNCHANGED <<forward, loop, pool, broken>>

CopyBreaks(k) ==
  /\ outs[k].pc = "copy" /\ Failing(k)
  /\ outs' = [outs EXCEPT ![k].pc = "err"]
  /\ broken' = broken + 1
  /\ UNCHANGED <<forward, loop, pool>>

(* 503 for an error, whether or not a request waits for an answer. *)
TellError(k) ==
  /\ outs[k].pc = "err"
  /\ outs' = [outs EXCEPT ![k].pc = "remove"]
  /\ loop' = Told(loop)
  /\ UNCHANGED <<forward, pool, broken>>

(* By the key, not the connection. *)
RemoveKey(k) ==
  /\ outs[k].pc = "remove"
  /\ outs' = [outs EXCEPT ![k].pc = "close"]
  /\ pool' = {j \in pool : ~SameKey(j, k)}
  /\ UNCHANGED <<forward, loop, broken>>

CloseNode(k) ==
  /\ outs[k].pc = "close"
  /\ outs' = [outs EXCEPT ![k] = [NewOut(@.at) EXCEPT !.near = FALSE, !.pc = "done"]]
  /\ UNCHANGED <<forward, loop, pool, broken>>

----------------------------------------------------------------------------
ForwardInit ==
  /\ forward \in Forwards
  /\ loop = [pc |-> "read", asked |-> <<>>, cc |-> 0, got |-> <<>>, left |-> FALSE]
  /\ outs = <<>> /\ pool = {} /\ broken = 0

Looping ==
  \/ ReadRequest \/ NotAllowed \/ Crash \/ FromPool \/ DialFails \/ DialNode
  \/ WriteRequest \/ WriteDone \/ WriteRequestFails \/ WriteBreaksOff
  \/ ForwardEnds \/ ClosePool \/ CloseVisitor

Copying(k) ==
  \/ CopyAnswer(k) \/ CopyDone(k) \/ CopyBreaks(k) \/ TellError(k)
  \/ RemoveKey(k) \/ CloseNode(k)

ForwardNext ==
  \/ Looping \/ VisitorLeaves
  \/ \E k \in Outs : Copying(k) \/ NodeEnds(k)

(* The goroutine of a connection goes on when its read or write returns. *)
Copied(k) == k \in Outs /\ Copying(k)

ForwardFairness == \A k \in 1..MaxRequests : WF_forwardVars(Copied(k))

ForwardSpec == ForwardInit /\ [][ForwardNext]_forwardVars /\ ForwardFairness

----------------------------------------------------------------------------
ForwardTypeOK ==
  /\ forward \in Forwards
  /\ Requested <= forward.reqs /\ Len(outs) <= Requested /\ pool \subseteq Outs
  /\ \A k \in Outs : outs[k].at \in Nodes

(***************************************************************************)
(* With a hop, a visitor has one connection to each node, and whatever     *)
(* goroutine still writes to the visitor is of a connection in the pool:   *)
(* none removes the entry of another's.  So the answers of a node come in  *)
(* the order of the requests to it, each once, although those of several   *)
(* nodes may overtake each other; besides there is at most one response    *)
(* for each request, and one more for each connection that failed and for  *)
(* each request that broke off midway, whether the node's connection or    *)
(* the visitor's body was to blame.  A visitor who waits for each answer   *)
(* gets the one to its request, as long as nothing of that happened.       *)
(***************************************************************************)
ForwardedInOrder ==
  /\ ForwardTypeOK
  /\ loop.pc # "crashed" => \A k \in Outs : outs[k].pc \in {"copy", "err", "remove"} => k \in pool
  /\ \A i, j \in 1..Len(loop.got) : i < j /\ loop.got[i] > 0 /\ loop.got[j] > 0 =>
       /\ loop.got[i] # loop.got[j]
       /\ forward.hop /\ loop.asked[loop.got[i]] = loop.asked[loop.got[j]] =>
            loop.got[i] < loop.got[j]
  /\ Len(loop.got) <= Requested + broken
  /\ forward.waits /\ broken = 0 => \A i \in 1..Len(loop.got) : loop.got[i] \in {0, i}

(* A visitor that is done with has left no connection to a node. *)
NodesClosed == loop.pc = "done" => \A k \in Outs : ~outs[k].near
=============================================================================
