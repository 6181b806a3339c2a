-------------------------------- MODULE PHT --------------------------------
(***************************************************************************)
(* The plain HTTP tunnel (internal/util/pht): one connection carried by    *)
(* POST requests that push data to the server and GET requests that pull   *)
(* data from it.  On the server a net.Pipe joins the two halves: its end   *)
(* c2 belongs to the push and pull handlers, its end c1 to the application *)
(* that accepted the connection.  A pipe has no buffer, so a write to it   *)
(* ends when the other end has read.                                       *)
(*                                                                         *)
(* Data is numbered in the order in which it is written.  The network may  *)
(* lose a request, lose a response, or cut one off in the middle.          *)
(***************************************************************************)
EXTENDS Integers, Sequences, Subsequence

CONSTANTS
  MaxData,   \* how many blocks each side writes
  RxCap,     \* the capacity of the client's queue of received blocks
  Backlog,   \* the capacity of the server's accept queue
  Network    \* what the network may do: "lose", "cut"

ASSUME PHTAssumption ==
  /\ MaxData \in Nat /\ RxCap \in Nat \ {0} /\ Backlog \in Nat
  /\ Network \subseteq {"lose", "cut"}

VARIABLES
  client,   \* the clientConn: phase, closed, its readLoop, rxc, what Read returned
  writer,   \* the client's Write: number of blocks written and how it ended
  push,     \* the push request in progress
  pull,     \* the pull request in progress and the lines of its response
  known,    \* whether the server's conns has the token
  pipe,     \* which ends of the pipe are closed
  app,      \* the server's application: blocks read, number of blocks written
  queue     \* connections waiting in the accept queue

phtVars == <<client, writer, push, pull, known, pipe, app, queue>>

NoPush == [at |-> "none", data |-> 0]

NoPull == [at |-> "none", lines |-> <<>>, seen |-> FALSE, ended |-> "no"]

Blank == 0      \* an empty line

----------------------------------------------------------------------------
(***************************************************************************)
(* Client.Dial and handleAuthorize: the server makes the pipe and queues   *)
(* its end, unless the queue is full, and stores the other under the token *)
(* before the response goes out.                                           *)
(***************************************************************************)
Authorize ==
  /\ client.phase = "new"
  /\ IF queue < Backlog
     THEN /\ queue' = queue + 1
          /\ known' = TRUE
          /\ client' = [client EXCEPT !.phase = "up", !.loop = "next"]
     ELSE /\ client' = [client EXCEPT !.phase = "refused"]
          /\ UNCHANGED <<queue, known>>
  /\ UNCHANGED <<writer, push, pull, pipe, app>>

(* Other clients come and go in the same queue. *)
OthersQueue ==
  /\ client.phase = "new"
  /\ \/ queue < Backlog /\ queue' = queue + 1
     \/ queue > 0 /\ queue' = queue - 1
  /\ UNCHANGED <<client, writer, push, pull, known, pipe, app>>

(* Server.Accept *)
AcceptConn ==
  /\ client.phase = "up" /\ ~app.on
  /\ queue > 0
  /\ queue' = queue - 1
  /\ \E mine \in BOOLEAN : /\ queue = 1 => mine
                           /\ app' = [app EXCEPT !.on = mine]
  /\ UNCHANGED <<client, writer, push, pull, known, pipe>>

----------------------------------------------------------------------------
(* clientConn.Write: one push request, and the writer waits for its answer. *)
Write ==
  /\ client.phase = "up" /\ ~client.closed
  /\ writer.st = "ready" /\ writer.n < MaxData
  /\ writer' = [st |-> "waiting", n |-> writer.n + 1, acked |-> writer.acked]
  /\ push' = [at |-> "sent", data |-> writer.n + 1]
  /\ UNCHANGED <<client, pull, known, pipe, app, queue>>

(* The answer reaches a client that still waits for it; a Write that failed
   is the last one. *)
PushAnswer(ok) ==
  writer' = IF writer.st # "waiting" THEN writer
            ELSE IF ok THEN [writer EXCEPT !.st = "ready", !.acked = push.data]
            ELSE [writer EXCEPT !.st = "failed"]

(* handlePush: the token is looked up and the write to the pipe begins. *)
HandlePush ==
  /\ push.at = "sent"
  /\ IF known THEN /\ push' = [push EXCEPT !.at = "writing"]
                   /\ UNCHANGED writer
     ELSE push' = NoPush /\ PushAnswer(FALSE)
  /\ UNCHANGED <<client, pull, known, pipe, app, queue>>

(* The application reads the block from the other end of the pipe. *)
AppRead ==
  /\ push.at = "writing" /\ app.on
  /\ ~pipe.c1 /\ ~pipe.c2
  /\ app' = [app EXCEPT !.got = Append(@, push.data)]
  /\ push' = [push EXCEPT !.at = "done"]
  /\ UNCHANGED <<client, writer, pull, known, pipe, queue>>

PushAnswered ==
  /\ push.at = "done"
  /\ push' = NoPush
  /\ PushAnswer(TRUE)
  /\ UNCHANGED <<client, pull, known, pipe, app, queue>>

(* A variant with a fault: a write that timed out is answered with OK. *)
PushTimeoutOK ==
  /\ push.at = "writing"
  /\ push' = NoPush
  /\ PushAnswer(TRUE)
  /\ UNCHANGED <<client, pull, known, pipe, app, queue>>

(* The write times out after 30 seconds or finds an end closed: "Gone". *)
PushTimeout ==
  /\ push.at = "writing"
  /\ push' = NoPush
  /\ known' = FALSE
  /\ pipe' = [pipe EXCEPT !.c2 = TRUE]
  /\ PushAnswer(FALSE)
  /\ UNCHANGED <<client, pull, app, queue>>

(* The body was cut off before its newline: the connection is given up. *)
PushCut ==
  /\ "cut" \in Network
  /\ push.at = "sent" /\ known
  /\ push' = NoPush
  /\ known' = FALSE
  /\ pipe' = [pipe EXCEPT !.c2 = TRUE]
  /\ PushAnswer(FALSE)
  /\ UNCHANGED <<client, pull, app, queue>>

(* The client gives the request up: it is lost, or late, or with the server
   already, or only the response is lost. *)
PushLost ==
  /\ "lose" \in Network
  /\ push.at # "none" /\ writer.st = "waiting"
  /\ push' \in {push, NoPush}
  /\ push.at = "writing" => push' = push
  /\ PushAnswer(FALSE)
  /\ UNCHANGED <<client, pull, known, pipe, app, queue>>

----------------------------------------------------------------------------
(* readLoop sends the next pull request. *)
Pull ==
  /\ client.loop = "next"
  /\ IF client.closed THEN /\ client' = [client EXCEPT !.loop = "ended"]
                           /\ UNCHANGED pull
     ELSE /\ client' = [client EXCEPT !.loop = "pulling"]
          /\ pull' = [NoPull EXCEPT !.at = "sent"]
  /\ UNCHANGED <<writer, push, known, pipe, app, queue>>

(* handlePull: 403 for an unknown token, else the headers are sent at once. *)
HandlePull ==
  /\ pull.at = "sent"
  /\ pull' = IF known THEN [pull EXCEPT !.at = "open"]
             ELSE [pull EXCEPT !.at = "left", !.ended = "error"]
  /\ UNCHANGED <<client, writer, push, known, pipe, app, queue>>

(* The application writes a block and the handler sends it as one line, which
   is lost on a response that was cut off. *)
AppWrite ==
  /\ pull.at = "open" /\ app.on
  /\ ~pipe.c1 /\ ~pipe.c2
  /\ app.n < MaxData
  /\ app' = [app EXCEPT !.n = @ + 1]
  /\ pull' = IF pull.ended = "no" THEN [pull EXCEPT !.lines = Append(@, app.n + 1)]
             ELSE pull
  /\ UNCHANGED <<client, writer, push, known, pipe, queue>>

EndPull(lines) ==
  pull' = [pull EXCEPT !.at = "left",
             !.lines = IF pull.ended = "no" THEN @ \o lines ELSE @,
             !.ended = IF @ = "no" THEN "clean" ELSE @]

(* The handler finds out that the response was cut off when it sends. *)
PullBroken ==
  /\ pull.at = "open" /\ pull.ended = "error"
  /\ pull' = IF client.loop = "pulling" THEN [pull EXCEPT !.at = "left"] ELSE NoPull
  /\ UNCHANGED <<client, writer, push, known, pipe, app, queue>>

(* Nothing came for readTimeout: an empty line, and the client asks again. *)
PullDeadline ==
  /\ pull.at = "open"
  /\ EndPull(<<Blank>>)
  /\ UNCHANGED <<client, writer, push, known, pipe, app, queue>>

(* The application has closed its end: the response ends without a line. *)
PullEOF ==
  /\ pull.at = "open"
  /\ pipe.c1 /\ ~pipe.c2
  /\ EndPull(<<>>)
  /\ UNCHANGED <<client, writer, push, known, pipe, app, queue>>

(* A push handler has closed c2: the token is dropped. *)
PullClosed ==
  /\ pull.at = "open"
  /\ pipe.c2
  /\ known' = FALSE
  /\ EndPull(<<>>)
  /\ UNCHANGED <<client, writer, push, pipe, app, queue>>

(* The network cuts the response off; lines on their way may be lost. *)
PullCut ==
  /\ "cut" \in Network
  /\ pull.at \in {"sent", "open"} /\ pull.ended = "no"
  /\ \E k \in 0..Len(pull.lines) :
       pull' = [pull EXCEPT !.lines = SubSeq(@, 1, k), !.ended = "error",
                            !.at = IF @ = "sent" THEN "left" ELSE @]
  /\ UNCHANGED <<client, writer, push, known, pipe, app, queue>>

----------------------------------------------------------------------------
(* A variant with a fault: an empty line does not count as a line. *)
ScanBlankUnseen ==
  /\ client.loop = "pulling"
  /\ pull.lines # <<>>
  /\ IF Head(pull.lines) = Blank
     THEN /\ pull' = [pull EXCEPT !.lines = Tail(@)]
          /\ UNCHANGED client
     ELSE /\ Len(client.rxc) < RxCap
          /\ pull' = [pull EXCEPT !.lines = Tail(@), !.seen = TRUE]
          /\ client' = [client EXCEPT !.rxc = Append(@, Head(pull.lines))]
  /\ UNCHANGED <<writer, push, known, pipe, app, queue>>

(* readLoop scans a line and queues its block, or finds itself closed. *)
Scan ==
  /\ client.loop = "pulling"
  /\ pull.lines # <<>>
  /\ \/ /\ Head(pull.lines) = Blank
        /\ pull' = [pull EXCEPT !.lines = Tail(@), !.seen = TRUE]
        /\ UNCHANGED client
     \/ /\ Head(pull.lines) # Blank
        /\ Len(client.rxc) < RxCap
        /\ pull' = [pull EXCEPT !.lines = Tail(@), !.seen = TRUE]
        /\ client' = [client EXCEPT !.rxc = Append(@, Head(pull.lines))]
     \/ /\ Head(pull.lines) # Blank
        /\ client.closed
        /\ client' = [client EXCEPT !.loop = "ended"]
        /\ UNCHANGED pull
  /\ UNCHANGED <<writer, push, known, pipe, app, queue>>

(* A variant with a fault: the end of a response discards unscanned lines. *)
PullDoneEarly ==
  /\ client.loop = "pulling"
  /\ pull.ended = "clean"
  /\ client' = [client EXCEPT !.loop = "next"]
  /\ pull' = NoPull
  /\ UNCHANGED <<writer, push, known, pipe, app, queue>>

(***************************************************************************)
(* The response has ended.  An error closes the connection.  A response    *)
(* without any line means that the server's end is closed: the loop ends,  *)
(* and leaves the connection open.                                         *)
(***************************************************************************)
PullDone ==
  /\ client.loop = "pulling"
  /\ pull.lines = <<>> /\ pull.ended # "no"
  /\ client' = IF pull.ended = "error"
               THEN [client EXCEPT !.closed = TRUE, !.loop = "ended"]
               ELSE [client EXCEPT !.loop = IF pull.seen THEN "next" ELSE "ended"]
  /\ pull' = IF pull.at = "open" THEN pull ELSE NoPull
  /\ UNCHANGED <<writer, push, known, pipe, app, queue>>

(* clientConn.Read *)
Read ==
  /\ client.rxc # <<>>
  /\ client' = [client EXCEPT !.rxc = Tail(@), !.got = Append(@, Head(client.rxc))]
  /\ UNCHANGED <<writer, push, pull, known, pipe, app, queue>>

(* clientConn.Close: its own push request finds the connection closed. *)
ClientClose ==
  /\ client.phase = "up" /\ ~client.closed
  /\ client' = [client EXCEPT !.closed = TRUE]
  /\ UNCHANGED <<writer, push, pull, known, pipe, app, queue>>

AppClose ==
  /\ app.on /\ ~pipe.c1
  /\ pipe' = [pipe EXCEPT !.c1 = TRUE]
  /\ UNCHANGED <<client, writer, push, pull, known, app, queue>>

----------------------------------------------------------------------------
PhtInit ==
  /\ client = [phase |-> "new", closed |-> FALSE, loop |-> "off", rxc |-> <<>>, got |-> <<>>]
  /\ writer = [st |-> "ready", n |-> 0, acked |-> 0]
  /\ push = NoPush
  /\ pull = NoPull
  /\ known = FALSE
  /\ pipe = [c1 |-> FALSE, c2 |-> FALSE]
  /\ app = [on |-> FALSE, got |-> <<>>, n |-> 0]
  /\ queue = 0

PhtNext ==
  \/ Authorize \/ OthersQueue \/ AcceptConn
  \/ Write \/ HandlePush \/ AppRead \/ PushAnswered \/ PushTimeout \/ PushCut \/ PushLost
  \/ Pull \/ HandlePull \/ AppWrite \/ PullDeadline \/ PullEOF \/ PullClosed
  \/ PullCut \/ PullBroken
  \/ Scan \/ PullDone \/ Read
  \/ ClientClose \/ AppClose

(***************************************************************************)
(* Goroutines that can run do run: the handlers and loops of both sides,   *)
(* and an application that reads what there is to read.  Nothing forces    *)
(* anyone to write, to close, or the network to lose anything.             *)
(***************************************************************************)
PhtFairness ==
  /\ WF_phtVars(Pull) /\ WF_phtVars(HandlePull) /\ WF_phtVars(Scan) /\ WF_phtVars(PullDone)
  /\ WF_phtVars(Read)

PhtSpec == PhtInit /\ [][PhtNext]_phtVars /\ PhtFairness

----------------------------------------------------------------------------
(* The shape of the state, with no queue above its capacity. *)
PhtTypeOK ==
  /\ client.phase \in {"new", "up", "refused"} /\ client.closed \in BOOLEAN
  /\ client.loop \in {"off", "next", "pulling", "ended"}
  /\ Len(client.rxc) <= RxCap
  /\ writer.st \in {"ready", "waiting", "failed"}
  /\ push.at \in {"none", "sent", "writing", "done"}
  /\ pull.at \in {"none", "sent", "open", "left"} /\ pull.ended \in {"no", "clean", "error"}
  /\ known \in BOOLEAN /\ queue \in 0..Backlog

Blocks == client.got \o client.rxc \o Keep(pull.lines, Nat \ {Blank})

(***************************************************************************)
(* What the application wrote is with the reader, in its queue or in the   *)
(* response on its way, in this order and complete, wherever one pull      *)
(* follows another; only a response that was cut off, after which no more  *)
(* are asked for, and Close lose the end of it.                            *)
(***************************************************************************)
Conserved ==
  /\ PhtTypeOK
  /\ Blocks = [i \in 1..Len(Blocks) |-> i] /\ Len(Blocks) <= app.n
  /\ client.closed \/ pull.ended = "error" \/ Len(Blocks) = app.n

(***************************************************************************)
(* The tunnel is a connection: to its ends the requests, responses, pipe   *)
(* and timeouts look like two FIFO streams, a Write succeeds only when its *)
(* block was read, and blocks sent to a client that has not closed arrive. *)
(***************************************************************************)
Ends == INSTANCE Stream WITH
          upSent <- writer.n, upGot <- app.got, acked <- writer.acked, writing <- writer.st,
          downSent <- app.n, downGot <- client.got, closed <- client.closed

IsStream == Ends!StreamSpec

(***************************************************************************)
(* The application can always write again: as long as neither side has     *)
(* closed the connection there is, again and again, a pull request at the  *)
(* server, also when nothing was sent for longer than readTimeout.         *)
(***************************************************************************)
AlwaysPulled ==
  [](client.phase = "up" =>
       <>(pull.at = "open" \/ client.closed \/ pipe.c1 \/ pipe.c2))

----------------------------------------------------------------------------
(***************************************************************************)
(* What Conserved and the order of both streams rest on: how the pulls     *)
(* follow each other, up to which block the reader is, and the blocks that *)
(* the server's application has got, by how far the push request is.       *)
(***************************************************************************)
Clients == [phase : {"new", "up", "refused"}, closed : BOOLEAN,
            loop : {"off", "next", "pulling", "ended"}, rxc : Seq(Nat), got : Seq(Nat)]

Writers == [st : {"ready", "waiting", "failed"}, n : Nat, acked : Nat]

Pushes == [at : {"none", "sent", "writing", "done"}, data : Nat]

Pulls == [at : {"none", "sent", "open", "left"}, lines : Seq(Nat), seen : BOOLEAN,
          ended : {"no", "clean", "error"}]

Pipes == [c1 : BOOLEAN, c2 : BOOLEAN]

Apps == [on : BOOLEAN, got : Seq(Nat), n : Nat]

PhtShape ==
  /\ client \in Clients /\ writer \in Writers /\ push \in Pushes
  /\ pull \in Pulls /\ pipe \in Pipes /\ app \in Apps

PullOK ==
  /\ client.phase # "up" => client.loop = "off"
  /\ pull.at = "none" => pull = NoPull
  /\ client.loop \in {"off", "next"} => pull.at = "none"
  /\ client.loop = "pulling" => pull.at # "none"
  /\ pull.at = "sent" => pull.lines = <<>>
  /\ pull.at = "left" => pull.ended # "no"
  /\ pull.ended = "clean" => pull.at = "left"
  /\ client.loop = "ended" /\ pull.at # "none" => client.closed

DownOK ==
  /\ \A i \in 1..Len(Blocks) : Blocks[i] = i
  /\ Len(Blocks) <= app.n
  /\ \/ Len(Blocks) = app.n
     \/ pull.ended = "error"
     \/ client.loop = "ended" /\ pull.at = "none" /\ client.closed

GotUpTo(n) == Len(app.got) = n /\ \A i \in 1..n : app.got[i] = i

UpOK ==
  /\ writer.st = "ready" => push.at = "none"
  /\ writer.st = "waiting" => push.at # "none"
  /\ push.at # "none" => writer.n > 0 /\ push.data = writer.n
  /\ push.at \in {"sent", "writing"} => GotUpTo(writer.n - 1)
  /\ push.at = "done" \/ writer.st = "ready" => GotUpTo(writer.n)

PhtIInv == PhtTypeOK /\ PhtShape /\ PullOK /\ DownOK /\ UpOK
=============================================================================
