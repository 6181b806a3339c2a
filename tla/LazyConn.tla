------------------------------ MODULE LazyConn ------------------------------
(***************************************************************************)
(* Connections that do their handshake on the way: the request is kept and *)
(* sent with the first data, and the answer is taken off what is read      *)
(* first.  Both ends of the obfuscated transports (dialer/obfs,            *)
(* listener/obfs), of relay for TCP and UDP, of shadowsocks, and the       *)
(* client's end of sni.  At each end Transport has a goroutine that reads  *)
(* and one that writes, which meet in the handshake.  Data is numbered in  *)
(* the order in which it is written, the network keeps order.              *)
(***************************************************************************)
EXTENDS Integers, Sequences, SequencesExt, Subsequence

CONSTANTS
  ConnKinds,     \* the connections there are, as below
  MaxItems,  \* how much each end writes
  MaxBlock,  \* how much one Write may have
  RecordCap  \* how much fits into a TLS record

(* What differs: the protocol, whether the two ends send request and response
   at once (nodelay), and whether relay carries datagrams. *)
ASSUME LazyConnAssumption ==
  /\ ConnKinds \subseteq [name : {"ohttp", "otls", "relay", "ss", "sni"},
                      cnow : BOOLEAN, snow : BOOLEAN, udp : BOOLEAN]
  /\ MaxItems \in Nat /\ MaxBlock \in Nat \ {0} /\ RecordCap \in Nat \ {0}

VARIABLES
  kind,    \* the connection
  conn,    \* its two ends, the client "c" and the server "s"
  link,    \* what each end has sent and the other has not yet received
  damaged  \* history: what this end wrote met one of the code's own faults

lazyVars == <<kind, conn, link, damaged>>

BothEnds == {"c", "s"}

Peer(e) == IF e = "c" THEN "s" ELSE "c"

(* On the link items are positive; besides there are a request or response, one
   that refuses, and the two halves of the header of a TLS record. *)
Header == 0
Refusal == -1
RecordHeader == <<-2, -3>>

Items(units) == Keep(units, Nat \ {0})

Named(names) == kind.name \in names

(* up: Connect has returned, or the server's handshake is done.  drained: what
   is read next is data.  wbuf, rbuf: what waits to be written and read. *)
Fresh == [up |-> FALSE, wbuf |-> <<>>, rbuf |-> <<>>, drained |-> TRUE, shaken |-> FALSE,
          sent |-> 0, got |-> <<>>, reading |-> TRUE, open |-> TRUE]

----------------------------------------------------------------------------
(* The handshakes. *)

KeptFirst == IF kind.cnow THEN <<>> ELSE <<Header>>

(* Connect of relay: the request is sent or kept.  A connection for datagrams takes
   a response off the link also when Connect has done so. *)
RelayClient == [Fresh EXCEPT !.up = ~kind.cnow, !.wbuf = KeptFirst, !.drained = kind.cnow /\ ~kind.udp]

(* Connect of shadowsocks, where the address is the request, without a response. *)
SsClient == [Fresh EXCEPT !.up = TRUE, !.wbuf = KeptFirst]

Client ==
  CASE kind.name = "relay" -> RelayClient
    [] kind.name = "ss" -> SsClient
    [] OTHER -> [Fresh EXCEPT !.up = TRUE, !.drained = kind.name # "ohttp"]

(* readResponse in Connect. *)
TakeResponse ==
  /\ ~conn["c"].up /\ conn["c"].open /\ link["s"] # <<>>
  /\ link' = [link EXCEPT !["s"] = Tail(@)]
  /\ conn' = [conn EXCEPT !["c"].up = Head(link["s"]) = Header,
                          !["c"].open = Head(link["s"]) = Header]
  /\ UNCHANGED <<kind, damaged>>

(* A variant with a fault: the request counts as sent. *)
ShakenAlready(end) == [end EXCEPT !.shaken = TRUE]

(* Handshake of obfs-http's client, by the first to read or write. *)
Shaken(end) == IF end.shaken THEN end ELSE [end EXCEPT !.shaken = TRUE, !.wbuf = <<Header>>]

ReadShakes ==
  /\ Named({"ohttp"}) /\ conn["c"].open /\ conn["c"].reading /\ ~conn["c"].shaken
  /\ conn' = [conn EXCEPT !["c"] = Shaken(@)]
  /\ UNCHANGED <<kind, link, damaged>>

(* A variant with a fault: what the bufio.Reader took along is lost. *)
NothingOf(units) == <<>>

(* It is kept for the next Read. *)
Extra(units) == units

(* The server's end has n units off the link, the first of them the request. *)
TakeRequest(n, end, answer) ==
  /\ ~conn["s"].up /\ conn["s"].open /\ n <= Len(link["c"])
  /\ conn' = [conn EXCEPT !["s"] = [end EXCEPT !.up = TRUE]]
  /\ link' = [link EXCEPT !["c"] = SubSeq(@, n + 1, Len(@)), !["s"] = @ \o answer]
  /\ UNCHANGED <<kind, damaged>>

(* obfs-http: a bufio.Reader takes along what is there; if it does, the response
   waits for the first data. *)
TakeUpgrade ==
  /\ Named({"ohttp"})
  /\ \E n \in 1..Len(link["c"]) :
       LET rest == Extra(SubSeq(link["c"], 2, n))
       IN  IF rest = <<>> THEN TakeRequest(n, conn["s"], <<Header>>)
           ELSE TakeRequest(n, [conn["s"] EXCEPT !.rbuf = rest, !.wbuf = <<Header>>], <<>>)

(* obfs-tls: the data that the ClientHello carries is read next, ServerHello and
   ChangeCipherSpec wait for the first data. *)
TakeHello ==
  /\ Named({"otls"})
  /\ TakeRequest(1, [conn["s"] EXCEPT !.wbuf = <<Header>>], <<>>)

(* The relay handler, when it has dialled. *)
TakeRelay ==
  /\ Named({"relay"})
  /\ IF kind.snow THEN TakeRequest(1, conn["s"], <<Header>>)
     ELSE TakeRequest(1, [conn["s"] EXCEPT !.wbuf = <<Header>>], <<>>)

TakeAddr == Named({"ss"}) /\ TakeRequest(1, conn["s"], <<>>)

Take == TakeUpgrade \/ TakeHello \/ TakeRelay \/ TakeAddr

(* The relay handler refuses, or cannot reach the target. *)
RefuseRequest ==
  /\ Named({"relay"}) /\ ~conn["s"].up /\ conn["s"].open /\ link["c"] # <<>>
  /\ conn' = [conn EXCEPT !["s"].open = FALSE]
  /\ link' = [link EXCEPT !["c"] = <<>>, !["s"] = Append(@, Refusal)]
  /\ UNCHANGED <<kind, damaged>>

----------------------------------------------------------------------------
(* Writing. *)

(* A variant with a fault: what was kept is sent again with the next data. *)
Unsent(end) == end

Flushed(end) == [end EXCEPT !.wbuf = <<>>]

(* Each item in a record of its own, behind the two halves of the header. *)
Records(items) ==
  [k \in 1..(3 * Len(items)) |-> IF k % 3 = 0 THEN items[k \div 3] ELSE RecordHeader[k % 3]]

(* obfs-tls's server: its first Write ends after one record. *)
ServerRecords(items) ==
  IF conn["s"].wbuf = <<>> THEN Records(items)
  ELSE conn["s"].wbuf
         \o Records(SubSeq(items, 1, IF RecordCap < Len(items) THEN RecordCap ELSE Len(items)))

(* obfs-tls's client: its first Write is the ClientHello.  What the server's end
   reads are whole records, so that their headers need not be told apart. *)
ClientRecords(items) == IF conn["c"].shaken THEN items ELSE <<Header>> \o items

(* sni's client: of a first Write that begins with a ClientHello only this is sent. *)
Obfuscated(items) == IF conn["c"].shaken THEN {items} ELSE {items, <<Head(items)>>}

(* obfs-http's client, which handshakes if reading has not done so. *)
WithUpgrade(items) == Shaken(conn["c"]).wbuf \o items

(* What a Write of items puts on the link. *)
Wire(e, items) ==
  CASE e = "s" /\ Named({"otls"}) -> {ServerRecords(items)}
    [] e = "c" /\ Named({"otls"}) -> {ClientRecords(items)}
    [] e = "c" /\ Named({"sni"}) -> Obfuscated(items)
    [] e = "c" /\ Named({"ohttp"}) -> {WithUpgrade(items)}
    [] OTHER -> {conn[e].wbuf \o items}

(* What is written to a peer that has closed is lost; a Write that fails, as of half
   a ClientHello, does nothing, and its user closes. *)
WriteBlock(e) ==
  LET end == conn[e]
  IN  /\ end.up /\ end.open
      /\ \E n \in 1..(IF kind.udp THEN 1 ELSE MaxBlock) :
           LET items == [i \in 1..n |-> end.sent + i]
           IN  /\ end.sent + n <= MaxItems
               /\ \E wire \in Wire(e, items) :
                    /\ link' = [link EXCEPT ![e] = IF conn[Peer(e)].open THEN @ \o wire ELSE @]
                    /\ damaged' = [damaged EXCEPT ![e] = @ \/ Items(wire) # items]
               /\ conn' = [conn EXCEPT ![e] = [Flushed(Shaken(end)) EXCEPT !.sent = @ + n]]
      /\ UNCHANGED kind

----------------------------------------------------------------------------
(* Reading. *)

(* A variant with a fault: either end, in any protocol, waits for its first Write. *)
BlockedUnsent(e) == conn[e].sent = 0

(* obfs-tls's client cannot read before its first Write, and nothing wakes it. *)
Blocked(e) == e = "c" /\ Named({"otls"}) /\ ~conn[e].shaken

MayRead(e) ==
  /\ conn[e].up /\ conn[e].open /\ conn[e].reading /\ ~Blocked(e)
  /\ e = "c" /\ Named({"ohttp"}) => conn[e].shaken

Takes(e, n, end) ==
  /\ link' = [link EXCEPT ![Peer(e)] = SubSeq(@, n + 1, Len(@))]
  /\ conn' = [conn EXCEPT ![e] = end]
  /\ UNCHANGED kind

(* drainHeader of obfs-http's client. *)
DrainHeader ==
  LET in == link["s"]
  IN  /\ MayRead("c") /\ Named({"ohttp"}) /\ ~conn["c"].drained
      /\ \E n \in 1..Len(in) :
           Takes("c", n, [conn["c"] EXCEPT !.drained = TRUE, !.rbuf = Extra(SubSeq(in, 2, n))])
      /\ UNCHANGED damaged

(* The first Read of relay's client: an error when it is refused, and also when a
   datagram is in the place of the response. *)
ReadResponse ==
  LET in == link["s"]
  IN  /\ MayRead("c") /\ Named({"relay"}) /\ ~conn["c"].drained /\ in # <<>>
      /\ Takes("c", 1, [conn["c"] EXCEPT !.drained = TRUE, !.reading = Head(in) = Header])
      /\ damaged' = [damaged EXCEPT !["s"] = @ \/ Head(in) > 0]

ReadBuffer(e) ==
  /\ MayRead(e) /\ conn[e].drained /\ conn[e].rbuf # <<>>
  /\ conn' = [conn EXCEPT ![e].got = @ \o conn[e].rbuf, ![e].rbuf = <<>>]
  /\ UNCHANGED <<kind, link, damaged>>

(* The header that ends the chunk, as far as it has come, after some data. *)
AfterData(chunk) ==
  LET last == CHOOSE i \in 0..Len(chunk) :
                /\ i > 0 => chunk[i] > 0
                /\ \A j \in (i + 1)..Len(chunk) : chunk[j] <= 0
  IN  IF last = 0 THEN <<>> ELSE SubSeq(chunk, last + 1, Len(chunk))

(* obfsTLSParser.Parse: data is moved to the front, and when the header of a
   further record follows it, that header's length is returned as the data's. *)
Parse(chunk) ==
  LET data == Items(chunk)
      rest == AfterData(chunk)
  IN  IF data = <<>> \/ rest = <<>> THEN data ELSE SubSeq(data \o rest, 1, Len(rest))

(* obfs-tls's client. *)
ReadParsed ==
  /\ MayRead("c") /\ Named({"otls"})
  /\ \E n \in 1..Len(link["s"]) :
       LET chunk == SubSeq(link["s"], 1, n)
       IN  /\ Takes("c", n, [conn["c"] EXCEPT !.got = @ \o Parse(chunk)])
           /\ damaged' = [damaged EXCEPT !["s"] = @ \/ AfterData(chunk) # <<>>]

ReadLink(e) ==
  LET in == link[Peer(e)]
  IN  /\ MayRead(e) /\ conn[e].drained /\ conn[e].rbuf = <<>>
      /\ ~(e = "c" /\ Named({"otls"}))
      /\ \E n \in 1..Len(in) : Takes(e, n, [conn[e] EXCEPT !.got = @ \o SubSeq(in, 1, n)])
      /\ UNCHANGED damaged

(* An error, or the end of what the peer has sent. *)
ReadingEnds(e) ==
  LET end == conn[e]
  IN  /\ end.reading /\ ~Blocked(e)
      /\ ~end.open \/ (~conn[Peer(e)].open /\ link[Peer(e)] = <<>> /\ end.rbuf = <<>>)
      /\ conn' = [conn EXCEPT ![e].reading = FALSE]
      /\ UNCHANGED <<kind, link, damaged>>

(* What was under way to the end that closes is lost, of what it has sent some
   may be. *)
CloseEnd(e) ==
  /\ conn[e].open
  /\ conn' = [conn EXCEPT ![e].open = FALSE]
  /\ \E n \in 0..Len(link[e]) :
       link' = [link EXCEPT ![e] = SubSeq(@, 1, n), ![Peer(e)] = <<>>]
  /\ UNCHANGED <<kind, damaged>>

----------------------------------------------------------------------------
LazyInit ==
  /\ kind \in ConnKinds
  /\ conn = [e \in BothEnds |-> IF e = "c" THEN Client
                                ELSE [Fresh EXCEPT !.up = kind.name = "sni"]]
  /\ link = [e \in BothEnds |-> IF e = "c" /\ kind.name \in {"relay", "ss"} /\ kind.cnow
                                THEN <<Header>> ELSE <<>>]
  /\ damaged = [e \in BothEnds |-> FALSE]

(* The goroutine that reads, which may be the first to handshake. *)
Reading(e) ==
  \/ e = "c" /\ (ReadShakes \/ DrainHeader \/ ReadResponse \/ ReadParsed)
  \/ ReadBuffer(e) \/ ReadLink(e) \/ ReadingEnds(e)

LazyNext ==
  \/ TakeResponse \/ Take \/ RefuseRequest
  \/ \E e \in BothEnds : WriteBlock(e) \/ CloseEnd(e) \/ Reading(e)

(* The goroutines that read go on, and so do Connect and the handshake. *)
LazyFairness ==
  /\ WF_lazyVars(TakeResponse) /\ WF_lazyVars(Take \/ RefuseRequest)
  /\ \A e \in BothEnds : WF_lazyVars(Reading(e))

LazySpec == LazyInit /\ [][LazyNext]_lazyVars /\ LazyFairness

----------------------------------------------------------------------------
LazyTypeOK ==
  /\ kind \in ConnKinds /\ damaged \in [BothEnds -> BOOLEAN]
  /\ \A e \in BothEnds :
       /\ conn[e].sent \in 0..MaxItems /\ conn[e].up \in BOOLEAN
       /\ conn[e].reading \in BOOLEAN /\ conn[e].open \in BOOLEAN

(***************************************************************************)
(* Whichever end speaks first and however the network cuts it up, each end *)
(* reads what the other wrote, in order, from the first, without a gap and *)
(* without a trace of the handshakes.  What the code damages itself is     *)
(* excepted: a chunk that ends in the header of a TLS record, a first      *)
(* Write of more than one, a ClientHello with data behind it, and relay's  *)
(* datagrams with nodelay, whose response is awaited twice.                *)
(***************************************************************************)
ReadInOrder ==
  /\ LazyTypeOK
  /\ \A e \in BothEnds : damaged[e] \/
       IsPrefix(conn[Peer(e)].got, [i \in 1..conn[e].sent |-> i])

NobodyCloses == conn["c"].open /\ conn["s"].open

(***************************************************************************)
(* Nobody waits for ever but on the other end's user: what one end has     *)
(* written the other reads, a client that has spoken, or need not wait, is *)
(* answered, and when an end has closed, both stop reading.  The exception *)
(* is obfs-tls's client, which waits for its own first Write.              *)
(***************************************************************************)
Arrives ==
  /\ \A e \in BothEnds, k \in 1..MaxItems :
       conn[e].sent >= k ~> (Len(conn[Peer(e)].got) >= k \/ damaged[e] \/ ~NobodyCloses)
  /\ (kind.cnow \/ conn["c"].sent > 0) ~> (conn["s"].up \/ ~NobodyCloses)
  /\ (conn["s"].up /\ (kind.snow \/ conn["s"].sent > 0)) ~> (conn["c"].up \/ ~NobodyCloses)
  /\ \A e \in BothEnds : ~NobodyCloses ~>
       (~conn[e].reading \/ (e = "c" /\ kind.name = "otls" /\ conn[e].sent = 0))

----------------------------------------------------------------------------
(***************************************************************************)
(* What ReadInOrder rests on: an end's data is read, buffered or on its    *)
(* way, one after the other and, while both ends are open, all of it; and  *)
(* where on the way there are requests and responses, by whether they have *)
(* been sent (Unsaid, Silent) and taken off (up, Awaits).                  *)
(***************************************************************************)
Kepts == {<<>>, <<Header>>}

Ends2 == [up : BOOLEAN, wbuf : Kepts, rbuf : Seq(Int), drained : BOOLEAN,
          shaken : BOOLEAN, sent : 0..MaxItems, got : Seq(Int), reading : BOOLEAN, open : BOOLEAN]

LazyShape ==
  /\ kind \in ConnKinds
  /\ conn \in [BothEnds -> Ends2]
  /\ link \in [BothEnds -> Seq(Int)]
  /\ damaged \in [BothEnds -> BOOLEAN]

BufferOK ==
  /\ ~conn["c"].up => kind.name = "relay" /\ kind.cnow
  /\ ~conn["c"].drained \/ kind.name # "ohttp" => conn["c"].rbuf = <<>>
  /\ kind.name = "relay" /\ kind.cnow /\ ~kind.udp => conn["c"].drained
  /\ kind.name \notin {"ohttp", "relay"} => conn["c"].drained
  /\ conn["s"].drained
  /\ ~conn["s"].up => conn["s"].rbuf = <<>> /\ conn["s"].wbuf = <<>> /\ kind.name # "sni"
  /\ kind.name \in {"ss", "sni"} => conn["s"].wbuf = <<>>
  /\ kind.name \in {"otls", "sni"} \/ (kind.name = "ohttp" /\ ~conn["c"].shaken) =>
       conn["c"].wbuf = <<>>

Plain(units) == \A i \in 1..Len(units) : units[i] > 0

Headed(units, heads) == units # <<>> /\ Head(units) \in heads /\ Plain(Tail(units))

Unsaid ==
  CASE kind.name = "ohttp" -> ~conn["c"].shaken \/ conn["c"].wbuf # <<>>
    [] kind.name = "otls"  -> ~conn["c"].shaken
    [] OTHER               -> conn["c"].wbuf # <<>>

RequestOK ==
  conn["s"].open =>
    IF conn["s"].up THEN Plain(link["c"]) /\ ~Unsaid
    ELSE /\ link["c"] = <<>> \/ Headed(link["c"], {Header})
         /\ Unsaid => link["c"] = <<>>
         /\ conn["c"].open /\ link["c"] = <<>> => Unsaid

Silent == ~conn["s"].up \/ conn["s"].wbuf # <<>>

Awaits ==
  \/ kind.name = "ohttp" /\ ~conn["c"].drained
  \/ kind.name = "relay" /\ (~conn["c"].up \/ (~kind.cnow /\ ~conn["c"].drained))

ResponseOK ==
  conn["c"].open =>
    CASE kind.name = "otls" -> TRUE
      [] kind.name \in {"ss", "sni"} -> Plain(link["s"])
      [] OTHER ->
           IF Awaits
           THEN /\ link["s"] = <<>> \/ Headed(link["s"], {Header, Refusal})
                /\ conn["s"].open => (Silent <=> link["s"] = <<>>)
           ELSE Plain(link["s"]) /\ (conn["s"].open => ~Silent)

Whole(e) == conn[Peer(e)].got \o conn[Peer(e)].rbuf \o Items(link[e])

InOrder(e) ==
  \/ damaged[e]
  \/ /\ \A i \in 1..Len(Whole(e)) : Whole(e)[i] = i
     /\ Len(Whole(e)) <= conn[e].sent
     /\ NobodyCloses => Len(Whole(e)) = conn[e].sent

LazyIInv ==
  /\ LazyTypeOK /\ LazyShape /\ BufferOK /\ RequestOK /\ ResponseOK
  /\ InOrder("c") /\ InOrder("s")
=============================================================================
