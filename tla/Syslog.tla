------------------------------- MODULE Syslog -------------------------------
(***************************************************************************)
(* syslog, over TCP or UDP, and stdin: readers that cut what they read     *)
(* into lines and ship them.  A TCP listener has one reader per            *)
(* connection; UDP and stdin have one reader.  The sockets, the senders    *)
(* and the USP client are external.                                        *)
(***************************************************************************)
EXTENDS Integers, Sequences, SequencesExt

CONSTANTS
  Conns,     \* connections; UDP and stdin have Only
  Only,
  Confs      \* the situations: see IsConf

Newline == 0

\* What a sender writes in a situation: datagrams, or a stream of bytes.
StreamOf(c) ==
  LET upTo[k \in 0 .. Len(c.lines)] ==
        IF k = 0 THEN <<>> ELSE upTo[k - 1] \o Append(c.lines[k], Newline)
  IN IF c.kind = "udp" THEN c.lines ELSE upTo[Len(c.lines)] \o c.rest

\* kind: "tcp", "udp" or "stdin".  conns: the connections that may be made.  lines: what
\* a sender sends, a line being a sequence of bytes; over UDP each is a datagram, and
\* may hold newlines.  rest: bytes after the last newline.  Fails: Accept, Read and Ship
\* may fail.  Full: the buffer may be full.
IsConf(c) ==
  /\ DOMAIN c = {"kind", "conns", "lines", "rest", "Fails", "Full"} /\ c.conns \subseteq Conns
  /\ c.kind \in {"tcp", "udp", "stdin"} /\ {c.Fails, c.Full} \subseteq BOOLEAN
  /\ LET Bytes == IF c.kind = "udp" THEN Nat ELSE Nat \ {Newline}
     IN c.lines \in Seq(Seq(Bytes)) /\ c.rest \in Seq(Bytes)

VARIABLES
  conf,
  isRunning,
  listener,   \* "open" or "closed"
  acceptor,   \* handleTCPConnections: "check", "accept", "start" or "done"
  accepted,   \* the connection it has in its hands, None for none
  peer,       \* per connection: "no", "open" or "shut"
  sent, got,  \* per connection: how much of the stream was sent, and read
  reader,     \* per connection: "no", "check", "read", "lines" or "done"
  st,         \* per connection: the bytes the tokenizer keeps
  chunks,     \* per connection: the lines to ship
  retrying,   \* per connection: the second Ship of the line
  closer,     \* Close: "no", "listener", "drain" or "closed"
  stopped,    \* chStopped is closed
  shipped,    \* history, per connection: lines shipped, in order
  lossy,      \* history: connections of which a line was given up, or a byte lost
  reads       \* history, per connection: data read when isRunning was 0 already

netVars == <<peer, sent>>
readVars == <<got, reader, st, chunks, retrying, shipped, lossy, reads>>
vars == <<conf, isRunning, listener, acceptor, accepted, netVars, readVars, closer, stopped>>

None == 0

Init ==
  /\ conf \in Confs
  /\ isRunning = TRUE /\ listener = "open" /\ stopped = FALSE
  /\ acceptor = IF conf.kind = "tcp" THEN "check" ELSE "done"
  /\ accepted = None
  /\ peer = [c \in Conns |-> IF conf.kind # "tcp" /\ c = Only THEN "open" ELSE "no"]
  /\ reader = [c \in Conns |-> IF conf.kind # "tcp" /\ c = Only THEN "check" ELSE "no"]
  /\ sent = [c \in Conns |-> 0] /\ got = [c \in Conns |-> 0]
  /\ st = [c \in Conns |-> <<>>] /\ chunks = [c \in Conns |-> <<>>]
  /\ retrying = [c \in Conns |-> FALSE]
  /\ closer = "no"
  /\ shipped = [c \in Conns |-> <<>>] /\ lossy = {} /\ reads = [c \in Conns |-> 0]

-----------------------------------------------------------------------------
(***************************************************************************)
(* The senders.                                                            *)
(***************************************************************************)
Stream == StreamOf(conf)

\* The connections are numbered in the order in which they are made.
Dial(c) ==
  /\ conf.kind = "tcp" /\ c \in conf.conns /\ listener = "open" /\ peer[c] = "no"
  /\ \A d \in conf.conns : d < c => peer[d] # "no"
  /\ peer' = [peer EXCEPT ![c] = "open"]
  /\ UNCHANGED <<conf, isRunning, listener, acceptor, accepted, sent, readVars, closer, stopped>>

Send(c) ==
  /\ peer[c] = "open" /\ sent[c] < Len(Stream)
  /\ sent' = [sent EXCEPT ![c] = @ + 1]
  /\ UNCHANGED <<conf, isRunning, listener, acceptor, accepted, peer, readVars, closer, stopped>>

\* A sender closes its connection, or the input ends.
Shut(c) ==
  /\ conf.kind # "udp" /\ peer[c] = "open" /\ sent[c] = Len(Stream)
  /\ peer' = [peer EXCEPT ![c] = "shut"]
  /\ UNCHANGED <<conf, isRunning, listener, acceptor, accepted, sent, readVars, closer, stopped>>

-----------------------------------------------------------------------------
(***************************************************************************)
(* handleTCPConnections.                                                   *)
(***************************************************************************)
CheckRunning ==
  /\ acceptor = "check"
  /\ acceptor' = IF isRunning THEN "accept" ELSE "done"
  /\ stopped' = (stopped \/ ~isRunning)
  /\ UNCHANGED <<conf, isRunning, listener, accepted, netVars, readVars, closer>>

Accept(c) ==
  /\ acceptor = "accept" /\ listener = "open" /\ peer[c] \in {"open", "shut"} /\ reader[c] = "no"
  /\ \A d \in conf.conns : d < c => reader[d] # "no"
  /\ acceptor' = "start" /\ accepted' = c
  /\ UNCHANGED <<conf, isRunning, listener, netVars, readVars, closer, stopped>>

\* The listener is closed, or any other error: the loop ends.
AcceptFails ==
  /\ acceptor = "accept" /\ (listener = "closed" \/ conf.Fails)
  /\ acceptor' = "done" /\ stopped' = TRUE
  /\ UNCHANGED <<conf, isRunning, listener, accepted, netVars, readVars, closer>>

StartReader ==
  /\ acceptor = "start" /\ isRunning
  /\ reader' = [reader EXCEPT ![accepted] = "check"]
  /\ acceptor' = "check" /\ accepted' = None
  /\ UNCHANGED <<conf, isRunning, listener, netVars, got, st, chunks, retrying, shipped, lossy, reads, closer,
                 stopped>>

CloseAccepted ==
  /\ acceptor = "start" /\ ~isRunning
  /\ peer' = [peer EXCEPT ![accepted] = "shut"] /\ reader' = [reader EXCEPT ![accepted] = "done"]
  /\ acceptor' = "done" /\ accepted' = None /\ stopped' = TRUE
  /\ UNCHANGED <<conf, isRunning, listener, sent, got, st, chunks, retrying, shipped, lossy, reads, closer>>

-----------------------------------------------------------------------------
(***************************************************************************)
(* handleConnection and handleInput.                                       *)
(***************************************************************************)
ReadUnchanged == <<conf, isRunning, listener, acceptor, accepted, sent, closer>>

\* The goroutine ends; the only one of UDP and stdin closes chStopped.
Ends(c) ==
  /\ reader' = [reader EXCEPT ![c] = "done"]
  /\ stopped' = (stopped \/ conf.kind # "tcp")
  /\ peer' = [peer EXCEPT ![c] = "shut"]

\* Mutant: a reader goes on until its connection is closed.
ReadOn(c) ==
  /\ reader[c] = "check"
  /\ reader' = [reader EXCEPT ![c] = "read"]
  /\ UNCHANGED <<ReadUnchanged, got, peer, stopped, st, chunks, retrying, shipped, lossy, reads>>

CheckReader(c) ==
  /\ reader[c] = "check"
  /\ IF isRunning THEN reader' = [reader EXCEPT ![c] = "read"] /\ UNCHANGED <<stopped, peer>> ELSE Ends(c)
  /\ UNCHANGED <<ReadUnchanged, got, st, chunks, retrying, shipped, lossy, reads>>

\* The tokenizer of a reader that has kept the bytes of an unfinished line.
Tokenizer(kept) == INSTANCE StreamTokenizer WITH
  Letters <- {}, Token <- Newline, MaxSizes <- {0}, MaxChunk <- 0, MaxFed <- 0,
  MaxSize <- 0, currentData <- kept, fed <- <<>>, out <- <<>>, tooLarge <- FALSE, short <- FALSE

\* Close closes the socket of UDP, and no other.
Closed(c) == conf.kind = "udp" /\ listener = "closed"

\* A datagram is a line; st.Add finds the lines of a stream, and loses a single byte
\* that stands before a newline.
Read(c, n) ==
  /\ reader[c] = "read" /\ ~Closed(c)
  /\ conf.kind = "udp" => n = 1
  /\ LET data == SubSeq(Stream, got[c] + 1, got[c] + n)
         scan == Tokenizer(st[c])!Scan(data)
     IN IF conf.kind = "udp"
        THEN chunks' = [chunks EXCEPT ![c] = data] /\ UNCHANGED <<st, lossy>>
        ELSE /\ chunks' = [chunks EXCEPT ![c] = scan.report] /\ st' = [st EXCEPT ![c] = scan.cur]
             /\ lossy' = IF Tokenizer(st[c])!HasShortSegment(data) THEN lossy \union {c} ELSE lossy
  /\ got' = [got EXCEPT ![c] = @ + n]
  /\ reader' = [reader EXCEPT ![c] = "lines"]
  /\ reads' = [reads EXCEPT ![c] = IF isRunning THEN @ ELSE @ + 1]
  /\ UNCHANGED <<ReadUnchanged, peer, stopped, retrying, shipped>>

\* EOF, or an error.
ReadFails(c) ==
  /\ reader[c] = "read"
  /\ Closed(c) \/ conf.Fails \/ (peer[c] = "shut" /\ got[c] = sent[c])
  /\ Ends(c)
  /\ UNCHANGED <<ReadUnchanged, got, st, chunks, retrying, shipped, lossy, reads>>

-----------------------------------------------------------------------------
(***************************************************************************)
(* handleLine.  Its first step when there is no line left, or an empty     *)
(* one, is to go on.                                                       *)
(***************************************************************************)
LineUnchanged == <<ReadUnchanged, got, st, peer, stopped, reads>>

NextLine(c) ==
  /\ chunks' = [chunks EXCEPT ![c] = Tail(@)]
  /\ retrying' = [retrying EXCEPT ![c] = FALSE]

NoMoreLines(c) ==
  /\ reader[c] = "lines" /\ chunks[c] = <<>>
  /\ reader' = [reader EXCEPT ![c] = "check"]
  /\ UNCHANGED <<LineUnchanged, chunks, retrying, shipped, lossy>>

IsLine(c) == reader[c] = "lines" /\ chunks[c] # <<>> /\ Head(chunks[c]) # <<>>

EmptyLine(c) ==
  /\ reader[c] = "lines" /\ chunks[c] # <<>> /\ Head(chunks[c]) = <<>>
  /\ NextLine(c)
  /\ UNCHANGED <<LineUnchanged, reader, shipped, lossy>>

Ship(c) ==
  /\ IsLine(c) /\ closer # "closed"
  /\ shipped' = [shipped EXCEPT ![c] = Append(@, Head(chunks[c]))]
  /\ NextLine(c)
  /\ UNCHANGED <<LineUnchanged, reader, lossy>>

\* ErrorBufferFull: the line is shipped again, with a longer timeout.
BufferFull(c) ==
  /\ IsLine(c) /\ conf.Full /\ ~retrying[c] /\ closer # "closed"
  /\ retrying' = [retrying EXCEPT ![c] = TRUE]
  /\ UNCHANGED <<LineUnchanged, reader, chunks, shipped, lossy>>

\* OnError; the reader goes on.
ShipFails(c) ==
  /\ IsLine(c) /\ (conf.Fails \/ closer = "closed")
  /\ lossy' = lossy \union {c}
  /\ NextLine(c)
  /\ UNCHANGED <<LineUnchanged, reader, shipped>>

-----------------------------------------------------------------------------
(***************************************************************************)
(* Close: it waits for no reader, and leaves the connections open.         *)
(***************************************************************************)
CloseUnchanged == <<conf, acceptor, accepted, netVars, readVars, stopped>>

CloseFlag ==
  /\ closer = "no"
  /\ isRunning' = FALSE /\ closer' = IF conf.kind = "stdin" THEN "drain" ELSE "listener"
  /\ UNCHANGED <<CloseUnchanged, listener>>

CloseListener ==
  /\ closer = "listener"
  /\ listener' = "closed" /\ closer' = "drain"
  /\ UNCHANGED <<CloseUnchanged, isRunning>>

CloseClient ==
  /\ closer = "drain"
  /\ closer' = "closed"
  /\ UNCHANGED <<CloseUnchanged, isRunning, listener>>

-----------------------------------------------------------------------------
Acceptor == CheckRunning \/ (\E c \in Conns : Accept(c)) \/ AcceptFails \/ StartReader \/ CloseAccepted
Reader(c) ==
  \/ CheckReader(c) \/ ReadFails(c) \/ (\E n \in 1 .. (sent[c] - got[c]) : Read(c, n))
  \/ NoMoreLines(c) \/ EmptyLine(c) \/ Ship(c) \/ BufferFull(c) \/ ShipFails(c)
Closer == CloseListener \/ CloseClient

\* Readers may wait for more input as long as they like.
Waiting == UNCHANGED vars

Next ==
  \/ Acceptor \/ Closer \/ CloseFlag \/ Waiting
  \/ \E c \in Conns : Dial(c) \/ Send(c) \/ Shut(c) \/ Reader(c)

Goroutines == Acceptor \/ Closer \/ \E c \in Conns : Reader(c)

\* The goroutines run.  Nobody has to send, to shut a connection or to call Close.  What
\* is sent is bounded and every behaviour comes to rest, so that one condition says that
\* no goroutine is left behind.
Fairness == WF_vars(Goroutines)

Spec == Init /\ [][Next]_vars
FairSpec == Spec /\ Fairness

-----------------------------------------------------------------------------
\* Type correctness.
TypeOK ==
  /\ conf \in Confs /\ IsConf(conf)
  /\ {isRunning, stopped} \subseteq BOOLEAN /\ lossy \subseteq Conns /\ listener \in {"open", "closed"}
  /\ acceptor \in {"check", "accept", "start", "done"} /\ accepted \in Conns \union {None}
  /\ peer \in [Conns -> {"no", "open", "shut"}]
  /\ reader \in [Conns -> {"no", "check", "read", "lines", "done"}]
  /\ sent \in [Conns -> 0 .. Len(Stream)] /\ {got, reads} \subseteq [Conns -> Nat]
  /\ \A c \in Conns : got[c] <= sent[c]
  /\ closer \in {"no", "listener", "drain", "closed"}

\* The lines that are sent but for the empty ones.
Complete ==
  LET upTo[k \in 0 .. Len(conf.lines)] ==
        IF k = 0 THEN <<>>
        ELSE IF conf.lines[k] = <<>> THEN upTo[k - 1] ELSE Append(upTo[k - 1], conf.lines[k])
  IN upTo[Len(conf.lines)]

\* What is shipped of a connection are the lines that were sent, in their order, however
\* the reads cut the stream, as long as none is given up and the tokenizer loses no byte;
\* empty ones and an unfinished last one are not shipped.
LinesInOrder == \A c \in Conns \ lossy : IsPrefix(shipped[c], Complete)

\* When Close has cleared isRunning, no reader gets more than one more read: what may
\* be lost with the client is bounded.
OneReadAfterClose == \A c \in Conns : reads[c] <= 1

\* A line that was sent in full is shipped, if nobody closes, nothing fails and the
\* tokenizer loses no byte.
LinesShipped ==
  \A c \in Conns :
    (~conf.Fails /\ peer[c] # "no" /\ sent[c] = Len(Stream)) ~> (shipped[c] = Complete \/ c \in lossy \/ closer # "no")

Stopping == closer # "no"
Ended == stopped \/ (conf.kind = "stdin" /\ reader[Only] = "read")

\* Close ends the goroutine main waits for: at once, but the one of stdin only when its
\* read returns.
StopsAfterClose == Stopping ~> Ended
=============================================================================
