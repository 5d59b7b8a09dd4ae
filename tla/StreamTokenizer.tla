-------------------------- MODULE StreamTokenizer --------------------------
(***************************************************************************)
(* utils/stream_tokenizer.go: cuts a byte stream that arrives in buffers   *)
(* of any size into the messages between tokens (stdin, syslog over TCP,   *)
(* simulator).  The reference is the split of the whole stream, which does *)
(* not know where the buffers ended.                                       *)
(***************************************************************************)
EXTENDS Integers, Sequences, FiniteSets

CONSTANTS
  Letters,       \* bytes other than Token
  Token,
  MaxSizes,      \* the limits a tokenizer may be created with; 0 means none
  MaxChunk,      \* bound: bytes in one buffer
  MaxFed         \* bound: bytes in the stream

VARIABLES
  MaxSize,       \* t.MaxSize, set by whoever creates the tokenizer
  currentData,   \* t.currentData
  fed,           \* history: the stream so far, since the last error
  out,           \* history: messages reported for it
  tooLarge,      \* the last Add returned ErrorTooLarge
  short          \* history: a buffer had a single byte before a token

vars == <<MaxSize, currentData, fed, out, tooLarge, short>>

Init ==
  /\ MaxSize \in MaxSizes
  /\ currentData = <<>> /\ fed = <<>> /\ out = <<>>
  /\ tooLarge = FALSE /\ short = FALSE

-----------------------------------------------------------------------------
\* Mutant: the limit is off by one.
OverLimitLate(s) == MaxSize # 0 /\ Len(s) > MaxSize + 1

OverLimit(s) == MaxSize # 0 /\ Len(s) > MaxSize

\* Mutant: the first segment of a buffer is forgotten.
SegmentNotFirst(data, start, i) == IF start > 1 THEN SubSeq(data, start, i - 1) ELSE <<>>

\* What is added for the token at i: "if i-1 > dataStart", counted from one.
Segment(data, start, i) == IF i - 1 > start THEN SubSeq(data, start, i - 1) ELSE <<>>

Reported(report, message) == Append(report, message)

\* One turn of the loop: byte i of data, s the loop's variables.
Step(data, i, s) ==
  LET isToken == data[i] = Token
      grown == s.cur \o IF isToken THEN Segment(data, s.start, i) ELSE SubSeq(data, s.start, i)
  IN IF s.err \/ (~isToken /\ i < Len(data)) THEN s
     ELSE IF OverLimit(grown) THEN [s EXCEPT !.err = TRUE, !.cur = <<>>, !.report = <<>>]
     ELSE IF isToken
          THEN [s EXCEPT !.start = i + 1, !.cur = <<>>, !.report = Reported(@, grown)]
          ELSE [s EXCEPT !.cur = grown]

\* The whole loop.
Scan(data) ==
  LET loop[i \in 0 .. Len(data)] ==
        IF i = 0 THEN [start |-> 1, cur |-> currentData, report |-> <<>>, err |-> FALSE]
        ELSE Step(data, i, loop[i - 1])
  IN loop[Len(data)]

\* A buffer in which a single byte stands between its start, or a token, and a token.
HasShortSegment(data) ==
  \E i \in 1 .. Len(data) - 1 :
    data[i] # Token /\ data[i + 1] = Token /\ (i = 1 \/ data[i - 1] = Token)

Add(data) ==
  LET s == Scan(data) IN
    /\ currentData' = s.cur
    /\ tooLarge' = s.err
    /\ fed' = IF s.err THEN <<>> ELSE fed \o data
    /\ out' = IF s.err THEN <<>> ELSE out \o s.report
    /\ short' = (short \/ HasShortSegment(data))
    /\ UNCHANGED MaxSize

Chunks == UNION {[1 .. n -> Letters \union {Token}] : n \in 0 .. MaxChunk}

Next ==
  \/ \E data \in Chunks : Len(fed) + Len(data) <= MaxFed /\ Add(data)
  \/ Len(fed) = MaxFed /\ UNCHANGED vars

Spec == Init /\ [][Next]_vars

-----------------------------------------------------------------------------
\* Where the k-th token of the stream is; 0 for k = 0.
TokenAt(k) ==
  IF k = 0 THEN 0
  ELSE CHOOSE i \in DOMAIN fed :
         fed[i] = Token /\ Cardinality({j \in 1 .. i : fed[j] = Token}) = k

Tokens == Cardinality({i \in DOMAIN fed : fed[i] = Token})

\* The split of the stream: what stands before the k-th token, and the rest.
Messages == [k \in 1 .. Tokens |-> SubSeq(fed, TokenAt(k - 1) + 1, TokenAt(k) - 1)]
Remainder == SubSeq(fed, TokenAt(Tokens) + 1, Len(fed))

\* Type correctness.
TypeOK ==
  /\ currentData \in Seq(Letters)
  /\ out \in Seq(Seq(Letters))
  /\ fed \in Seq(Letters \union {Token}) /\ Len(fed) <= MaxFed
  /\ {tooLarge, short} \subseteq BOOLEAN

\* Every byte reaches its message however the stream is cut into buffers: "we can
\* use what we have accumulated before plus this as a message".
Lossless == MaxSize = 0 => out = Messages /\ currentData = Remainder

\* The same, as long as no buffer holds a single byte before a token.
LosslessUnlessShort == ~short => Lossless

\* Under a limit the framing survives what is dropped: one message is reported per
\* token, so that messages do not run into each other, and neither a message nor
\* what is kept exceeds the limit.
LimitKeepsFraming ==
  /\ Len(out) = Tokens
  /\ MaxSize # 0 => /\ Len(currentData) <= MaxSize
                    /\ \A k \in DOMAIN out : Len(out[k]) <= MaxSize
=============================================================================
