------------------------------ MODULE HikMultipart ------------------------------
(***************************************************************************)
(* The alertStream of one connection after another: parts cut into chunks   *)
(* anywhere, put together by MultipartParser, decoded by normalize_event.   *)
(*                                                                          *)
(* A byte sequence is a sequence of symbols.  The boundary has two of them, *)
(* so that a chunk may end inside it; "#" is the end of a part's header.    *)
(***************************************************************************)
EXTENDS Naturals, Sequences, SequencesExt, FiniteSetsExt

CONSTANTS
    Symbols,        \* what stands for the bytes
    Parts,          \* what may be sent: [bytes, events, fatal], see below
    Normalized,     \* the symbols that are the JSON of a well-formed event
    NotObjects,     \* the symbols that are JSON, but no object
    InnerNotObjects,\* those of an event whose AccessControllerEvent is no object
    Infinite,       \* those of an event whose type code or reader is Infinity
    TooDeep,        \* those nested more deeply than json.loads can follow
    MaxBuffer,      \* max_buffer
    MaxParts,       \* bound: parts sent on a connection
    MaxDrops        \* bound: connections lost

\* bytes: header, "#" and body, or anything else without a boundary; events: what
\* the sender means by it; fatal: TRUE if no exception handler is there for it.
Fatal    == NotObjects \cup InnerNotObjects \cup Infinite \cup TooDeep
Boundary == <<"-", "B">>
ASSUME SymbolsAssumption == {"-", "B", "#"} \subseteq Symbols /\ Normalized \cap Fatal = {}
ASSUME PartsAssumption ==
    \A p \in Parts :
        /\ p.bytes \in Seq(Symbols) /\ p.events \in Seq(Symbols) /\ p.fatal \in BOOLEAN
        /\ \A i \in 1..(Len(p.bytes) - 1) : SubSeq(p.bytes, i, i + 1) # Boundary

\* What stands behind the first "#" is an event, something fatal, or neither.
ASSUME MeaningAssumption ==
    \A p \in Parts :
        \/ (\A i \in 1..Len(p.bytes) : p.bytes[i] # "#") /\ p.events = <<>> /\ ~p.fatal
        \/ \E i \in 1..Len(p.bytes) :
              /\ p.bytes[i] = "#" /\ \A j \in 1..(i - 1) : p.bytes[j] # "#"
              /\ LET body == SubSeq(p.bytes, i + 1, Len(p.bytes))
                     Is(S) == body \in {<<s>> : s \in S}
                 IN  \/ Is(Normalized) /\ p.events = body /\ ~p.fatal
                     \/ Is(Fatal) /\ p.events = <<>> /\ p.fatal
                     \/ ~Is(Normalized \cup Fatal) /\ p.events = <<>> /\ ~p.fatal

ASSUME BoundsAssumption == MaxBuffer \in Nat /\ MaxParts \in Nat /\ MaxDrops \in Nat

VARIABLES
    sent,       \* the parts sent on this connection
    taken,      \* symbols of it received
    buf,        \* MultipartParser._buf
    pc,         \* "wait" for a chunk, "feed" while feed() loops, "dead"
    handled,    \* parts cut out of the buffer
    out,        \* events yielded on this connection
    drops

vars == <<sent, taken, buf, pc, handled, out, drops>>

Stream == FlattenSeq([j \in 1..Len(sent) |-> Boundary \o sent[j].bytes])

Init ==
    /\ sent = <<>> /\ taken = 0
    /\ buf = <<>> /\ pc = "wait" /\ handled = 0 /\ out = <<>>
    /\ drops = 0

Send(p) ==
    /\ Len(sent) < MaxParts
    /\ sent' = Append(sent, p)
    /\ UNCHANGED <<taken, buf, pc, handled, out, drops>>

\* A slip: the chunk alone is measured.
OverflowsAlone(chunk) == Len(chunk) > MaxBuffer

\* The buffer with the chunk is too long; whether it holds boundaries does not matter.
Overflows(chunk) == Len(buf \o chunk) > MaxBuffer

\* feed() with the next chunk.  MultipartBufferOverflow ends the stream for good.
Receive ==
    /\ pc = "wait"
    /\ \E n \in (taken + 1)..Len(Stream) :
          LET chunk == SubSeq(Stream, taken + 1, n) IN
          /\ taken' = n
          /\ buf' = buf \o chunk
          /\ pc' = IF Overflows(chunk) THEN "dead" ELSE "feed"
    /\ UNCHANGED <<sent, handled, out, drops>>

\* bytes.find: the first place at or after i, 0 if there is none.
Places(s, i)  == {j \in i..(Len(s) - 1) : SubSeq(s, j, j + 1) = Boundary}
Find(s, i)    == IF Places(s, i) = {} THEN 0 ELSE Min(Places(s, i))
HeaderEnds(s) == {j \in 1..Len(s) : s[j] = "#"}
Body(part)    == SubSeq(part, Min(HeaderEnds(part)) + 1, Len(part))

\* A slip: a part without a header is an error.
RaisesUnlessHeader(part) ==
    HeaderEnds(part) = {} \/ (Len(Body(part)) = 1 /\ Body(part)[1] \in Fatal)

\* feed() catches ValueError only: json.loads may raise RecursionError.  normalize_event
\* calls get on what json.loads returned and on its member AccessControllerEvent,
\* neither of which need be an object, and int() on an infinite number raises
\* OverflowError, where TypeError and ValueError are caught.
Raises(part) ==
    HeaderEnds(part) # {} /\ Len(Body(part)) = 1 /\ Body(part)[1] \in Fatal

\* A part without a header, or whose body is not JSON, is skipped; normalize_event
\* passes events with readable type codes only.
Decode(part) ==
    IF HeaderEnds(part) # {} /\ Len(Body(part)) = 1 /\ Body(part)[1] \in Normalized
    THEN Body(part) ELSE <<>>

\* A slip: the boundary that ends a part is taken with it.
RestAfter(s, second) == SubSeq(s, second + Len(Boundary), Len(s))

\* What stays in the buffer: the boundary that ended the part begins the next one.
Rest(s, second) == SubSeq(s, second, Len(s))

\* A slip: one part per chunk.
Again == "wait"

\* After a part, the loop goes on.
Loop == "feed"

\* One turn of the loop in feed(), and the consumer of what it yields.
Extract ==
    LET first  == Find(buf, 1)
        second == Find(buf, first + Len(Boundary))
        part   == SubSeq(buf, first + Len(Boundary), second - 1)
    IN
    /\ pc = "feed"
    /\ IF first = 0 \/ second = 0
       THEN pc' = "wait" /\ UNCHANGED <<buf, handled, out>>
       ELSE /\ buf' = Rest(buf, second)
            /\ handled' = handled + 1
            /\ pc' = IF Raises(part) THEN "dead" ELSE Loop
            /\ out' = IF Raises(part) THEN out ELSE out \o Decode(part)
    /\ UNCHANGED <<sent, taken, drops>>

\* The connection is lost, between two chunks or two parts; the next one has a
\* parser of its own.
Drop ==
    /\ pc # "dead" /\ drops < MaxDrops
    /\ drops' = drops + 1
    /\ sent' = <<>> /\ taken' = 0
    /\ buf' = <<>> /\ pc' = "wait" /\ handled' = 0 /\ out' = <<>>

Next == (\E p \in Parts : Send(p)) \/ Receive \/ Extract \/ Drop

Spec == Init /\ [][Next]_vars

\* What was sent arrives; the loop runs.
FairSpec == Spec /\ WF_vars(Receive) /\ WF_vars(Extract)
-----------------------------------------------------------------------------
(* Properties. *)

\* Every variable holds a value of its kind, and the buffer is bounded.
TypeOK ==
    /\ sent \in Seq(Parts) /\ Len(sent) <= MaxParts
    /\ taken \in 0..Len(Stream)
    /\ pc \in {"wait", "feed", "dead"}
    /\ pc # "dead" => Len(buf) <= MaxBuffer
    /\ handled \in 0..Len(sent)
    /\ drops \in 0..MaxDrops

\* Parts whose successor's boundary has been received in full.
Offset(j)  == Len(FlattenSeq([i \in 1..j |-> Boundary \o sent[i].bytes]))
Complete   == {j \in 1..(Len(sent) - 1) : Offset(j) + Len(Boundary) <= taken}
Meant(n)   == FlattenSeq([j \in 1..n |-> sent[j].events])

\* Wherever the chunks are cut, inside a boundary too, the events yielded are those
\* of the complete parts, once and in order; a part is complete only with the
\* boundary of the next one, so the last part received is always held back.
YieldsAsSent ==
    /\ out = Meant(handled)
    /\ handled <= Cardinality(Complete)
    /\ pc = "wait" => handled = Cardinality(Complete)

\* "one bad chunk must not tear down the stream consumer": no part without a header,
\* of another type, cut short, no JSON, or with unreadable codes ends the stream, nor
\* does the place of a cut.  What does is a buffer overflow, and of the parts exactly
\* those of Fatal: JSON that is not an object, an event whose inner member is not, an
\* infinite number for a code or a reader, JSON nested too deeply.
EndsOnlyForCause ==
    pc = "dead" =>
        Len(buf) > MaxBuffer \/ (handled > 0 /\ sent[handled].fatal)

\* Once the device has sent another part, the one before it is delivered, unless
\* the connection or the stream ends.
NextPartReleases ==
    \A j \in 1..(MaxParts - 1) :
        Len(sent) > j ~> handled >= j \/ sent = <<>> \/ pc = "dead"
=============================================================================
