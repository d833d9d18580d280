---------------------------- MODULE ProviderStream ----------------------------
(***************************************************************************)
(* One call of the model: the HTTP adapter of sagent-provider (openai.rs), *)
(* its server-sent-event decoder (sse.rs), the conversion of frames into   *)
(* neutral events (openai_event.rs), the accumulator of tool calls         *)
(* (tooling/call.rs) and the worker that carries the result to the mailbox *)
(* of the session actor (worker/provider.rs).                              *)
(*                                                                         *)
(* A body is a sequence of lines.  Every line travels as three units: the  *)
(* first half of its text, the second half, the line feed; the two halves  *)
(* of an empty line carry no byte.  The network cuts the units into chunks *)
(* wherever it likes and may end, or break, anywhere.                      *)
(***************************************************************************)
EXTENDS Integers, Sequences, FiniteSets, SequencesExt

CONSTANTS Bodies,      \* what servers send: a set of sequences of lines
          FrameLimit,  \* MAX_SSE_FRAME_SIZE, in units
          ArgLimit,    \* MAX_ARGUMENT_BYTES, in pieces of arguments
          Capacity     \* slots of the actor's mailbox the worker may fill

Blank == [kind |-> "blank", says |-> <<>>]
Comment == [kind |-> "comment", says |-> <<>>]
Done == [kind |-> "done", says |-> <<>>]
Junk == [kind |-> "junk", says |-> <<>>]         \* data that is no JSON
Data(says) == [kind |-> "data", says |-> says]   \* one JSON chunk, its deltas in order

Text(t) == [type |-> "text", text |-> t]
\* A fragment of a call; id, name and arguments may each be missing.
Fragment(index, id, name, args) ==
    [type |-> "call", index |-> index, id |-> id, name |-> name, args |-> args]
Finish(stop) == [type |-> "finish", reason |-> stop]
Usage == [type |-> "usage"]

Deltas == {Usage} \union [type : {"text"}, text : STRING]
                 \union [type : {"finish"}, reason : STRING]
                 \union [type : {"call"}, index : Nat, id : STRING, name : STRING, args : Seq(STRING)]
Lines == {Blank, Comment, Done, Junk} \union [kind : {"data"}, says : Seq(Deltas)]

ASSUME StreamAssumption ==
    /\ Bodies \subseteq Seq(Lines)
    /\ FrameLimit \in Nat \ {0}
    /\ ArgLimit \in Nat \ {0}
    /\ Capacity \in Nat \ {0}

VARIABLES
    body,       \* what this server sends
    sent,       \* units of it the network has delivered
    decoder,    \* SseDecoder: buffer, data lines and size of the open frame
    ids,        \* OpenAiStreamParser.tool_call_ids: index -> id
    saw,        \* which of "finish" and "done" the parser has seen
    phase,      \* where the worker stands in ModelProvider::stream
    unsent,     \* events parsed and not emitted yet
    reason,     \* the last stop reason observed
    text,       \* RuntimeProviderSink.text
    calls,      \* ToolCallAccumulator: calls in the order they appeared
    report,     \* the last event the worker is to send
    mailbox,    \* what the worker has put into the mailbox of the actor
    heard,      \* what the actor has taken out of it
    cancelled,  \* the token of the turn
    open        \* the actor still receives

vars == <<body, sent, decoder, ids, saw, phase, unsent, reason, text, calls, report,
          mailbox, heard, cancelled, open>>
parser == <<decoder, ids, saw>>
sink == <<text, calls>>
actor == <<heard, cancelled, open>>

None == "none"
NoReport == [type |-> None]
NoDecoder == [buffer |-> <<>>, data |-> <<>>, size |-> 0]

Init ==
    /\ body \in Bodies
    /\ sent = 0
    /\ decoder = NoDecoder
    /\ ids = <<>>
    /\ saw = {}
    /\ phase = "request"
    /\ unsent = <<>>
    /\ reason = None
    /\ text = <<>>
    /\ calls = <<>>
    /\ report = NoReport
    /\ mailbox = <<>>
    /\ heard = <<>>
    /\ cancelled = FALSE
    /\ open = TRUE

-----------------------------------------------------------------------------
(* The decoder *)

Units == 3 * Len(body)
LineOf(u) == body[(u - 1) \div 3 + 1]
IsLineFeed(u) == u % 3 = 0
IsByte(u) == IsLineFeed(u) \/ LineOf(u) # Blank

\* The text of a line, given the bytes before its line feed.  Half a line is
\* only consumed at the end of the stream; what it says is `torn`.
LineText(bytes, torn) ==
    IF bytes = <<>> THEN Blank
    ELSE IF Len(bytes) = 2 \/ LineOf(bytes[1]) = Comment THEN LineOf(bytes[1])
    ELSE torn

\* dispatch_frame: several documents in one frame do not parse.
DispatchFrame(d) ==
    [d EXCEPT !.data = <<>>,
              !.size = 0,
              !.frames = IF d.data = <<>> THEN @
                         ELSE Append(@, IF Len(d.data) = 1 THEN d.data[1] ELSE Junk)]

\* consume_line: once a line is refused the rest of the stream is not read.
ConsumeLine(d, bytes, torn) ==
    LET line == LineText(bytes, torn)
        grown == [d EXCEPT !.size = @ + Len(bytes) + 1]
    IN  IF d.failed THEN d
        ELSE IF grown.size > FrameLimit THEN [grown EXCEPT !.failed = TRUE]
        ELSE IF line = Blank THEN DispatchFrame(grown)
        ELSE IF line = Comment THEN grown
        ELSE [grown EXCEPT !.data = Append(@, line)]

Reading(d) == [buffer |-> d.buffer, data |-> d.data, size |-> d.size,
               frames |-> <<>>, failed |-> FALSE]

\* SseDecoder::push, byte by byte: a line is consumed when its line feed comes.
TakeByte(d, u) ==
    IF IsLineFeed(u)
    THEN [ConsumeLine(d, d.buffer, Junk) EXCEPT !.buffer = <<>>]
    ELSE IF IsByte(u) THEN [d EXCEPT !.buffer = Append(@, u)] ELSE d

Push(d, from, to) ==
    LET read[u \in from .. to] == IF u = from THEN Reading(d) ELSE TakeByte(read[u - 1], u)
    IN  [read[to] EXCEPT !.failed = @ \/ Len(read[to].buffer) > FrameLimit]

\* SseDecoder::finish: the last line may lack its line feed, the last frame its
\* empty line.
Flush(d, torn) ==
    LET read == IF d.buffer = <<>> THEN Reading(d)
                ELSE [ConsumeLine(Reading(d), d.buffer, torn) EXCEPT !.buffer = <<>>]
    IN  IF read.failed THEN read ELSE DispatchFrame(read)

-----------------------------------------------------------------------------
(* From frames to events *)

IndexId(index) == "index-" \o ToString(index)

\* mutant: only the fragment that carries the id belongs to it
CallIdForgotten(known, f) == IF f.id # None THEN f.id ELSE IndexId(f.index)

CallId(known, f) ==
    IF f.id # None THEN f.id
    ELSE IF f.index \in DOMAIN known THEN known[f.index]
    ELSE IndexId(f.index)

\* parse_openai_frame_with_ids: a fragment gets the id of its call.
WithId(p, delta) ==
    IF delta.type # "call" THEN [p EXCEPT !.events = Append(@, delta)]
    ELSE LET id == CallId(p.ids, delta)
         IN  [ids |-> [i \in DOMAIN p.ids \cup {delta.index} |->
                          IF i = delta.index THEN id ELSE p.ids[i]],
              events |-> Append(p.events, [delta EXCEPT !.id = id])]

\* The deltas of some lines, in order.
Said(lines) == FlattenSeq([i \in DOMAIN lines |-> lines[i].says])

\* OpenAiStreamParser::convert; a frame that does not parse loses the whole chunk.
Convert(read) ==
    LET deltas == Said(read.frames)
        parsed[k \in 0 .. Len(deltas)] ==
            IF k = 0 THEN [ids |-> ids, events |-> <<>>] ELSE WithId(parsed[k - 1], deltas[k])
    IN  /\ decoder' = [buffer |-> read.buffer, data |-> read.data, size |-> read.size]
        /\ ids' = parsed[Len(deltas)].ids
        /\ unsent' = parsed[Len(deltas)].events
        /\ saw' = saw \cup (IF Contains(read.frames, Done) THEN {"done"} ELSE {})
                      \cup (IF \E i \in DOMAIN deltas : deltas[i].type = "finish"
                            THEN {"finish"} ELSE {})

Parses(read) == ~read.failed /\ ~Contains(read.frames, Junk)

-----------------------------------------------------------------------------
(* The worker *)

Report(r) ==
    /\ phase' = "report"
    /\ report' = r

Failed(why) == [type |-> "failed", why |-> why]
Cancelled == [type |-> "cancelled"]

\* The request: a refusal, a broken connection and an answer that is no event
\* stream all fail the call.
Respond(streams) ==
    /\ phase = "request"
    /\ IF streams THEN phase' = "stream" /\ UNCHANGED report ELSE Report(Failed("response"))
    /\ UNCHANGED <<body, sent, parser, unsent, reason, sink, mailbox, actor>>

\* mutant: only the request can be cancelled
CancelBeforeStream ==
    /\ phase = "request"
    /\ cancelled
    /\ Report(Cancelled)
    /\ UNCHANGED <<body, sent, parser, unsent, reason, sink, mailbox, actor>>

\* select! between the token and the next chunk (or the response).
ObserveCancel ==
    /\ phase \in {"request", "stream"}
    /\ unsent = <<>>
    /\ cancelled
    /\ Report(Cancelled)
    /\ UNCHANGED <<body, sent, parser, unsent, reason, sink, mailbox, actor>>

Chunk(to) ==
    /\ phase = "stream"
    /\ unsent = <<>>
    /\ LET read == Push(decoder, sent, to)
       IN  IF Parses(read)
           THEN Convert(read) /\ UNCHANGED <<phase, report>>
           ELSE Report(Failed("protocol")) /\ UNCHANGED <<parser, unsent>>
    /\ sent' = to
    /\ UNCHANGED <<body, reason, sink, mailbox, actor>>

Break ==
    /\ phase = "stream"
    /\ unsent = <<>>
    /\ Report(Failed("transport"))
    /\ UNCHANGED <<body, sent, parser, unsent, reason, sink, mailbox, actor>>

\* The end of the stream: flush the decoder, then demand both ends.
EndOfStream(torn) ==
    /\ phase = "stream"
    /\ unsent = <<>>
    /\ LET read == Flush(decoder, torn)
       IN  IF Parses(read)
           THEN /\ Convert(read)
                /\ IF saw' = {"finish", "done"}
                   THEN phase' = "flush" /\ UNCHANGED report
                   ELSE Report(Failed("incomplete"))
           ELSE Report(Failed("protocol")) /\ UNCHANGED <<parser, unsent>>
    /\ UNCHANGED <<body, sent, reason, sink, mailbox, actor>>

\* ToolCallAccumulator::push
Position(id) == {i \in DOMAIN calls : calls[i].id = id}

Accumulates(f) ==
    LET known == Position(f.id)
    IN  /\ f.name # ""
        /\ \A i \in known : /\ f.name \in {None, calls[i].name} \/ calls[i].name = None
                            /\ Len(calls[i].args) + Len(f.args) <= ArgLimit
        /\ Len(f.args) <= ArgLimit

Accumulate(f) ==
    IF Position(f.id) = {}
    THEN calls' = Append(calls, [id |-> f.id, name |-> f.name, args |-> f.args])
    ELSE calls' = [i \in DOMAIN calls |->
                     IF calls[i].id # f.id THEN calls[i]
                     ELSE [calls[i] EXCEPT !.name = IF f.name = None THEN @ ELSE f.name,
                                           !.args = @ \o f.args]]

\* mutant: nobody waits for a full mailbox
SendIfRoom(event) ==
    mailbox' = IF open /\ Len(mailbox) < Capacity THEN Append(mailbox, event) ELSE mailbox

\* A full mailbox delays the worker, a closed one ends the call.
Send(event) ==
    IF open THEN Len(mailbox) < Capacity /\ mailbox' = Append(mailbox, event)
            ELSE UNCHANGED mailbox

EmitText(e) ==
    /\ e.type = "text"
    /\ text' = Append(text, e.text)
    /\ Send(e)
    /\ UNCHANGED <<calls, reason>>

EmitUsage(e) ==
    /\ e.type = "usage"
    /\ Send(e)
    /\ UNCHANGED <<text, calls, reason>>

EmitFinish(e) ==
    /\ e.type = "finish"
    /\ reason' = e.reason
    /\ UNCHANGED <<text, calls, mailbox>>

EmitCall(e) ==
    /\ e.type = "call"
    /\ IF Accumulates(e) THEN Accumulate(e) ELSE UNCHANGED calls
    /\ UNCHANGED <<text, reason, mailbox>>

EmitFails(e) ==
    \/ e.type = "call" /\ ~Accumulates(e)
    \/ e.type \in {"text", "usage"} /\ ~open

Emit ==
    /\ phase \in {"stream", "flush"}
    /\ unsent # <<>>
    /\ LET e == Head(unsent)
       IN  /\ EmitText(e) \/ EmitUsage(e) \/ EmitFinish(e) \/ EmitCall(e)
           /\ IF EmitFails(e)
              THEN Report(Failed(IF e.type = "call" THEN "calls" ELSE "closed")) /\ unsent' = <<>>
              ELSE unsent' = Tail(unsent) /\ UNCHANGED <<phase, report>>
    /\ UNCHANGED <<body, sent, parser, actor>>

\* Arguments are one JSON object, whole or in two pieces, or nothing at all.
IsObject(args) == args \in {<<>>, <<"whole">>, <<"open", "close">>}

\* RuntimeProviderSink::into_completion
Completion ==
    IF calls = <<>>
    THEN IF reason = "tool_calls" THEN Failed("calls") ELSE [type |-> "final", text |-> text]
    ELSE IF \A i \in DOMAIN calls : calls[i].name # None /\ IsObject(calls[i].args)
         THEN [type |-> "tools", text |-> text, calls |-> calls]
         ELSE Failed("calls")

Complete ==
    /\ phase = "flush"
    /\ unsent = <<>>
    /\ Report(Completion)
    /\ UNCHANGED <<body, sent, parser, unsent, reason, sink, mailbox, actor>>

SendReport ==
    /\ phase = "report"
    /\ Send(report)
    /\ phase' = "over"
    /\ UNCHANGED <<body, sent, parser, unsent, reason, sink, report, actor>>

-----------------------------------------------------------------------------
(* The actor, as far as the worker can tell *)

TakeEvent ==
    /\ open
    /\ mailbox # <<>>
    /\ heard' = Append(heard, Head(mailbox))
    /\ mailbox' = Tail(mailbox)
    /\ UNCHANGED <<body, sent, parser, phase, unsent, reason, sink, report, cancelled, open>>

Interrupt ==
    /\ open
    /\ ~cancelled
    /\ cancelled' = TRUE
    /\ UNCHANGED <<body, sent, parser, phase, unsent, reason, sink, report, mailbox, heard, open>>

Leave ==
    /\ open
    /\ open' = FALSE
    /\ cancelled' = TRUE
    /\ mailbox' = <<>>
    /\ UNCHANGED <<body, sent, parser, phase, unsent, reason, sink, report, heard>>

Worker ==
    \/ ObserveCancel
    \/ Emit
    \/ Complete
    \/ SendReport

Next ==
    \/ Worker
    \/ \E streams \in BOOLEAN : Respond(streams)
    \/ \E to \in sent + 1 .. Units : Chunk(to)
    \/ \E torn \in {Junk, Comment} : EndOfStream(torn)
    \/ Break
    \/ TakeEvent
    \/ Interrupt
    \/ Leave

Spec == Init /\ [][Next]_vars

\* Neither the server nor the user owes anything; the worker and the actor run.
FairSpec == Spec /\ WF_vars(Worker) /\ WF_vars(TakeEvent)

-----------------------------------------------------------------------------
(* What a body means, read at once: the reference for the incremental reader *)

\* The lines the network has delivered whole.
Whole == SubSeq(body, 1, sent \div 3)

\* Of a line without its line feed the first half may still say nothing.
Torn == sent % 3 # 0 /\ LineOf(sent) # Blank

Readings ==
    IF ~Torn THEN {Whole}
    ELSE {Append(Whole, line) :
            line \in IF sent % 3 = 2 \/ LineOf(sent) = Comment THEN {LineOf(sent)} ELSE {Junk, Comment}}

Speaks(line) == line \notin {Blank, Comment}

\* Lines i to j stand in one frame: no empty line ends it before j.
SameFrame(lines, i, j) == i <= j /\ \A k \in i .. j - 1 : lines[k] # Blank

\* Units from line i to j of a frame, a line feed for the last one included.
FrameSize(lines, i, j) ==
    3 * (j - i) + (IF lines[j] = Blank THEN 1 ELSE IF 3 * j = sent + 2 THEN 2 ELSE 3)

TooBig(lines) ==
    \E i, j \in DOMAIN lines : SameFrame(lines, i, j) /\ FrameSize(lines, i, j) > FrameLimit

TwoInOne(lines) ==
    \E i, j \in DOMAIN lines :
        i # j /\ Speaks(lines[i]) /\ Speaks(lines[j]) /\ SameFrame(lines, i, j)

Malformed(lines) == Contains(lines, Junk) \/ TwoInOne(lines) \/ TooBig(lines)

Fragments(deltas) == {k \in DOMAIN deltas : deltas[k].type = "call"}

\* The id of the fragment at place k: the last id given for its index.
Given(deltas, k) ==
    {j \in Fragments(deltas) : j <= k /\ deltas[j].index = deltas[k].index /\ deltas[j].id # None}

IdAt(deltas, k) ==
    IF Given(deltas, k) = {} THEN IndexId(deltas[k].index)
    ELSE deltas[CHOOSE j \in Given(deltas, k) : \A i \in Given(deltas, k) : i <= j].id

\* What is said of one call, by all of its fragments.
Of(deltas, id) == {k \in Fragments(deltas) : IdAt(deltas, k) = id}
Names(deltas, id) == {deltas[k].name : k \in Of(deltas, id)} \ {None}
Args(deltas, id) ==
    FlattenSeq([k \in DOMAIN deltas |-> IF k \in Of(deltas, id) THEN deltas[k].args ELSE <<>>])

\* The calls in the order of their first fragments.
Opens(deltas, k) ==
    k \in Fragments(deltas) /\ \A j \in Of(deltas, IdAt(deltas, k)) : k <= j
Ids(deltas) ==
    FlattenSeq([k \in DOMAIN deltas |-> IF Opens(deltas, k) THEN <<IdAt(deltas, k)>> ELSE <<>>])

Name(deltas, id) ==
    IF Names(deltas, id) = {} THEN None ELSE CHOOSE n \in Names(deltas, id) : TRUE
CallsMeant(deltas) ==
    [i \in DOMAIN Ids(deltas) |->
        [id |-> Ids(deltas)[i], name |-> Name(deltas, Ids(deltas)[i]), args |-> Args(deltas, Ids(deltas)[i])]]

\* A call is named once, or the same each time, and its arguments are an object.
IsGood(deltas, id) ==
    /\ \E n \in Names(deltas, id) : Names(deltas, id) = {n} /\ n # ""
    /\ Len(Args(deltas, id)) <= ArgLimit
    /\ IsObject(Args(deltas, id))

Words(deltas) ==
    FlattenSeq([k \in DOMAIN deltas |-> IF deltas[k].type = "text" THEN <<deltas[k].text>> ELSE <<>>])
Stops(deltas) ==
    FlattenSeq([k \in DOMAIN deltas |-> IF deltas[k].type = "finish" THEN <<deltas[k].reason>> ELSE <<>>])

Meaningless == [type |-> "failed"]

Meaning(lines) ==
    LET deltas == Said(lines)
        stops == Stops(deltas)
    IN  IF Malformed(lines) \/ stops = <<>> \/ ~Contains(lines, Done)
        THEN Meaningless
        ELSE IF Ids(deltas) = <<>>
        THEN IF stops[Len(stops)] = "tool_calls" THEN Meaningless
             ELSE [type |-> "final", text |-> Words(deltas)]
        ELSE IF \A k \in Fragments(deltas) : IsGood(deltas, IdAt(deltas, k))
             THEN [type |-> "tools", text |-> Words(deltas), calls |-> CallsMeant(deltas)]
             ELSE Meaningless

-----------------------------------------------------------------------------
(* Properties *)

\* What the worker reports is what the body says, whole and in order: neither the
\* places where the network cut it nor the interleaving of the fragments of several
\* calls changes a call, its arguments or the answer, and an answer is never taken
\* from a body that lacks its finish or its [DONE] (sse.rs:46, openai_event.rs:31,
\* worker/provider.rs:143).
ReportIsWhatWasSaid ==
    report # NoReport =>
        LET meanings == {Meaning(lines) : lines \in Readings}
        IN  IF report.type = "failed"
            THEN report.why \in {"protocol", "incomplete", "calls"} => Meaningless \in meanings
            ELSE report.type # "cancelled" => report \in meanings

\* When the actor takes an answer or a batch of calls it has shown exactly its text
\* before, fragment by fragment, and takes nothing of this call after it: a full
\* mailbox delays fragments and drops none (worker/provider.rs:125, :176).
ShownIsTheAnswer ==
    \A i \in DOMAIN heard :
        heard[i].type \in {"final", "tools"} => i = Len(heard) /\ Words(heard) = heard[i].text

\* What a turn gets from a model call: a report that is true of the body, and on the
\* screen nothing but its text.
AnswerIsWhatWasSaid == ReportIsWhatWasSaid /\ ShownIsTheAnswer

\* Once the turn is cancelled the worker ends, whatever the server does: there is no
\* time limit on the request, so the token is all that frees the turn (openai.rs:211,
\* openai.rs:257).
CancelEndsTheCall == cancelled ~> phase = "over"

=============================================================================
