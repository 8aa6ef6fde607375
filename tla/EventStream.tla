---------------------------- MODULE EventStream ----------------------------
(***************************************************************************)
(* A response that is a stream of events, and its reader (sse.py,          *)
(* js/client.mts, js/sse.py, _client_stream in js/remote.py). The sender   *)
(* writes an event at a time and a comment when it has been silent; the    *)
(* network delivers the bytes in pieces that respect nothing, and may stop *)
(* anywhere; the reader cuts the pieces into lines (BytesLineDecoder) and  *)
(* the lines into parts (SSEDecoder). The decoder reads the JavaScript     *)
(* server; the clients of the Python server have the same one. A text is a *)
(* sequence of tokens: the two newline characters, and the contents of a   *)
(* line as one token.                                                      *)
(***************************************************************************)
EXTENDS Naturals, Sequences, SequencesExt

CONSTANTS
    MaxEvents,   \* bound: events sent
    MaxBeats,    \* bound: comments sent
    MaxRaw       \* bound: tokens of a text of no particular form

StreamAssumption ==
    MaxEvents \in Nat /\ MaxBeats \in Nat /\ MaxRaw \in Nat

VARIABLES
    style,     \* whose text it is
    sent,      \* events sent
    beats,     \* comments sent
    wire,      \* sent and not read yet
    line,      \* the connection
    buffer,    \* BytesLineDecoder.buffer
    trailing,  \* BytesLineDecoder.trailing_cr
    event, data,  \* SSEDecoder._event and ._data
    parts,     \* what the caller of _client_stream got
    text,      \* all that was read, and
    lines      \* the lines it was cut into

sender == <<style, sent, beats, line>>
reader == <<buffer, trailing, event, data, parts, text, lines>>
vars   == <<sender, wire, reader>>

CR == [is |-> "cr", n |-> 0]
LF == [is |-> "lf", n |-> 0]
Event(i) == [is |-> "event", n |-> i]
Data(i)  == [is |-> "data", n |-> i]
Comment  == [is |-> "comment", n |-> 0]
NewLines == {CR, LF}
\* The event "error", whose data the reader raises; it is event 0.
ErrorEvent == MaxEvents + 1

\* json_to_sse, and the comment of sse_heartbeat.
JsonToSse(i)  == <<Event(i), CR, LF, Data(i), CR, LF, CR, LF>>
SseHeartbeat  == <<Comment, CR, LF, CR, LF>>
\* writeSSE and writeln of the JavaScript server.
WriteSse(i)   == <<Event(i), LF, Data(i), LF, LF>>
WriteLn       == <<Comment, LF>>

Body(i) == IF style = "python" THEN JsonToSse(i) ELSE WriteSse(i)
Beat    == IF style = "python" THEN SseHeartbeat ELSE WriteLn

\* bytes.splitlines, a token at a time: the whole lines, the one begun, and whether
\* the token before was a CR, which has ended its line already.  (The recursive
\* functions here are folds; the proofs go by induction over the position.)
NoText == [whole |-> <<>>, rest |-> <<>>, cr |-> FALSE]
Scan(d, c) ==
    [whole |-> IF c = CR \/ (c = LF /\ ~d.cr) THEN Append(d.whole, d.rest) ELSE d.whole,
     rest  |-> IF c \in NewLines THEN <<>> ELSE Append(d.rest, c),
     cr    |-> c = CR]
Scanned(d, s) ==
    LET at[i \in 0..Len(s)] == IF i = 0 THEN d ELSE Scan(at[i - 1], s[i])
    IN at[Len(s)]
Splitlines(s) ==
    LET d == Scanned(NoText, s)
    IN IF d.rest = <<>> THEN d.whole ELSE Append(d.whole, d.rest)

Init ==
    /\ style \in {"python", "js", "raw"}
    /\ sent = 0 /\ beats = 0 /\ wire = <<>> /\ line = "open"
    /\ buffer = <<>> /\ trailing = FALSE
    /\ event = 0 /\ data = <<>>
    /\ parts = <<>> /\ text = <<>> /\ lines = <<>>

----------------------------------------------------------------------------
(* The sender.                                                             *)

SendEvent ==
    /\ line = "open" /\ style # "raw"
    /\ sent < MaxEvents
    /\ sent' = sent + 1
    /\ wire' = wire \o Body(sent + 1)
    /\ UNCHANGED <<style, beats, line, reader>>

\* Each body is one send: a heartbeat falls between two of them.
SendBeat ==
    /\ line = "open" /\ style # "raw"
    /\ beats < MaxBeats
    /\ beats' = beats + 1
    /\ wire' = wire \o Beat
    /\ UNCHANGED <<style, sent, line, reader>>

\* An error of the source of the events is the last event.
SendError ==
    /\ line = "open" /\ style # "raw"
    /\ wire' = wire \o Body(ErrorEvent)
    /\ line' = "failed"
    /\ UNCHANGED <<style, sent, beats, reader>>

SendRaw ==
    /\ line = "open" /\ style = "raw"
    /\ Len(text) + Len(wire) < MaxRaw
    /\ \E c \in {Event(1), CR, LF} : wire' = Append(wire, c)
    /\ UNCHANGED <<sender, reader>>

Close ==
    /\ line = "open"
    /\ line' = "closed"
    /\ UNCHANGED <<style, sent, beats, wire, reader>>

\* The connection ends, and what is still under way is lost from some byte on.
Cut ==
    /\ line \in {"open", "closed", "failed"}
    /\ \E n \in 0..Len(wire) : wire' = SubSeq(wire, 1, n)
    /\ line' = "cut"
    /\ UNCHANGED <<style, sent, beats, reader>>

----------------------------------------------------------------------------
(* The reader.                                                             *)
DecodeEager(chunk) ==                                            \* slip
    LET s     == chunk
        whole == Last(s) \in NewLines
        split == Splitlines(s)
        all   == IF buffer # <<>> THEN <<buffer \o split[1]>> \o Tail(split) ELSE split
    IN IF Len(split) = 1 /\ ~whole
       THEN [out |-> <<>>, keep |-> buffer \o split[1], cr |-> FALSE]
       ELSE [out  |-> IF whole THEN all ELSE Front(all),
             keep |-> IF whole THEN <<>> ELSE Last(all), cr |-> FALSE]

\* BytesLineDecoder.decode: what it returns and what it keeps.
Decode(chunk) ==
    LET given == IF trailing THEN <<CR>> \o chunk ELSE chunk
        held  == Last(given) = CR
        s     == IF held THEN Front(given) ELSE given
        whole == s # <<>> /\ Last(s) \in NewLines
        split == Splitlines(s)
        all   == IF buffer # <<>> THEN <<buffer \o split[1]>> \o Tail(split) ELSE split
    IN CASE s = <<>> -> [out |-> <<>>, keep |-> buffer, cr |-> held]
         [] s # <<>> /\ Len(split) = 1 /\ ~whole ->
                [out |-> <<>>, keep |-> buffer \o split[1], cr |-> held]
         [] s # <<>> /\ (Len(split) > 1 \/ whole) ->
                [out  |-> IF whole THEN all ELSE Front(all),
                 keep |-> IF whole THEN <<>> ELSE Last(all),
                 cr   |-> held]

PartOfKeepingData(d, l) ==                                       \* slip
    CASE l = <<>> /\ d.event = 0 -> d
      [] l = <<>> /\ d.event # 0 ->
            [event |-> 0, data |-> d.data,
             parts |-> Append(d.parts, [event |-> d.event, data |-> d.data])]
      [] l # <<>> /\ l[1].is = "event" -> [d EXCEPT !.event = l[1].n]
      [] l # <<>> /\ l[1].is = "data"  -> [d EXCEPT !.data = Append(@, l[1].n)]
      [] l # <<>> /\ l[1].is = "comment" -> d

\* SSEDecoder.decode, on what it has kept of the lines before.  A part is an
\* event and the data of its lines put together.
PartOf(d, l) ==
    CASE l = <<>> /\ d.event = 0 /\ d.data = <<>> -> d
      [] l = <<>> /\ (d.event # 0 \/ d.data # <<>>) ->
            [event |-> 0, data |-> <<>>,
             parts |-> Append(d.parts, [event |-> d.event, data |-> d.data])]
      [] l # <<>> /\ l[1].is = "event" -> [d EXCEPT !.event = l[1].n]
      [] l # <<>> /\ l[1].is = "data"  -> [d EXCEPT !.data = Append(@, l[1].n)]
      [] l # <<>> /\ l[1].is = "comment" -> d

PartsOf(d, more) ==
    LET at[i \in 0..Len(more)] == IF i = 0 THEN d ELSE PartOf(at[i - 1], more[i])
    IN at[Len(more)]

\* _client_stream over some lines: it raises at the part "error".
Take(more) ==
    LET d == PartsOf([event |-> event, data |-> data, parts |-> parts], more)
    IN /\ event' = d.event /\ data' = d.data /\ parts' = d.parts
       /\ lines' = lines \o more

Raised == parts # <<>> /\ Last(parts).event = ErrorEvent

Read ==
    /\ ~Raised
    /\ \E n \in 1..Len(wire) :
         LET chunk == SubSeq(wire, 1, n)
             d     == Decode(chunk)
         IN /\ wire' = SubSeq(wire, n + 1, Len(wire))
            /\ text' = text \o chunk
            /\ buffer' = d.keep /\ trailing' = d.cr
            /\ Take(d.out)
    /\ UNCHANGED sender

\* aiter_lines_raw when the response is over: flush.
Flush ==
    /\ line \in {"closed", "failed", "cut"}
    /\ wire = <<>> /\ ~Raised
    /\ line' = IF line = "cut" THEN "broken" ELSE "ended"
    /\ Take(IF buffer = <<>> /\ ~trailing THEN <<>> ELSE <<buffer>>)
    /\ buffer' = <<>> /\ trailing' = FALSE
    /\ UNCHANGED <<style, sent, beats, wire, text>>

Next ==
    \/ SendEvent
    \/ SendBeat
    \/ SendError
    \/ SendRaw
    \/ Close
    \/ Cut
    \/ Read
    \/ Flush

Spec == Init /\ [][Next]_vars

----------------------------------------------------------------------------
(* Properties.                                                             *)

\* BytesLineDecoder: "Has the same behaviour as the stdlib bytes splitlines,
\* but handling the input iteratively."  However the text was cut into pieces,
\* the lines so far and the one that is kept are those of the whole text.
AsSplitlines ==
    Splitlines(text) =
        IF buffer = <<>> /\ ~trailing THEN lines ELSE Append(lines, buffer)

\* Comments, pieces and a connection that ends in the middle of an event never
\* change, repeat or reorder an event: the parts are the first events sent, each
\* with its own data.  They are all of them once the error is among them, or
\* the response has ended by itself.
Told == IF Raised THEN Front(parts) ELSE parts
PartsAreEvents ==
    style # "raw" =>
        /\ \A i \in 1..Len(parts) : parts[i].data = <<parts[i].event>>
        /\ \A i \in 1..Len(Told) : Told[i].event = i
        /\ Len(Told) <= sent
        /\ Raised \/ line = "ended" => Len(Told) = sent

=============================================================================
