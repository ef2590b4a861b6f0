------------------------------ MODULE SSEDecoder ------------------------------
(***************************************************************************)
(* sseDecoder: the text/event-stream of a server, byte by byte, into       *)
(* events; and the events that the lines of the text stand for.            *)
(*                                                                         *)
(* A byte is CR, LF or one of a few contents, of which the first in a line *)
(* tells the field of the line.  The text is UTF-8: a line that is not is  *)
(* refused with an error of its own, and the stream ends there.            *)
(*                                                                         *)
(* An operator whose name begins with that of the definition after it is a *)
(* faulty variant of it, against which a property is tested.               *)
(***************************************************************************)
EXTENDS Naturals, Sequences, FiniteSets, FiniteSetsExt

CONSTANTS
  Budgets,  \* values of maxBytes
  MaxBytes  \* bound: bytes that arrive

ASSUME SSEDecoderAssumption == Budgets \subseteq Nat /\ MaxBytes \in Nat

VARIABLES
  wire,    \* bytes that arrived
  budget,  \* maxBytes
  decoder, \* sseDecoder, and the locals of next and line
  events,  \* what next returned
  failure  \* how it ended, or "none"

decoderVars == <<wire, budget, decoder, events, failure>>

Bytes == {"CR", "LF", "data", "id", "noid", "comment", "error", "unknown", "bom"}

NewBlock == [line |-> <<>>, size |-> 0, lines |-> 0, event |-> "message", comment |-> FALSE]

DecoderInit ==
  /\ wire = <<>> /\ budget \in Budgets /\ events = <<>> /\ failure = "none"
  /\ decoder = [block |-> NewBlock, id |-> "initial", first |-> TRUE, skipLF |-> FALSE, blockLF |-> FALSE]

(* A field of a line; an empty id clears it. *)
Field(d, line) ==
  CASE line[1] = "comment" -> [d EXCEPT !.block.comment = TRUE]
    [] line[1] = "data" -> [d EXCEPT !.block.lines = @ + 1]
    [] line[1] \in {"error", "unknown"} -> [d EXCEPT !.block.event = line[1]]
    [] line[1] = "id" -> [d EXCEPT !.id = "sent"]
    [] line[1] = "noid" -> [d EXCEPT !.id = "cleared"]
    [] OTHER -> d

Event(kind, id, lines) == [kind |-> kind, id |-> id, lines |-> lines]

(* What next returns at an empty line. *)
Dispatched(b, id) ==
  IF b.lines = 0 THEN Event(IF b.comment THEN "heartbeat" ELSE "other", "unset", 0)
  ELSE Event(IF b.event = "error" THEN "error" ELSE "data", id, b.lines)

(* The line is complete: a BOM before the first is dropped. *)
EndOfLine(d) ==
  LET line == IF d.first /\ d.block.line # <<>> /\ d.block.line[1] = "bom" THEN Tail(d.block.line)
              ELSE d.block.line
      e == [d EXCEPT !.first = FALSE, !.block.line = <<>>]
  IN IF line # <<>>
     THEN decoder' = Field(e, line) /\ UNCHANGED <<events, failure>>
     ELSE IF d.block.lines > 0 /\ d.block.event = "unknown"
     THEN failure' = "unsupported" /\ decoder' = e /\ UNCHANGED events
     ELSE /\ events' = Append(events, Dispatched(d.block, d.id))
          /\ decoder' = [e EXCEPT !.blockLF = e.skipLF, !.block = NewBlock]
          /\ UNCHANGED failure

(* ReadByte and the rest of line. *)
ReadByteCountingLF(b) ==
  LET d == [decoder EXCEPT !.skipLF = FALSE, !.blockLF = FALSE]
      counted == [d EXCEPT !.block.size = @ + 1]
      joined == decoder.skipLF /\ b = "LF"
  IN /\ failure = "none" /\ Len(wire) < MaxBytes /\ wire' = Append(wire, b) /\ UNCHANGED budget
     /\ IF counted.block.size > budget
        THEN failure' = "limit" /\ UNCHANGED <<decoder, events>>
        ELSE IF joined THEN decoder' = counted /\ UNCHANGED <<events, failure>>
        ELSE IF b \in {"CR", "LF"} THEN EndOfLine([counted EXCEPT !.skipLF = (b = "CR")])
        ELSE decoder' = [counted EXCEPT !.block.line = Append(@, b)] /\ UNCHANGED <<events, failure>>

ReadByte(b) ==
  LET d == [decoder EXCEPT !.skipLF = FALSE, !.blockLF = FALSE]
      counted == [d EXCEPT !.block.size = @ + 1]
      joined == decoder.skipLF /\ b = "LF"
  IN /\ failure = "none" /\ Len(wire) < MaxBytes /\ wire' = Append(wire, b) /\ UNCHANGED budget
     /\ IF joined /\ decoder.blockLF THEN decoder' = d /\ UNCHANGED <<events, failure>>
        ELSE IF counted.block.size > budget
        THEN failure' = "limit" /\ UNCHANGED <<decoder, events>>
        ELSE IF joined THEN decoder' = counted /\ UNCHANGED <<events, failure>>
        ELSE IF b \in {"CR", "LF"} THEN EndOfLine([counted EXCEPT !.skipLF = (b = "CR")])
        ELSE decoder' = [counted EXCEPT !.block.line = Append(@, b)] /\ UNCHANGED <<events, failure>>

(* The text ends: within an event that is an error, elsewhere the end. *)
EndOfText ==
  /\ failure = "none"
  /\ failure' = IF decoder.block.lines > 0 \/ decoder.block.line # <<>> THEN "torn" ELSE "eof"
  /\ UNCHANGED <<wire, budget, decoder, events>>

DecoderNext == EndOfText \/ \E b \in Bytes : ReadByte(b)

DecoderSpec == DecoderInit /\ [][DecoderNext]_decoderVars

-----------------------------------------------------------------------------
(* The lines of a text, by positions: where they end, and their contents.   *)

Joined(w, i) == w[i] = "LF" /\ i > 1 /\ w[i - 1] = "CR"
LineEnds(w) == {i \in 1..Len(w) : w[i] \in {"CR", "LF"} /\ ~Joined(w, i)}

LastOf(S) == IF S = {} THEN 0 ELSE Max(S)
JoinedAfter(w, i) == IF i > 0 /\ i < Len(w) /\ Joined(w, i + 1) THEN 1 ELSE 0

Start(w, i) ==    \* of the line that ends at i
  LET j == LastOf({k \in LineEnds(w) : k < i}) IN j + 1 + JoinedAfter(w, j)
LineAt(w, i) ==
  LET text == SubSeq(w, Start(w, i), i - 1)
  IN IF Start(w, i) = 1 /\ text # <<>> /\ text[1] = "bom" THEN Tail(text) ELSE text
Blanks(w) == {i \in LineEnds(w) : LineAt(w, i) = <<>>}

(* Ends of the lines of the event that the blank line ending at i closes. *)
LinesOf(w, i) == {j \in LineEnds(w) : j < i /\ \A k \in Blanks(w) : k < i => j > k}
Starting(w, ends, cs) == {j \in ends : LineAt(w, j) # <<>> /\ LineAt(w, j)[1] \in cs}
Lasting(w, ends, cs) ==    \* the content of the last line with one of these
  LET js == Starting(w, ends, cs)
  IN IF js = {} THEN "absent" ELSE LineAt(w, Max(js))[1]

(* Of the lines of an event; ends are those of all lines so far. *)
EventOf(w, lines, ends) ==
  LET data == Cardinality(Starting(w, lines, {"data"}))
      id == Lasting(w, ends, {"id", "noid"})
  IN IF data = 0 THEN Event(IF Starting(w, lines, {"comment"}) # {} THEN "heartbeat" ELSE "other", "unset", 0)
     ELSE Event(IF Lasting(w, lines, {"error", "unknown"}) = "error" THEN "error" ELSE "data",
                IF id = "absent" THEN "initial" ELSE IF id = "id" THEN "sent" ELSE "cleared", data)
EventAt(w, i) == EventOf(w, LinesOf(w, i), {j \in LineEnds(w) : j < i})

(* Bytes of an event up to the end i of its blank line; an LF that belongs  *)
(* to the CR of the blank line before it is not one of them.                *)
SizeAt(w, i) ==
  LET k == LastOf({j \in Blanks(w) : j < i}) IN i - k - JoinedAfter(w, k)

-----------------------------------------------------------------------------
(* Properties. *)

(* After every byte, the events decoded are those of the lines that have    *)
(* come, the last included though an LF may still follow its CR; the text   *)
(* is refused for its size exactly if one event is larger than the budget,  *)
(* for its type only where an event has data, and it is torn where it ends  *)
(* within a line or an event (sse_client_parser.go:38-137).                 *)
DecodesLines ==
  /\ LET closed == {i \in Blanks(wire) : failure \in {"limit", "unsupported"} => i < Len(wire)}
     IN /\ Len(events) = Cardinality(closed)
        /\ \A i \in closed : events[Cardinality({j \in closed : j <= i})] = EventAt(wire, i)
  /\ (failure = "limit") = (wire # <<>> /\ SizeAt(wire, Len(wire)) > budget)
  /\ failure = "unsupported" =>
       /\ Lasting(wire, LinesOf(wire, Len(wire)), {"error", "unknown"}) = "unknown"
       /\ Starting(wire, LinesOf(wire, Len(wire)), {"data"}) # {}
  /\ failure \in {"eof", "torn"} =>
       LET last == LastOf(LineEnds(wire))
           data == Starting(wire, {j \in LineEnds(wire) : \A k \in Blanks(wire) : j > k}, {"data"})
       IN (failure = "eof") = (last + JoinedAfter(wire, last) = Len(wire) /\ data = {})
=============================================================================
