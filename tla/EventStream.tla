----------------------------- MODULE EventStream -----------------------------
(* The reader of the server's event streams (modules/api.js,               *)
(* _readEventStream): the text of a stream arrives in chunks cut at any    *)
(* place, and the reader keeps the unfinished line, the data lines of the  *)
(* unfinished event and whether a CR ended the last chunk.                 *)
(*                                                                         *)
(* Text is a sequence of symbols.  "CR" and "LF" are the line breaks;      *)
(* "data:" starts a data line and ":" a line to ignore; the other symbols  *)
(* are the JSON: an event is the symbols of its data lines, its type is    *)
(* the first of them, and no symbols at all do not parse.                  *)
EXTENDS Naturals, Sequences, SequencesExt

CONSTANT StreamTexts        \* the texts a server may send

VARIABLES
  esText,       \* the whole text of this stream
  esAt,         \* how much of it the reader was given
  esReader,     \* fragments, dataLines, skipLF, the chunk's position, outcome
  esSeen,       \* the progress events handed to onProgress
  esAborted     \* signal.aborted

esVars == <<esText, esAt, esReader, esSeen, esAborted>>

Breaks == {"CR", "LF"}
Kind(event) == IF event = <<>> THEN "broken" ELSE Head(event)

-------------------------------------------------------------------------------
(* Reading one chunk. *)

StartReader ==
  [fragments |-> <<>>, lines |-> <<>>, skipLF |-> FALSE, outcome |-> "reading"]

(* acceptLine of a reader r: a blank line completes the event of the data  *)
(* lines gathered so far; other lines are gathered or ignored.             *)
IsData(line) == line # <<>> /\ Head(line) = "data:"
Completes(r, line) == line = <<>> /\ r.lines # <<>>

AcceptLine(r, line) ==
  IF line = <<>> THEN [r EXCEPT !.lines = <<>>]
  ELSE IF IsData(line) THEN [r EXCEPT !.lines = Append(@, Tail(line))]
  ELSE r

(* Mutant: a CR LF is read as two breaks.                                  *)
AfterCR(text, i) == i + 1

(* The position after a break at i: a CR takes the LF that follows it, and *)
(* remembers it when the chunk ends there.                                 *)
After(text, i) ==
  IF text[i] = "CR" /\ i < Len(text) /\ text[i + 1] = "LF" THEN i + 2 ELSE i + 1

(* The chunk's scan after k line breaks: the reader, where it stands and   *)
(* the progress events it delivered.  It stops at a result, at an error    *)
(* and, when stopAt = "progress", after a callback that aborts the signal. *)
Scan(r, text, stopAt) ==
  LET from0 == IF r.skipLF /\ text # <<>> /\ text[1] = "LF" THEN 2 ELSE 1
      scan[k \in 0 .. Len(text)] ==
        IF k = 0
        THEN [r |-> [r EXCEPT !.skipLF = @ /\ text = <<>>],
              from |-> from0, seen |-> <<>>]
        ELSE
          LET s == scan[k - 1]
              breaks == {i \in s.from .. Len(text) : text[i] \in Breaks}
              at == CHOOSE i \in breaks : \A j \in breaks : i <= j
              line == s.r.fragments \o SubSeq(text, s.from, at - 1)
              event == FlattenSeq(s.r.lines)
              accepted ==
                [AcceptLine([s.r EXCEPT !.fragments = <<>>], line) EXCEPT
                   !.skipLF = text[at] = "CR" /\ at = Len(text)]
              delivered == IF Completes(s.r, line) THEN Kind(event) ELSE "none"
          IN IF s.r.outcome # "reading" \/ breaks = {} THEN s
             ELSE [r |-> [accepted EXCEPT !.outcome =
                            IF delivered = "result" THEN "result"
                            ELSE IF delivered \in {"error", "broken"} THEN "error"
                            ELSE IF delivered = "progress" /\ stopAt = "progress"
                            THEN "aborted" ELSE "reading"],
                   from |-> After(text, at),
                   seen |-> IF delivered = "progress"
                            THEN Append(s.seen, event) ELSE s.seen]
      last == scan[Len(text)]
  IN [last EXCEPT !.r.fragments =
        IF last.r.outcome = "reading" /\ last.from <= Len(text)
        THEN @ \o SubSeq(text, last.from, Len(text)) ELSE @]

-------------------------------------------------------------------------------

EventStreamInit ==
  /\ esText \in StreamTexts
  /\ esAt = 0
  /\ esReader = StartReader
  /\ esSeen = <<>>
  /\ esAborted = FALSE

Reading == esReader.outcome = "reading"

(* reader.read() gave the next n symbols; n = 0 is a chunk that holds only *)
(* the first bytes of a character.  A callback may abort the signal.       *)
ReadChunk ==
  /\ Reading /\ ~esAborted
  /\ \E n \in 0 .. Len(esText) - esAt, stopAt \in {"never", "progress"} :
       LET s == Scan(esReader, SubSeq(esText, esAt + 1, esAt + n), stopAt)
       IN /\ esAt' = esAt + n
          /\ esReader' = s.r
          /\ esSeen' = esSeen \o s.seen
          /\ esAborted' = (s.r.outcome = "aborted")
  /\ UNCHANGED esText

(* The stream ends: the connection closed or the server finished.          *)
EndOfStream ==
  /\ Reading /\ ~esAborted
  /\ esAt = Len(esText)
  /\ esReader' = [esReader EXCEPT !.outcome = "error"]
  /\ UNCHANGED <<esText, esAt, esSeen, esAborted>>

(* controller.abort() by the caller, and the check that notices it.        *)
AbortStream ==
  /\ Reading /\ ~esAborted
  /\ esAborted' = TRUE
  /\ UNCHANGED <<esText, esAt, esReader, esSeen>>

NoticeAbort ==
  /\ Reading /\ esAborted
  /\ esReader' = [esReader EXCEPT !.outcome = "aborted"]
  /\ UNCHANGED <<esText, esAt, esSeen, esAborted>>

EventStreamNext == ReadChunk \/ EndOfStream \/ AbortStream \/ NoticeAbort

-------------------------------------------------------------------------------
(* What the stream means, read as a whole: its lines end at CR LF, CR or   *)
(* LF, and an event is the data lines up to a blank line.                  *)
Breaking(text) ==
  {i \in DOMAIN text : text[i] \in Breaks
                        /\ ~(text[i] = "LF" /\ i > 1 /\ text[i - 1] = "CR")}

Ascending(S, n) == SelectSeq([i \in 1 .. n |-> i], LAMBDA i : i \in S)

Lines(text) ==
  LET ends == Ascending(Breaking(text), Len(text))
      first(k) == IF k = 1 THEN 1 ELSE ends[k - 1] + 1
  IN [k \in DOMAIN ends |->
        SelectSeq(SubSeq(text, first(k), ends[k]), LAMBDA c : c \notin Breaks)]

Events(text) ==
  LET lines == Lines(text)
      blank == Ascending({k \in DOMAIN lines : lines[k] = <<>>}, Len(lines))
      start(e) == IF e = 1 THEN 1 ELSE blank[e - 1] + 1
      data(e) == SelectSeq(SubSeq(lines, start(e), blank[e]), IsData)
      complete == SelectSeq([e \in DOMAIN blank |-> data(e)], LAMBDA d : d # <<>>)
  IN [e \in DOMAIN complete |->
        FlattenSeq([i \in DOMAIN complete[e] |-> Tail(complete[e][i])])]

Final(event) == Kind(event) \in {"result", "error", "broken"}

(* Wherever the chunks are cut, the reader hands over the progress events  *)
(* that precede the first result or error of the whole text, in order,     *)
(* returns exactly when there is a result, and delivers nothing twice or   *)
(* from an event that is not complete.                                     *)
ReadsWhatWasSent ==
  LET events == Events(esText)
      finals == {k \in DOMAIN events : Final(events[k])}
      first == CHOOSE k \in finals : \A j \in finals : k <= j
      before == IF finals = {} THEN events ELSE SubSeq(events, 1, first - 1)
      progress == SelectSeq(before, LAMBDA e : Kind(e) = "progress")
  IN /\ IsPrefix(esSeen, progress)
     /\ esReader.outcome \in {"result", "error"} => esSeen = progress
     /\ esReader.outcome = "result" =>
          finals # {} /\ Kind(events[first]) = "result"
     /\ esReader.outcome = "error" =>
          finals = {} \/ Kind(events[first]) # "result"
=============================================================================
