----------------------------- MODULE SseWatcher -----------------------------
(***************************************************************************)
(* backend/app/proxy.py, _SseUsageWatcher: a telemetry reader fed with the *)
(* chunks of an SSE body as they pass.  Chunks break anywhere, so it keeps *)
(* the bytes of the unfinished event, at most Cap of them.                 *)
(*                                                                         *)
(* A body is a sequence of Bytes.  The line <<"u", v>> stands for a data   *)
(* line whose JSON has a usage object (v tells one from another), the line *)
(* <<"c", "t">> for a data line with a content delta; every other line, a  *)
(* fragment of one of these included, is one that _consume skips: "usage": *)
(* null, a comment, [DONE], malformed JSON, the opening role chunk.        *)
(***************************************************************************)
EXTENDS Naturals, Sequences, FiniteSetsExt

CONSTANTS Cap,     \* _MAX_SSE_RESIDUAL_BYTES
          NoUsage  \* usage_envelope = None

ASSUME CapAssumption == Cap \in Nat \ {0}

UsageValue == {"1", "2", "3"}
Byte       == {"nl", "u", "c", "t", "x"} \cup UsageValue

ASSUME NoUsageAssumption == NoUsage \notin UsageValue

Watcher == [residual: Seq(Byte), usage_envelope: UsageValue \cup {NoUsage}, ttft: BOOLEAN]

NewWatcher == [residual |-> <<>>, usage_envelope |-> NoUsage, ttft |-> FALSE]

----------------------------------------------------------------------------
(* Lines. *)

\* Where the lines of a piece of text lie: what bytes.split(b"\n") returns,
\* its empty lines left out.
LineSpans(text) ==
    {s \in (1 .. Len(text)) \X (1 .. Len(text)) :
        /\ s[1] <= s[2]
        /\ \A k \in s[1] .. s[2] : text[k] # "nl"
        /\ s[1] = 1 \/ text[s[1] - 1] = "nl"
        /\ s[2] = Len(text) \/ text[s[2] + 1] = "nl"}

ReportsUsage(text, span) ==
    /\ span[2] = span[1] + 1
    /\ text[span[1]] = "u" /\ text[span[2]] \in UsageValue

HasContentDelta(text, span) ==
    SubSeq(text, span[1], span[2]) = <<"c", "t">>

----------------------------------------------------------------------------
(* The code. *)

\* _consume: the latest usage object wins, the first content delta stops the
\* clock of time-to-first-token.
Consume(w, event) ==
    LET reports == {s \in LineSpans(event) : ReportsUsage(event, s)}
    IN  [w EXCEPT
           !.usage_envelope = IF reports = {} THEN @
                              ELSE LET last == Max({s[2] : s \in reports}) IN event[last],
           !.ttft = @ \/ \E s \in LineSpans(event) : HasContentDelta(event, s)]

\* The places of the delimiter b"\n\n".
Delimiters(text) ==
    {i \in 1 .. Len(text) : i < Len(text) /\ text[i] = "nl" /\ text[i + 1] = "nl"}

\* The loop of feed: events are split off and consumed while there are any.
ConsumeEvents[w \in Watcher] ==
    LET text == w.residual
        cut  == Min(Delimiters(text))
    IN  IF Delimiters(text) = {} THEN w
        ELSE ConsumeEvents[[Consume(w, SubSeq(text, 1, cut - 1))
                              EXCEPT !.residual = SubSeq(text, cut + 2, Len(text))]]

\* Mutant of KeepLast: one byte too many.
KeepOneMore(text, n) == IF Len(text) <= n THEN text
                        ELSE SubSeq(text, Len(text) - n, Len(text))

\* The last n bytes.
KeepLast(text, n) == IF Len(text) <= n THEN text
                     ELSE SubSeq(text, Len(text) - n + 1, Len(text))

\* Mutant of Feed: the cap is applied before the events are split off.
FeedCapsFirst(w, chunk) ==
    ConsumeEvents[[w EXCEPT !.residual = KeepLast(@ \o chunk, Cap)]]

Feed(w, chunk) ==
    LET fed == ConsumeEvents[[w EXCEPT !.residual = @ \o chunk]]
    IN  [fed EXCEPT !.residual = KeepLast(@, Cap)]

----------------------------------------------------------------------------
(* The reference: the events of a whole body, found without cutting it up. *)

\* Where events end: a run of newlines is read in pairs, and each pair is a
\* delimiter.
RunLength(body, i) ==
    i - Max({0} \cup {j \in 1 .. i : body[j] # "nl"})

EventEnds(body) ==
    {i \in 1 .. Len(body) : body[i] = "nl" /\ RunLength(body, i) % 2 = 0}

\* The lines of complete events.
CompleteLines(body) ==
    {s \in LineSpans(body) : \E e \in EventEnds(body) : s[2] < e}

\* The length of the event a complete line is part of, without its delimiter.
EventLength(body, s) ==
    LET start == Max({0} \cup {e \in EventEnds(body) : e < s[1]})
        end   == Min({e \in EventEnds(body) : s[2] < e})
    IN  end - start - 2

\* An event that never fills the residual, its first newline included.
Fits(body, s) == EventLength(body, s) < Cap

\* What the watcher knows of a body: the usage object of one of its complete
\* events, none that fits comes later; and a content delta if there is one.
Observes(w, body) ==
    LET usage   == {s \in CompleteLines(body) : ReportsUsage(body, s)}
        content == {s \in CompleteLines(body) : HasContentDelta(body, s)}
        fitting == {s \in usage \cup content : Fits(body, s)}
    IN  /\ IF w.usage_envelope = NoUsage THEN usage \cap fitting = {}
           ELSE \E s \in usage : /\ body[s[2]] = w.usage_envelope
                                 /\ \A q \in usage \cap fitting : q[2] <= s[2]
        /\ w.ttft => content # {}
        /\ content \cap fitting # {} => w.ttft
=============================================================================
