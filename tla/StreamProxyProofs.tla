------------------------- MODULE StreamProxyProofs -------------------------
(***************************************************************************)
(* Theorems about StreamProxy for every set of bodies, every cap and every *)
(* set of faults.                                                          *)
(***************************************************************************)
EXTENDS StreamProxy, SseWatcherProofs

\* Lengths of bodies are natural numbers.
LEMMA BodyLength == ASSUME ControlTypeOK PROVE Len(body) \in Nat
BY BodiesAssumption DEF ControlTypeOK

LEMMA IInvInit == Init => IInv
<1> SUFFICES ASSUME Init PROVE IInv
  OBVIOUS
<1>1. body \in Bodies /\ Len(body) \in Nat
  BY BodiesAssumption DEF Init
<1>2. ControlTypeOK
  <2>1. fed \in 0 .. Len(body) /\ received \in 0 .. Len(body)
    BY <1>1 DEF Init
  <2>2. error \in BOOLEAN
    BY DEF Init
  <2>3. /\ pc \in PC /\ task \in {"response", "failed", "cancelled", "finaliser"}
        /\ client \in {"connected", "gone"} /\ upstream \in {"none", "open", "closed"}
    BY DEF Init, PC
  <2> QED
    BY <1>1, <2>1, <2>2, <2>3 DEF ControlTypeOK
<1>3. UpstreamOk /\ TaskOk /\ ProgressOk /\ RowOk
  BY DEF Init, UpstreamOk, TaskOk, ProgressOk, RowOk
<1> QED
  BY <1>2, <1>3 DEF IInv

\* The steps before the body flows.
LEMMA OpeningOk == IInv /\ (Open \/ OpenFails \/ OpenRaises \/ Start) => IInv'
<1> SUFFICES ASSUME IInv, Open \/ OpenFails \/ OpenRaises \/ Start PROVE IInv'
  OBVIOUS
<1> USE DEF IInv, Goto
<1>1. ControlTypeOK'
  BY DEF ControlTypeOK, PC, Open, OpenFails, OpenRaises, Start
<1>2. UpstreamOk' /\ TaskOk'
  BY DEF UpstreamOk, TaskOk, ControlTypeOK, Open, OpenFails, OpenRaises, Start
<1>3. ProgressOk'
  BY DEF ProgressOk, ControlTypeOK, TaskOk, Open, OpenFails, OpenRaises, Start
<1>4. RowOk'
  BY DEF RowOk, HasRowOrReason, UpstreamOk, Open, OpenFails, OpenRaises, Start
<1> QED
  BY <1>1, <1>2, <1>3, <1>4

\* Chunks move both ends forward, the client never ahead of the relay.
LEMMA ChunkOk == IInv /\ (ReadChunk \/ Send) => IInv'
<1> SUFFICES ASSUME IInv, ReadChunk \/ Send PROVE IInv'
  OBVIOUS
<1> USE DEF IInv, Goto
<1>1. Len(body) \in Nat
  BY BodyLength
<1>2. ControlTypeOK'
  BY <1>1 DEF ControlTypeOK, PC, ReadChunk, Send
<1>3. UpstreamOk' /\ TaskOk'
  BY DEF UpstreamOk, TaskOk, ControlTypeOK, ReadChunk, Send
<1>4. ProgressOk'
  BY <1>1 DEF ProgressOk, ControlTypeOK, ReadChunk, Send
<1>5. RowOk'
  BY DEF RowOk, ReadChunk, Send
<1> QED
  BY <1>2, <1>3, <1>4, <1>5

\* The relay's loop ends, and its finally block lets the upstream go.
LEMMA FinallyOk == IInv /\ (UpstreamEnds \/ UpstreamBreaks \/ ReadRaises \/ Close) => IInv'
<1> SUFFICES ASSUME IInv, UpstreamEnds \/ UpstreamBreaks \/ ReadRaises \/ Close PROVE IInv'
  OBVIOUS
<1> USE DEF IInv, Goto
<1>1. Len(body) \in Nat
  BY BodyLength
<1>2. ControlTypeOK'
  <2>1. fed' \in 0 .. Len(body)
    BY <1>1 DEF ControlTypeOK, UpstreamEnds, UpstreamBreaks, ReadRaises, Close
  <2> QED
    BY <2>1 DEF ControlTypeOK, PC, UpstreamEnds, UpstreamBreaks, ReadRaises, Close
<1>3. UpstreamOk' /\ TaskOk'
  BY DEF UpstreamOk, TaskOk, ControlTypeOK, UpstreamEnds, UpstreamBreaks, ReadRaises, Close
<1>4. ProgressOk'
  BY <1>1 DEF ProgressOk, TaskOk, ControlTypeOK, UpstreamEnds, UpstreamBreaks, ReadRaises, Close
<1>5. RowOk'
  BY DEF RowOk, UpstreamEnds, UpstreamBreaks, ReadRaises, Close
<1> QED
  BY <1>2, <1>3, <1>4, <1>5

LEMMA WriteOk == IInv /\ Write => IInv'
<1> SUFFICES ASSUME IInv, Write PROVE IInv'
  OBVIOUS
<1> USE DEF IInv, Write
<1>1. request_logs = {} /\ Record' = Record
  BY DEF RowOk, Record
<1>2. ControlTypeOK'
  BY DEF ControlTypeOK, PC
<1>3. UpstreamOk' /\ TaskOk'
  BY DEF UpstreamOk, TaskOk, ControlTypeOK
<1>4. ProgressOk'
  BY DEF ProgressOk, ControlTypeOK
<1>5. RowOk'
  BY <1>1 DEF RowOk, TaskOk, HasRowOrReason, Recordable
<1> QED
  BY <1>2, <1>3, <1>4, <1>5

\* Hanging up, and what the cancellation and the interpreter do about it.
LEMMA HangUpOk == IInv /\ (HangUp \/ Collect \/ Crash) => IInv'
<1> SUFFICES ASSUME IInv, HangUp \/ Collect \/ Crash PROVE IInv'
  OBVIOUS
<1> USE DEF IInv, Goto
<1>1. Record' = Record /\ (HasRowOrReason /\ HangUp => HasRowOrReason')
  BY DEF Record, HasRowOrReason, Recordable, HangUp, Collect, Crash
<1>2. ControlTypeOK'
  BY DEF ControlTypeOK, PC, HangUp, Collect, Crash
<1>3. UpstreamOk' /\ TaskOk'
  BY DEF UpstreamOk, TaskOk, ControlTypeOK, HangUp, Collect, Crash
<1>4. ProgressOk'
  BY DEF ProgressOk, TaskOk, ControlTypeOK, HangUp, Collect, Crash
<1>5. RowOk'
  BY <1>1 DEF RowOk, TaskOk, HangUp, Collect, Crash
<1> QED
  BY <1>2, <1>3, <1>4, <1>5

LEMMA CancelOk == IInv /\ Cancel => IInv'
<1> SUFFICES ASSUME IInv, Cancel PROVE IInv'
  OBVIOUS
<1> USE DEF IInv, Goto, Cancel
<1>1. Record' = Record
  BY DEF Record
<1>2. ControlTypeOK'
  BY DEF ControlTypeOK, PC
<1>3. UpstreamOk' /\ TaskOk'
  BY DEF UpstreamOk, TaskOk, ControlTypeOK
<1>4. ProgressOk'
  BY DEF ProgressOk, ControlTypeOK
<1>5. RowOk'
  BY <1>1 DEF RowOk
<1> QED
  BY <1>2, <1>3, <1>4, <1>5

LEMMA IInvNext == IInv /\ [Next]_vars => IInv'
<1> SUFFICES ASSUME IInv, [Next]_vars PROVE IInv'
  OBVIOUS
<1>1. CASE Open \/ OpenFails \/ OpenRaises \/ Start
  BY <1>1, OpeningOk
<1>2. CASE ReadChunk \/ Send
  BY <1>2, ChunkOk
<1>3. CASE UpstreamEnds \/ UpstreamBreaks \/ ReadRaises \/ Close
  BY <1>3, FinallyOk
<1>4. CASE Write
  BY <1>4, WriteOk
<1>5. CASE HangUp \/ Collect \/ Crash
  BY <1>5, HangUpOk
<1>6. CASE Cancel
  BY <1>6, CancelOk
<1>7. CASE UNCHANGED vars
  BY <1>7 DEF vars, IInv, ControlTypeOK, UpstreamOk, TaskOk, ProgressOk, RowOk, Record,
              HasRowOrReason, Recordable
<1> QED
  BY <1>1, <1>2, <1>3, <1>4, <1>5, <1>6, <1>7 DEF Next, Relay

----------------------------------------------------------------------------
\* The invariant that ties the relay, its task, the upstream and the row
\* together holds in every reachable state of a streamed call.
THEOREM Invariance == Spec => []IInv
<1> QED
  BY IInvInit, IInvNext, PTL DEF Spec

\* A streamed call has at most one row, which tells what the watcher saw,
\* whether the upstream failed, and is written when the upstream was let go.
THEOREM RowAgreesWithTheStream == Spec => []RowTellsTheStream
<1>1. IInv => RowTellsTheStream
  <2> SUFFICES ASSUME IInv, NEW r \in request_logs
               PROVE /\ request_logs = {r}
                     /\ r.usage = watcher.usage_envelope /\ r.ttft = watcher.ttft
                     /\ r.error = error
                     /\ received <= fed
                     /\ upstream # "open"
                     /\ ~r.error /\ client = "connected" /\ task = "response"
                          => received = Len(body)
    BY DEF RowTellsTheStream
  <2>1. request_logs = {Record} /\ r = Record /\ pc = "ended"
    BY DEF IInv, RowOk
  <2>2. r.usage = watcher.usage_envelope /\ r.ttft = watcher.ttft /\ r.error = error
    BY <2>1 DEF Record
  <2> QED
    BY <2>1, <2>2 DEF IInv, UpstreamOk, ProgressOk
<1> QED
  BY <1>1, Invariance, PTL

\* A streamed call that has ended holds nothing upstream, however it ended.  If its
\* client stayed and the database worked it has its row, also after an exception in
\* the middle of the stream, but for a request that could not be made and a usage
\* object no record can be made of.
THEOREM EndedIsSettled == Spec => []EndedStreamIsSettled
<1>1. IInv => EndedStreamIsSettled
  BY DEF IInv, UpstreamOk, RowOk, EndedStreamIsSettled
<1> QED
  BY <1>1, Invariance, PTL

----------------------------------------------------------------------------
(* The watcher: what it holds is the end of what the relay has read, and it *)
(* knows the events before it.                                              *)

WatcherInv ==
    /\ watcher \in Watcher /\ Len(watcher.residual) <= Cap
    /\ request_logs \subseteq Row
    /\ \E p, q \in Nat : Holds(watcher, Read, p, q)

LEMMA WatcherInvInit == Init => WatcherInv
<1> SUFFICES ASSUME Init PROVE WatcherInv
  OBVIOUS
<1>1. watcher = NewWatcher /\ request_logs = {} /\ fed = 0 /\ body \in Seq(Byte)
  BY BodiesAssumption DEF Init
<1>2. Read = <<>>
  BY <1>1 DEF Read
<1>3. watcher \in Watcher /\ Len(watcher.residual) <= Cap
  BY <1>1, CapAssumption DEF NewWatcher, Watcher
<1> QED
  BY <1>1, <1>2, <1>3, NewHolds DEF WatcherInv

\* A chunk is the next piece of the body, an empty one if feed raises at once.
LEMMA ChunkIsFed ==
    ASSUME ControlTypeOK, WatcherInv, ReadChunk \/ ReadRaises PROVE WatcherInv'
<1>1. PICK n \in fed .. Len(body) :
         fed' = n /\ watcher' = Feed(watcher, SubSeq(body, fed + 1, n))
  <2>1. fed \in Nat /\ Len(body) \in Nat
    BY BodiesAssumption DEF ControlTypeOK
  <2>2. /\ fed + 1 .. Len(body) \subseteq fed .. Len(body)
        /\ fed .. Len(body) - 1 \subseteq fed .. Len(body)
    BY <2>1
  <2> QED
    BY <2>2 DEF ReadChunk, ReadRaises
<1>2. /\ body \in Seq(Byte) /\ body \in Bodies /\ Len(body) \in Nat /\ fed \in 0 .. Len(body)
      /\ body' = body /\ request_logs' = request_logs
  BY BodiesAssumption DEF ControlTypeOK, ReadChunk, ReadRaises
<1> DEFINE chunk == SubSeq(body, fed + 1, n)
<1>3. chunk \in Seq(Byte) /\ Read \in Seq(Byte)
  BY <1>1, <1>2 DEF Read
<1>4. Read' = Read \o chunk
  <2>1. Read' = SubSeq(body, 1, n)
    BY <1>1, <1>2 DEF Read
  <2> QED
    BY <1>1, <1>2, <2>1 DEF Read
<1>5. LinesStart(Read \o chunk)
  <2>1. \A i \in 1 .. n : SubSeq(body, 1, n)[i] = body[i]
    BY <1>1, <1>2
  <2>2. Len(SubSeq(body, 1, n)) = n /\ n <= Len(body) /\ n \in Nat
    BY <1>1, <1>2
  <2>3. LinesStart(SubSeq(body, 1, n))
    BY <1>2, <2>1, <2>2, LinesAssumption DEF LinesStart
  <2>4. SubSeq(body, 1, n) = Read \o chunk
    BY <1>1, <1>2, <1>4 DEF Read
  <2> QED
    BY <2>3, <2>4
<1> HIDE DEF chunk
<1>6. watcher \in Watcher /\ \E p, q \in Nat : Holds(watcher, Read, p, q)
  BY DEF WatcherInv
<1>7. watcher' \in Watcher /\ Len(watcher'.residual) <= Cap
  BY <1>1, <1>3, <1>6, FeedType DEF chunk
<1>8. \E p, q \in Nat : Holds(Feed(watcher, chunk), Read \o chunk, p, q)
  BY <1>3, <1>5, <1>6, FeedKeeps
<1>9. \E p, q \in Nat : Holds(watcher', Read', p, q)
  BY <1>1, <1>4, <1>8 DEF chunk
<1> QED
  BY <1>2, <1>7, <1>9 DEF WatcherInv

\* A row has what a watcher has.
LEMMA RecordIsRow == ASSUME ControlTypeOK, watcher \in Watcher PROVE Record \in Row
BY DEF Record, Row, Watcher, ControlTypeOK

LEMMA WatcherInvNext == IInv /\ WatcherInv /\ [Next]_vars => WatcherInv'
<1> SUFFICES ASSUME IInv, WatcherInv, [Next]_vars PROVE WatcherInv'
  OBVIOUS
<1>1. CASE ReadChunk \/ ReadRaises
  BY <1>1, ChunkIsFed DEF IInv
<1>2. CASE ~(ReadChunk \/ ReadRaises)
  <2>1. UNCHANGED <<body, fed, watcher>>
    BY <1>2 DEF Next, Relay, vars, Open, OpenFails, OpenRaises, Start, Send, UpstreamEnds,
                UpstreamBreaks, Close, Write, HangUp, Cancel, Collect, Crash
  <2>2. request_logs' = request_logs \/ request_logs' = request_logs \cup {Record}
    BY <1>2 DEF Next, Relay, vars, Open, OpenFails, OpenRaises, Start, Send, UpstreamEnds,
                UpstreamBreaks, Close, Write, HangUp, Cancel, Collect, Crash
  <2>3. request_logs' \subseteq Row
    BY <2>2, RecordIsRow DEF WatcherInv, IInv
  <2>4. watcher' = watcher /\ Read' = Read
    BY <2>1 DEF Read
  <2> QED
    BY <2>3, <2>4 DEF WatcherInv
<1> QED
  BY <1>1, <1>2

LEMMA WatcherInvariance == Spec => []WatcherInv
<1> QED
  BY WatcherInvInit, WatcherInvNext, Invariance, PTL DEF Spec

\* Every variable keeps its type, and the watcher never holds more than Cap bytes,
\* whatever the chunks.
THEOREM TypeCorrect == Spec => []TypeOK
<1>1. IInv /\ WatcherInv => TypeOK
  BY DEF IInv, WatcherInv, TypeOK
<1> QED
  BY <1>1, Invariance, WatcherInvariance, PTL

\* However the body is cut into chunks and whatever the cap, the watcher knows
\* what the complete events of all the relay has read tell: the last usage object
\* of an event that fits is not missed, and none is made up.
THEOREM WatcherTellsTheBody == Spec => []WatcherObserves
<1>1. IInv /\ WatcherInv => WatcherObserves
  <2> SUFFICES ASSUME IInv, WatcherInv PROVE Observes(watcher, Read)
    BY DEF WatcherObserves
  <2>1. Read \in Seq(Byte)
    BY BodiesAssumption DEF Read, IInv, ControlTypeOK
  <2> QED
    BY <2>1, HoldsObserves DEF WatcherInv
<1> QED
  BY <1>1, Invariance, WatcherInvariance, PTL

----------------------------------------------------------------------------
(* The refinement: every step is a step of the ledger or one it does not see. *)

LEMMA NothingSeen ==
    ASSUME LedgerPhase' = LedgerPhase, LedgerPhase # "open" => Record' = Record,
           UNCHANGED request_logs
    PROVE  UNCHANGED L!vars
BY DEF L!vars, phase, told, rows

\* The relay's loop is over, or there was none: the record is complete.
LEMMA ServedSeen ==
    ASSUME LedgerPhase = "open", LedgerPhase' = "served", UNCHANGED request_logs
    PROVE  L!Answer("stream", "served")
<1>1. told' = [told EXCEPT !["stream"] = told'["stream"]]
  BY DEF told
<1>2. phase["stream"] = "open" /\ phase' = [phase EXCEPT !["stream"] = "served"]
  BY DEF phase
<1>3. rows' = rows
  BY DEF rows
<1> QED
  BY <1>1, <1>2, <1>3 DEF L!Answer

LEMMA RecordSeen ==
    ASSUME LedgerPhase = "served", LedgerPhase' = "closed", Record' = Record,
           request_logs' = request_logs \cup {Record}
    PROVE  L!Record("stream")
<1>1. told' = told /\ told["stream"] = Record
  BY DEF told
<1>2. phase["stream"] = "served" /\ phase' = [phase EXCEPT !["stream"] = "closed"]
  BY DEF phase
<1>3. rows' = rows \cup {[call |-> "stream", tale |-> told["stream"]]}
  BY <1>1 DEF rows
<1> QED
  BY <1>1, <1>2, <1>3 DEF L!Record

LEMMA StopSeen ==
    ASSUME LedgerPhase \in {"open", "served"}, LedgerPhase' = "closed",
           Record' = Record, UNCHANGED request_logs
    PROVE  L!Stop({"stream"})
<1>1. told' = [c \in {"stream"} |-> IF c \in {"stream"} /\ phase[c] = "open"
                                    THEN told'[c] ELSE told[c]]
  BY DEF told, phase
<1>2. /\ \A c \in {"stream"} : phase[c] \in {"open", "served"}
      /\ phase' = [c \in {"stream"} |-> IF c \in {"stream"} THEN "closed" ELSE phase[c]]
  BY DEF phase
<1>3. rows' = rows
  BY DEF rows
<1> QED
  BY <1>1, <1>2, <1>3 DEF L!Stop

LEMMA LedgerStep == ASSUME IInv, [Next]_vars PROVE [L!Next]_L!vars
<1> USE DEF Goto
<1>1. CASE Open \/ Start \/ ReadChunk \/ Send
  <2>1. LedgerPhase = "open" /\ LedgerPhase' = "open" /\ UNCHANGED request_logs
    BY <1>1 DEF Open, Start, ReadChunk, Send, LedgerPhase
  <2> QED
    BY <2>1, NothingSeen
<1>2. CASE OpenFails \/ UpstreamEnds \/ UpstreamBreaks \/ ReadRaises
  <2>1. LedgerPhase = "open" /\ LedgerPhase' = "served" /\ UNCHANGED request_logs
    BY <1>2 DEF OpenFails, UpstreamEnds, UpstreamBreaks, ReadRaises, LedgerPhase
  <2> QED
    BY <2>1, ServedSeen DEF L!Next
<1>3. CASE Close \/ HangUp \/ UNCHANGED vars
  <2>1. LedgerPhase' = LedgerPhase /\ Record' = Record /\ UNCHANGED request_logs
    BY <1>3 DEF Close, HangUp, vars, LedgerPhase, Record
  <2> QED
    BY <2>1, NothingSeen
<1>4. CASE Write
  <2>1. LedgerPhase = "served" /\ LedgerPhase' = "closed" /\ Record' = Record
    BY <1>4 DEF Write, LedgerPhase, Record
  <2>2. CASE request_logs' = request_logs \cup {Record}
    BY <2>1, <2>2, RecordSeen DEF L!Next
  <2>3. CASE UNCHANGED request_logs
    BY <2>1, <2>3, StopSeen DEF L!Next
  <2> QED
    BY <1>4, <2>2, <2>3 DEF Write
<1>5. CASE Cancel
  <2>1. CASE Goto("returned", "unstarted") \/ Goto("sending", "suspended")
    <3>1. LedgerPhase = "open" /\ LedgerPhase' = "open" /\ UNCHANGED request_logs
      BY <1>5, <2>1 DEF Cancel, LedgerPhase
    <3> QED
      BY <3>1, NothingSeen
  <2>2. CASE Goto("reading", "closing")
    <3>1. LedgerPhase = "open" /\ LedgerPhase' = "served" /\ UNCHANGED request_logs
      BY <1>5, <2>2 DEF Cancel, LedgerPhase
    <3> QED
      BY <3>1, ServedSeen DEF L!Next
  <2>3. CASE pc = "closing" /\ UNCHANGED pc
    <3>1. LedgerPhase' = LedgerPhase /\ Record' = Record /\ UNCHANGED request_logs
      BY <1>5, <2>3 DEF Cancel, LedgerPhase, Record
    <3> QED
      BY <3>1, NothingSeen
  <2>4. CASE Goto("writing", "ended")
    <3>1. LedgerPhase = "served" /\ LedgerPhase' = "closed" /\ Record' = Record
      BY <1>5, <2>4 DEF Cancel, LedgerPhase, Record
    <3>2. CASE request_logs' = request_logs \cup {Record}
      BY <3>1, <3>2, RecordSeen DEF L!Next
    <3>3. CASE UNCHANGED request_logs
      BY <3>1, <3>3, StopSeen DEF L!Next
    <3> QED
      BY <1>5, <2>4, <3>2, <3>3 DEF Cancel
  <2> QED
    BY <1>5, <2>1, <2>2, <2>3, <2>4 DEF Cancel
<1>6. CASE Collect
  <2>1. CASE Goto("unstarted", "ended")
    <3>1. LedgerPhase = "open" /\ LedgerPhase' = "closed" /\ Record' = Record
      BY <1>6, <2>1 DEF Collect, LedgerPhase, Record
    <3> QED
      BY <1>6, <3>1, StopSeen DEF Collect, L!Next
  <2>2. CASE Goto("suspended", "closing")
    <3>1. LedgerPhase = "open" /\ LedgerPhase' = "served"
      BY <2>2 DEF LedgerPhase
    <3> QED
      BY <1>6, <3>1, ServedSeen DEF Collect, L!Next
  <2> QED
    BY <1>6, <2>1, <2>2 DEF Collect
<1>7. CASE Crash
  <2>1. LedgerPhase \in {"open", "served"} /\ LedgerPhase' = "closed" /\ Record' = Record
    BY <1>7 DEF Crash, LedgerPhase, Record
  <2> QED
    BY <1>7, <2>1, StopSeen DEF Crash, L!Next
<1>8. CASE OpenRaises
  <2>1. LedgerPhase = "open" /\ LedgerPhase' = "closed" /\ Record' = Record
    BY <1>8 DEF OpenRaises, LedgerPhase, Record
  <2> QED
    BY <1>8, <2>1, StopSeen DEF OpenRaises, L!Next
<1> QED
  BY <1>1, <1>2, <1>3, <1>4, <1>5, <1>6, <1>7, <1>8 DEF Next, Relay

\* stream_proxy implements the ledger, for every body, every chunking, every
\* moment at which the client hangs up, and every fault.
THEOREM ImplementsLedger == Spec => KeepsTheLedger
<1>1. Init => L!Init
  BY DEF Init, L!Init, phase, told, rows, LedgerPhase
<1>2. IInv /\ [Next]_vars => [L!Next]_L!vars
  BY LedgerStep
<1> QED
  BY <1>1, <1>2, Invariance, PTL DEF Spec, L!Spec, KeepsTheLedger
=============================================================================
