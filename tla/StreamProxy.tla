---------------------------- MODULE StreamProxy ----------------------------
(***************************************************************************)
(* One streamed call: stream_proxy() of backend/app/proxy.py, from the     *)
(* point where proxy() hands it over, with its relay generator and the     *)
(* task Starlette runs it in.  Streams share nothing but the database's    *)
(* connection pool, so one at a time is enough.                            *)
(*                                                                         *)
(* StreamingResponse iterates the generator in a task group, next to a     *)
(* listener that cancels the group when the client hangs up.  What becomes *)
(* of the generator depends on where the cancellation finds it:            *)
(*   - not started: it never runs, and neither does its finally block;     *)
(*   - awaiting the next chunk: its finally block runs in a cancelled      *)
(*     task, where closing the upstream is shielded and the insert is not; *)
(*   - suspended at its yield, the response waiting to send: it is left    *)
(*     there, and a finaliser closes it later in a task of its own.        *)
(* An exception nobody expects ends the call as well: before there is a    *)
(* stream, in the middle of it, or while the finally block makes the row.  *)
(***************************************************************************)
EXTENDS SseWatcher

CONSTANTS Bodies,       \* the bodies the provider may stream
          Unrecordable, \* usage objects no record can be made of
          Faults        \* the environment faults a behaviour may show

ASSUME BodiesAssumption == Bodies \subseteq Seq(Byte)

\* What starts a data line starts nothing else: the end of a line whose beginning
\* the cap cut off never reads as a data line of its own.
ASSUME LinesAssumption ==
    \A text \in Bodies : \A i \in 2 .. Len(text) :
        text[i] \in {"u", "c"} => text[i - 1] = "nl"

ASSUME UnrecordableAssumption == Unrecordable \subseteq UsageValue

ASSUME FaultsAssumption == Faults \subseteq {"db", "crash"}

Row == [usage: UsageValue \cup {NoUsage}, ttft: BOOLEAN, error: BOOLEAN]

VARIABLES
    body,     \* what the provider has to send
    fed,      \* how many bytes of it the relay has read
    watcher,
    pc,       \* where stream_proxy, the relay or its response stands
    task,     \* the task the relay runs in
    client,   \* "connected" or "gone"
    received, \* how many bytes the client has
    upstream, \* the connection behind stream_context
    error,    \* the relay's variable, or the text of a 502
    request_logs \* the rows of this call

vars == <<body, fed, watcher, pc, task, client, received, upstream, error, request_logs>>

PC == {"opening", "unavailable", "returned", "reading", "sending", "closing",
       "writing", "unstarted", "suspended", "ended"}

Read == SubSeq(body, 1, fed)

----------------------------------------------------------------------------
Init == /\ body \in Bodies
        /\ fed = 0 /\ received = 0
        /\ watcher = NewWatcher
        /\ pc = "opening" /\ task = "response"
        /\ client = "connected" /\ upstream = "none"
        /\ error = FALSE
        /\ request_logs = {}

Goto(from, to) == pc = from /\ pc' = to

\* stream_context.__aenter__ returns: there is a status code to respond with.
Open == /\ Goto("opening", "returned")
        /\ upstream' = "open"
        /\ UNCHANGED <<body, fed, watcher, task, client, received, error, request_logs>>

\* It raises: a 502, with the record in a background task.
OpenFails == /\ Goto("opening", "unavailable")
             /\ error' = TRUE
             /\ UNCHANGED <<body, fed, watcher, task, client, received, upstream, request_logs>>

\* What it raises for a request it cannot make, a control character in the path
\* say, is not an httpx.HTTPError: a 500, and no record.
OpenRaises == /\ Goto("opening", "ended")
              /\ task' = "failed"
              /\ UNCHANGED <<body, fed, watcher, client, received, upstream, error, request_logs>>

\* The response starts and asks the generator for its first chunk.
Start == /\ Goto("returned", "reading")
         /\ UNCHANGED <<body, fed, watcher, task, client, received, upstream, error, request_logs>>

\* A chunk arrives and is fed to the watcher, then yielded.
ReadChunk ==
    /\ Goto("reading", "sending")
    /\ \E n \in fed + 1 .. Len(body) :
          /\ fed' = n
          /\ watcher' = Feed(watcher, SubSeq(body, fed + 1, n))
    /\ UNCHANGED <<body, task, client, received, upstream, error, request_logs>>

\* A chunk with a data line whose JSON is nested too deeply: feed raises there, the
\* events before it consumed, the chunk is not sent, and the exception passes
\* through the finally block.  (An event has one such line, and no other.)
ReadRaises ==
    /\ Goto("reading", "closing")
    /\ task' = "failed"
    /\ \E n \in fed .. Len(body) - 1 :
          /\ fed' = n
          /\ watcher' = Feed(watcher, SubSeq(body, fed + 1, n))
    /\ UNCHANGED <<body, client, received, upstream, error, request_logs>>

\* The response has sent the chunk and comes back for the next one.
Send == /\ Goto("sending", "reading")
        /\ received' = IF client = "connected" THEN fed ELSE received
        /\ UNCHANGED <<body, fed, watcher, task, client, upstream, error, request_logs>>

\* Mutant of UpstreamEnds: the generator ends without its finally block.
UpstreamEndsBare ==
    /\ Goto("reading", "ended") /\ fed = Len(body)
    /\ UNCHANGED <<body, fed, watcher, task, client, received, upstream, error, request_logs>>

UpstreamEnds ==
    /\ Goto("reading", "closing") /\ fed = Len(body)
    /\ UNCHANGED <<body, fed, watcher, task, client, received, upstream, error, request_logs>>

\* Mutant of UpstreamBreaks: a row where the error is caught, and one at the end.
UpstreamBreaksRecorded ==
    /\ Goto("reading", "closing")
    /\ error' = TRUE
    /\ request_logs' = {[usage |-> watcher.usage_envelope, ttft |-> watcher.ttft, error |-> TRUE]}
    /\ UNCHANGED <<body, fed, watcher, task, client, received, upstream>>

\* httpx.HTTPError in the middle of the body, a read timeout included.
UpstreamBreaks ==
    /\ Goto("reading", "closing")
    /\ error' = TRUE
    /\ UNCHANGED <<body, fed, watcher, task, client, received, upstream, request_logs>>

\* stream_context.__aexit__.  httpcore shields it from a cancellation.
Close == /\ Goto("closing", "writing")
         /\ upstream' = "closed"
         /\ UNCHANGED <<body, fed, watcher, task, client, received, error, request_logs>>

\* Mutant of Record: the row of a stream that broke does not tell.
RecordWithoutError == [usage |-> watcher.usage_envelope, ttft |-> watcher.ttft, error |-> FALSE]

Record == [usage |-> watcher.usage_envelope, ttft |-> watcher.ttft, error |-> error]

\* Whether _build_log_record returns for what the watcher holds.
Recordable == watcher.usage_envelope \notin Unrecordable

\* write_request_log, awaited in the finally block or run in the background.
\* Its commit is one more await: a cancelled task does not get there.  Making the
\* record is not in its try: the exception ends the task.
Write == /\ pc \in {"writing", "unavailable"} /\ pc' = "ended"
         /\ \/ /\ task # "cancelled" /\ Recordable
               /\ request_logs' = request_logs \cup {Record}
            \/ /\ task = "cancelled" \/ "db" \in Faults \/ ~Recordable
               /\ UNCHANGED request_logs
         /\ UNCHANGED <<body, fed, watcher, task, client, received, upstream, error>>

----------------------------------------------------------------------------
(* The client hangs up. *)

HangUp == /\ client = "connected" /\ pc # "ended"
          /\ client' = "gone"
          /\ UNCHANGED <<body, fed, watcher, pc, task, received, upstream, error, request_logs>>

\* External, Starlette: the listener cancels the task that sends the response.
\* A cancellation that finds the insert in progress may come after its commit.
Cancel ==
    /\ client = "gone" /\ task \in {"response", "failed"}
    /\ \/ Goto("returned", "unstarted") /\ UNCHANGED <<task, request_logs>>
       \/ Goto("sending", "suspended") /\ UNCHANGED <<task, request_logs>>
       \/ Goto("reading", "closing") /\ task' = "cancelled" /\ UNCHANGED request_logs
       \/ pc = "closing" /\ task' = "cancelled" /\ UNCHANGED <<pc, request_logs>>
       \/ /\ Goto("writing", "ended") /\ task' = "cancelled"
          /\ \/ UNCHANGED request_logs
             \/ Recordable /\ request_logs' = request_logs \cup {Record}
    /\ UNCHANGED <<body, fed, watcher, client, received, upstream, error>>

\* Mutant of Collect: nobody closes a generator that was left suspended.
CollectUnstartedOnly ==
    /\ Goto("unstarted", "ended") /\ upstream' = "closed" /\ UNCHANGED task
    /\ UNCHANGED <<body, fed, watcher, client, received, error, request_logs>>

\* External, the interpreter: what nobody refers to is finalised.  A generator
\* left at its yield gets a GeneratorExit there, in a new task; httpx's stream
\* context is closed with the generator that was never started.
Collect ==
    /\ \/ Goto("unstarted", "ended") /\ upstream' = "closed" /\ UNCHANGED task
       \/ Goto("suspended", "closing") /\ task' = "finaliser" /\ UNCHANGED upstream
    /\ UNCHANGED <<body, fed, watcher, client, received, error, request_logs>>

\* The machine stops, and with it every task and connection.
Crash == /\ "crash" \in Faults /\ pc # "ended" /\ pc' = "ended"
         /\ client' = "gone" /\ upstream' = "closed"
         /\ UNCHANGED <<body, fed, watcher, task, received, error, request_logs>>

Relay == \/ Start \/ ReadChunk \/ ReadRaises \/ Send \/ UpstreamEnds \/ UpstreamBreaks
         \/ Close \/ Write

Next == \/ Open \/ OpenFails \/ OpenRaises \/ Relay \/ HangUp \/ Cancel \/ Collect \/ Crash

Spec == Init /\ [][Next]_vars

\* The event loop runs the tasks that are ready, httpx's timeout ends every wait
\* for the provider, and the interpreter collects what is unreachable.  A client
\* may stop reading for good without hanging up: sending is not fair.
FairSpec == /\ Spec
            /\ WF_vars(Open \/ OpenFails \/ OpenRaises) /\ WF_vars(Start)
            /\ WF_vars(ReadChunk \/ ReadRaises \/ UpstreamEnds \/ UpstreamBreaks)
            /\ WF_vars(Close) /\ WF_vars(Write)
            /\ WF_vars(Cancel) /\ WF_vars(Collect)

----------------------------------------------------------------------------
(* Properties. *)

\* Every variable keeps its type, and the watcher never holds more than Cap bytes.
ControlTypeOK ==
    /\ body \in Bodies
    /\ fed \in 0 .. Len(body) /\ received \in 0 .. Len(body)
    /\ pc \in PC
    /\ task \in {"response", "failed", "cancelled", "finaliser"}
    /\ client \in {"connected", "gone"}
    /\ upstream \in {"none", "open", "closed"}
    /\ error \in BOOLEAN

TypeOK == /\ ControlTypeOK
          /\ watcher \in Watcher /\ Len(watcher.residual) <= Cap
          /\ request_logs \subseteq Row

\* The watcher knows what the events of the body tell, however the body was cut
\* into chunks: it neither misses an event that fits, nor makes one up from what
\* is left of one that does not.
WatcherObserves == Observes(watcher, Read)

\* The row of a stream agrees with what was relayed, also when it is written by
\* a finaliser after the client has gone: there is one at most; it has what the
\* watcher saw in all that was read, and so in all that the client was sent; an
\* error exactly if the upstream failed; a client that stayed was sent the whole
\* body if there is none, unless the relay itself failed; and the upstream was let
\* go before.
RowTellsTheStream ==
    \A r \in request_logs :
        /\ request_logs = {r}
        /\ r.usage = watcher.usage_envelope /\ r.ttft = watcher.ttft
        /\ r.error = error
        /\ received <= fed
        /\ upstream # "open"
        /\ ~r.error /\ client = "connected" /\ task = "response" => received = Len(body)

\* What a stream whose client stayed and whose database works leaves behind: its
\* row, unless there was no stream or the row cannot be made.
HasRowOrReason ==
    \/ request_logs # {}
    \/ task = "failed" /\ upstream = "none"
    \/ ~Recordable

\* Nothing is held for a stream that has ended, however it ended, and one whose
\* client stayed and whose database works has its row: also after an exception in
\* the middle of it.  There is none only for a request that could not be made, and
\* for a usage object no record can be made of.
EndedStreamIsSettled ==
    pc = "ended" =>
        /\ upstream # "open"
        /\ client = "connected" /\ "db" \notin Faults => HasRowOrReason

\* When the client hangs up the call ends and the provider's stream is closed,
\* wherever the relay stood.
HangUpEndsTheStream ==
    client = "gone" ~> (pc = "ended" /\ upstream # "open")

----------------------------------------------------------------------------
(* The inductive invariant behind RowTellsTheStream and EndedStreamIsSettled. *)

\* Where the provider's stream is open.
UpstreamOk ==
    /\ pc \in {"opening", "unavailable"} => upstream = "none"
    /\ pc \in {"returned", "reading", "sending", "closing", "unstarted", "suspended"}
          => upstream = "open"
    /\ pc = "writing" => upstream = "closed"
    /\ pc = "ended" => upstream # "open"

\* Only a client that hung up has its response cancelled or left to a finaliser.
TaskOk ==
    /\ client = "connected" => /\ task \in {"response", "failed"}
                               /\ pc \notin {"unstarted", "suspended"}
    /\ task # "response" => pc \in {"closing", "writing", "ended"}

\* How far the client is behind the relay.
ProgressOk ==
    /\ received <= fed
    /\ client = "connected" /\ task = "response" /\ pc # "sending" => received = fed
    /\ client = "connected" /\ task = "response" /\ ~error
         /\ pc \in {"closing", "writing", "ended"} => fed = Len(body)
    /\ error => pc \in {"unavailable", "closing", "writing", "ended"}
    /\ pc = "unavailable" => error

RowOk ==
    /\ request_logs \in {{}, {Record}}
    /\ request_logs # {} => pc = "ended"
    /\ pc = "ended" /\ client = "connected" /\ "db" \notin Faults => HasRowOrReason

IInv == ControlTypeOK /\ UpstreamOk /\ TaskOk /\ ProgressOk /\ RowOk

----------------------------------------------------------------------------
(* The refinement: a streamed call keeps the ledger. *)

\* The relay has said all it will once its finally block runs.
LedgerPhase == IF pc \in {"unavailable", "closing", "writing"} THEN "served"
               ELSE IF pc = "ended" THEN "closed" ELSE "open"

phase == [c \in {"stream"} |-> LedgerPhase]
told  == [c \in {"stream"} |-> IF LedgerPhase = "open" THEN NoUsage ELSE Record]
rows  == {[call |-> "stream", tale |-> row] : row \in request_logs}

L == INSTANCE Ledger WITH Call <- {"stream"}, Untold <- NoUsage

\* stream_proxy, its relay and whatever closes it keep the ledger: also after a
\* hang-up a row is written once at most, with what the relay had seen by then.
KeepsTheLedger == L!Spec

----------------------------------------------------------------------------
(* A claim of the documentation that the code does not keep. *)

\* SETUP.md: "TAP writes the row when the stream finishes [...] Let it run to
\* `data: [DONE]`."  A client that has read everything the provider sent, and
\* then closes its connection, may still cancel the insert.
ReadToTheEndIsRecorded ==
    (pc = "ended" /\ received = Len(body) /\ upstream = "closed" /\ ~error)
        => request_logs # {}
=============================================================================
