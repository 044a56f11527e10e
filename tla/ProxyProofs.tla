---------------------------- MODULE ProxyProofs ----------------------------
(***************************************************************************)
(* Proofs about Proxy, for every set of requests, machines, calls, answers *)
(* and faults: type correctness, the three safety properties of the        *)
(* request log from the inductive invariant IInv, what stays in the cache, *)
(* who stays out, and that the handlers, the background tasks and the      *)
(* environment do to the table what Ledger allows.                         *)
(***************************************************************************)
EXTENDS Proxy, TLAPS

----------------------------------------------------------------------------
(* Facts about the definitions the actions are built from. *)

\* Moving one handler keeps the type of pc.
LEMMA GotoType ==
    ASSUME NEW r \in Req, NEW from, NEW to \in PC, pc \in [Req -> PC], Goto(r, from, to)
    PROVE  pc' \in [Req -> PC]
BY DEF Goto

LEMMA ProjectType ==
    ASSUME TypeOK, NEW r \in Req
    PROVE  ProjectId(r) \in Project \cup {NoProject}
<1>1. call[r].key \in TapKey
  BY CallsAssumption DEF TypeOK, Call
<1>. QED
  BY <1>1, ProjectAssumption DEF ProjectId

\* A row that the handler of an existing call builds is a row of the table.
LEMMA LogRecordType ==
    ASSUME TypeOK, NEW r \in Req, NEW status \in Nat, NEW hit \in BOOLEAN,
           NEW src \in Req \cup {Nobody}, NEW error \in BOOLEAN
    PROVE  LogRecord(r, status, hit, src, error) \in Row
<1>1. ProjectId(r) \in Project \cup {NoProject}
  BY ProjectType
<1>2. UsageOf(src) \in Req \cup {Nobody}
  BY DEF UsageOf
<1>. QED
  BY <1>1, <1>2 DEF LogRecord, Row

\* The key a cacheable call is stored under is one of the cache's keys.
LEMMA KeyType ==
    ASSUME TypeOK, NEW r \in Req, Cacheable(call[r])
    PROVE  KeyOf(r) \in CacheKeys
BY DEF TypeOK, KeyOf, CacheKeys

\* An answer that has been given has a status and a kind.
LEMMA ProviderType ==
    ASSUME TypeOK, NEW r \in Req, provider[r] # NoAnswer
    PROVE  provider[r] \in Answers /\ provider[r].status \in Nat
           /\ provider[r].kind \in AnswerKind
BY AnswersAssumption DEF TypeOK

----------------------------------------------------------------------------
(* Type correctness. *)

LEMMA RejectType ==
    ASSUME TypeOK, NEW r \in Req, NEW from, NEW status \in Nat, Reject(r, from, status)
    PROVE  TypeOK'
<1>1. pc' \in [Req -> PC]
  BY GotoType DEF TypeOK, Reject, PC
<1>2. resp' \in [Req -> Response \cup {NoResponse}]
  BY DEF TypeOK, Reject, Response
<1>. QED
  BY <1>1, <1>2 DEF TypeOK, Reject

LEMMA ReturnType ==
    ASSUME TypeOK, NEW r \in Req, NEW from, NEW status \in Nat,
           NEW body \in Req \cup {Nobody}, NEW record \in Row,
           Return(r, from, status, body, record), UNCHANGED cache
    PROVE  TypeOK'
<1>1. pc' \in [Req -> PC]
  BY GotoType DEF TypeOK, Return, PC
<1>2. resp' \in [Req -> Response \cup {NoResponse}]
  BY DEF TypeOK, Return, Response
<1>. QED
  BY <1>1, <1>2 DEF TypeOK, Return


----------------------------------------------------------------------------
(* The parts of IInv survive every step that does not touch what they speak *)
(* of: calls never change, and an answer once given never changes.         *)

Kept == /\ call' = call
        /\ \A s \in Req : provider[s] # NoAnswer => provider'[s] = provider[s]

LEMMA ControlStable ==
    ASSUME TypeOK, Kept, NEW r \in Req, ControlOk(r),
           pc'[r] = pc[r], resp'[r] = resp[r], provider'[r] = provider[r]
    PROVE  ControlOk(r)'
<1>1. Storable(r)' <=> Storable(r)
  BY DEF Kept, Storable
<1>2. resp[r] # NoResponse => resp[r].body \in Req \cup {Nobody}
  BY DEF TypeOK, Response
<1>. QED
  BY <1>1, <1>2 DEF ControlOk, Kept, Sendable

LEMMA CacheStable ==
    ASSUME TypeOK, Kept, NEW k \in CacheKeys, CacheOk(k), cache'[k] = cache[k]
    PROVE  CacheOk(k)'
<1>1. cache[k] \in Req \cup {Nobody}
  BY DEF TypeOK
<1>. QED
  BY <1>1 DEF CacheOk, Kept, KeyOf

LEMMA RowStable ==
    ASSUME TypeOK, Kept, NEW row \in Row, RowOk(row), ControlOk(row.req),
           resp'[row.req] = resp[row.req]
    PROVE  RowOk(row)'
<1>. DEFINE got == resp[row.req]
<1>1. row.req \in Req /\ row.response \in Req \cup {Nobody}
  BY DEF Row
<1>2. got # NoResponse /\ got' = got /\ got.body \in Req \cup {Nobody}
  BY <1>1 DEF RowOk, TypeOK, Response
<1>3. got.body # Nobody => provider[got.body] # NoAnswer /\ provider'[got.body] = provider[got.body]
  BY <1>1, <1>2 DEF ControlOk, Kept
<1>4. got.body # Nobody => ParseJson(got.body)' = ParseJson(got.body)
  BY <1>2, <1>3 DEF ParseJson
<1>5. row.response # Nobody => row.response = got.body
  BY DEF RowOk, ParseJson
<1>6. UsageOf(row.response)' = UsageOf(row.response)
  BY <1>3, <1>5 DEF UsageOf
<1>7. ProjectId(row.req)' = ProjectId(row.req)
  BY DEF ProjectId, Kept
<1>8. row.cache_hit => row.response \in Req /\ provider'[row.response] = provider[row.response]
  BY <1>3, <1>5, NullAssumption DEF RowOk
<1>. QED
  BY <1>1, <1>2, <1>4, <1>6, <1>7, <1>8 DEF RowOk, Kept, KeyOf

----------------------------------------------------------------------------
(* The kinds of step a handler takes preserve IInv. *)

\* A step that only moves the handler on.
LEMMA MoveOk ==
    ASSUME IInv, NEW r \in Req, NEW from, NEW to \in PC \ {"log", "done"},
           from \notin {"log", "done", "lost"}, Goto(r, from, to),
           UNCHANGED <<call, active, provider, cache, resp, background, request_logs>>,
           to \in {"idle", "auth", "limit", "body", "lookup", "streaming"}
             => provider[r] = NoAnswer,
           to \in {"store", "answer"} => provider[r] # NoAnswer /\ provider[r].kind # "deep",
           to = "store" => Storable(r),
           to = "lookup" => Cacheable(call[r])
    PROVE  IInv'
<1>1. TypeOK'
  BY GotoType DEF IInv, TypeOK
<1>2. Kept
  BY DEF Kept
<1>3. ASSUME NEW q \in Req PROVE ControlOk(q)'
  <2>1. CASE q = r
    <3>1. pc'[r] = to /\ resp[r] = NoResponse
      BY DEF IInv, TypeOK, Goto, ControlOk
    <3>2. Storable(r)' <=> Storable(r)
      BY DEF Storable
    <3>. QED
      BY <2>1, <3>1, <3>2 DEF ControlOk, Sendable, IInv
  <2>2. CASE q # r
    BY <1>2, <2>2, ControlStable DEF IInv, TypeOK, Goto
  <2>. QED
    BY <2>1, <2>2
<1>4. \A k \in CacheKeys : CacheOk(k)'
  BY <1>2, CacheStable DEF IInv
<1>5. RowsOk'
  <2>1. \A row \in background \cup request_logs : row \in Row /\ row.req \in Req /\ row.req # r
    BY DEF IInv, TypeOK, Row, RowsOk, Goto
  <2>2. \A row \in background \cup request_logs : RowOk(row)'
    BY <1>2, <2>1, RowStable DEF IInv, RowsOk
  <2>3. \A row \in background \cup request_logs : pc'[row.req] = pc[row.req]
    BY <2>1 DEF IInv, TypeOK, Goto
  <2>. QED
    BY <2>2, <2>3 DEF IInv, RowsOk
<1>. QED
  BY <1>1, <1>3, <1>4, <1>5 DEF IInv

\* TAP turns the call away before the provider has answered, or fails on an answer.
LEMMA RejectOk ==
    ASSUME IInv, NEW r \in Req, NEW from \in PC \ {"log", "done", "lost"}, NEW status \in Nat,
           Reject(r, from, status),
           provider[r] # NoAnswer => status = 500 /\ provider[r].kind \in {"deep", "odd"}
    PROVE  IInv'
<1>0. from \notin {"log", "done", "lost"} /\ pc[r] = from
  BY DEF Reject, Goto
<1>1. TypeOK'
  BY RejectType DEF IInv
<1>2. Kept
  BY DEF Kept, Reject
<1>3. ASSUME NEW q \in Req PROVE ControlOk(q)'
  <2>1. CASE q = r
    <3>1. pc'[r] = "done" /\ resp'[r] = [status |-> status, body |-> Nobody]
      BY DEF IInv, TypeOK, Goto, Reject
    <3>2. provider' = provider /\ call' = call /\ (~Sendable(r) => provider[r] = NoAnswer)
      BY DEF IInv, ControlOk, Reject
    <3>. QED
      BY <2>1, <3>1, <3>2 DEF ControlOk, Sendable
  <2>2. CASE q # r
    BY <1>2, <2>2, ControlStable DEF IInv, TypeOK, Goto, Reject
  <2>. QED
    BY <2>1, <2>2
<1>4. \A k \in CacheKeys : CacheOk(k)'
  BY <1>2, CacheStable DEF IInv, Reject
<1>5. RowsOk'
  <2>1. \A row \in background \cup request_logs : row \in Row /\ row.req \in Req /\ row.req # r
    BY <1>0 DEF IInv, TypeOK, Row, RowsOk
  <2>2. \A row \in background \cup request_logs :
           pc'[row.req] = pc[row.req] /\ resp'[row.req] = resp[row.req]
    BY <2>1 DEF IInv, TypeOK, Goto, Reject
  <2>3. \A row \in background \cup request_logs : RowOk(row)'
    BY <1>2, <2>1, <2>2, RowStable DEF IInv, RowsOk
  <2>. QED
    BY <2>2, <2>3 DEF IInv, RowsOk, Reject
<1>. QED
  BY <1>1, <1>3, <1>4, <1>5 DEF IInv

\* The handler returns with a record that describes its answer.
LEMMA ReturnOk ==
    ASSUME IInv, NEW r \in Req, NEW from \in {"lookup", "upstream", "answer"},
           NEW status \in Nat, NEW body \in Req \cup {Nobody}, NEW record \in Row,
           Return(r, from, status, body, record), UNCHANGED cache,
           body # Nobody => provider[body] # NoAnswer,
           body = Nobody => status = 502,
           record.req = r, RowOk(record)'
    PROVE  IInv'
<1>0. from \notin {"log", "done", "lost"} /\ pc[r] = from
  BY DEF Return, Goto
<1>1. TypeOK'
  BY ReturnType DEF IInv
<1>2. Kept
  BY DEF Kept, Return
<1>3. ASSUME NEW q \in Req PROVE ControlOk(q)'
  <2>1. CASE q = r
    <3>1. pc'[r] = "log" /\ resp'[r] = [status |-> status, body |-> body]
      BY DEF IInv, TypeOK, Goto, Return
    <3>2. provider' = provider /\ call' = call /\ (~Sendable(r) => provider[r] = NoAnswer)
      BY DEF IInv, ControlOk, Return
    <3>. QED
      BY <2>1, <3>1, <3>2 DEF ControlOk, Sendable
  <2>2. CASE q # r
    BY <1>2, <2>2, ControlStable DEF IInv, TypeOK, Goto, Return
  <2>. QED
    BY <2>1, <2>2
<1>4. \A k \in CacheKeys : CacheOk(k)'
  BY <1>2, CacheStable DEF IInv
<1>5. RowsOk'
  <2>1. \A row \in background \cup request_logs : row \in Row /\ row.req \in Req /\ row.req # r
    BY <1>0 DEF IInv, TypeOK, Row, RowsOk
  <2>2. \A row \in background \cup request_logs :
           pc'[row.req] = pc[row.req] /\ resp'[row.req] = resp[row.req]
    BY <2>1 DEF IInv, TypeOK, Goto, Return
  <2>3. \A row \in background \cup request_logs : RowOk(row)'
    BY <1>2, <2>1, <2>2, RowStable DEF IInv, RowsOk
  <2>4. pc'[r] = "log"
    BY DEF IInv, TypeOK, Goto, Return
  <2>. QED
    BY <2>1, <2>2, <2>3, <2>4 DEF IInv, RowsOk, Return
<1>. QED
  BY <1>1, <1>3, <1>4, <1>5 DEF IInv

----------------------------------------------------------------------------
(* The remaining steps, one lemma each. *)

\* A record whose fields describe what the client is given is as RowOk demands.
LEMMA RecordOk ==
    ASSUME NEW r \in Req, NEW body \in Req \cup {Nobody}, NEW src, NEW rec,
           call' = call, provider' = provider,
           resp'[r] # NoResponse, body = resp'[r].body,
           src = IF body = Nobody THEN Nobody ELSE ParseJson(body),
           rec.req = r, rec.project = ProjectId(r), rec.status = resp'[r].status,
           rec.response = src, rec.usage = UsageOf(src),
           rec.error <=> body = Nobody,
           rec.error => rec.status = 502,
           rec.cache_hit =>
             /\ src \in Req \ {r}
             /\ Cacheable(call[src]) /\ Cacheable(call[r]) /\ KeyOf(src) = KeyOf(r)
             /\ provider[src].status = 200 /\ provider[src].kind \in {"usage", "plain"}
    PROVE  RowOk(rec)'
<1>1. ProjectId(r)' = ProjectId(r) /\ UsageOf(src)' = UsageOf(src)
      /\ ParseJson(body)' = ParseJson(body)
  BY DEF ProjectId, UsageOf, ParseJson
<1>2. rec.cache_hit =>
        /\ src \in Req \ {r}
        /\ Cacheable(call'[src]) /\ Cacheable(call'[r]) /\ KeyOf(src)' = KeyOf(r)'
        /\ provider'[src].status = 200 /\ provider'[src].kind \in {"usage", "plain"}
  BY DEF KeyOf
<1>. QED
  BY <1>1, <1>2 DEF RowOk

LEMMA HitReturnedOk ==
    ASSUME IInv, NEW r \in Req, CacheHit(r), Recordable(cache[KeyOf(r)]) PROVE IInv'
<1>1. pc[r] = "lookup" /\ Cacheable(call[r]) /\ provider[r] = NoAnswer
  BY DEF CacheHit, IInv, ControlOk
<1>2. KeyOf(r) \in CacheKeys
  BY <1>1, KeyType DEF IInv
<1>3. PICK s \in Req : s = cache[KeyOf(r)] /\ s # Nobody /\ provider[s].kind # "array"
  BY <1>2, NullAssumption DEF CacheHit, Found, IInv, TypeOK
<1>4. /\ Cacheable(call[s]) /\ KeyOf(s) = KeyOf(r) /\ provider[s] # NoAnswer
      /\ provider[s].status = 200 /\ provider[s].kind \notin {"none", "deep", "odd"}
  BY <1>2, <1>3 DEF IInv, CacheOk, Recordable
<1>5. provider[s].kind \in {"usage", "plain"}
  BY <1>3, <1>4, ProviderType DEF IInv, AnswerKind
<1>6. PICK rec : rec = LogRecord(r, 200, TRUE, s, FALSE)
  OBVIOUS
<1>7. Return(r, "lookup", 200, s, rec) /\ UNCHANGED cache
  BY <1>3, <1>6 DEF CacheHit, Recordable
<1>8. /\ resp'[r] = [status |-> 200, body |-> s] /\ call' = call /\ provider' = provider
  BY <1>7 DEF Return, IInv, TypeOK
<1>9. s = IF s = Nobody THEN Nobody ELSE ParseJson(s)
  BY <1>4 DEF ParseJson
<1>10. s # r
  BY <1>1, <1>4
<1>11. rec \in Row
  BY <1>6, LogRecordType DEF IInv
<1>12. RowOk(rec)'
  <2>1. /\ rec.req = r /\ rec.project = ProjectId(r) /\ rec.status = 200
        /\ rec.response = s /\ rec.usage = UsageOf(s) /\ rec.error = FALSE
    BY <1>6 DEF LogRecord
  <2>2. resp'[r] # NoResponse /\ resp'[r].body = s /\ resp'[r].status = 200
    BY <1>8, NullAssumption
  <2>. QED
    BY <1>1, <1>3, <1>4, <1>5, <1>8, <1>9, <1>10, <2>1, <2>2, RecordOk
<1>13. rec.req = r
  BY <1>6 DEF LogRecord
<1>. QED
  BY <1>3, <1>4, <1>7, <1>11, <1>12, <1>13, ReturnOk

LEMMA CacheHitOk ==
    ASSUME IInv, NEW r \in Req, CacheHit(r) PROVE IInv'
<1>1. CASE Recordable(cache[KeyOf(r)])
  BY <1>1, HitReturnedOk
<1>2. CASE ~Recordable(cache[KeyOf(r)])
  <2>1. provider[r] = NoAnswer /\ Reject(r, "lookup", 500)
    BY <1>2 DEF CacheHit, IInv, ControlOk
  <2>. QED
    BY <2>1, RejectOk DEF PC
<1>. QED
  BY <1>1, <1>2

LEMMA FailureReturnedOk ==
    ASSUME IInv, NEW r \in Req, UpstreamFails(r), Sendable(r) PROVE IInv'
<1>1. PICK rec : rec = LogRecord(r, 502, FALSE, Nobody, TRUE)
  OBVIOUS
<1>2. Return(r, "upstream", 502, Nobody, rec) /\ UNCHANGED cache
  BY <1>1 DEF UpstreamFails
<1>3. /\ resp'[r] = [status |-> 502, body |-> Nobody] /\ call' = call /\ provider' = provider
  BY <1>2 DEF Return, IInv, TypeOK
<1>4. rec \in Row
  <2>1. ProjectId(r) \in Project \cup {NoProject}
    BY ProjectType DEF IInv
  <2>. QED
    BY <1>1, <2>1 DEF LogRecord, Row, UsageOf
<1>5. /\ rec.req = r /\ rec.project = ProjectId(r) /\ rec.status = 502 /\ rec.cache_hit = FALSE
      /\ rec.response = Nobody /\ rec.usage = UsageOf(Nobody) /\ rec.error = TRUE
  BY <1>1 DEF LogRecord
<1>6. RowOk(rec)'
  <2>1. resp'[r] # NoResponse /\ resp'[r].body = Nobody /\ resp'[r].status = 502
    BY <1>3, NullAssumption
  <2>. QED
    BY <1>3, <1>5, <2>1, RecordOk
<1>. QED
  BY <1>2, <1>4, <1>5, <1>6, ReturnOk

LEMMA UpstreamFailsOk ==
    ASSUME IInv, NEW r \in Req, UpstreamFails(r) PROVE IInv'
<1>1. CASE Sendable(r)
  BY <1>1, FailureReturnedOk
<1>2. CASE ~Sendable(r)
  <2>1. provider[r] = NoAnswer /\ Reject(r, "upstream", 500)
    BY <1>2 DEF UpstreamFails, IInv, ControlOk
  <2>. QED
    BY <2>1, RejectOk DEF PC
<1>. QED
  BY <1>1, <1>2

LEMMA AnswerReturnedOk ==
    ASSUME IInv, NEW r \in Req, Answer(r), Recordable(r) PROVE IInv'
<1>1. provider[r] # NoAnswer /\ provider[r].status \in Nat
  BY ProviderType DEF Answer, Return, Goto, IInv, ControlOk
<1>2. PICK status \in Nat : status = provider[r].status
  BY <1>1
<1>3. PICK src : src = ParseJson(r)
  OBVIOUS
<1>4. PICK rec : rec = LogRecord(r, status, FALSE, src, FALSE)
  OBVIOUS
<1>5. Return(r, "answer", status, r, rec) /\ UNCHANGED cache
  BY <1>2, <1>3, <1>4 DEF Answer
<1>6. /\ resp'[r] = [status |-> status, body |-> r] /\ call' = call /\ provider' = provider
  BY <1>5 DEF Return, IInv, TypeOK
<1>7. rec \in Row
  BY <1>3, <1>4, LogRecordType DEF IInv, ParseJson
<1>8. /\ rec.req = r /\ rec.project = ProjectId(r) /\ rec.status = status
      /\ rec.cache_hit = FALSE /\ rec.response = src /\ rec.usage = UsageOf(src)
      /\ rec.error = FALSE
  BY <1>4 DEF LogRecord
<1>9. RowOk(rec)'
  <2>1. resp'[r] # NoResponse /\ resp'[r].body = r /\ resp'[r].status = status
    BY <1>6, NullAssumption
  <2>2. src = IF r = Nobody THEN Nobody ELSE ParseJson(r)
    BY <1>3, NullAssumption
  <2>. QED
    BY <1>6, <1>8, <2>1, <2>2, NullAssumption, RecordOk
<1>. QED
  BY <1>1, <1>5, <1>7, <1>8, <1>9, NullAssumption, ReturnOk

LEMMA AnswerOk ==
    ASSUME IInv, NEW r \in Req, Answer(r) PROVE IInv'
<1>1. CASE Recordable(r)
  BY <1>1, AnswerReturnedOk
<1>2. CASE ~Recordable(r)
  <2>1. provider[r].kind = "odd" /\ Reject(r, "answer", 500)
    BY <1>2 DEF Answer, Recordable
  <2>. QED
    BY <2>1, RejectOk DEF PC
<1>. QED
  BY <1>1, <1>2

LEMMA ProviderAnswersOk ==
    ASSUME IInv, NEW r \in Req, ProviderAnswers(r) PROVE IInv'
<1>1. TypeOK'
  BY DEF IInv, TypeOK, ProviderAnswers
<1>2. Kept
  BY DEF Kept, ProviderAnswers, IInv, TypeOK
<1>3. ASSUME NEW q \in Req PROVE ControlOk(q)'
  <2>1. CASE q = r
    <3>1. pc'[r] = "upstream" /\ resp'[r] = NoResponse /\ Sendable(r)'
      BY DEF IInv, ControlOk, ProviderAnswers, Sendable
    <3>. QED
      BY <2>1, <3>1 DEF ControlOk
  <2>2. CASE q # r
    BY <1>2, <2>2, ControlStable DEF IInv, TypeOK, ProviderAnswers
  <2>. QED
    BY <2>1, <2>2
<1>4. \A k \in CacheKeys : CacheOk(k)'
  BY <1>2, CacheStable DEF IInv, ProviderAnswers
<1>5. RowsOk'
  <2>1. \A row \in background \cup request_logs : row \in Row /\ row.req \in Req
    BY DEF IInv, TypeOK, Row
  <2>2. \A row \in background \cup request_logs : RowOk(row)'
    BY <1>2, <2>1, RowStable DEF IInv, RowsOk, ProviderAnswers
  <2>. QED
    BY <2>2 DEF IInv, RowsOk, ProviderAnswers
<1>. QED
  BY <1>1, <1>3, <1>4, <1>5 DEF IInv

LEMMA CacheStoreOk ==
    ASSUME IInv, NEW r \in Req, CacheStore(r) PROVE IInv'
<1>1. /\ pc[r] = "store" /\ provider[r] # NoAnswer /\ Storable(r) /\ resp[r] = NoResponse
      /\ provider[r].kind # "deep"
  BY DEF CacheStore, Goto, IInv, ControlOk
<1>2. KeyOf(r) \in CacheKeys
  BY <1>1, KeyType DEF IInv, Storable
<1>3. TypeOK'
  <2>1. pc' \in [Req -> PC]
    BY GotoType DEF IInv, TypeOK, CacheStore, PC
  <2>. QED
    BY <2>1 DEF IInv, TypeOK, CacheStore
<1>4. Kept
  BY DEF Kept, CacheStore
<1>5. ASSUME NEW q \in Req PROVE ControlOk(q)'
  <2>1. CASE q = r
    BY <1>1, <2>1 DEF IInv, TypeOK, CacheStore, Goto, ControlOk, Sendable
  <2>2. CASE q # r
    BY <1>4, <2>2, ControlStable DEF IInv, TypeOK, Goto, CacheStore
  <2>. QED
    BY <2>1, <2>2
<1>6. ASSUME NEW k \in CacheKeys PROVE CacheOk(k)'
  <2>1. CASE cache'[k] = cache[k]
    BY <1>4, <2>1, CacheStable DEF IInv
  <2>2. CASE cache'[k] # cache[k]
    <3>1. k = KeyOf(r) /\ cache'[k] = r
      BY <1>2, <2>2 DEF CacheStore, IInv, TypeOK
    <3>. QED
      BY <1>1, <3>1 DEF CacheOk, Storable, CacheStore, KeyOf
  <2>. QED
    BY <2>1, <2>2
<1>7. RowsOk'
  <2>1. \A row \in background \cup request_logs : row \in Row /\ row.req \in Req /\ row.req # r
    BY <1>1 DEF IInv, TypeOK, Row, RowsOk
  <2>2. \A row \in background \cup request_logs : pc'[row.req] = pc[row.req]
    BY <2>1 DEF IInv, TypeOK, Goto, CacheStore
  <2>3. \A row \in background \cup request_logs : RowOk(row)'
    BY <1>4, <2>1, RowStable DEF IInv, RowsOk, CacheStore
  <2>. QED
    BY <2>2, <2>3 DEF IInv, RowsOk, CacheStore
<1>. QED
  BY <1>3, <1>5, <1>6, <1>7 DEF IInv

LEMMA WriteLogOk ==
    ASSUME IInv, NEW r \in Req, WriteLog(r) PROVE IInv'
<1>1. TypeOK'
  <2>1. pc' \in [Req -> PC]
    BY GotoType DEF IInv, TypeOK, WriteLog, PC
  <2>. QED
    BY <2>1 DEF IInv, TypeOK, WriteLog
<1>2. Kept
  BY DEF Kept, WriteLog
<1>3. ASSUME NEW q \in Req PROVE ControlOk(q)'
  <2>1. CASE q = r
    BY <2>1 DEF IInv, TypeOK, WriteLog, Goto, ControlOk, Sendable
  <2>2. CASE q # r
    BY <1>2, <2>2, ControlStable DEF IInv, TypeOK, Goto, WriteLog
  <2>. QED
    BY <2>1, <2>2
<1>4. \A k \in CacheKeys : CacheOk(k)'
  BY <1>2, CacheStable DEF IInv, WriteLog
<1>5. RowsOk'
  <2>1. \A row \in background \cup request_logs : row \in Row /\ row.req \in Req
    BY DEF IInv, TypeOK, Row
  <2>2. \A row \in background \cup request_logs : RowOk(row)'
    BY <1>2, <2>1, RowStable DEF IInv, RowsOk, WriteLog
  <2>3. pc[r] = "log" /\ pc'[r] = "done" /\ \A q \in Req \ {r} : pc'[q] = pc[q]
    BY DEF IInv, TypeOK, WriteLog, Goto
  <2>4. /\ background' = {row \in background : row.req # r}
        /\ request_logs' \subseteq request_logs \cup {row \in background : row.req = r}
    BY DEF WriteLog
  <2>5. \A row \in background' : pc'[row.req] = "log"
    BY <2>1, <2>3, <2>4 DEF IInv, RowsOk
  <2>6. \A row \in request_logs' : pc'[row.req] = "done"
    BY <2>1, <2>3, <2>4 DEF IInv, RowsOk
  <2>. QED
    BY <2>2, <2>4, <2>5, <2>6 DEF IInv, RowsOk
<1>. QED
  BY <1>1, <1>3, <1>4, <1>5 DEF IInv

\* A crash only forgets handlers and records that were queued.
LEMMA CrashOk ==
    ASSUME IInv, NEW m, Crash(m) PROVE IInv'
<1>1. TypeOK'
  BY DEF IInv, TypeOK, Crash, PC
<1>2. Kept
  BY DEF Kept, Crash
<1>3. ASSUME NEW q \in Req PROVE ControlOk(q)'
  <2>1. CASE pc'[q] = pc[q]
    BY <1>2, <2>1, ControlStable DEF IInv, Crash
  <2>2. CASE pc'[q] = "lost"
    BY <2>2 DEF IInv, Crash, ControlOk, Sendable
  <2>. QED
    BY <2>1, <2>2 DEF Crash
<1>4. \A k \in CacheKeys : CacheOk(k)'
  BY <1>2, CacheStable DEF IInv, Crash
<1>5. RowsOk'
  <2>1. \A row \in background \cup request_logs : row \in Row /\ row.req \in Req
    BY DEF IInv, TypeOK, Row
  <2>2. \A row \in background \cup request_logs : RowOk(row)'
    BY <1>2, <2>1, RowStable DEF IInv, RowsOk, Crash
  <2>3. \A row \in request_logs : pc'[row.req] = "done"
    BY <2>1 DEF IInv, RowsOk, Crash
  <2>4. \A row \in background' : row \in background /\ pc'[row.req] = "log"
    BY <2>1 DEF IInv, RowsOk, Crash
  <2>5. background' \subseteq background /\ request_logs' = request_logs
    BY DEF Crash
  <2>. QED
    BY <2>2, <2>3, <2>4, <2>5 DEF IInv, RowsOk
<1>. QED
  BY <1>1, <1>3, <1>4, <1>5 DEF IInv

\* Deactivations, expiries and stuttering leave requests and rows alone.
LEMMA EnvironmentOk ==
    ASSUME IInv, (\E x : Deactivate(x)) \/ (\E k \in CacheKeys : Expire(k)) \/ UNCHANGED vars
    PROVE  IInv'
<1>1. UNCHANGED <<call, pc, provider, resp, background, request_logs>>
  BY DEF Deactivate, Expire, vars
<1>2. TypeOK'
  BY DEF IInv, TypeOK, Deactivate, Expire, vars
<1>3. Kept
  BY <1>1 DEF Kept
<1>4. \A q \in Req : ControlOk(q)'
  BY <1>1, <1>3, ControlStable DEF IInv
<1>5. ASSUME NEW k \in CacheKeys PROVE CacheOk(k)'
  <2>1. CASE cache'[k] = cache[k]
    BY <1>3, <2>1, CacheStable DEF IInv
  <2>2. CASE cache'[k] = Nobody
    BY <2>2 DEF CacheOk
  <2>. QED
    BY <2>1, <2>2 DEF Deactivate, Expire, vars, IInv, TypeOK
<1>6. RowsOk'
  <2>1. \A row \in background \cup request_logs : row \in Row /\ row.req \in Req
    BY DEF IInv, TypeOK, Row
  <2>2. \A row \in background \cup request_logs : RowOk(row)'
    BY <1>1, <1>3, <2>1, RowStable DEF IInv, RowsOk
  <2>. QED
    BY <1>1, <2>2 DEF IInv, RowsOk
<1>. QED
  BY <1>2, <1>4, <1>5, <1>6 DEF IInv

----------------------------------------------------------------------------
(* The theorems. *)

LEMMA IInvInit == Init => IInv
BY DEF Init, IInv, TypeOK, PC, ControlOk, CacheOk, RowsOk

LEMMA IInvNext == IInv /\ [Next]_vars => IInv'
<1>. SUFFICES ASSUME IInv, [Next]_vars PROVE IInv'
  OBVIOUS
<1>. USE DEF PC
<1>1. ASSUME NEW r \in Req, Arrive(r) PROVE IInv'
  <2>1. provider[r] = NoAnswer
    BY <1>1 DEF Arrive, Goto, IInv, ControlOk
  <2>2. CASE AuthEnabled
    BY <1>1, <2>1, <2>2, MoveOk DEF Arrive
  <2>3. CASE ~AuthEnabled
    BY <1>1, <2>1, <2>3, MoveOk DEF Arrive
  <2>. QED
    BY <2>2, <2>3
<1>2. ASSUME NEW r \in Req, Authenticate(r) PROVE IInv'
  <2>1. CASE Reject(r, "auth", 401) \/ Reject(r, "auth", 500)
    <3>1. provider[r] = NoAnswer
      BY <2>1 DEF Reject, Goto, IInv, ControlOk
    <3>. QED
      BY <2>1, <3>1, RejectOk
  <2>2. CASE /\ Goto(r, "auth", "limit")
             /\ UNCHANGED <<call, active, provider, cache, resp, background, request_logs>>
    <3>1. provider[r] = NoAnswer
      BY <2>2 DEF Goto, IInv, ControlOk
    <3>. QED
      BY <2>2, <3>1, MoveOk
  <2>. QED
    BY <1>2, <2>1, <2>2 DEF Authenticate
<1>3. ASSUME NEW r \in Req, CheckRateLimit(r) PROVE IInv'
  <2>1. CASE Reject(r, "limit", 429)
    <3>1. provider[r] = NoAnswer
      BY <2>1 DEF Reject, Goto, IInv, ControlOk
    <3>. QED
      BY <2>1, <3>1, RejectOk
  <2>2. CASE /\ Goto(r, "limit", "body")
             /\ UNCHANGED <<call, active, provider, cache, resp, background, request_logs>>
    <3>1. provider[r] = NoAnswer
      BY <2>2 DEF Goto, IInv, ControlOk
    <3>. QED
      BY <2>2, <3>1, MoveOk
  <2>. QED
    BY <1>3, <2>1, <2>2 DEF CheckRateLimit
<1>4. ASSUME NEW r \in Req, ReadBody(r) PROVE IInv'
  <2>1. provider[r] = NoAnswer
    BY <1>4 DEF ReadBody, Reject, Goto, IInv, ControlOk
  <2>0. CASE Reject(r, "body", 500)
    BY <2>0, <2>1, RejectOk
  <2>2. CASE ~Reject(r, "body", 500)
    <3>1. UNCHANGED <<call, active, provider, cache, resp, background, request_logs>>
      BY <1>4, <2>2 DEF ReadBody
    <3>2. CASE Goto(r, "body", "lost")
      BY <3>1, <3>2, MoveOk
    <3>3. CASE Goto(r, "body", "streaming")
      BY <2>1, <3>1, <3>3, MoveOk
    <3>4. CASE Cacheable(call[r]) /\ Goto(r, "body", "lookup")
      BY <2>1, <3>1, <3>4, MoveOk
    <3>5. CASE Goto(r, "body", "upstream")
      BY <3>1, <3>5, MoveOk
    <3>. QED
      BY <1>4, <2>2, <3>2, <3>3, <3>4, <3>5 DEF ReadBody
  <2>. QED
    BY <2>0, <2>2
<1>5. ASSUME NEW r \in Req, CacheMiss(r) PROVE IInv'
  BY <1>5, MoveOk DEF CacheMiss
<1>6. ASSUME NEW r \in Req, Receive(r) PROVE IInv'
  <2>1. CASE provider[r].kind # "deep" /\ Storable(r)
    BY <1>6, <2>1, MoveOk DEF Receive
  <2>2. CASE provider[r].kind # "deep" /\ ~Storable(r)
    BY <1>6, <2>2, MoveOk DEF Receive
  <2>3. CASE provider[r].kind = "deep"
    BY <1>6, <2>3, RejectOk DEF Receive
  <2>. QED
    BY <2>1, <2>2, <2>3
<1>7. ASSUME NEW r \in Req, Handle(r) PROVE IInv'
  BY <1>2, <1>3, <1>5, <1>6, <1>7, CacheHitOk, UpstreamFailsOk, CacheStoreOk,
     AnswerOk, WriteLogOk DEF Handle
<1>. QED
  BY <1>1, <1>4, <1>7, ProviderAnswersOk, CrashOk, EnvironmentOk DEF Next

\* The strengthened invariant holds in every reachable state.
THEOREM Invariance == Spec => []IInv
BY IInvInit, IInvNext, PTL DEF Spec

\* Every variable keeps its type in every behaviour.
THEOREM TypeCorrect == Spec => []TypeOK
<1>1. IInv => TypeOK
  BY DEF IInv
<1>. QED
  BY <1>1, Invariance, PTL

\* Whatever is interleaved, expires, fails or crashes, a cache hit replays a
\* success that another call with the same cache key fetched.
THEOREM HitsReplaySuccesses == Spec => []HitReplaysASuccess
<1>1. IInv => HitReplaysASuccess
  BY DEF IInv, RowsOk, RowOk, HitReplaysASuccess
<1>. QED
  BY <1>1, Invariance, PTL

\* The table never disagrees with what a client was given.
THEOREM RowsAgreeWithClients == Spec => []RowTellsWhatTheClientGot
<1>1. IInv => RowTellsWhatTheClientGot
  BY DEF IInv, RowsOk, RowOk, RowTellsWhatTheClientGot
<1>. QED
  BY <1>1, Invariance, PTL

\* No call has two rows.  One that was turned away has no effect at all, and one
\* that ended in an exception has no row, whether the provider was paid or not.
THEOREM RejectedLeaveNothing == Spec => []OneRowOrNone
<1>1. ASSUME IInv PROVE OneRowOrNone
  <2>1. ASSUME NEW r \in Req, NEW status \in Nat, Refusal(r, status)
        PROVE  resp[r] # NoResponse /\ resp[r].body = Nobody /\ resp[r].status = status
    BY <1>1, <2>1, NullAssumption DEF Refusal, IInv, TypeOK
  <2>2. ASSUME NEW r \in Req, Refusal(r, 401) \/ Refusal(r, 429)
        PROVE  /\ provider[r] = NoAnswer
               /\ \A k \in CacheKeys : cache[k] # r
               /\ \A row \in request_logs \cup background : row.req # r
    <3>1. provider[r] = NoAnswer
      BY <1>1, <2>1, <2>2 DEF IInv, ControlOk
    <3>2. \A k \in CacheKeys : cache[k] # r
      BY <1>1, <3>1, NullAssumption DEF IInv, CacheOk
    <3>3. \A row \in request_logs \cup background : row.req # r
      BY <1>1, <2>1, <2>2 DEF IInv, RowsOk, RowOk
    <3>. QED
      BY <3>1, <3>2, <3>3
  <2>3. ASSUME NEW r \in Req, Refusal(r, 500)
        PROVE  /\ provider[r] # NoAnswer => provider[r].kind \in {"deep", "odd"}
               /\ \A k \in CacheKeys : cache[k] = r => provider[r].kind = "odd"
               /\ \A row \in request_logs \cup background : row.req # r
    <3>1. provider[r] # NoAnswer => provider[r].kind \in {"deep", "odd"}
      BY <1>1, <2>1, <2>3 DEF IInv, ControlOk
    <3>2. \A k \in CacheKeys : cache[k] = r => provider[r].kind = "odd"
      BY <1>1, <3>1, NullAssumption DEF IInv, CacheOk
    <3>3. \A row \in request_logs \cup background : row.req # r
      BY <1>1, <2>1, <2>3 DEF IInv, RowsOk, RowOk
    <3>. QED
      BY <3>1, <3>2, <3>3
  <2>. QED
    BY <1>1, <2>2, <2>3 DEF OneRowOrNone, IInv, RowsOk
<1>. QED
  BY <1>1, Invariance, PTL

----------------------------------------------------------------------------
(* What was served from upstream stays in the cache. *)

\* A call whose answer went, or is about to go, to its client has an entry under its
\* key: its own, or that of a call that stored later.
Warm(q) ==
    Cacheable(call[q]) /\ (Served(q) \/ (pc[q] = "answer" /\ Storable(q)))
        => cache[KeyOf(q)] # Nobody

CacheWorks == CacheTTL > 0 /\ "redis" \notin Faults /\ "expiry" \notin Faults

\* Where nothing expires, an entry is only ever replaced.
LEMMA EntryStays ==
    ASSUME IInv, [Next]_vars, CacheWorks, NEW k \in CacheKeys, cache[k] # Nobody
    PROVE  cache'[k] # Nobody
<1>1. ASSUME NEW r \in Req, CacheStore(r) PROVE cache'[k] # Nobody
  BY <1>1, NullAssumption DEF CacheStore, IInv, TypeOK
<1>2. ASSUME NEW r \in Req, Arrive(r) \/ ReadBody(r) \/ ProviderAnswers(r) \/ Handle(r),
             ~CacheStore(r)
      PROVE  cache' = cache
  BY <1>2 DEF Arrive, ProviderAnswers, Handle, Authenticate, CheckRateLimit, ReadBody, Reject,
              CacheHit, CacheMiss, UpstreamFails, Receive, Answer, WriteLog
<1>3. CASE \/ \E x \in TapKey \cup Project : Deactivate(x)
           \/ \E m \in Machine : Crash(m)
           \/ UNCHANGED vars
  BY <1>3 DEF Deactivate, Crash, vars
<1> QED
  BY <1>1, <1>2, <1>3 DEF Next, Expire, CacheWorks

\* A refusal, an answer or a step further leaves the other handlers where they are.
LEMMA OthersAtReject ==
    ASSUME TypeOK, NEW r \in Req, NEW from, NEW status, Reject(r, from, status),
           NEW q \in Req, q # r
    PROVE  pc'[q] = pc[q] /\ resp'[q] = resp[q] /\ provider'[q] = provider[q] /\ call' = call
BY DEF Reject, Goto, TypeOK

LEMMA OthersAtReturn ==
    ASSUME TypeOK, NEW r \in Req, NEW from, NEW status, NEW body, NEW row,
           Return(r, from, status, body, row), NEW q \in Req, q # r
    PROVE  pc'[q] = pc[q] /\ resp'[q] = resp[q] /\ provider'[q] = provider[q] /\ call' = call
BY DEF Return, Goto, TypeOK

LEMMA OthersAtGoto ==
    ASSUME TypeOK, NEW r \in Req, NEW from, NEW to, Goto(r, from, to),
           UNCHANGED <<call, resp, provider>>, NEW q \in Req, q # r
    PROVE  pc'[q] = pc[q] /\ resp'[q] = resp[q] /\ provider'[q] = provider[q] /\ call' = call
BY DEF Goto, TypeOK

\* A step of one handler or of the provider leaves the others where they are.
LEMMA OthersStay ==
    ASSUME IInv, NEW r \in Req, Arrive(r) \/ ReadBody(r) \/ Handle(r) \/ ProviderAnswers(r),
           NEW q \in Req, q # r
    PROVE  pc'[q] = pc[q] /\ resp'[q] = resp[q] /\ provider'[q] = provider[q] /\ call' = call
<1>1. TypeOK
  BY DEF IInv
<1>2. CASE Arrive(r) \/ CacheMiss(r) \/ CacheStore(r) \/ WriteLog(r)
  BY <1>1, <1>2, OthersAtGoto DEF Arrive, CacheMiss, CacheStore, WriteLog
<1>3. CASE Authenticate(r) \/ CheckRateLimit(r) \/ ReadBody(r)
  BY <1>1, <1>3, OthersAtGoto, OthersAtReject DEF Authenticate, CheckRateLimit, ReadBody
<1>4. CASE Receive(r)
  BY <1>1, <1>4, OthersAtGoto, OthersAtReject DEF Receive
<1>5. CASE CacheHit(r)
  <2>1. CASE Recordable(cache[KeyOf(r)])
    <3>1. PICK row : Return(r, "lookup", 200, cache[KeyOf(r)], row)
      BY <1>5, <2>1 DEF CacheHit
    <3>. QED
      BY <1>1, <3>1, OthersAtReturn
  <2>2. CASE ~Recordable(cache[KeyOf(r)])
    <3>1. Reject(r, "lookup", 500)
      BY <1>5, <2>2 DEF CacheHit
    <3>. QED
      BY <1>1, <3>1, OthersAtReject
  <2>. QED
    BY <2>1, <2>2
<1>6. CASE UpstreamFails(r)
  <2>1. CASE Sendable(r)
    <3>1. PICK row : Return(r, "upstream", 502, Nobody, row)
      BY <1>6, <2>1 DEF UpstreamFails
    <3>. QED
      BY <1>1, <3>1, OthersAtReturn
  <2>2. CASE ~Sendable(r)
    BY <1>1, <1>6, <2>2, OthersAtReject DEF UpstreamFails
  <2>. QED
    BY <2>1, <2>2
<1>7. CASE Answer(r)
  <2>1. CASE Recordable(r)
    <3>1. PICK row : Return(r, "answer", provider[r].status, r, row)
      BY <1>7, <2>1 DEF Answer
    <3>. QED
      BY <1>1, <3>1, OthersAtReturn
  <2>2. CASE ~Recordable(r)
    BY <1>1, <1>7, <2>2, OthersAtReject DEF Answer
  <2>. QED
    BY <2>1, <2>2
<1>8. CASE ProviderAnswers(r)
  BY <1>1, <1>8 DEF ProviderAnswers, TypeOK
<1> QED
  BY <1>2, <1>3, <1>4, <1>5, <1>6, <1>7, <1>8 DEF Handle

\* What a step of its own handler can do to make a call warm.
LEMMA SelfWarm ==
    ASSUME IInv, CacheWorks, NEW q \in Req, Warm(q), [Next]_vars,
           Arrive(q) \/ ReadBody(q) \/ Handle(q) \/ ProviderAnswers(q)
    PROVE  Warm(q)'
<1>1. Cacheable(call[q]) => KeyOf(q) \in CacheKeys
  BY KeyType DEF IInv
<1>2. ASSUME call' = call, provider' = provider, resp' = resp, pc'[q] # "answer"
      PROVE  Warm(q)'
  BY <1>1, <1>2, EntryStays DEF Warm, Served, KeyOf
<1>3. ASSUME NEW from, NEW status, Reject(q, from, status) PROVE Warm(q)'
  <2>1. resp'[q].body = Nobody /\ pc'[q] # "answer"
    BY <1>3 DEF Reject, Goto, IInv, TypeOK
  <2> QED
    BY <2>1, NullAssumption DEF Warm, Served
<1>4. CASE Arrive(q) \/ Authenticate(q) \/ CheckRateLimit(q) \/ ReadBody(q)
  <2>1. CASE \E from, status : Reject(q, from, status)
    BY <2>1, <1>3
  <2>2. CASE \E from, to : to # "answer" /\ Goto(q, from, to) /\ UNCHANGED <<call, provider, resp>>
    BY <2>2, <1>2 DEF Goto, IInv, TypeOK
  <2> QED
    BY <1>4, <2>1, <2>2 DEF Arrive, Authenticate, CheckRateLimit, ReadBody
<1>5. CASE CacheMiss(q) \/ WriteLog(q)
  BY <1>2, <1>5 DEF CacheMiss, WriteLog, Goto, IInv, TypeOK
<1>6. CASE CacheHit(q)
  <2>1. CASE Recordable(cache[KeyOf(q)])
    <3>1. provider[q] = NoAnswer /\ Cacheable(call[q])
      BY <1>6 DEF CacheHit, IInv, ControlOk
    <3>2. cache[KeyOf(q)] # Nobody /\ provider[cache[KeyOf(q)]] # NoAnswer
      BY <1>1, <1>6, <3>1 DEF CacheHit, Found, IInv, CacheOk
    <3>3. resp'[q].body # q /\ pc'[q] = "log"
      BY <1>6, <2>1, <3>1, <3>2 DEF CacheHit, Return, Goto, IInv, TypeOK
    <3> QED
      BY <3>3 DEF Warm, Served
  <2>2. CASE ~Recordable(cache[KeyOf(q)])
    BY <1>3, <1>6, <2>2 DEF CacheHit
  <2> QED
    BY <2>1, <2>2
<1>7. CASE UpstreamFails(q)
  <2>1. CASE \E status : Reject(q, "upstream", status)
    BY <1>3, <2>1
  <2>2. CASE \E rec : Return(q, "upstream", 502, Nobody, rec)
    <3>1. resp'[q].body = Nobody /\ pc'[q] # "answer"
      BY <2>2 DEF Return, Goto, IInv, TypeOK
    <3> QED
      BY <3>1, NullAssumption DEF Warm, Served
  <2> QED
    BY <1>7, <2>1, <2>2 DEF UpstreamFails
<1>8. CASE Receive(q)
  <2>1. CASE Reject(q, "upstream", 500)
    BY <1>3, <2>1
  <2>2. CASE ~Reject(q, "upstream", 500)
    <3>1. /\ call' = call /\ provider' = provider /\ resp'[q] = NoResponse
          /\ pc'[q] = IF Storable(q) THEN "store" ELSE "answer"
      BY <1>8, <2>2 DEF Receive, Goto, IInv, TypeOK, ControlOk
    <3> QED
      BY <3>1, NullAssumption DEF Warm, Served, Storable
  <2> QED
    BY <2>1, <2>2
<1>9. CASE CacheStore(q)
  <2>1. Cacheable(call[q]) /\ cache' = [cache EXCEPT ![KeyOf(q)] = q] /\ call' = call
    BY <1>9 DEF CacheStore, CacheWorks, Goto, IInv, ControlOk, Storable
  <2>2. cache'[KeyOf(q)] # Nobody
    BY <1>1, <2>1, NullAssumption DEF IInv, TypeOK
  <2> QED
    BY <2>1, <2>2 DEF Warm, KeyOf
<1>10. CASE Answer(q)
  <2>1. CASE Reject(q, "answer", 500)
    BY <1>3, <2>1
  <2>2. CASE \E rec : Return(q, "answer", provider[q].status, q, rec)
    <3>1. /\ call' = call /\ provider' = provider /\ pc[q] = "answer" /\ pc'[q] = "log"
          /\ resp'[q] = [status |-> provider[q].status, body |-> q]
      BY <2>2 DEF Return, Goto, IInv, TypeOK
    <3>2. Cacheable(call[q]) /\ Served(q)' => Storable(q)
      BY <3>1 DEF Served, Storable
    <3>3. Cacheable(call[q]) /\ Served(q)' => cache'[KeyOf(q)] # Nobody
      BY <1>1, <3>1, <3>2, EntryStays DEF Warm
    <3> QED
      BY <3>1, <3>3 DEF Warm, KeyOf
  <2> QED
    BY <1>10, <2>1, <2>2 DEF Answer
<1>11. CASE ProviderAnswers(q)
  <2>1. /\ pc'[q] = "upstream" /\ resp'[q] = NoResponse
    BY <1>11 DEF ProviderAnswers, IInv, ControlOk
  <2> QED
    BY <2>1, NullAssumption DEF Warm, Served
<1> QED
  BY <1>4, <1>5, <1>6, <1>7, <1>8, <1>9, <1>10, <1>11 DEF Handle

LEMMA WarmNext ==
    ASSUME IInv, CacheWorks, \A q \in Req : Warm(q), [Next]_vars
    PROVE  \A q \in Req : Warm(q)'
<1> SUFFICES ASSUME NEW q \in Req PROVE Warm(q)'
  OBVIOUS
<1>1. ASSUME pc'[q] \in {pc[q], "lost"}, resp'[q] = resp[q], provider'[q] = provider[q],
             call' = call
      PROVE  Warm(q)'
  <2>1. Cacheable(call[q]) => KeyOf(q) \in CacheKeys
    BY KeyType DEF IInv
  <2> QED
    BY <1>1, <2>1, EntryStays DEF Warm, Served, Storable, KeyOf
<1>2. ASSUME NEW r \in Req, r # q, Arrive(r) \/ ReadBody(r) \/ Handle(r) \/ ProviderAnswers(r)
      PROVE  Warm(q)'
  BY <1>1, <1>2, OthersStay
<1>3. CASE \/ \E x \in TapKey \cup Project : Deactivate(x)
           \/ \E k \in CacheKeys : Expire(k)
           \/ \E m \in Machine : Crash(m)
           \/ UNCHANGED vars
  BY <1>1, <1>3 DEF Deactivate, Expire, Crash, vars
<1> QED
  BY <1>2, <1>3, SelfWarm DEF Next

\* Only a lookup that finds nothing to return sends a call upstream after it.
LEMMA MissStep ==
    ASSUME IInv, [Next]_vars, CacheWorks, NEW r \in Req, pc[r] = "lookup", pc'[r] = "upstream"
    PROVE  ~Found(r)
<1>1. ASSUME NEW q \in Req, Arrive(q) \/ ReadBody(q) \/ Handle(q) \/ ProviderAnswers(q)
      PROVE  ~Found(r)
  <2>1. q = r
    BY <1>1, OthersStay
  <2>2. CASE CacheMiss(r)
    BY <2>2 DEF CacheMiss, CacheWorks
  <2>3. CASE CacheHit(r)
    BY <2>3 DEF CacheHit, Return, Reject, Goto, IInv, TypeOK
  <2> QED
    BY <1>1, <2>1, <2>2, <2>3 DEF Handle, Arrive, ReadBody, Authenticate, CheckRateLimit,
       UpstreamFails, Receive, CacheStore, Answer, WriteLog, ProviderAnswers, Return, Reject, Goto
<1>2. CASE \/ \E x \in TapKey \cup Project : Deactivate(x)
           \/ \E k \in CacheKeys : Expire(k)
           \/ \E m \in Machine : Crash(m)
           \/ UNCHANGED vars
  BY <1>2 DEF Deactivate, Expire, Crash, vars
<1> QED
  BY <1>1, <1>2 DEF Next

\* With a working cache, only stored JSON that cache_get does not return sends a call
\* upstream after one with its key was answered: however calls overlap, fail or are
\* cut short by crashes, none of them takes an answer back.
THEOREM WarmStays == ASSUME CacheWorks PROVE Spec => WarmStaysWarm
<1>1. Init => \A q \in Req : Warm(q)
  BY NullAssumption DEF Init, Warm, Served, Response
<1>2. IInv /\ (\A q \in Req : Warm(q)) /\ [Next]_vars => (\A q \in Req : Warm(q))'
  BY WarmNext
<1>3. IInv /\ (\A q \in Req : Warm(q)) /\ [Next]_vars =>
        [\A r, q \in Req :
            (pc[r] = "lookup" /\ pc'[r] = "upstream" /\ Served(q) /\ SameKey(r, q)) =>
                \E p \in Req : /\ SameKey(r, p) /\ provider[p] # NoAnswer
                              /\ provider[p].status = 200 /\ provider[p].kind = "array"]_vars
  <2> SUFFICES ASSUME IInv, \A q \in Req : Warm(q), [Next]_vars,
                      NEW r \in Req, NEW q \in Req, pc[r] = "lookup", pc'[r] = "upstream",
                      Served(q), SameKey(r, q)
               PROVE  \E p \in Req : /\ SameKey(r, p) /\ provider[p] # NoAnswer
                                     /\ provider[p].status = 200 /\ provider[p].kind = "array"
    OBVIOUS
  <2>1. ~Found(r)
    BY MissStep
  <2>2. KeyOf(r) \in CacheKeys /\ cache[KeyOf(r)] # Nobody
    BY KeyType DEF SameKey, Warm, IInv
  <2>3. PICK p \in Req : p = cache[KeyOf(r)]
    BY <2>2 DEF IInv, TypeOK
  <2>4. provider[p].kind = "array"
    BY <2>1, <2>2, <2>3 DEF Found
  <2> QED
    BY <2>2, <2>3, <2>4 DEF IInv, CacheOk, SameKey
<1> QED
  BY <1>1, <1>2, <1>3, Invariance, PTL DEF Spec, WarmStaysWarm

----------------------------------------------------------------------------
(* A key that is revoked stays out. *)

\* A call that has not been authenticated, and will not be.
ShutOut(r) == /\ AuthEnabled /\ ~Resolves(call[r].key)
              /\ pc[r] \in {"idle", "auth", "done", "lost"}
              /\ provider[r] = NoAnswer
              /\ \A row \in request_logs \cup background : row.req # r

LEMMA ShutOutStarts ==
    ASSUME IInv, NEW r \in Req, pc[r] = "idle", AuthEnabled, ~Resolves(call[r].key)
    PROVE  ShutOut(r)
BY DEF ShutOut, IInv, ControlOk, RowsOk

\* The step of another call builds no record and asks no provider for this one.
LEMMA OthersShutOut ==
    ASSUME IInv, NEW r \in Req, ShutOut(r), NEW q \in Req, q # r,
           Arrive(q) \/ ReadBody(q) \/ Handle(q) \/ ProviderAnswers(q)
    PROVE  ShutOut(r)'
<1>1. /\ call' = call /\ active' = active
      /\ pc'[r] = pc[r] /\ provider'[r] = provider[r]
      /\ \A row \in request_logs' \cup background' :
            row \in request_logs \cup background \/ row.req = q
  <2>1. CASE Arrive(q) \/ Authenticate(q) \/ CheckRateLimit(q) \/ ReadBody(q)
    BY <2>1 DEF Arrive, Authenticate, CheckRateLimit, ReadBody, Reject, Goto, IInv, TypeOK
  <2>2. CASE CacheMiss(q) \/ Receive(q) \/ CacheStore(q) \/ ProviderAnswers(q)
    BY <2>2 DEF CacheMiss, Receive, CacheStore, ProviderAnswers, Reject, Goto, IInv, TypeOK
  <2>3. CASE CacheHit(q)
    BY <2>3 DEF CacheHit, Return, Reject, LogRecord, Goto, IInv, TypeOK
  <2>4. CASE UpstreamFails(q) \/ Answer(q)
    BY <2>4 DEF UpstreamFails, Answer, Return, Reject, LogRecord, Goto, IInv, TypeOK
  <2>5. CASE WriteLog(q)
    BY <2>5 DEF WriteLog, Goto, IInv, TypeOK
  <2>. QED
    BY <2>1, <2>2, <2>3, <2>4, <2>5 DEF Handle
<1>. QED
  BY <1>1 DEF ShutOut, Resolves

\* What is left for its own handler is to arrive and to be turned away.
LEMMA SelfShutOut ==
    ASSUME IInv, NEW r \in Req, ShutOut(r),
           Arrive(r) \/ ReadBody(r) \/ Handle(r) \/ ProviderAnswers(r)
    PROVE  ShutOut(r)'
<1>1. Arrive(r) \/ Authenticate(r)
  <2>1. pc[r] \notin {"limit", "body", "lookup", "upstream", "store", "answer", "log"}
    BY DEF ShutOut
  <2>2. ~CheckRateLimit(r) /\ ~ReadBody(r) /\ ~ProviderAnswers(r)
    BY <2>1 DEF CheckRateLimit, ReadBody, ProviderAnswers, Reject, Goto
  <2>3. ~CacheHit(r) /\ ~CacheMiss(r) /\ ~CacheStore(r)
    BY <2>1 DEF CacheHit, CacheMiss, CacheStore, Goto
  <2>4. ~UpstreamFails(r)
    BY <2>1 DEF UpstreamFails, Return, Reject, Goto
  <2>5. ~Receive(r)
    BY <2>1 DEF Receive, Reject, Goto
  <2>6. ~Answer(r) /\ ~WriteLog(r)
    BY <2>1 DEF Answer, WriteLog, Goto
  <2>. QED
    BY <2>2, <2>3, <2>4, <2>5, <2>6 DEF Handle
<1>2. pc'[r] \in {"auth", "done"}
  BY <1>1 DEF ShutOut, Arrive, Authenticate, Reject, Goto, IInv, TypeOK
<1>3. UNCHANGED <<call, active, provider, background, request_logs>>
  BY <1>1 DEF Arrive, Authenticate, Reject
<1>. QED
  BY <1>2, <1>3 DEF ShutOut, Resolves

LEMMA ShutOutStays ==
    ASSUME IInv, NEW r \in Req, ShutOut(r), [Next]_vars
    PROVE  ShutOut(r)'
<1>1. ASSUME NEW x \in TapKey \cup Project, Deactivate(x) PROVE ShutOut(r)'
  BY <1>1 DEF Deactivate, ShutOut, Resolves
<1>2. ASSUME NEW k \in CacheKeys, Expire(k) PROVE ShutOut(r)'
  BY <1>2 DEF Expire, ShutOut, Resolves
<1>3. ASSUME NEW m \in Machine, Crash(m) PROVE ShutOut(r)'
  BY <1>3 DEF Crash, ShutOut, Resolves
<1>4. CASE UNCHANGED vars
  BY <1>4 DEF vars, ShutOut, Resolves
<1>. QED
  BY <1>1, <1>2, <1>3, <1>4, OthersShutOut, SelfShutOut DEF Next

\* Whoever arrives after a revocation is never let through: neither an entry of the
\* cache nor anything that was in flight makes up for the key.
THEOREM RevokedStayOut == Spec => RevokedStaysOut
<1>1. ASSUME NEW r \in Req
      PROVE  Spec => [](pc[r] = "idle" /\ AuthEnabled /\ ~Resolves(call[r].key)
                          => [](provider[r] = NoAnswer /\ \A row \in request_logs : row.req # r))
  <2>1. IInv /\ (pc[r] = "idle" /\ AuthEnabled /\ ~Resolves(call[r].key)) => ShutOut(r)
    BY ShutOutStarts
  <2>2. IInv /\ ShutOut(r) /\ [Next]_vars => ShutOut(r)'
    BY ShutOutStays
  <2>3. ShutOut(r) => provider[r] = NoAnswer /\ \A row \in request_logs : row.req # r
    BY DEF ShutOut
  <2>. QED
    BY <2>1, <2>2, <2>3, Invariance, PTL DEF Spec
<1>. QED
  BY <1>1 DEF RevokedStaysOut

----------------------------------------------------------------------------
(* A handler that has returned has its record in the queue. *)

Queued == \A r \in Req : pc[r] = "log" => \E row \in background : row.req = r

\* The three ways a handler returns, each with a record of its own request, or fails.
LEMMA Returns ==
    ASSUME NEW r \in Req
    PROVE  /\ CacheHit(r) => \/ Reject(r, "lookup", 500)
                            \/ \E rec : rec.req = r /\ Return(r, "lookup", 200, cache[KeyOf(r)], rec)
           /\ UpstreamFails(r) => \/ Reject(r, "upstream", 500)
                                 \/ \E rec : rec.req = r /\ Return(r, "upstream", 502, Nobody, rec)
           /\ Answer(r) => \/ Reject(r, "answer", 500)
                          \/ \E rec : rec.req = r /\ Return(r, "answer", provider[r].status, r, rec)
<1>1. PICK hit : hit = LogRecord(r, 200, TRUE, cache[KeyOf(r)], FALSE)
  OBVIOUS
<1>2. PICK failure : failure = LogRecord(r, 502, FALSE, Nobody, TRUE)
  OBVIOUS
<1>3. PICK rec : rec = LogRecord(r, provider[r].status, FALSE, ParseJson(r), FALSE)
  OBVIOUS
<1>4. hit.req = r /\ failure.req = r /\ rec.req = r
  BY <1>1, <1>2, <1>3 DEF LogRecord
<1> QED
  BY <1>1, <1>2, <1>3, <1>4 DEF CacheHit, UpstreamFails, Answer

LEMMA QueuedReturn ==
    ASSUME TypeOK, Queued, NEW r \in Req, NEW from, NEW status, NEW body, NEW rec,
           rec.req = r, Return(r, from, status, body, rec)
    PROVE  Queued'
BY DEF TypeOK, Queued, Return, Goto

LEMMA QueuedStep == TypeOK /\ Queued /\ [Next]_vars => Queued'
<1> SUFFICES ASSUME TypeOK, Queued, [Next]_vars PROVE Queued'
  OBVIOUS
<1>1. CASE UNCHANGED <<pc, background>>
  BY <1>1 DEF Queued
<1>2. ASSUME NEW r \in Req, NEW from, NEW to, to # "log", Goto(r, from, to), UNCHANGED background
      PROVE  Queued'
  BY <1>2 DEF TypeOK, Queued, Goto
<1>3. ASSUME NEW r \in Req, NEW from, NEW status, Reject(r, from, status) PROVE Queued'
  BY <1>2, <1>3 DEF Reject
<1>4. ASSUME NEW r \in Req, Arrive(r) \/ Authenticate(r) \/ CheckRateLimit(r) \/ ReadBody(r)
      PROVE  Queued'
  <2>1. CASE \E from, status : Reject(r, from, status)
    BY <2>1, <1>3
  <2>2. CASE \E from, to : to # "log" /\ Goto(r, from, to) /\ UNCHANGED background
    BY <2>2, <1>2
  <2> QED
    BY <1>4, <2>1, <2>2 DEF Arrive, Authenticate, CheckRateLimit, ReadBody
<1>5. ASSUME NEW r \in Req, CacheMiss(r) \/ Receive(r) \/ CacheStore(r) PROVE Queued'
  <2>1. CASE Reject(r, "upstream", 500)
    BY <2>1, <1>3
  <2>2. CASE \E from, to : to # "log" /\ Goto(r, from, to) /\ UNCHANGED background
    BY <2>2, <1>2
  <2> QED
    BY <1>5, <2>1, <2>2 DEF CacheMiss, Receive, CacheStore
<1>6. ASSUME NEW r \in Req, CacheHit(r) \/ UpstreamFails(r) \/ Answer(r) PROVE Queued'
  <2>1. CASE \E from, status, body, rec : rec.req = r /\ Return(r, from, status, body, rec)
    BY <2>1, QueuedReturn
  <2>2. CASE \E from : Reject(r, from, 500)
    BY <2>2, <1>3
  <2> QED
    BY <1>6, <2>1, <2>2, Returns
<1>7. ASSUME NEW r \in Req, WriteLog(r) PROVE Queued'
  BY <1>7 DEF TypeOK, Queued, WriteLog, Goto
<1>8. ASSUME NEW m \in Machine, Crash(m) PROVE Queued'
  BY <1>8 DEF TypeOK, Queued, Crash
<1>9. CASE \/ \E r \in Req : ProviderAnswers(r)
           \/ \E x \in TapKey \cup Project : Deactivate(x)
           \/ \E k \in CacheKeys : Expire(k)
           \/ UNCHANGED vars
  BY <1>1, <1>9 DEF ProviderAnswers, Deactivate, Expire, vars
<1> QED
  BY <1>4, <1>5, <1>6, <1>7, <1>8, <1>9 DEF Next, Handle

LEMMA QueuedAlways == Spec => []Queued
<1>1. Init => Queued
  BY DEF Init, Queued
<1> QED
  BY <1>1, QueuedStep, TypeCorrect, PTL DEF Spec

----------------------------------------------------------------------------
(* What the ledger sees of a request. *)

\* The provider never takes an answer back.
Answered == \A r \in Req : provider[r] # NoAnswer => provider'[r] = provider[r]

\* A client that is told nothing new has the same tale to tell.
LEMMA TaleStable ==
    ASSUME IInv, Answered, NEW r \in Req, resp'[r] = resp[r]
    PROVE  ClientsTale(r)' = ClientsTale(r)
<1>1. CASE resp[r] = NoResponse
  BY <1>1 DEF ClientsTale
<1>2. CASE resp[r] # NoResponse /\ resp[r].body = Nobody
  BY <1>2 DEF ClientsTale, UsageOf
<1>3. CASE resp[r] # NoResponse /\ resp[r].body # Nobody
  <2>1. resp[r].body \in Req /\ provider[resp[r].body] # NoAnswer
    BY <1>3 DEF IInv, TypeOK, Response, ControlOk
  <2>2. provider'[resp[r].body] = provider[resp[r].body]
    BY <2>1 DEF Answered
  <2> QED
    BY <1>3, <2>2 DEF ClientsTale, ParseJson, UsageOf
<1> QED
  BY <1>1, <1>2, <1>3

LEMMA PhaseStable ==
    ASSUME NEW r \in Req, resp'[r] = resp[r], pc'[r] = pc[r]
    PROVE  LedgerPhase(r)' = LedgerPhase(r)
BY DEF LedgerPhase, Refused

LEMMA RowsStable == UNCHANGED request_logs => rows' = rows
BY DEF rows, RowsTale

----------------------------------------------------------------------------
(* The three kinds of step a handler can be seen to make. *)

\* Nothing that the ledger sees.
LEMMA NothingSeen ==
    ASSUME IInv, Answered, NEW r \in Req, pc \in [Req -> PC],
           \A s \in Req \ {r} : pc'[s] = pc[s],
           UNCHANGED <<resp, request_logs>>,
           LedgerPhase(r)' = LedgerPhase(r)
    PROVE  UNCHANGED L!vars
<1>1. \A s \in Req : LedgerPhase(s)' = LedgerPhase(s)
  BY PhaseStable
<1>2. \A s \in Req : ClientsTale(s)' = ClientsTale(s)
  BY TaleStable
<1> QED
  BY <1>1, <1>2, RowsStable DEF L!vars, phase, told

\* A request is answered: refused or served.
LEMMA AnswerSeen ==
    ASSUME IInv, IInv', UNCHANGED <<provider, request_logs>>,
           NEW r \in Req, NEW next \in {"refused", "served"},
           LedgerPhase(r) = "open", LedgerPhase(r)' = next,
           \A s \in Req \ {r} : pc'[s] = pc[s] /\ resp'[s] = resp[s]
    PROVE  L!Answer(r, next)
<1>1. \A s \in Req \ {r} : LedgerPhase(s)' = LedgerPhase(s) /\ ClientsTale(s)' = ClientsTale(s)
  BY PhaseStable, TaleStable DEF Answered
<1>2. phase[r] = "open" /\ phase' = [phase EXCEPT ![r] = next]
  BY <1>1 DEF phase
<1>3. told' = [told EXCEPT ![r] = told'[r]]
  BY <1>1 DEF told
<1> QED
  BY <1>2, <1>3, RowsStable DEF L!Answer

\* Requests end without a row.
LEMMA StopSeen ==
    ASSUME IInv, UNCHANGED <<provider, resp, request_logs>>, NEW stopped \in SUBSET Req,
           \A s \in Req \ stopped : pc'[s] = pc[s],
           \A s \in stopped : /\ LedgerPhase(s) \in {"open", "served"}
                              /\ LedgerPhase(s)' = "closed"
    PROVE  L!Stop(stopped)
<1>1. \A s \in Req \ stopped : LedgerPhase(s)' = LedgerPhase(s)
  BY PhaseStable
<1>2. \A s \in Req : ClientsTale(s)' = ClientsTale(s)
  BY TaleStable DEF Answered
<1>3. told' = [s \in Req |-> IF s \in stopped /\ phase[s] = "open" THEN told'[s] ELSE told[s]]
  BY <1>2 DEF told
<1>4. phase' = [s \in Req |-> IF s \in stopped THEN "closed" ELSE phase[s]]
  BY <1>1 DEF phase
<1>5. \A s \in stopped : phase[s] \in {"open", "served"}
  BY DEF phase
<1> QED
  BY <1>3, <1>4, <1>5, RowsStable DEF L!Stop

----------------------------------------------------------------------------
(* The steps. *)

\* Steps on the way to an answer.
LEMMA MoveStep ==
    ASSUME IInv, IInv', NEW r \in Req, NEW to \in PC \ {"log", "done", "lost"},
           NEW from \in PC \ {"log", "done", "lost"}, Goto(r, from, to),
           UNCHANGED <<provider, resp, request_logs>>
    PROVE  UNCHANGED L!vars
<1>1. LedgerPhase(r) = "open" /\ LedgerPhase(r)' = "open" /\ pc \in [Req -> PC]
  BY DEF Goto, LedgerPhase, IInv, TypeOK
<1> QED
  BY <1>1, NothingSeen DEF Goto, Answered

LEMMA RejectStep ==
    ASSUME IInv, IInv', NEW r \in Req, NEW from \in PC \ {"log", "done", "lost"},
           NEW status \in Nat \ {502}, Reject(r, from, status)
    PROVE  L!Answer(r, "refused")
<1>1. resp'[r] = [status |-> status, body |-> Nobody] /\ pc'[r] = "done"
           /\ resp'[r] # NoResponse
  BY NullAssumption DEF Reject, Goto, IInv, TypeOK
<1>2. LedgerPhase(r) = "open" /\ LedgerPhase(r)' = "refused"
  BY <1>1 DEF Reject, Goto, LedgerPhase, Refused
<1> QED
  BY <1>1, <1>2, AnswerSeen DEF Reject, Goto, IInv, TypeOK

LEMMA ReturnStep ==
    ASSUME IInv, IInv', NEW r \in Req, NEW from \in PC \ {"log", "done", "lost"},
           NEW status \in Nat, NEW body \in Req \cup {Nobody}, NEW record,
           Return(r, from, status, body, record)
    PROVE  L!Answer(r, "served")
<1>1. resp'[r] = [status |-> status, body |-> body] /\ pc'[r] = "log"
  BY DEF Return, Goto, IInv, TypeOK
<1>2. LedgerPhase(r) = "open" /\ LedgerPhase(r)' = "served"
  BY <1>1 DEF Return, Goto, LedgerPhase
<1> QED
  BY <1>1, <1>2, AnswerSeen DEF Return, Goto, IInv, TypeOK

\* The record of a request tells what its client was told.
LEMMA RecordTells ==
    ASSUME IInv, NEW row \in background \cup request_logs
    PROVE  /\ row.req \in Req /\ RowsTale(row) = ClientsTale(row.req)
           /\ resp[row.req] # NoResponse
<1>1. row \in Row /\ RowOk(row)
  BY DEF IInv, TypeOK, RowsOk
<1> QED
  BY <1>1 DEF Row, RowOk, RowsTale, ClientsTale

LEMMA WriteLogStep ==
    ASSUME IInv, Queued, NEW r \in Req, WriteLog(r) PROVE [L!Next]_L!vars
<1>1. /\ pc[r] = "log" /\ pc'[r] = "done"
      /\ \A s \in Req \ {r} : pc'[s] = pc[s]
      /\ UNCHANGED <<provider, resp>>
  BY DEF WriteLog, Goto, IInv, TypeOK
<1>2. LedgerPhase(r) = "served"
  BY <1>1 DEF LedgerPhase
<1>3. CASE \E row \in background : row.req = r /\ request_logs' = request_logs \cup {row}
  <2>1. PICK row \in background : row.req = r /\ request_logs' = request_logs \cup {row}
    BY <1>3
  <2>2. RowsTale(row) = ClientsTale(r) /\ RowOk(row)
    BY <2>1, RecordTells DEF IInv, RowsOk
  <2>3. ~Refused(r) /\ ~Refused(r)'
    BY <1>1, <2>1, <2>2 DEF RowOk, Refused
  <2>4. LedgerPhase(r)' = "closed"
    BY <1>1, <2>3 DEF LedgerPhase
  <2>5. \A s \in Req : ClientsTale(s)' = ClientsTale(s)
    BY <1>1, TaleStable DEF Answered
  <2>6. \A s \in Req \ {r} : LedgerPhase(s)' = LedgerPhase(s)
    BY <1>1, PhaseStable
  <2>7. phase[r] = "served" /\ phase' = [phase EXCEPT ![r] = "closed"] /\ told' = told
    BY <1>2, <2>4, <2>5, <2>6 DEF phase, told
  <2>8. rows' = rows \cup {[call |-> r, tale |-> told[r]]}
    BY <2>1, <2>2 DEF rows, told, RowsTale
  <2> QED
    BY <2>7, <2>8 DEF L!Record, L!Next
<1>4. CASE UNCHANGED request_logs
  <2>1. PICK row \in background : row.req = r /\ RowOk(row)
    BY <1>1 DEF Queued, IInv, RowsOk
  <2>2. LedgerPhase(r)' = "closed"
    BY <1>1, <2>1 DEF RowOk, LedgerPhase, Refused
  <2>3. L!Stop({r})
    BY <1>1, <1>2, <1>4, <2>2, StopSeen
  <2> QED
    BY <2>3 DEF L!Next
<1>5. request_logs' = request_logs \cup {row \in background : row.req = r} \/ UNCHANGED request_logs
  BY DEF WriteLog
<1>6. \A a, b \in background : a.req = b.req => a = b
  BY DEF IInv, RowsOk
<1> QED
  BY <1>3, <1>4, <1>5, <1>6

LEMMA CrashStep ==
    ASSUME IInv, Queued, NEW m \in Machine, Crash(m) PROVE L!Next
<1> DEFINE running == {r \in Req : Host[r] = m /\ pc[r] \notin {"idle", "done", "lost"}}
<1>1. /\ \A s \in running : pc'[s] = "lost"
      /\ \A s \in Req \ running : pc'[s] = pc[s]
      /\ UNCHANGED <<provider, resp, request_logs>>
  BY DEF Crash
<1>2. \A s \in running : LedgerPhase(s) \in {"open", "served"} /\ LedgerPhase(s)' = "closed"
  BY <1>1 DEF LedgerPhase
<1> HIDE DEF running
<1>3. running \in SUBSET Req
  BY DEF running
<1>4. L!Stop(running)
  BY <1>1, <1>2, <1>3, StopSeen
<1> QED
  BY <1>3, <1>4 DEF L!Next

\* Every step of Proxy is a step of the ledger, or one it does not see.
LEMMA LedgerStep ==
    ASSUME IInv, IInv', Queued, [Next]_vars PROVE [L!Next]_L!vars
<1> USE DEF PC
<1>1. ASSUME NEW r \in Req, NEW from \in PC \ {"log", "done", "lost"},
             Reject(r, from, 401) \/ Reject(r, from, 429) \/ Reject(r, from, 500)
      PROVE  L!Next
  BY <1>1, RejectStep DEF L!Next
<1>2. ASSUME NEW r \in Req, Arrive(r) PROVE UNCHANGED L!vars
  BY <1>2, MoveStep DEF Arrive
<1>3. ASSUME NEW r \in Req, Authenticate(r) \/ CheckRateLimit(r) PROVE [L!Next]_L!vars
  <2>1. CASE \/ Goto(r, "auth", "limit") /\ UNCHANGED <<provider, resp, request_logs>>
             \/ Goto(r, "limit", "body") /\ UNCHANGED <<provider, resp, request_logs>>
    BY <2>1, MoveStep
  <2>2. CASE Reject(r, "auth", 401) \/ Reject(r, "auth", 500) \/ Reject(r, "limit", 429)
    BY <2>2, <1>1
  <2> QED
    BY <1>3, <2>1, <2>2 DEF Authenticate, CheckRateLimit
<1>4. ASSUME NEW r \in Req, ReadBody(r) PROVE [L!Next]_L!vars
  <2>0. CASE Reject(r, "body", 500)
    BY <2>0, <1>1
  <2>3. ASSUME ~Reject(r, "body", 500) PROVE UNCHANGED <<provider, resp, request_logs>>
    BY <1>4, <2>3 DEF ReadBody
  <2>1. CASE ~Reject(r, "body", 500) /\ \E to \in {"streaming", "lookup", "upstream"} : Goto(r, "body", to)
    BY <2>1, <2>3, MoveStep
  <2>2. CASE ~Reject(r, "body", 500) /\ Goto(r, "body", "lost")
    <3>1. LedgerPhase(r) = "open" /\ LedgerPhase(r)' = "closed"
      BY <2>2 DEF Goto, LedgerPhase, IInv, TypeOK
    <3>2. L!Stop({r})
      BY <2>2, <2>3, <3>1, StopSeen DEF Goto, IInv, TypeOK
    <3> QED
      BY <3>2 DEF L!Next
  <2> QED
    BY <1>4, <2>0, <2>1, <2>2 DEF ReadBody
<1>5. ASSUME NEW r \in Req, CacheMiss(r) \/ Receive(r) \/ CacheStore(r) PROVE [L!Next]_L!vars
  <2>1. CASE /\ UNCHANGED <<provider, resp, request_logs>>
             /\ \/ \E to \in {"upstream"} : Goto(r, "lookup", to)
                \/ \E to \in {"store", "answer"} : Goto(r, "upstream", to)
                \/ \E to \in {"answer"} : Goto(r, "store", to)
    BY <2>1, MoveStep
  <2>2. CASE Reject(r, "upstream", 500)
    BY <2>2, <1>1
  <2> QED
    BY <1>5, <2>1, <2>2 DEF CacheMiss, Receive, CacheStore
<1>6. ASSUME NEW r \in Req, CacheHit(r) PROVE L!Next
  <2>1. CASE Reject(r, "lookup", 500)
    BY <2>1, <1>1
  <2>2. CASE \E rec : Return(r, "lookup", 200, cache[KeyOf(r)], rec)
    <3>1. cache[KeyOf(r)] \in Req
      BY <1>6, KeyType DEF CacheHit, Found, IInv, TypeOK, ControlOk
    <3> QED
      BY <2>2, <3>1, ReturnStep DEF L!Next
  <2> QED
    BY <1>6, <2>1, <2>2, Returns
<1>7. ASSUME NEW r \in Req, UpstreamFails(r) PROVE L!Next
  <2>1. CASE Reject(r, "upstream", 500)
    BY <2>1, <1>1
  <2>2. CASE \E rec : Return(r, "upstream", 502, Nobody, rec)
    <3>1. L!Answer(r, "served")
      BY <2>2, ReturnStep
    <3> QED
      BY <3>1 DEF L!Next
  <2> QED
    BY <1>7, <2>1, <2>2, Returns
<1>8. ASSUME NEW r \in Req, Answer(r) PROVE L!Next
  <2>1. CASE Reject(r, "answer", 500)
    BY <2>1, <1>1
  <2>2. CASE \E rec : Return(r, "answer", provider[r].status, r, rec)
    <3>1. provider[r].status \in Nat
      BY <1>8, ProviderType DEF Answer, IInv, ControlOk
    <3> QED
      BY <2>2, <3>1, ReturnStep DEF L!Next
  <2> QED
    BY <1>8, <2>1, <2>2, Returns
<1>9. ASSUME NEW r \in Req, WriteLog(r) PROVE [L!Next]_L!vars
  BY <1>9, WriteLogStep
<1>10. ASSUME NEW m \in Machine, Crash(m) PROVE L!Next
  BY <1>10, CrashStep
<1>11. CASE \/ \E r \in Req : ProviderAnswers(r)
            \/ \E x \in TapKey \cup Project : Deactivate(x)
            \/ \E k \in CacheKeys : Expire(k)
            \/ UNCHANGED vars
  <2>1. Answered /\ UNCHANGED <<pc, resp, request_logs>>
    BY <1>11 DEF ProviderAnswers, Deactivate, Expire, vars, Answered, IInv, TypeOK
  <2>2. \A s \in Req : LedgerPhase(s)' = LedgerPhase(s) /\ ClientsTale(s)' = ClientsTale(s)
    BY <2>1, PhaseStable, TaleStable
  <2> QED
    BY <2>1, <2>2, RowsStable DEF L!vars, phase, told
<1> QED
  BY <1>2, <1>3, <1>4, <1>5, <1>6, <1>7, <1>8, <1>9, <1>10, <1>11 DEF Next, Handle

LEMMA LedgerInit == Init => L!Init
<1> SUFFICES ASSUME Init PROVE L!Init
  OBVIOUS
<1>1. \A r \in Req : LedgerPhase(r) = "open" /\ ClientsTale(r) = NoResponse
  BY DEF Init, LedgerPhase, ClientsTale
<1> QED
  BY <1>1 DEF Init, L!Init, phase, told, rows

\* proxy() implements the ledger: for any number of requests on any machines,
\* with every fault, a row is written at most once, after the answer it tells
\* of, never for a refusal, and it stays as it was written.
THEOREM ImplementsLedger == Spec => KeepsTheLedger
<1>1. IInv /\ IInv' /\ Queued /\ [Next]_vars => [L!Next]_L!vars
  BY LedgerStep
<1> QED
  BY <1>1, LedgerInit, Invariance, QueuedAlways, PTL DEF Spec, L!Spec, KeepsTheLedger
=============================================================================
