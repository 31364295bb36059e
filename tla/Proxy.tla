------------------------------- MODULE Proxy -------------------------------
(***************************************************************************)
(* llmobs, the proxy between the exporters of OpenTelemetry SDKs and the   *)
(* Collector (observability/src/llmobs).  A batch that arrives is decoded, *)
(* its spans stamped with the device's memory and counted into metrics,    *)
(* and it is forwarded; the Collector's answer is mirrored.                *)
(*                                                                         *)
(* Requests are coroutines of one event loop: from the body's arrival to   *)
(* the upstream call nothing else runs on it, but the thread that exports  *)
(* metrics reads the memory sampler at the same time.  The exporter        *)
(* (external) sends a batch again after a retryable answer or a timeout,   *)
(* and the proxy goes on with the attempt whose sender has hung up.        *)
(* Abstracted: attributes to the kind of span they make, sizes and labels  *)
(* of metrics, the API key, and the operational pages.                     *)
(***************************************************************************)
EXTENDS Naturals, Integers, FiniteSets, Sequences

CONSTANTS
  Batch,      \* the batches the applications export
  Contents,   \* what a batch may hold, see Content
  MaxTries,   \* bound: attempts the exporter makes with one batch
  CacheTtl,   \* LLMOBS_MEMORY_CACHE_MS in ticks of the clock
  MaxTime,    \* bound: ticks of the clock
  MaxFaults,  \* bound: failures of the Collector or the way to it
  MaxCrashes  \* bound: restarts of the proxy

(* A span is a model call, one with error status, one whose token count    *)
(* cannot be converted (as_int raises on a NaN or infinite double), a      *)
(* routing parent that carries the tokens of its children, or not LLM's.   *)
SpanKinds == {"call", "failed", "bad", "parent", "other"}
Signals == {"traces", "metrics", "logs"}
Content == [signal : Signals, gzip : BOOLEAN, sound : BOOLEAN,
            spans : Seq(SpanKinds)]

ASSUME ContentAssumption == Contents \subseteq Content
ASSUME TriesAssumption == MaxTries \in Nat \ {0}
ASSUME ClockAssumption ==
  CacheTtl \in Nat /\ MaxTime \in Nat /\ MaxFaults \in Nat /\ MaxCrashes \in Nat

Attempts == Batch \X (1 .. MaxTries)
NoAttempt == <<>>
Stages == {"idle", "queued", "sampling", "reading", "forwarding", "answered", "ended"}
Codes == {"ok", "bad_request", "unavailable"}
Waits == {"queued", "waiting", "delivered", "dropped"}

VARIABLES
  content,   \* content[b]: what batch b holds
  tries,     \* tries[b]: attempts made so far
  sdk,       \* sdk[b]: where the exporter is with b
  refused,   \* refused[b]: the exporter was told that b itself is at fault
  stage,     \* stage[h]: where the coroutine of attempt h is
  body,      \* body[h]: [gzip, stamped, counted] of what h forwards
  code,      \* code[h]: the answer h mirrors
  taken,     \* the attempts whose body the Collector took
  meter,     \* the derived counters of this life of the proxy
  stats,     \* RollingStats of this life
  cached,    \* the sampler's snapshot, [at, read]: captured_at and when read
  sampler,   \* sampler[t]: thread t inside sample()
  oldest,    \* history: the age of the oldest reading handed out
  clock, faults, crashes

exportVars == <<tries, sdk, refused>>
coVars == <<stage, body, code>>
meterVars == <<meter, stats>>
sampleVars == <<cached, sampler, oldest>>
boundVars == <<faults, crashes>>
vars == <<content, exportVars, coVars, taken, meterVars, sampleVars, clock, boundVars>>

-----------------------------------------------------------------------------
IsLlmSpan(kind) == kind # "other"
IsModelCall(kind) == kind \in {"call", "failed", "bad"}

(* process_traces walks the spans in order until one of them raises.       *)
Throws(spans) == \E i \in DOMAIN spans : spans[i] = "bad"
Walked(spans) == {i \in DOMAIN spans : \A j \in 1 .. i - 1 : spans[j] # "bad"}
CountOf(spans, Kind(_)) == Cardinality({i \in Walked(spans) : Kind(spans[i])})

Requests(spans) == CountOf(spans, IsModelCall)
Observed(spans) == CountOf(spans, LAMBDA k : IsModelCall(k) /\ k # "bad")
Errors(spans)   == CountOf(spans, LAMBDA k : k = "failed")

NoMeter == [requests |-> 0, tokens |-> 0]
NoStats == [spans |-> 0, calls |-> 0, tokens |-> 0, errors |-> 0,
            forwarded |-> 0, failed |-> 0]
NoBody == [gzip |-> FALSE, stamped |-> FALSE, counted |-> FALSE]
NoSnapshot == [at |-> -1, read |-> -1]

(* The two threads that call sample(): the event loop, and the metric      *)
(* reader's whose gauges pull it.                                          *)
Threads == {"loop", "reader"}
NotSampling == [pc |-> "out", now |-> 0, read |-> 0]

ProxyInit ==
  /\ content \in [Batch -> Contents]
  /\ tries = [b \in Batch |-> 0]
  /\ sdk = [b \in Batch |-> "queued"]
  /\ refused = [b \in Batch |-> FALSE]
  /\ stage = [h \in Attempts |-> "idle"]
  /\ body = [h \in Attempts |-> NoBody]
  /\ code = [h \in Attempts |-> "ok"]
  /\ taken = {}
  /\ meter = NoMeter
  /\ stats = NoStats
  /\ cached = NoSnapshot
  /\ sampler = [t \in Threads |-> NotSampling]
  /\ oldest = 0
  /\ clock = 0
  /\ faults = 0
  /\ crashes = 0

-----------------------------------------------------------------------------
(* The exporter of the SDK (external).                                     *)
Latest(b) == <<b, tries[b]>>
AfterFailure(b) == IF tries[b] < MaxTries THEN "queued" ELSE "dropped"

(* The exporter posts the batch.                                           *)
Export(b) ==
  /\ sdk[b] = "queued"
  /\ tries' = [tries EXCEPT ![b] = @ + 1]
  /\ sdk' = [sdk EXCEPT ![b] = "waiting"]
  /\ stage' = [stage EXCEPT ![<<b, tries[b] + 1>>] = "queued"]
  /\ UNCHANGED <<content, refused, body, code, taken, meterVars, sampleVars,
                 clock, boundVars>>

(* Its timeout passes before an answer comes; the coroutine works on.      *)
ExportTimeout(b) ==
  /\ sdk[b] = "waiting"
  /\ sdk' = [sdk EXCEPT ![b] = AfterFailure(b)]
  /\ UNCHANGED <<content, tries, refused, coVars, taken, meterVars, sampleVars,
                 clock, boundVars>>

(* What it makes of an answer: a 4xx is the batch's fault, a 5xx is not.   *)
Heard(b, c) ==
  CASE c = "ok"          -> "delivered"
    [] c = "bad_request" -> "dropped"
    [] c = "unavailable" -> AfterFailure(b)

-----------------------------------------------------------------------------
(* The memory sampler: the cache is read and written under a lock that is  *)
(* not held while psutil is asked.                                         *)
Fresh(now) == cached.at >= 0 /\ now - cached.at < CacheTtl
Age(now, read) == IF now > read THEN now - read ELSE 0
Older(age) == IF age > oldest THEN age ELSE oldest

(* sample() finds no fresh snapshot and goes to ask psutil.                *)
Misses(t) ==
  /\ sampler[t].pc = "out"
  /\ ~Fresh(clock)
  /\ sampler' = [sampler EXCEPT ![t] = [pc |-> "asking", now |-> clock, read |-> 0]]
  /\ UNCHANGED <<cached, oldest>>

(* sample() answers from the cache.                                        *)
Hits(t) ==
  /\ sampler[t].pc = "out"
  /\ Fresh(clock)
  /\ oldest' = Older(Age(clock, cached.read))
  /\ UNCHANGED <<cached, sampler>>

Reads(t) ==
  /\ sampler[t].pc = "asking"
  /\ sampler' = [sampler EXCEPT ![t] = [pc |-> "storing", now |-> @.now, read |-> clock]]
  /\ UNCHANGED <<cached, oldest>>

(* Mutant: captured_at is the time the snapshot is stored.                 *)
SnapshotStored(t) == [at |-> clock, read |-> sampler[t].read]

(* captured_at is the time sample() was entered.                           *)
Snapshot(t) == [at |-> sampler[t].now, read |-> sampler[t].read]

Stores(t) ==
  /\ sampler[t].pc = "storing"
  /\ cached' = Snapshot(t)
  /\ oldest' = Older(Age(sampler[t].now, sampler[t].read))
  /\ sampler' = [sampler EXCEPT ![t] = NotSampling]

(* The exporter thread of the derived metrics reads a gauge.               *)
Gauge ==
  /\ \/ Misses("reader")
     \/ Hits("reader")
     \/ Reads("reader")
     \/ Stores("reader")
  /\ UNCHANGED <<content, exportVars, coVars, taken, meterVars, clock, boundVars>>

Tick ==
  /\ clock < MaxTime
  /\ clock' = clock + 1
  /\ UNCHANGED <<content, exportVars, coVars, taken, meterVars, sampleVars, boundVars>>

-----------------------------------------------------------------------------
(* The coroutine of an attempt.                                            *)
Of(h) == content[h[1]]

(* The loop is free when no coroutine is inside process_traces.            *)
LoopFree == \A h \in Attempts : stage[h] \notin {"sampling", "reading"}

(* Mutant: the enriched batch is compressed again.                         *)
EnrichedCompressed == [gzip |-> TRUE, stamped |-> TRUE, counted |-> TRUE]

Unmodified(h) == [gzip |-> Of(h).gzip, stamped |-> FALSE, counted |-> FALSE]
Enriched == [gzip |-> FALSE, stamped |-> TRUE, counted |-> TRUE]

(* /v1/metrics, /v1/logs, and traces that do not decode: forwarded as is.  *)
PassThrough(h) ==
  /\ stage[h] = "queued"
  /\ LoopFree
  /\ Of(h).signal # "traces" \/ ~Of(h).sound
  /\ stage' = [stage EXCEPT ![h] = "forwarding"]
  /\ body' = [body EXCEPT ![h] = Unmodified(h)]
  /\ UNCHANGED <<content, exportVars, code, taken, meterVars, sampleVars,
                 clock, boundVars>>

(* A gzip body cut short raises what decode does not catch: a 500.         *)
CutShort(h) ==
  /\ stage[h] = "queued"
  /\ LoopFree
  /\ Of(h).signal = "traces" /\ Of(h).gzip /\ ~Of(h).sound
  /\ stage' = [stage EXCEPT ![h] = "answered"]
  /\ code' = [code EXCEPT ![h] = "unavailable"]
  /\ UNCHANGED <<content, exportVars, body, taken, meterVars, sampleVars,
                 clock, boundVars>>

(* Mutant: counted in one go after the walk, so not at all if it raises.   *)
DeriveWhole(h) ==
  LET spans == Of(h).spans
      ok == ~Throws(spans)
  IN
  /\ meter' = [requests |-> meter.requests + (IF ok THEN Requests(spans) ELSE 0),
               tokens   |-> meter.tokens + (IF ok THEN Observed(spans) ELSE 0)]
  /\ stats' = [stats EXCEPT !.calls = @ + (IF ok THEN Observed(spans) ELSE 0),
                            !.tokens = @ + (IF ok THEN Observed(spans) ELSE 0),
                            !.errors = @ + (IF ok THEN Errors(spans) ELSE 0)]
  /\ body' = [body EXCEPT ![h] = IF ok THEN Enriched ELSE Unmodified(h)]
  /\ stage' = [stage EXCEPT ![h] = "forwarding"]

(* process_traces after its reading: every span is walked and counted; one *)
(* that raises leaves what was counted before it and forwards the original.*)
Derive(h) ==
  LET spans == Of(h).spans IN
  /\ meter' = [requests |-> meter.requests + Requests(spans),
               tokens   |-> meter.tokens + Observed(spans)]
  /\ stats' = [stats EXCEPT !.calls = @ + Observed(spans),
                            !.tokens = @ + Observed(spans),
                            !.errors = @ + Errors(spans)]
  /\ body' = [body EXCEPT ![h] = IF Throws(spans) THEN Unmodified(h) ELSE Enriched]
  /\ stage' = [stage EXCEPT ![h] = "forwarding"]

(* A batch of spans decodes; a fresh snapshot is in the cache.             *)
EnrichCached(h) ==
  /\ stage[h] = "queued"
  /\ LoopFree
  /\ Of(h).signal = "traces" /\ Of(h).sound
  /\ Hits("loop")
  /\ Derive(h)
  /\ UNCHANGED <<content, exportVars, code, taken, clock, boundVars>>

(* Or there is none, and the loop waits for psutil.                        *)
EnrichAsks(h) ==
  /\ stage[h] = "queued"
  /\ LoopFree
  /\ Of(h).signal = "traces" /\ Of(h).sound
  /\ Misses("loop")
  /\ stage' = [stage EXCEPT ![h] = "sampling"]
  /\ UNCHANGED <<content, exportVars, body, code, taken, meterVars, clock, boundVars>>

EnrichReads(h) ==
  /\ stage[h] = "sampling"
  /\ Reads("loop")
  /\ stage' = [stage EXCEPT ![h] = "reading"]
  /\ UNCHANGED <<content, exportVars, body, code, taken, meterVars, clock, boundVars>>

EnrichStores(h) ==
  /\ stage[h] = "reading"
  /\ Stores("loop")
  /\ Derive(h)
  /\ UNCHANGED <<content, exportVars, code, taken, clock, boundVars>>

-----------------------------------------------------------------------------
(* The Collector (external).  The proxy drops Content-Encoding from every  *)
(* request it forwards, so a body that is still compressed is not read.    *)
Readable(h) == Of(h).sound /\ ~body[h].gzip

Answers(h, c) ==
  /\ stage' = [stage EXCEPT ![h] = "answered"]
  /\ code' = [code EXCEPT ![h] = c]
  /\ UNCHANGED <<content, exportVars, body, meterVars, sampleVars, clock, crashes>>

CollectorTakes(h) ==
  /\ stage[h] = "forwarding"
  /\ Readable(h)
  /\ taken' = taken \cup {h}
  /\ Answers(h, "ok")
  /\ UNCHANGED faults

(* It takes the body but its answer comes after forward_timeout_s: 503.    *)
AnswerLost(h) ==
  /\ stage[h] = "forwarding"
  /\ Readable(h)
  /\ faults < MaxFaults
  /\ faults' = faults + 1
  /\ taken' = taken \cup {h}
  /\ Answers(h, "unavailable")

CollectorRefuses(h) ==
  /\ stage[h] = "forwarding"
  /\ ~Readable(h)
  /\ Answers(h, "bad_request")
  /\ UNCHANGED <<taken, faults>>

(* Mutant: the batch is accepted although nobody took it.                  *)
UnreachableAccepted(h) ==
  /\ stage[h] = "forwarding"
  /\ faults < MaxFaults
  /\ faults' = faults + 1
  /\ Answers(h, "ok")
  /\ UNCHANGED taken

(* The Collector is not there (an HTTPError: 503) or overloaded (its 503). *)
Unreachable(h) ==
  /\ stage[h] = "forwarding"
  /\ faults < MaxFaults
  /\ faults' = faults + 1
  /\ Answers(h, "unavailable")
  /\ UNCHANGED taken

(* record_batch counts enriched batches as forwarded or failed.            *)
RecordBatch(h) ==
  IF ~body[h].counted THEN stats
  ELSE IF code[h] = "ok"
       THEN [stats EXCEPT !.spans = @ + Len(Of(h).spans), !.forwarded = @ + 1]
       ELSE [stats EXCEPT !.spans = @ + Len(Of(h).spans), !.failed = @ + 1]

(* The answer is mirrored; an exporter that has hung up does not hear it.  *)
Return(h) ==
  /\ stage[h] = "answered"
  /\ LoopFree
  /\ stage' = [stage EXCEPT ![h] = "ended"]
  /\ body' = [body EXCEPT ![h] = NoBody]
  /\ code' = [code EXCEPT ![h] = "ok"]
  /\ stats' = RecordBatch(h)
  /\ LET b == h[1] IN
     IF sdk[b] = "waiting" /\ h = Latest(b)
     THEN /\ sdk' = [sdk EXCEPT ![b] = Heard(b, code[h])]
          /\ refused' = [refused EXCEPT ![b] = @ \/ code[h] = "bad_request"]
     ELSE UNCHANGED <<sdk, refused>>
  /\ UNCHANGED <<content, tries, taken, meter, sampleVars, clock, boundVars>>

(* The proxy dies and starts again: its memory is lost, and the exporters  *)
(* that wait see their connection break.                                   *)
Restart ==
  /\ crashes < MaxCrashes
  /\ crashes' = crashes + 1
  /\ stage' = [h \in Attempts |-> IF stage[h] = "idle" THEN "idle" ELSE "ended"]
  /\ sdk' = [b \in Batch |-> IF sdk[b] = "waiting" THEN AfterFailure(b) ELSE sdk[b]]
  /\ body' = [h \in Attempts |-> NoBody]
  /\ code' = [h \in Attempts |-> "ok"]
  /\ meter' = NoMeter
  /\ stats' = NoStats
  /\ cached' = NoSnapshot
  /\ sampler' = [t \in Threads |-> NotSampling]
  /\ UNCHANGED <<content, tries, refused, taken, oldest, clock, faults>>

Coroutine(h) ==
  \/ PassThrough(h)
  \/ CutShort(h)
  \/ EnrichCached(h)
  \/ EnrichAsks(h)
  \/ EnrichReads(h)
  \/ EnrichStores(h)
  \/ Return(h)

Collector(h) ==
  \/ CollectorTakes(h)
  \/ CollectorRefuses(h)
  \/ AnswerLost(h)
  \/ Unreachable(h)

ProxyNext ==
  \/ \E b \in Batch : Export(b) \/ ExportTimeout(b)
  \/ \E h \in Attempts : Coroutine(h) \/ Collector(h)
  \/ Gauge
  \/ Tick
  \/ Restart

ProxySpec == ProxyInit /\ [][ProxyNext]_vars

(* The loop runs what is ready; every upstream call returns, at the latest *)
(* after forward_timeout_s; a queued batch is sent by the exporter.        *)
FairProxySpec ==
  /\ ProxySpec
  /\ \A b \in Batch : WF_vars(Export(b))
  /\ \A h \in Attempts : WF_vars(Coroutine(h)) /\ WF_vars(Collector(h))

-----------------------------------------------------------------------------
(* Properties *)

(* A success the exporter hears means the Collector holds the batch, also  *)
(* when attempts overlap or the proxy restarts: it never swallows a batch  *)
(* and reports success (server.py:16-18).                                  *)
SuccessIsDelivery ==
  \A b \in Batch : sdk[b] = "delivered" => \E h \in taken : h[1] = b

(* Only a batch that is damaged is refused as such: the proxy is never the *)
(* reason telemetry is lost (observability/README.md:210, server.py:19).   *)
NeverTheReason == \A b \in Batch : refused[b] => ~content[b].sound

SumOver(S, Size(_)) ==
  Cardinality(UNION {{h} \X (1 .. Size(h)) : h \in S})
Calls(h) == Observed(Of(h).spans)
Spans(h) == Len(Of(h).spans)
Parsed == {h \in Attempts : Of(h).signal = "traces" /\ Of(h).sound}
Made == {h \in Attempts : stage[h] # "idle"}

(* Counting and forwarding are two steps with failures between them: the   *)
(* counters never miss a call the Collector holds, never count a call more *)
(* often than its batch was sent, and the request counter and the stats    *)
(* drift apart only by the spans whose enrichment raised.  /v1/stats       *)
(* counts each enriched attempt once, as forwarded only if the Collector   *)
(* took it, and no attempt that could not be enriched.                     *)
CountedPerAttempt ==
  crashes = 0 =>
    /\ SumOver(taken \cap Parsed, Calls) <= meter.tokens
    /\ meter.tokens <= SumOver(Made \cap Parsed, Calls)
    /\ stats.tokens = meter.tokens
    /\ stats.calls <= meter.requests
    /\ meter.requests - stats.calls
         = Cardinality({h \in Made \cap Parsed :
                          Throws(Of(h).spans)
                            /\ stage[h] \in {"forwarding", "answered", "ended"}})
    /\ LET done == {h \in Parsed : stage[h] = "ended" /\ ~Throws(Of(h).spans)} IN
       /\ stats.forwarded + stats.failed = Cardinality(done)
       /\ stats.spans = SumOver(done, Spans)
       /\ stats.forwarded <= Cardinality(taken \cap done)

(* A reading stamped on a batch or exported as a gauge is younger than the *)
(* cache's time to live, whatever the other thread stores meanwhile.       *)
ReadingsFresh == oldest = 0 \/ oldest < CacheTtl

(* A batch that is whole and readable as it was sent reaches the Collector *)
(* whatever its exporter's timeouts do, as long as failures are fewer than *)
(* attempts and the proxy does not restart.                                *)
Arrives ==
  \A b \in Batch :
    content[b].sound => <>(crashes > 0 \/ \E h \in taken : h[1] = b)

=============================================================================
