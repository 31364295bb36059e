----------------------------- MODULE ProxyProofs -----------------------------
(***************************************************************************)
(* What holds of Proxy for every set of batches and contents and every     *)
(* value of the bounds: a success is a delivery, a reading is fresh, the   *)
(* counters are those of the attempts made, and, where exporters do not    *)
(* compress what is forwarded as it came, a batch is refused for its own   *)
(* faults only.                                                            *)
(*                                                                         *)
(* What the exporter hears was decided steps earlier, by the Collector or  *)
(* by Derive, and kept in code and body in between: the invariants tie     *)
(* these to taken and to the content.  The counters are compared with sets *)
(* that hold one pair for every call, or span, of the attempts counted.    *)
(***************************************************************************)
EXTENDS Proxy, FiniteSetTheorems, TLAPS

\* The variables that control the flow have their types.
FlowTyped ==
  /\ content \in [Batch -> Contents]
  /\ tries \in [Batch -> Nat]
  /\ sdk \in [Batch -> Waits]
  /\ refused \in [Batch -> BOOLEAN]
  /\ stage \in [Attempts -> Stages]
  /\ code \in [Attempts -> Codes]

\* An attempt to be answered with success was taken.
AnswerTrue ==
  \A h \in Attempts : stage[h] = "answered" /\ code[h] = "ok" => h \in taken

DeliveryInv == FlowTyped /\ AnswerTrue /\ SuccessIsDelivery

-----------------------------------------------------------------------------
\* Where an exporter is after a failure.
LEMMA FailureTyped ==
  ASSUME NEW b \in Batch
  PROVE  AfterFailure(b) \in {"queued", "dropped"}
BY DEF AfterFailure

\* The latest attempt with a batch is one with that batch.
LEMMA LatestIsOf == ASSUME NEW b, NEW h, h = Latest(b) PROVE h[1] = b
BY DEF Latest

\* An attempt is with a batch.
LEMMA AttemptOf == ASSUME NEW h \in Attempts PROVE h[1] \in Batch
BY DEF Attempts

\* The steps of the exporter.
LEMMA ExporterKeeps ==
  ASSUME DeliveryInv, NEW b \in Batch, Export(b) \/ ExportTimeout(b)
  PROVE  DeliveryInv'
<1> USE DEF DeliveryInv, FlowTyped
<1>1. CASE Export(b)
  <2>1. PICK k : /\ UNCHANGED <<content, refused, code, taken>>
                 /\ tries' = [tries EXCEPT ![b] = @ + 1]
                 /\ sdk' = [sdk EXCEPT ![b] = "waiting"]
                 /\ stage' = [stage EXCEPT ![k] = "queued"]
    BY <1>1 DEF Export
  <2>2. tries' \in [Batch -> Nat]
    BY <2>1
  <2>3. sdk' \in [Batch -> Waits]
    BY <2>1 DEF Waits
  <2>4. stage' \in [Attempts -> Stages]
    BY <2>1 DEF Stages
  <2>5. AnswerTrue'
    BY <2>1 DEF AnswerTrue
  <2>6. SuccessIsDelivery'
    BY <2>1 DEF SuccessIsDelivery
  <2> QED
    BY <2>1, <2>2, <2>3, <2>4, <2>5, <2>6
<1>2. CASE ExportTimeout(b)
  <2>1. /\ UNCHANGED <<content, tries, refused, stage, code, taken>>
        /\ sdk' = [sdk EXCEPT ![b] = AfterFailure(b)]
    BY <1>2 DEF ExportTimeout, coVars
  <2>2. sdk' \in [Batch -> Waits]
    BY <2>1, FailureTyped DEF Waits
  <2>3. AnswerTrue'
    BY <2>1 DEF AnswerTrue
  <2>4. SuccessIsDelivery'
    BY <2>1, FailureTyped DEF SuccessIsDelivery
  <2> QED
    BY <2>1, <2>2, <2>3, <2>4
<1> QED
  BY <1>1, <1>2

\* A coroutine on its way to the Collector.
LEMMA ForwardKeeps ==
  ASSUME DeliveryInv, NEW h \in Attempts,
         \/ PassThrough(h) \/ CutShort(h) \/ EnrichCached(h) \/ EnrichAsks(h)
         \/ EnrichReads(h) \/ EnrichStores(h)
  PROVE  DeliveryInv'
<1> USE DEF DeliveryInv, FlowTyped
<1>1. UNCHANGED <<content, tries, sdk, refused, taken>>
  BY DEF PassThrough, CutShort, EnrichCached, EnrichAsks, EnrichReads,
         EnrichStores, exportVars
<1>2. \/ /\ code' = code
         /\ \E s \in Stages \ {"answered"} : stage' = [stage EXCEPT ![h] = s]
      \/ /\ code' = [code EXCEPT ![h] = "unavailable"]
         /\ stage' = [stage EXCEPT ![h] = "answered"]
  BY DEF PassThrough, CutShort, EnrichCached, EnrichAsks, EnrichReads,
         EnrichStores, Derive, Stages
<1>3. stage' \in [Attempts -> Stages] /\ code' \in [Attempts -> Codes]
  BY <1>2 DEF Stages, Codes
<1>4. AnswerTrue'
  BY <1>1, <1>2 DEF AnswerTrue
<1> QED
  BY <1>1, <1>3, <1>4 DEF SuccessIsDelivery

\* The Collector's answer, or its absence.
LEMMA CollectorKeeps ==
  ASSUME DeliveryInv, NEW h \in Attempts, Collector(h)
  PROVE  DeliveryInv'
<1> USE DEF DeliveryInv, FlowTyped
<1>1. PICK c \in Codes :
        /\ Answers(h, c)
        /\ taken \subseteq taken'
        /\ c = "ok" => h \in taken'
  BY DEF Collector, CollectorTakes, CollectorRefuses, AnswerLost, Unreachable,
         Codes
<1>2. /\ UNCHANGED <<content, tries, sdk, refused>>
      /\ stage' = [stage EXCEPT ![h] = "answered"]
      /\ code' = [code EXCEPT ![h] = c]
  BY <1>1 DEF Answers, exportVars
<1>3. stage' \in [Attempts -> Stages] /\ code' \in [Attempts -> Codes]
  BY <1>2 DEF Stages
<1>4. AnswerTrue'
  BY <1>1, <1>2 DEF AnswerTrue
<1>5. SuccessIsDelivery'
  BY <1>1, <1>2 DEF SuccessIsDelivery
<1> QED
  BY <1>2, <1>3, <1>4, <1>5

\* What the exporter makes of an answer.
LEMMA HeardTyped ==
  ASSUME NEW b \in Batch, NEW c \in Codes
  PROVE  /\ Heard(b, c) \in Waits
         /\ Heard(b, c) = "delivered" => c = "ok"
BY FailureTyped DEF Heard, Codes, Waits

\* The answer is mirrored.
LEMMA ReturnKeeps ==
  ASSUME DeliveryInv, NEW h \in Attempts, Return(h)
  PROVE  DeliveryInv'
<1> USE DEF DeliveryInv, FlowTyped
<1> DEFINE b == h[1]
<1>1. b \in Batch
  BY AttemptOf
<1>2. /\ UNCHANGED <<content, tries, taken>>
      /\ stage[h] = "answered"
      /\ stage' = [stage EXCEPT ![h] = "ended"]
      /\ code' = [code EXCEPT ![h] = "ok"]
  BY DEF Return
<1>3. stage' \in [Attempts -> Stages] /\ code' \in [Attempts -> Codes]
  BY <1>2 DEF Stages, Codes
<1>4. AnswerTrue'
  BY <1>2 DEF AnswerTrue
<1>5. /\ sdk' \in [Batch -> Waits] /\ refused' \in [Batch -> BOOLEAN]
      /\ SuccessIsDelivery'
  <2>1. CASE sdk[b] = "waiting" /\ h = Latest(b)
    <3>1. /\ sdk' = [sdk EXCEPT ![b] = Heard(b, code[h])]
          /\ refused' = [refused EXCEPT ![b] = @ \/ code[h] = "bad_request"]
      BY <2>1 DEF Return
    <3>2. sdk' \in [Batch -> Waits]
      BY <1>1, <3>1, HeardTyped
    <3>3. refused' \in [Batch -> BOOLEAN]
      BY <3>1
    <3>4. sdk'[b] = "delivered" => h \in taken
      BY <1>1, <1>2, <3>1, HeardTyped DEF AnswerTrue
    <3>5. SuccessIsDelivery'
      BY <1>2, <3>1, <3>4 DEF SuccessIsDelivery
    <3> QED
      BY <3>2, <3>3, <3>5
  <2>2. CASE ~(sdk[b] = "waiting" /\ h = Latest(b))
    BY <1>2, <2>2 DEF Return, SuccessIsDelivery
  <2> QED
    BY <2>1, <2>2
<1> QED
  BY <1>2, <1>3, <1>4, <1>5

\* A restart forgets every answer under way.
LEMMA RestartKeeps ==
  ASSUME DeliveryInv, Restart
  PROVE  DeliveryInv'
<1> USE DEF DeliveryInv, FlowTyped, Restart
<1>1. stage' \in [Attempts -> Stages] /\ code' \in [Attempts -> Codes]
  BY DEF Stages, Codes
<1>2. sdk' \in [Batch -> Waits]
  BY FailureTyped DEF Waits
<1>3. AnswerTrue'
  BY DEF AnswerTrue
<1>4. SuccessIsDelivery'
  BY FailureTyped DEF SuccessIsDelivery
<1> QED
  BY <1>1, <1>2, <1>3, <1>4

\* Readings of the gauge thread and the clock do not touch the flow.
LEMMA FlowUndisturbed ==
  ASSUME DeliveryInv,
         UNCHANGED <<content, tries, sdk, refused, stage, code, taken>>
  PROVE  DeliveryInv'
BY DEF DeliveryInv, FlowTyped, AnswerTrue, SuccessIsDelivery

\* Every step keeps the deliveries honest.
LEMMA NextKeepsDelivery == DeliveryInv /\ [ProxyNext]_vars => DeliveryInv'
<1> SUFFICES ASSUME DeliveryInv, [ProxyNext]_vars PROVE DeliveryInv'
  OBVIOUS
<1>1. CASE Gauge \/ Tick \/ UNCHANGED vars
  BY <1>1, FlowUndisturbed DEF Gauge, Tick, vars, exportVars, coVars
<1>2. CASE \E b \in Batch : Export(b) \/ ExportTimeout(b)
  BY <1>2, ExporterKeeps
<1>3. CASE \E h \in Attempts : Coroutine(h)
  BY <1>3, ForwardKeeps, ReturnKeeps DEF Coroutine
<1>4. CASE \E h \in Attempts : Collector(h)
  BY <1>4, CollectorKeeps
<1>5. CASE Restart
  BY <1>5, RestartKeeps
<1> QED
  BY <1>1, <1>2, <1>3, <1>4, <1>5 DEF ProxyNext

\* Nothing is delivered at first.
LEMMA InitDelivery == ProxyInit => DeliveryInv
BY DEF ProxyInit, DeliveryInv, FlowTyped, AnswerTrue, SuccessIsDelivery, Waits,
       Stages, Codes

\* So they are throughout.
LEMMA DeliveryInvariant == ProxySpec => []DeliveryInv
BY InitDelivery, NextKeepsDelivery, PTL DEF ProxySpec

\* However attempts overlap, answers are lost and the proxy restarts, an exporter
\* that is told "ok" can forget its batch: the Collector has it.
THEOREM NothingSwallowed == ProxySpec => []SuccessIsDelivery
<1>1. DeliveryInv => SuccessIsDelivery
  BY DEF DeliveryInv
<1> QED
  BY <1>1, DeliveryInvariant, PTL

-----------------------------------------------------------------------------
(***************************************************************************)
(* Readings are fresh: captured_at is never later than the reading, and no *)
(* time is later than now.                                                 *)
(***************************************************************************)

FreshInv ==
  /\ clock \in Nat /\ oldest \in Nat
  /\ cached \in [at : Int, read : Int]
  /\ cached.at <= cached.read
  /\ sampler \in [Threads -> [pc : {"out", "asking", "storing"},
                              now : Nat, read : Nat]]
  /\ \A t \in Threads :
       /\ sampler[t].now <= clock
       /\ sampler[t].pc = "storing" => sampler[t].now <= sampler[t].read
  /\ ReadingsFresh

\* A reading taken at or after a fresh time is not too old.
LEMMA FreshReading ==
  ASSUME NEW now \in Nat, NEW at \in Int, NEW read \in Int, at <= read,
         now - at < CacheTtl
  PROVE  Age(now, read) \in Nat /\ (Age(now, read) = 0 \/ Age(now, read) < CacheTtl)
BY ClockAssumption DEF Age

\* The older of two fresh ages is fresh.
LEMMA OlderFresh ==
  ASSUME FreshInv, NEW age \in Nat, age = 0 \/ age < CacheTtl
  PROVE  /\ Older(age) \in Nat
         /\ Older(age) = 0 \/ Older(age) < CacheTtl
BY DEF Older, FreshInv, ReadingsFresh

\* A step of sample() in either thread, with what it hands out.
LEMMA SampleFresh ==
  ASSUME FreshInv, UNCHANGED clock, NEW t \in Threads,
         Misses(t) \/ Hits(t) \/ Reads(t) \/ Stores(t)
  PROVE  FreshInv'
<1>1. CASE Misses(t)
  BY <1>1 DEF Misses, FreshInv, ReadingsFresh
<1>2. CASE Hits(t)
  <2>1. clock - cached.at < CacheTtl /\ oldest' = Older(Age(clock, cached.read))
    BY <1>2 DEF Hits, Fresh
  <2>2. oldest' \in Nat /\ ReadingsFresh'
    BY <2>1, FreshReading, OlderFresh DEF FreshInv, ReadingsFresh
  <2> QED
    BY <1>2, <2>2 DEF Hits, FreshInv
<1>3. CASE Reads(t)
  BY <1>3 DEF Reads, FreshInv, ReadingsFresh
<1>4. CASE Stores(t)
  <2>1. /\ cached' = [at |-> sampler[t].now, read |-> sampler[t].read]
        /\ oldest' = Older(Age(sampler[t].now, sampler[t].read))
        /\ sampler' = [sampler EXCEPT ![t] = NotSampling]
        /\ sampler[t].now <= sampler[t].read
    BY <1>4 DEF Stores, Snapshot, FreshInv
  <2>2. Age(sampler[t].now, sampler[t].read) = 0
    BY <2>1 DEF Age, FreshInv
  <2>3. oldest' \in Nat /\ ReadingsFresh'
    BY <2>1, <2>2, OlderFresh DEF FreshInv, ReadingsFresh
  <2> QED
    BY <2>1, <2>3 DEF FreshInv, NotSampling
<1> QED
  BY <1>1, <1>2, <1>3, <1>4

\* Steps that do not sample.
LEMMA SamplesUndisturbed ==
  ASSUME FreshInv, UNCHANGED <<sampleVars, clock>>
  PROVE  FreshInv'
BY DEF FreshInv, ReadingsFresh, sampleVars

\* Every step keeps the readings fresh.
LEMMA NextKeepsFresh == FreshInv /\ [ProxyNext]_vars => FreshInv'
<1> SUFFICES ASSUME FreshInv, [ProxyNext]_vars PROVE FreshInv'
  OBVIOUS
<1>1. CASE Gauge
  BY <1>1, SampleFresh DEF Gauge, Threads
<1>2. CASE Tick
  BY <1>2 DEF Tick, FreshInv, ReadingsFresh, sampleVars
<1>3. ASSUME NEW h \in Attempts, Coroutine(h)
      PROVE  FreshInv'
  <2>1. CASE EnrichCached(h) \/ EnrichAsks(h) \/ EnrichReads(h) \/ EnrichStores(h)
    BY <2>1, SampleFresh
       DEF EnrichCached, EnrichAsks, EnrichReads, EnrichStores, Threads
  <2>2. CASE PassThrough(h) \/ CutShort(h) \/ Return(h)
    BY <2>2, SamplesUndisturbed DEF PassThrough, CutShort, Return
  <2> QED
    BY <1>3, <2>1, <2>2 DEF Coroutine
<1>4. ASSUME NEW h \in Attempts, Collector(h)
      PROVE  FreshInv'
  BY <1>4, SamplesUndisturbed
     DEF Collector, CollectorTakes, CollectorRefuses, AnswerLost, Unreachable,
         Answers
<1>5. CASE \E b \in Batch : Export(b) \/ ExportTimeout(b)
  BY <1>5, SamplesUndisturbed DEF Export, ExportTimeout
<1>6. CASE Restart
  BY <1>6 DEF Restart, FreshInv, ReadingsFresh, NoSnapshot, NotSampling
<1>7. CASE UNCHANGED vars
  BY <1>7, SamplesUndisturbed DEF vars
<1> QED
  BY <1>1, <1>2, <1>3, <1>4, <1>5, <1>6, <1>7 DEF ProxyNext

\* Nothing is read at first.
LEMMA InitFresh == ProxyInit => FreshInv
BY DEF ProxyInit, FreshInv, ReadingsFresh, NoSnapshot, NotSampling

\* Whatever the loop and the metric reader store over each other, and for every
\* time to live, no reading is handed out that is older than it allows.
THEOREM ReadingsStayFresh == ProxySpec => []ReadingsFresh
<1>1. FreshInv => ReadingsFresh
  BY DEF FreshInv
<1> QED
  BY <1>1, InitFresh, NextKeepsFresh, PTL DEF ProxySpec

-----------------------------------------------------------------------------
(***************************************************************************)
(* Refusals.  The Collector refuses what it cannot read.  What is forwarded *)
(* is readable if it was enriched, which decompresses it, or if it was not *)
(* compressed to begin with; so exporters may compress only what is always *)
(* enriched.                                                               *)
(***************************************************************************)

CompressedIsEnriched ==
  \A c \in Contents :
    c.sound /\ c.gzip => c.signal = "traces" /\ ~Throws(c.spans)

\* What is on its way with a sound batch can be read, and is not refused.
RefusalInv ==
  \A h \in Attempts :
    Of(h).sound => /\ stage[h] = "forwarding" => ~body[h].gzip
                   /\ stage[h] = "answered" => code[h] # "bad_request"

BodiesTyped ==
  body \in [Attempts -> [gzip : BOOLEAN, stamped : BOOLEAN, counted : BOOLEAN]]

FaultInv == FlowTyped /\ BodiesTyped /\ RefusalInv /\ NeverTheReason

\* A sound batch that is forwarded as it came was not compressed.
LEMMA UnmodifiedReadable ==
  ASSUME CompressedIsEnriched, FlowTyped, NEW h \in Attempts, Of(h).sound,
         Of(h).signal # "traces" \/ Throws(Of(h).spans)
  PROVE  Of(h).gzip = FALSE
<1>1. Of(h) \in Contents
  BY AttemptOf DEF Of, FlowTyped
<1>2. ~Of(h).gzip /\ Of(h).gzip \in BOOLEAN
  BY <1>1, ContentAssumption DEF CompressedIsEnriched, Content
<1> QED
  BY <1>2

\* A step of attempt h to stage s with what it then forwards.
LEMMA StageKeeps ==
  ASSUME FaultInv, NEW h \in Attempts, NEW s \in Stages,
         stage' = [stage EXCEPT ![h] = s],
         UNCHANGED <<content, tries, sdk, refused, code>>,
         s # "answered", BodiesTyped',
         \A k \in Attempts \ {h} : body'[k] = body[k],
         s = "forwarding" /\ Of(h).sound => ~body'[h].gzip
  PROVE  FaultInv'
<1> USE DEF FaultInv
<1>1. FlowTyped'
  BY DEF FlowTyped
<1>2. RefusalInv'
  BY DEF RefusalInv, Of, FlowTyped
<1>3. NeverTheReason'
  BY DEF NeverTheReason
<1> QED
  BY <1>1, <1>2, <1>3

\* What a coroutine decides to forward.
LEMMA ForwardReadable ==
  ASSUME CompressedIsEnriched, FaultInv, NEW h \in Attempts,
         \/ PassThrough(h) \/ EnrichCached(h) \/ EnrichAsks(h)
         \/ EnrichReads(h) \/ EnrichStores(h)
  PROVE  FaultInv'
<1> USE DEF FaultInv
<1>1. CASE EnrichAsks(h) \/ EnrichReads(h)
  <2>1. PICK s \in {"sampling", "reading"} :
          /\ stage' = [stage EXCEPT ![h] = s]
          /\ UNCHANGED <<content, tries, sdk, refused, body, code>>
    BY <1>1 DEF EnrichAsks, EnrichReads, exportVars
  <2>2. BodiesTyped'
    BY <2>1 DEF BodiesTyped
  <2> QED
    BY <2>1, <2>2, StageKeeps DEF Stages
<1>2. CASE PassThrough(h) \/ EnrichCached(h) \/ EnrichStores(h)
  <2>1. PICK m \in {Unmodified(h), Enriched} :
          /\ stage' = [stage EXCEPT ![h] = "forwarding"]
          /\ body' = [body EXCEPT ![h] = m]
          /\ UNCHANGED <<content, tries, sdk, refused, code>>
          /\ m # Enriched /\ Of(h).sound =>
               Of(h).signal # "traces" \/ Throws(Of(h).spans)
    BY <1>2 DEF PassThrough, EnrichCached, EnrichStores, Derive, exportVars
  <2>2. Of(h).gzip \in BOOLEAN
    BY AttemptOf, ContentAssumption DEF Of, FlowTyped, Content
  <2>3. m \in [gzip : BOOLEAN, stamped : BOOLEAN, counted : BOOLEAN]
    <3>1. CASE m = Enriched
      BY <3>1 DEF Enriched
    <3>2. CASE m = Unmodified(h)
      BY <2>2, <3>2 DEF Unmodified
    <3> QED
      BY <2>1, <3>1, <3>2
  <2>4. BodiesTyped'
    BY <2>1, <2>3 DEF BodiesTyped
  <2>5. ASSUME Of(h).sound PROVE ~m.gzip
    <3>1. CASE m = Enriched
      BY <3>1 DEF Enriched
    <3>2. CASE m # Enriched
      <4>1. Of(h).gzip = FALSE /\ m = Unmodified(h)
        BY <2>1, <2>5, <3>2, UnmodifiedReadable
      <4>2. m.gzip = Of(h).gzip
        BY <4>1 DEF Unmodified
      <4> QED
        BY <4>1, <4>2
    <3> QED
      BY <3>1, <3>2
  <2>6. body'[h] = m
    BY <2>1 DEF BodiesTyped
  <2>7. \A k \in Attempts \ {h} : body'[k] = body[k]
    BY <2>1 DEF BodiesTyped
  <2> QED
    BY <2>1, <2>4, <2>5, <2>6, <2>7, StageKeeps DEF Stages
<1> QED
  BY <1>1, <1>2

\* The steps that answer: only what cannot be read is the batch's own fault.
LEMMA AnswerKeeps ==
  ASSUME FaultInv, NEW h \in Attempts, CutShort(h) \/ Collector(h)
  PROVE  FaultInv'
<1> USE DEF FaultInv
<1>1. PICK c \in Codes :
        /\ stage' = [stage EXCEPT ![h] = "answered"]
        /\ code' = [code EXCEPT ![h] = c]
        /\ UNCHANGED <<content, tries, sdk, refused, body>>
        /\ c = "bad_request" => stage[h] = "forwarding" /\ ~Readable(h)
  BY DEF CutShort, Collector, CollectorTakes, CollectorRefuses, AnswerLost,
         Unreachable, Answers, exportVars, Codes
<1>2. Of(h).sound => c # "bad_request"
  BY <1>1 DEF RefusalInv, Readable
<1>3. FlowTyped'
  BY <1>1 DEF FlowTyped, Stages
<1>4. RefusalInv'
  BY <1>1, <1>2 DEF RefusalInv, Of, FlowTyped
<1> QED
  BY <1>1, <1>3, <1>4 DEF BodiesTyped, NeverTheReason

\* Steps of exporters, of time and of gauges.
LEMMA FaultUndisturbed ==
  ASSUME FaultInv, UNCHANGED <<content, refused, body, code>>, FlowTyped',
         \A h \in Attempts : stage'[h] \in {stage[h], "queued"}
  PROVE  FaultInv'
BY DEF FaultInv, BodiesTyped, RefusalInv, NeverTheReason, Of

\* The exporter hears the refusals there are.
LEMMA ReturnRefusal ==
  ASSUME FaultInv, FlowTyped', NEW h \in Attempts, Return(h)
  PROVE  FaultInv'
<1> USE DEF FaultInv
<1>1. /\ UNCHANGED content
      /\ stage[h] = "answered"
      /\ stage' = [stage EXCEPT ![h] = "ended"]
      /\ body' = [body EXCEPT ![h] = NoBody]
      /\ code' = [code EXCEPT ![h] = "ok"]
  BY DEF Return
<1>2. BodiesTyped'
  <2>1. NoBody \in [gzip : BOOLEAN, stamped : BOOLEAN, counted : BOOLEAN]
    BY DEF NoBody
  <2> QED
    BY <1>1, <2>1 DEF BodiesTyped
<1>3. RefusalInv'
  BY <1>1 DEF RefusalInv, Of, FlowTyped, BodiesTyped
<1>4. NeverTheReason'
  <2>1. CASE refused' = refused
    BY <1>1, <2>1 DEF NeverTheReason
  <2>2. CASE refused' # refused
    <3>1. refused' = [refused EXCEPT ![h[1]] = refused[h[1]] \/ code[h] = "bad_request"]
      BY <2>2 DEF Return
    <3>2. code[h] = "bad_request" => ~content[h[1]].sound
      BY <1>1 DEF RefusalInv, Of
    <3>3. ASSUME NEW b \in Batch, refused'[b] PROVE ~content'[b].sound
      <4>1. CASE b # h[1]
        BY <1>1, <3>1, <3>3, <4>1 DEF FlowTyped, NeverTheReason
      <4>2. CASE b = h[1]
        BY <1>1, <3>1, <3>2, <3>3, <4>2 DEF FlowTyped, NeverTheReason
      <4> QED
        BY <4>1, <4>2
    <3> QED
      BY <3>3 DEF NeverTheReason
  <2> QED
    BY <2>1, <2>2
<1> QED
  BY <1>2, <1>3, <1>4

\* A restart forgets them.
LEMMA RestartRefusal ==
  ASSUME FaultInv, FlowTyped', Restart
  PROVE  FaultInv'
<1> USE DEF FaultInv, Restart
<1>1. BodiesTyped'
  BY DEF BodiesTyped, NoBody
<1>2. RefusalInv' /\ NeverTheReason'
  BY DEF RefusalInv, NeverTheReason, Of
<1> QED
  BY <1>1, <1>2

\* Every step keeps refusals at their cause.
LEMMA NextKeepsFault ==
  CompressedIsEnriched /\ FaultInv /\ DeliveryInv /\ [ProxyNext]_vars => FaultInv'
<1> SUFFICES ASSUME CompressedIsEnriched, FaultInv, DeliveryInv, [ProxyNext]_vars
             PROVE  FaultInv'
  OBVIOUS
<1>1. FlowTyped'
  BY NextKeepsDelivery DEF DeliveryInv
<1>2. CASE Gauge \/ Tick \/ UNCHANGED vars
  BY <1>1, <1>2, FaultUndisturbed DEF Gauge, Tick, vars, exportVars, coVars
<1>3. ASSUME NEW b \in Batch, Export(b) \/ ExportTimeout(b)
      PROVE  FaultInv'
  <2>1. UNCHANGED <<content, refused, body, code>>
    BY <1>3 DEF Export, ExportTimeout, coVars
  <2>2. stage' = stage \/ \E k : stage' = [stage EXCEPT ![k] = "queued"]
    BY <1>3 DEF Export, ExportTimeout, coVars
  <2>3. \A h \in Attempts : stage'[h] \in {stage[h], "queued"}
    BY <2>2 DEF FaultInv, FlowTyped
  <2> QED
    BY <1>1, <2>1, <2>3, FaultUndisturbed
<1>4. CASE \E h \in Attempts : Coroutine(h)
  BY <1>1, <1>4, ForwardReadable, AnswerKeeps, ReturnRefusal DEF Coroutine
<1>5. CASE \E h \in Attempts : Collector(h)
  BY <1>5, AnswerKeeps
<1>6. CASE Restart
  BY <1>1, <1>6, RestartRefusal
<1> QED
  BY <1>2, <1>3, <1>4, <1>5, <1>6 DEF ProxyNext

\* Nothing is refused at first.
LEMMA InitFault == ProxyInit => FaultInv
<1> SUFFICES ASSUME ProxyInit PROVE FaultInv
  OBVIOUS
<1>1. FlowTyped
  BY InitDelivery DEF DeliveryInv
<1>2. BodiesTyped
  BY DEF ProxyInit, BodiesTyped, NoBody
<1>3. RefusalInv /\ NeverTheReason
  BY DEF ProxyInit, RefusalInv, NeverTheReason
<1> QED
  BY <1>1, <1>2, <1>3 DEF FaultInv

\* Where exporters compress only traces that can be enriched, a batch the proxy
\* has refused was damaged when it was sent; what else they may compress is what
\* this leaves out, and there the proxy can be the reason.
THEOREM RefusedForItsFault ==
  ASSUME CompressedIsEnriched
  PROVE  ProxySpec => []NeverTheReason
<1>1. FaultInv /\ DeliveryInv /\ [ProxyNext]_vars => FaultInv'
  BY NextKeepsFault
<1>2. FaultInv => NeverTheReason
  BY DEF FaultInv
<1> QED
  BY <1>1, <1>2, InitFault, DeliveryInvariant, PTL DEF ProxySpec

-----------------------------------------------------------------------------
(***************************************************************************)
(* The counters.  They are added to in one step and the batch forwarded in *)
(* others, so what they say is tied to the stages of the attempts: what    *)
(* was derived was counted, span by span, and what has ended was recorded. *)
(***************************************************************************)

\* One pair for every call, and every span, of the attempts in S.
CallsIn(c, S) == UNION {{h} \X (1 .. Observed(c[h[1]].spans)) : h \in S}
SpansIn(c, S) == UNION {{h} \X (1 .. Len(c[h[1]].spans)) : h \in S}

\* The batches of spans that were counted, those that raised then, and those that
\* were recorded.
Derived  == {h \in Parsed : stage[h] \in {"forwarding", "answered", "ended"}}
Raised   == {h \in Derived : Throws(Of(h).spans)}
Recorded == {h \in Parsed : stage[h] = "ended" /\ ~Throws(Of(h).spans)}

CountersTyped ==
  /\ meter \in [requests : Nat, tokens : Nat]
  /\ stats \in [spans : Nat, calls : Nat, tokens : Nat, errors : Nat,
                forwarded : Nat, failed : Nat]
  /\ crashes \in Nat

\* Attempts are numbered as they are made, and an exporter that waits to send has
\* one left.
TriesInv ==
  \A b \in Batch : /\ sdk[b] = "queued" => tries[b] < MaxTries
                   /\ \A k \in 1 .. MaxTries : k > tries[b] => stage[<<b, k>>] = "idle"

\* What was taken was forwarded, what waits for a reading is a batch of spans, and
\* what is forwarded says whether it was counted.
ForwardInv ==
  /\ \A h \in taken : h \in Attempts /\ stage[h] \in {"answered", "ended"}
  /\ \A h \in Attempts :
       /\ stage[h] \in {"sampling", "reading"} => h \in Parsed
       /\ body[h].counted <=> /\ h \in Parsed /\ stage[h] \in {"forwarding", "answered"}
                              /\ ~Throws(Of(h).spans)

\* Finitely many attempts were made, of finitely many spans.
FiniteInv ==
  /\ IsFiniteSet(Made)
  /\ IsFiniteSet(CallsIn(content, Made)) /\ IsFiniteSet(SpansIn(content, Made))

Books ==
  /\ meter.tokens = Cardinality(CallsIn(content, Derived))
  /\ stats.tokens = meter.tokens /\ stats.calls = meter.tokens
  /\ meter.requests = meter.tokens + Cardinality(Raised)
  /\ stats.forwarded + stats.failed = Cardinality(Recorded)
  /\ stats.spans = Cardinality(SpansIn(content, Recorded))
  /\ stats.forwarded <= Cardinality(taken \cap Recorded)

CountInv ==
  /\ BodiesTyped /\ CountersTyped /\ TriesInv /\ ForwardInv /\ FiniteInv
  /\ crashes = 0 => Books

\* The spans of an attempt are a sequence of span kinds.
LEMMA SpansTyped ==
  ASSUME FlowTyped, NEW h \in Attempts
  PROVE  content[h[1]] = Of(h) /\ Of(h).spans \in Seq(SpanKinds)
<1>1. Of(h) \in Contents
  BY AttemptOf DEF Of, FlowTyped
<1> QED
  BY <1>1, ContentAssumption DEF Content, Of

\* Of the spans that cannot be counted the first ends the walk.
LEMMA FirstThrows ==
  ASSUME NEW spans \in Seq(SpanKinds)
  PROVE  /\ Throws(spans) => \E i \in Walked(spans) : spans[i] = "bad"
         /\ \A i, j \in Walked(spans) : spans[i] = "bad" /\ spans[j] = "bad" => i = j
<1>1. \A i, j \in Walked(spans) : spans[i] = "bad" /\ spans[j] = "bad" => i = j
  BY DEF Walked
<1>2. ASSUME Throws(spans)
      PROVE  \E i \in Walked(spans) : spans[i] = "bad"
  <2> DEFINE D == 1 .. Len(spans)
             T == {S \in SUBSET D : \E i \in D : spans[i] = "bad" /\ S = 1 .. i}
  <2>1. T \subseteq FiniteSubsetsOf(D)
    <3>1. IsFiniteSet(D)
      BY FS_Interval
    <3> QED
      BY <3>1, FS_FiniteSubsetsOfFinite
  <2>2. T # {}
    <3>1. PICK i \in D : spans[i] = "bad"
      BY <1>2 DEF Throws
    <3>2. 1 .. i \in T
      BY <3>1
    <3> QED
      BY <3>2
  <2>3. PICK S \in T : \A U \in T : <<U, S>> \notin StrictSubsetOrdering(D)
    BY <2>1, <2>2, FS_StrictSubsetOrderingWellFounded, WFMin
  <2>4. PICK i \in D : spans[i] = "bad" /\ S = 1 .. i
    BY <2>3
  <2>5. ASSUME NEW j \in 1 .. i - 1, spans[j] = "bad" PROVE FALSE
    <3>1. 1 .. j \in T
      BY <2>5
    <3>2. 1 .. j \subseteq S /\ 1 .. j # S
      BY <2>4, <2>5
    <3> QED
      BY <2>3, <3>1, <3>2 DEF StrictSubsetOrdering
  <2> QED
    BY <2>4, <2>5 DEF Walked
<1> QED
  BY <1>1, <1>2

\* What the walk counts: as many requests as observed calls, and one more if it is
\* the one that raises.
LEMMA CountsOf ==
  ASSUME NEW spans \in Seq(SpanKinds)
  PROVE  /\ Observed(spans) \in Nat /\ Len(spans) \in Nat /\ Errors(spans) \in Nat
         /\ Requests(spans) = Observed(spans) + (IF Throws(spans) THEN 1 ELSE 0)
<1> DEFINE R == {i \in Walked(spans) : IsModelCall(spans[i])}
           O == {i \in Walked(spans) : IsModelCall(spans[i]) /\ spans[i] # "bad"}
           E == {i \in Walked(spans) : spans[i] = "failed"}
<1>1. /\ Requests(spans) = Cardinality(R) /\ Observed(spans) = Cardinality(O)
      /\ Errors(spans) = Cardinality(E)
  BY DEF Requests, Observed, Errors, CountOf
<1>2. IsFiniteSet(O) /\ IsFiniteSet(E)
  <2>1. IsFiniteSet(1 .. Len(spans))
    BY FS_Interval
  <2>2. O \subseteq 1 .. Len(spans) /\ E \subseteq 1 .. Len(spans)
    BY DEF Walked
  <2> QED
    BY <2>1, <2>2, FS_Subset
<1>3. Cardinality(O) \in Nat /\ Cardinality(E) \in Nat
  BY <1>2, FS_CardinalityType
<1>4. CASE Throws(spans)
  <2>1. PICK i \in Walked(spans) : spans[i] = "bad"
    BY <1>4, FirstThrows
  <2>2. R = O \cup {i} /\ i \notin O
    BY <2>1, FirstThrows DEF IsModelCall
  <2>3. Cardinality(O \cup {i}) = Cardinality(O) + 1
    BY <1>2, <2>2, FS_AddElement
  <2> HIDE DEF R, O, E
  <2> QED
    BY <1>1, <1>3, <1>4, <2>2, <2>3
<1>5. CASE ~Throws(spans)
  <2>1. R = O
    BY <1>5 DEF Throws, Walked
  <2> HIDE DEF R, O, E
  <2> QED
    BY <1>1, <1>3, <1>5, <2>1
<1> QED
  BY <1>4, <1>5

\* The pairs of one more attempt.
LEMMA PairsAdded ==
  ASSUME NEW P, IsFiniteSet(P), NEW h, NEW k \in Nat, \A p \in P : p[1] # h
  PROVE  LET Q == P \cup ({h} \X (1 .. k)) IN
           IsFiniteSet(Q) /\ Cardinality(Q) = Cardinality(P) + k
<1> DEFINE N == {h} \X (1 .. k)
<1>1. IsFiniteSet(1 .. k) /\ Cardinality(1 .. k) = k
  BY FS_Interval
<1>2. IsFiniteSet({h}) /\ Cardinality({h}) = 1
  BY FS_Singleton
<1>3. IsFiniteSet(N) /\ Cardinality(N) = k
  BY <1>1, <1>2, FS_Product
<1>4. P \cap N = {}
  OBVIOUS
<1> HIDE DEF N
<1>5. IsFiniteSet(P \cup N) /\ Cardinality(P \cup N) = Cardinality(P) + k - 0
  <2>1. Cardinality(P \cap N) = 0
    BY <1>4, FS_EmptySet
  <2> QED
    BY <1>1, <1>3, <2>1, FS_Union
<1>6. Cardinality(P) \in Nat
  BY FS_CardinalityType
<1> QED
  BY <1>5, <1>6 DEF N

\* The calls of one more attempt.
LEMMA CallsAdded ==
  ASSUME FlowTyped, NEW S, IsFiniteSet(CallsIn(content, S)), NEW h \in Attempts, h \notin S
  PROVE  /\ IsFiniteSet(CallsIn(content, S \cup {h}))
         /\ Cardinality(CallsIn(content, S \cup {h}))
              = Cardinality(CallsIn(content, S)) + Observed(Of(h).spans)
<1> DEFINE k == Observed(Of(h).spans)
<1>1. CallsIn(content, S \cup {h}) = CallsIn(content, S) \cup ({h} \X (1 .. k))
  BY SpansTyped DEF CallsIn
<1>2. k \in Nat
  BY SpansTyped, CountsOf
<1>3. \A p \in CallsIn(content, S) : p[1] # h
  BY DEF CallsIn
<1> HIDE DEF k
<1>4. /\ IsFiniteSet(CallsIn(content, S) \cup ({h} \X (1 .. k)))
      /\ Cardinality(CallsIn(content, S) \cup ({h} \X (1 .. k)))
           = Cardinality(CallsIn(content, S)) + k
  BY <1>2, <1>3, PairsAdded
<1> QED
  BY <1>1, <1>4 DEF k

\* As for its spans.
LEMMA SpansAdded ==
  ASSUME FlowTyped, NEW S, IsFiniteSet(SpansIn(content, S)), NEW h \in Attempts, h \notin S
  PROVE  /\ IsFiniteSet(SpansIn(content, S \cup {h}))
         /\ Cardinality(SpansIn(content, S \cup {h}))
              = Cardinality(SpansIn(content, S)) + Len(Of(h).spans)
<1> DEFINE k == Len(Of(h).spans)
<1>1. SpansIn(content, S \cup {h}) = SpansIn(content, S) \cup ({h} \X (1 .. k))
  BY SpansTyped DEF SpansIn
<1>2. k \in Nat
  BY SpansTyped, CountsOf
<1>3. \A p \in SpansIn(content, S) : p[1] # h
  BY DEF SpansIn
<1> HIDE DEF k
<1>4. /\ IsFiniteSet(SpansIn(content, S) \cup ({h} \X (1 .. k)))
      /\ Cardinality(SpansIn(content, S) \cup ({h} \X (1 .. k)))
           = Cardinality(SpansIn(content, S)) + k
  BY <1>2, <1>3, PairsAdded
<1> QED
  BY <1>1, <1>4 DEF k

\* Fewer attempts have fewer.
LEMMA CountsWithin ==
  ASSUME FiniteInv, NEW S, NEW T, S \subseteq T, T \subseteq Made
  PROVE  /\ IsFiniteSet(S) /\ Cardinality(S) \in Nat /\ Cardinality(S) <= Cardinality(T)
         /\ IsFiniteSet(CallsIn(content, S)) /\ IsFiniteSet(SpansIn(content, S))
         /\ Cardinality(CallsIn(content, S)) \in Nat
         /\ Cardinality(SpansIn(content, S)) \in Nat
         /\ Cardinality(CallsIn(content, S)) <= Cardinality(CallsIn(content, T))
<1>1. /\ CallsIn(content, S) \subseteq CallsIn(content, T)
      /\ CallsIn(content, T) \subseteq CallsIn(content, Made)
      /\ SpansIn(content, S) \subseteq SpansIn(content, Made)
  BY DEF CallsIn, SpansIn
<1>2. /\ IsFiniteSet(T) /\ IsFiniteSet(CallsIn(content, T))
      /\ IsFiniteSet(SpansIn(content, S))
  BY <1>1, FS_Subset DEF FiniteInv
<1>3. /\ IsFiniteSet(S) /\ Cardinality(S) <= Cardinality(T)
      /\ IsFiniteSet(CallsIn(content, S))
      /\ Cardinality(CallsIn(content, S)) <= Cardinality(CallsIn(content, T))
  BY <1>1, <1>2, FS_Subset
<1> QED
  BY <1>2, <1>3, FS_CardinalityType

\* The sets when one attempt goes to stage s.
LEMMA SetsMove ==
  ASSUME FlowTyped, UNCHANGED content, NEW h \in Attempts, NEW s \in Stages \ {"idle"},
         stage' = [stage EXCEPT ![h] = s]
  PROVE  /\ Parsed' = Parsed /\ Of(h)' = Of(h)
         /\ Made' = Made \cup {h}
         /\ Derived' = IF h \in Parsed /\ s \in {"forwarding", "answered", "ended"}
                       THEN Derived \cup {h} ELSE Derived \ {h}
         /\ Recorded' = IF h \in Parsed /\ s = "ended" /\ ~Throws(Of(h).spans)
                        THEN Recorded \cup {h} ELSE Recorded \ {h}
         /\ Raised' = {k \in Derived' : Throws(Of(k).spans)}
<1>1. \A k \in Attempts : stage'[k] = IF k = h THEN s ELSE stage[k]
  BY DEF FlowTyped
<1>2. \A k : Of(k)' = Of(k)
  BY DEF Of
<1>3. Parsed' = Parsed
  BY <1>2 DEF Parsed
<1>4. Made' = Made \cup {h}
  BY <1>1 DEF Made
<1>5. Derived' = IF h \in Parsed /\ s \in {"forwarding", "answered", "ended"}
                 THEN Derived \cup {h} ELSE Derived \ {h}
  BY <1>1, <1>3 DEF Derived, Parsed
<1>6. Recorded' = IF h \in Parsed /\ s = "ended" /\ ~Throws(Of(h).spans)
                  THEN Recorded \cup {h} ELSE Recorded \ {h}
  BY <1>1, <1>2, <1>3 DEF Recorded, Parsed
<1>7. Raised' = {k \in Derived' : Throws(Of(k).spans)}
  BY <1>2 DEF Raised
<1> QED
  BY <1>2, <1>3, <1>4, <1>5, <1>6, <1>7

\* They stay finite.
LEMMA FiniteKept ==
  ASSUME FlowTyped, FiniteInv, UNCHANGED content, NEW h \in Attempts, Made' = Made \cup {h}
  PROVE  FiniteInv'
<1>1. CASE h \in Made
  <2>1. Made' = Made
    BY <1>1
  <2> QED
    BY <2>1 DEF FiniteInv
<1>2. CASE h \notin Made
  <2>1. IsFiniteSet(Made \cup {h})
    BY FS_AddElement DEF FiniteInv
  <2>2. IsFiniteSet(CallsIn(content, Made \cup {h}))
    BY <1>2, CallsAdded DEF FiniteInv
  <2>3. IsFiniteSet(SpansIn(content, Made \cup {h}))
    BY <1>2, SpansAdded DEF FiniteInv
  <2> QED
    BY <2>1, <2>2, <2>3 DEF FiniteInv
<1> QED
  BY <1>1, <1>2

\* A step of one attempt that keeps the books keeps what they rest on.
LEMMA AttemptKept ==
  ASSUME FlowTyped, CountInv, NEW h \in Attempts, NEW s \in Stages \ {"idle"},
         stage' = [stage EXCEPT ![h] = s], UNCHANGED <<content, crashes>>,
         BodiesTyped', CountersTyped', TriesInv',
         \A k \in Attempts \ {h} : body'[k] = body[k],
         taken' \subseteq taken \cup {h}, h \in taken' => s \in {"answered", "ended"},
         s \in {"sampling", "reading"} => h \in Parsed,
         body'[h].counted <=>
           h \in Parsed /\ s \in {"forwarding", "answered"} /\ ~Throws(Of(h).spans),
         crashes = 0 => Books'
  PROVE  CountInv'
<1>0. ForwardInv /\ FiniteInv
  BY DEF CountInv
<1>1. \A k \in Attempts : stage'[k] = IF k = h THEN s ELSE stage[k]
  BY DEF FlowTyped
<1>2. Parsed' = Parsed /\ Made' = Made \cup {h}
  BY SetsMove
<1>3. ForwardInv'
  <2>1. \A k \in taken' : k \in Attempts /\ stage'[k] \in {"answered", "ended"}
    BY <1>0, <1>1 DEF ForwardInv
  <2>2. ASSUME NEW k \in Attempts
        PROVE  /\ stage'[k] \in {"sampling", "reading"} => k \in Parsed
               /\ body'[k].counted <=> /\ k \in Parsed
                                       /\ stage'[k] \in {"forwarding", "answered"}
                                       /\ ~Throws(Of(k).spans)
    BY <1>0, <1>1 DEF ForwardInv
  <2>3. \A k : Of(k)' = Of(k)
    BY DEF Of
  <2> QED
    BY <1>2, <2>1, <2>2, <2>3 DEF ForwardInv
<1>4. FiniteInv'
  BY <1>0, <1>2, FiniteKept
<1> QED
  BY <1>3, <1>4 DEF CountInv

\* A coroutine's step is of an attempt that was made.
LEMMA AttemptCounts ==
  ASSUME DeliveryInv, CountInv, NEW h \in Attempts,
         NEW s \in Stages \ {"idle"}, stage[h] # "idle",
         stage' = [stage EXCEPT ![h] = s], UNCHANGED <<content, tries, crashes>>,
         BodiesTyped', CountersTyped',
         \A b \in Batch : sdk'[b] = "queued" => tries[b] < MaxTries,
         \A k \in Attempts \ {h} : body'[k] = body[k],
         taken' \subseteq taken \cup {h}, h \in taken' => s \in {"answered", "ended"},
         s \in {"sampling", "reading"} => h \in Parsed,
         body'[h].counted <=>
           h \in Parsed /\ s \in {"forwarding", "answered"} /\ ~Throws(Of(h).spans),
         crashes = 0 => Books'
  PROVE  CountInv'
<1>0. FlowTyped /\ TriesInv
  BY DEF DeliveryInv, CountInv
<1>1. \A k \in Attempts : stage'[k] = IF k = h THEN s ELSE stage[k]
  BY <1>0 DEF FlowTyped
<1>2. \A b \in Batch, k \in 1 .. MaxTries : <<b, k>> \in Attempts
  BY DEF Attempts
<1>3. TriesInv'
  BY <1>0, <1>1, <1>2 DEF TriesInv
<1> QED
  BY <1>0, <1>3, AttemptKept

\* Nothing is counted or recorded.
LEMMA BooksStay ==
  ASSUME Books, UNCHANGED <<content, meter, stats>>, Derived' = Derived,
         Recorded' = Recorded, taken' \cap Recorded = taken \cap Recorded
  PROVE  Books'
<1>1. Raised' = Raised
  BY DEF Raised, Of
<1> QED
  BY <1>1 DEF Books

\* What is in the sets was made.
LEMMA SetsMade ==
  /\ Derived \subseteq Made /\ Recorded \subseteq Derived /\ Raised \subseteq Derived
  /\ taken \cap Recorded \subseteq Made
BY DEF Derived, Recorded, Raised, Made, Parsed

\* A coroutine that counts nothing.
LEMMA PassesOn ==
  ASSUME DeliveryInv, CountInv, NEW h \in Attempts,
         PassThrough(h) \/ CutShort(h) \/ EnrichAsks(h) \/ EnrichReads(h)
  PROVE  CountInv'
<1>0. FlowTyped /\ TriesInv /\ ForwardInv /\ BodiesTyped /\ CountersTyped
  BY DEF DeliveryInv, CountInv
<1>1. /\ UNCHANGED <<content, tries, sdk, crashes, meter, stats, taken>>
      /\ stage[h] \in {"queued", "sampling"}
  BY DEF PassThrough, CutShort, EnrichAsks, EnrichReads, exportVars, boundVars,
         meterVars
<1>2. CountersTyped'
  BY <1>0, <1>1 DEF CountersTyped
<1>3. \A b \in Batch : sdk'[b] = "queued" => tries[b] < MaxTries
  BY <1>0, <1>1 DEF TriesInv
<1>4. h \notin taken /\ ~body[h].counted
  BY <1>0, <1>1 DEF ForwardInv
<1>5. h \notin Derived /\ h \notin Recorded
  BY <1>1 DEF Derived, Recorded
<1>6. ASSUME NEW s \in Stages \ {"idle", "ended"}, stage' = [stage EXCEPT ![h] = s],
             s \in {"sampling", "reading"} <=> h \in Parsed,
             BodiesTyped', \A k \in Attempts \ {h} : body'[k] = body[k], ~body'[h].counted
      PROVE  CountInv'
  <2>1. Derived' = Derived /\ Recorded' = Recorded
    <3>1. ~(h \in Parsed /\ s \in {"forwarding", "answered", "ended"}) /\ s # "ended"
      BY <1>6
    <3>2. Derived' = Derived \ {h} /\ Recorded' = Recorded \ {h}
      BY <1>0, <1>1, <1>6, <3>1, SetsMove
    <3> QED
      BY <1>5, <3>2
  <2>2. crashes = 0 => Books'
    BY <1>1, <2>1, BooksStay DEF CountInv
  <2> QED
    BY <1>1, <1>2, <1>3, <1>4, <1>6, <2>2, AttemptCounts
<1>7. CASE PassThrough(h)
  <2>1. /\ stage' = [stage EXCEPT ![h] = "forwarding"] /\ h \notin Parsed
        /\ body' = [body EXCEPT ![h] = Unmodified(h)]
    BY <1>7 DEF PassThrough, Parsed
  <2>2. Of(h).gzip \in BOOLEAN
    BY <1>0, AttemptOf, ContentAssumption DEF Of, FlowTyped, Content
  <2>3. /\ Unmodified(h) \in [gzip : BOOLEAN, stamped : BOOLEAN, counted : BOOLEAN]
        /\ ~Unmodified(h).counted
    BY <2>2 DEF Unmodified
  <2>4. BodiesTyped' /\ body'[h] = Unmodified(h) /\ \A k \in Attempts \ {h} : body'[k] = body[k]
    BY <1>0, <2>1, <2>3 DEF BodiesTyped
  <2> QED
    BY <1>6, <2>1, <2>3, <2>4 DEF Stages
<1>8. CASE CutShort(h)
  <2>1. /\ stage' = [stage EXCEPT ![h] = "answered"] /\ h \notin Parsed /\ body' = body
    BY <1>8 DEF CutShort, Parsed
  <2> QED
    BY <1>0, <1>4, <1>6, <2>1 DEF Stages, BodiesTyped
<1>9. CASE EnrichAsks(h) \/ EnrichReads(h)
  <2>1. PICK s \in {"sampling", "reading"} : stage' = [stage EXCEPT ![h] = s]
    BY <1>9 DEF EnrichAsks, EnrichReads
  <2>2. h \in Parsed /\ body' = body
    BY <1>0, <1>9 DEF EnrichAsks, EnrichReads, Parsed, ForwardInv
  <2> QED
    BY <1>0, <1>4, <1>6, <2>1, <2>2 DEF Stages, BodiesTyped
<1> QED
  BY <1>7, <1>8, <1>9

\* The stats after a walk.
LEMMA StatsTyped ==
  ASSUME NEW s \in [spans : Nat, calls : Nat, tokens : Nat, errors : Nat,
                    forwarded : Nat, failed : Nat],
         NEW x \in Nat, NEW y \in Nat, NEW z \in Nat
  PROVE  [s EXCEPT !.calls = x, !.tokens = y, !.errors = z]
           \in [spans : Nat, calls : Nat, tokens : Nat, errors : Nat,
                forwarded : Nat, failed : Nat]
OBVIOUS

\* The walk over the spans of a batch.
LEMMA DeriveCounts ==
  ASSUME DeliveryInv, CountInv, NEW h \in Attempts,
         EnrichCached(h) \/ EnrichStores(h)
  PROVE  CountInv'
<1> DEFINE spans == Of(h).spans
           m == IF Throws(spans) THEN Unmodified(h) ELSE Enriched
<1>0. /\ FlowTyped /\ TriesInv /\ ForwardInv /\ FiniteInv /\ BodiesTyped /\ CountersTyped
  BY DEF DeliveryInv, CountInv
<1>1. /\ UNCHANGED <<content, tries, sdk, crashes, taken>>
      /\ stage[h] \in {"queued", "reading"} /\ h \in Parsed /\ Derive(h)
  BY <1>0 DEF EnrichCached, EnrichStores, exportVars, boundVars, Parsed, ForwardInv
<1>2. /\ meter' = [requests |-> meter.requests + Requests(spans),
                   tokens   |-> meter.tokens + Observed(spans)]
      /\ stats' = [stats EXCEPT !.calls = @ + Observed(spans),
                                !.tokens = @ + Observed(spans),
                                !.errors = @ + Errors(spans)]
      /\ body' = [body EXCEPT ![h] = m]
      /\ stage' = [stage EXCEPT ![h] = "forwarding"]
  BY <1>1 DEF Derive
<1>3. /\ Observed(spans) \in Nat /\ Errors(spans) \in Nat
      /\ Requests(spans) = Observed(spans) + (IF Throws(spans) THEN 1 ELSE 0)
  BY <1>0, SpansTyped, CountsOf
<1>4. m \in [gzip : BOOLEAN, stamped : BOOLEAN, counted : BOOLEAN]
      /\ (m.counted <=> ~Throws(spans))
  <2>1. Of(h).gzip \in BOOLEAN
    BY <1>0, AttemptOf, ContentAssumption DEF Of, FlowTyped, Content
  <2>2. CASE Throws(spans)
    <3>1. m = Unmodified(h)
      BY <2>2
    <3> QED
      BY <2>1, <2>2, <3>1 DEF Unmodified
  <2>3. CASE ~Throws(spans)
    <3>1. m = Enriched
      BY <2>3
    <3> QED
      BY <2>3, <3>1 DEF Enriched
  <2> QED
    BY <2>2, <2>3
<1> HIDE DEF m, spans
<1>5. BodiesTyped' /\ body'[h] = m /\ \A k \in Attempts \ {h} : body'[k] = body[k]
  BY <1>0, <1>2, <1>4 DEF BodiesTyped
<1>6. /\ meter'.requests = meter.requests + Requests(spans)
      /\ meter'.tokens = meter.tokens + Observed(spans)
      /\ stats'.calls = stats.calls + Observed(spans)
      /\ stats'.tokens = stats.tokens + Observed(spans)
      /\ stats'.spans = stats.spans /\ stats'.forwarded = stats.forwarded
      /\ stats'.failed = stats.failed
  BY <1>0, <1>2 DEF CountersTyped
<1>7. CountersTyped'
  <2>1. Requests(spans) \in Nat
    BY <1>3
  <2>2. CountersTyped'
    <3>1. meter' \in [requests : Nat, tokens : Nat]
      BY <1>0, <1>2, <1>3, <2>1 DEF CountersTyped
    <3>2. /\ stats.calls + Observed(spans) \in Nat /\ stats.tokens + Observed(spans) \in Nat
          /\ stats.errors + Errors(spans) \in Nat
      BY <1>0, <1>3 DEF CountersTyped
    <3>3. stats' \in [spans : Nat, calls : Nat, tokens : Nat, errors : Nat,
                      forwarded : Nat, failed : Nat]
      BY <1>0, <1>2, <3>2, StatsTyped DEF CountersTyped
    <3> QED
      BY <1>0, <1>1, <3>1, <3>3 DEF CountersTyped
  <2> QED
    BY <2>2
<1>8. h \notin taken /\ h \notin Derived /\ h \notin Recorded
  BY <1>0, <1>1 DEF ForwardInv, Derived, Recorded
<1>9. ASSUME crashes = 0 PROVE Books'
  <2>1. Derived' = Derived \cup {h} /\ Recorded' = Recorded
    <3>1. /\ Derived' = IF h \in Parsed /\ "forwarding" \in {"forwarding", "answered", "ended"}
                        THEN Derived \cup {h} ELSE Derived \ {h}
          /\ Recorded' = IF h \in Parsed /\ "forwarding" = "ended" /\ ~Throws(Of(h).spans)
                         THEN Recorded \cup {h} ELSE Recorded \ {h}
      BY <1>0, <1>1, <1>2, SetsMove DEF Stages
    <3> QED
      BY <1>1, <1>8, <3>1
  <2>2. Raised' = IF Throws(spans) THEN Raised \cup {h} ELSE Raised
    <3>1. Raised' = {k \in Derived' : Throws(Of(k).spans)}
      BY <1>0, <1>1, <1>2, SetsMove DEF Stages
    <3> QED
      BY <2>1, <3>1 DEF Raised, spans
  <2>3. /\ IsFiniteSet(CallsIn(content, Derived)) /\ IsFiniteSet(Raised)
        /\ Cardinality(CallsIn(content, Derived)) \in Nat /\ Cardinality(Raised) \in Nat
    BY <1>0, SetsMade, CountsWithin
  <2>4. Cardinality(CallsIn(content, Derived \cup {h}))
          = Cardinality(CallsIn(content, Derived)) + Observed(spans)
    BY <1>0, <1>8, <2>3, CallsAdded DEF spans
  <2>5. Cardinality(Raised') = Cardinality(Raised) + (IF Throws(spans) THEN 1 ELSE 0)
    <3>1. h \notin Raised
      BY <1>8 DEF Raised
    <3>2. Cardinality(Raised \cup {h}) = Cardinality(Raised) + 1
      BY <2>3, <3>1, FS_AddElement
    <3> QED
      BY <2>2, <2>3, <3>2
  <2>6. Books
    BY <1>9 DEF CountInv
  <2>7. /\ meter'.tokens = Cardinality(CallsIn(content', Derived'))
        /\ stats'.tokens = meter'.tokens /\ stats'.calls = meter'.tokens
    BY <1>1, <1>6, <2>1, <2>4, <2>6 DEF Books
  <2>8. meter'.requests = meter'.tokens + Cardinality(Raised')
    <3>1. meter.tokens \in Nat /\ meter.requests = meter.tokens + Cardinality(Raised)
      BY <1>0, <2>6 DEF Books, CountersTyped
    <3> QED
      BY <1>3, <1>6, <2>3, <2>5, <3>1
  <2>9. /\ stats'.forwarded + stats'.failed = Cardinality(Recorded')
        /\ stats'.spans = Cardinality(SpansIn(content', Recorded'))
        /\ stats'.forwarded <= Cardinality(taken' \cap Recorded')
    BY <1>1, <1>6, <2>1, <2>6 DEF Books
  <2> QED
    BY <2>7, <2>8, <2>9 DEF Books
<1>10. \A b \in Batch : sdk'[b] = "queued" => tries[b] < MaxTries
  BY <1>0, <1>1 DEF TriesInv
<1>11. body'[h].counted <=> h \in Parsed /\ ~Throws(Of(h).spans)
  BY <1>1, <1>4, <1>5 DEF spans
<1> QED
  BY <1>1, <1>2, <1>5, <1>7, <1>8, <1>9, <1>10, <1>11, AttemptCounts DEF Stages

\* The Collector's answer: what was forwarded stays counted, and is not recorded.
LEMMA CollectorCounts ==
  ASSUME DeliveryInv, CountInv, NEW h \in Attempts, Collector(h)
  PROVE  CountInv'
<1>0. FlowTyped /\ TriesInv /\ ForwardInv /\ BodiesTyped /\ CountersTyped
  BY DEF DeliveryInv, CountInv
<1>1. /\ UNCHANGED <<content, tries, sdk, crashes, meter, stats, body>>
      /\ stage[h] = "forwarding" /\ stage' = [stage EXCEPT ![h] = "answered"]
      /\ taken' \in {taken, taken \cup {h}}
  BY DEF Collector, CollectorTakes, CollectorRefuses, AnswerLost, Unreachable,
         Answers, exportVars, meterVars
<1>2. CountersTyped' /\ BodiesTyped'
  BY <1>0, <1>1 DEF CountersTyped, BodiesTyped
<1>3. \A b \in Batch : sdk'[b] = "queued" => tries[b] < MaxTries
  BY <1>0, <1>1 DEF TriesInv
<1>4. body'[h].counted <=> h \in Parsed /\ ~Throws(Of(h).spans)
  BY <1>0, <1>1 DEF ForwardInv
<1>5. Derived' = Derived /\ Recorded' = Recorded /\ h \notin Recorded
  <2>1. h \in Parsed <=> h \in Derived
    BY <1>1 DEF Derived
  <2>2. h \notin Recorded
    BY <1>1 DEF Recorded
  <2>3. /\ Derived' = IF h \in Parsed /\ "answered" \in {"forwarding", "answered", "ended"}
                      THEN Derived \cup {h} ELSE Derived \ {h}
        /\ Recorded' = IF h \in Parsed /\ "answered" = "ended" /\ ~Throws(Of(h).spans)
                       THEN Recorded \cup {h} ELSE Recorded \ {h}
    BY <1>0, <1>1, SetsMove DEF Stages
  <2> QED
    BY <2>1, <2>2, <2>3
<1>6. crashes = 0 => Books'
  BY <1>1, <1>5, BooksStay DEF CountInv
<1> QED
  BY <1>0, <1>1, <1>2, <1>3, <1>4, <1>6, AttemptCounts DEF Stages

\* An enriched attempt is recorded when its answer is mirrored, as forwarded only
\* if it was taken.
LEMMA ReturnCounts ==
  ASSUME DeliveryInv, CountInv, NEW h \in Attempts, Return(h)
  PROVE  CountInv'
<1> DEFINE k == Len(Of(h).spans)
<1>0. /\ FlowTyped /\ TriesInv /\ ForwardInv /\ FiniteInv /\ BodiesTyped /\ CountersTyped
      /\ AnswerTrue
  BY DEF DeliveryInv, CountInv
<1>1. /\ UNCHANGED <<content, tries, crashes, meter, taken>>
      /\ stage[h] = "answered" /\ stage' = [stage EXCEPT ![h] = "ended"]
      /\ body' = [body EXCEPT ![h] = NoBody] /\ stats' = RecordBatch(h)
  BY DEF Return, boundVars
<1>2. body[h].counted <=> h \in Parsed /\ ~Throws(Of(h).spans)
  BY <1>0, <1>1 DEF ForwardInv
<1>3. k \in Nat
  BY <1>0, SpansTyped, CountsOf
<1> HIDE DEF k
<1>4. \/ /\ ~(h \in Parsed /\ ~Throws(Of(h).spans)) /\ stats' = stats
      \/ /\ h \in Parsed /\ ~Throws(Of(h).spans)
         /\ \/ /\ code[h] = "ok"
               /\ stats' = [stats EXCEPT !.spans = @ + k, !.forwarded = @ + 1]
            \/ stats' = [stats EXCEPT !.spans = @ + k, !.failed = @ + 1]
  BY <1>1, <1>2 DEF RecordBatch, k
<1>5. CountersTyped'
  <2>1. /\ stats.spans + k \in Nat /\ stats.forwarded + 1 \in Nat /\ stats.failed + 1 \in Nat
    BY <1>0, <1>3 DEF CountersTyped
  <2>2. stats' \in [spans : Nat, calls : Nat, tokens : Nat, errors : Nat,
                    forwarded : Nat, failed : Nat]
    BY <1>0, <1>4, <2>1 DEF CountersTyped
  <2> QED
    BY <1>0, <1>1, <2>2 DEF CountersTyped
<1>6. BodiesTyped' /\ ~body'[h].counted /\ \A a \in Attempts \ {h} : body'[a] = body[a]
  <2>1. NoBody \in [gzip : BOOLEAN, stamped : BOOLEAN, counted : BOOLEAN] /\ ~NoBody.counted
    BY DEF NoBody
  <2> QED
    BY <1>0, <1>1, <2>1 DEF BodiesTyped
<1>7. \A b \in Batch : sdk'[b] = "queued" => tries[b] < MaxTries
  <2>1. CASE sdk' = sdk
    BY <1>0, <2>1 DEF TriesInv
  <2>2. CASE sdk' = [sdk EXCEPT ![h[1]] = Heard(h[1], code[h])]
    <3>1. Heard(h[1], code[h]) = "queued" => tries[h[1]] < MaxTries
      <4>1. code[h] \in Codes
        BY <1>0 DEF FlowTyped
      <4> QED
        BY <4>1 DEF Codes, Heard, AfterFailure
    <3> QED
      BY <1>0, <2>2, <3>1 DEF TriesInv, FlowTyped
  <2> QED
    BY <2>1, <2>2 DEF Return
<1>8. ASSUME crashes = 0 PROVE Books'
  <2>0. Books
    BY <1>8 DEF CountInv
  <2>1. h \notin Recorded /\ (h \in Parsed <=> h \in Derived)
    BY <1>1 DEF Recorded, Derived
  <2>2. Derived' = Derived
    <3>1. Derived' = IF h \in Parsed /\ "ended" \in {"forwarding", "answered", "ended"}
                     THEN Derived \cup {h} ELSE Derived \ {h}
      BY <1>0, <1>1, SetsMove DEF Stages
    <3> QED
      BY <2>1, <3>1
  <2>3. Recorded' = IF h \in Parsed /\ "ended" = "ended" /\ ~Throws(Of(h).spans)
                    THEN Recorded \cup {h} ELSE Recorded \ {h}
    BY <1>0, <1>1, SetsMove DEF Stages
  <2>4. CASE ~(h \in Parsed /\ ~Throws(Of(h).spans))
    <3>1. stats' = stats /\ Recorded' = Recorded
      BY <1>4, <2>1, <2>3, <2>4
    <3> QED
      BY <1>1, <2>0, <2>2, <3>1, BooksStay
  <2>5. CASE h \in Parsed /\ ~Throws(Of(h).spans)
    <3>1. Recorded' = Recorded \cup {h}
      BY <2>3, <2>5
    <3>2. /\ IsFiniteSet(Recorded) /\ IsFiniteSet(SpansIn(content, Recorded))
          /\ IsFiniteSet(taken \cap Recorded)
          /\ Cardinality(taken \cap Recorded) \in Nat
          /\ Cardinality(Recorded) \in Nat
      <4>1. Recorded \subseteq Made /\ taken \cap Recorded \subseteq Made
        BY SetsMade
      <4> QED
        BY <1>0, <4>1, CountsWithin
    <3>3. Cardinality(Recorded') = Cardinality(Recorded) + 1
      BY <2>1, <3>1, <3>2, FS_AddElement
    <3>4. Cardinality(SpansIn(content', Recorded')) = Cardinality(SpansIn(content, Recorded)) + k
      BY <1>0, <1>1, <2>1, <3>1, <3>2, SpansAdded DEF k
    <3>5. /\ Cardinality(taken' \cap Recorded') >= Cardinality(taken \cap Recorded)
          /\ h \in taken => Cardinality(taken' \cap Recorded') = Cardinality(taken \cap Recorded) + 1
      <4>1. CASE h \in taken
        <5>1. taken' \cap Recorded' = (taken \cap Recorded) \cup {h}
          BY <1>1, <3>1, <4>1
        <5>2. h \notin taken \cap Recorded
          BY <2>1
        <5>3. Cardinality((taken \cap Recorded) \cup {h}) = Cardinality(taken \cap Recorded) + 1
          BY <3>2, <5>2, FS_AddElement
        <5> QED
          BY <3>2, <5>1, <5>3
      <4>2. CASE h \notin taken
        <5>1. taken' \cap Recorded' = taken \cap Recorded
          BY <1>1, <3>1, <4>2
        <5> QED
          BY <3>2, <4>2, <5>1
      <4> QED
        BY <4>1, <4>2
    <3>6. code[h] = "ok" => h \in taken
      BY <1>0, <1>1 DEF AnswerTrue
    <3>7. /\ stats'.calls = stats.calls /\ stats'.tokens = stats.tokens
          /\ stats'.spans = stats.spans + k
          /\ \/ /\ h \in taken /\ stats'.forwarded = stats.forwarded + 1
                /\ stats'.failed = stats.failed
             \/ /\ stats'.forwarded = stats.forwarded /\ stats'.failed = stats.failed + 1
      BY <1>0, <1>4, <2>5, <3>6 DEF CountersTyped
    <3>8. stats.forwarded \in Nat /\ stats.failed \in Nat
      BY <1>0 DEF CountersTyped
    <3>9. /\ stats'.forwarded + stats'.failed = Cardinality(Recorded')
          /\ stats'.spans = Cardinality(SpansIn(content', Recorded'))
          /\ stats'.forwarded <= Cardinality(taken' \cap Recorded')
      <4>1. /\ stats.forwarded + stats.failed = Cardinality(Recorded)
            /\ stats.spans = Cardinality(SpansIn(content, Recorded))
            /\ stats.forwarded <= Cardinality(taken \cap Recorded)
        BY <2>0 DEF Books
      <4>2. Cardinality(taken' \cap Recorded') \in Nat
        BY <3>2, <3>5, <1>1, <3>1, FS_AddElement, FS_CardinalityType, FS_Subset
      <4> QED
        BY <3>2, <3>3, <3>4, <3>5, <3>7, <3>8, <4>1, <4>2
    <3>10. Raised' = Raised
      BY <1>1, <2>2 DEF Raised, Of
    <3> QED
      BY <1>1, <2>0, <2>2, <3>7, <3>9, <3>10 DEF Books
  <2> QED
    BY <2>4, <2>5
<1>9. h \in taken' => "ended" \in {"answered", "ended"}
  OBVIOUS
<1> QED
  BY <1>0, <1>1, <1>5, <1>6, <1>7, <1>8, AttemptCounts DEF Stages

\* The exporter makes one attempt more, which is not counted yet.
LEMMA ExportCounts ==
  ASSUME DeliveryInv, CountInv, NEW b \in Batch, Export(b)
  PROVE  CountInv'
<1> DEFINE h == <<b, tries[b] + 1>>
<1>0. /\ FlowTyped /\ TriesInv /\ ForwardInv /\ BodiesTyped /\ CountersTyped
  BY DEF DeliveryInv, CountInv
<1>1. /\ UNCHANGED <<content, crashes, meter, stats, taken, body>>
      /\ sdk[b] = "queued" /\ sdk' = [sdk EXCEPT ![b] = "waiting"]
      /\ tries' = [tries EXCEPT ![b] = @ + 1]
      /\ stage' = [stage EXCEPT ![h] = "queued"]
  BY DEF Export, boundVars, meterVars
<1>2. tries[b] \in Nat /\ tries[b] + 1 \in 1 .. MaxTries /\ stage[h] = "idle"
  BY <1>0, <1>1, TriesAssumption DEF FlowTyped, TriesInv
<1>3. h \in Attempts
  BY <1>2 DEF Attempts
<1>4. TriesInv'
  <2> SUFFICES ASSUME NEW c \in Batch
               PROVE  /\ sdk'[c] = "queued" => tries'[c] < MaxTries
                      /\ \A k \in 1 .. MaxTries : k > tries'[c] => stage'[<<c, k>>] = "idle"
    BY DEF TriesInv
  <2>1. CASE c # b
    <3>1. sdk'[c] = sdk[c] /\ tries'[c] = tries[c]
      BY <1>0, <1>1, <2>1 DEF FlowTyped
    <3>2. \A k \in 1 .. MaxTries : stage'[<<c, k>>] = stage[<<c, k>>]
      BY <1>0, <1>1, <2>1 DEF FlowTyped, Attempts
    <3> QED
      BY <1>0, <3>1, <3>2 DEF TriesInv
  <2>2. CASE c = b
    <3>1. sdk'[b] = "waiting" /\ tries'[b] = tries[b] + 1
      BY <1>0, <1>1 DEF FlowTyped
    <3>2. \A k \in 1 .. MaxTries : k > tries[b] + 1 => stage'[<<b, k>>] = stage[<<b, k>>]
      BY <1>0, <1>1 DEF FlowTyped, Attempts
    <3>3. \A k \in 1 .. MaxTries : k > tries[b] + 1 => stage[<<b, k>>] = "idle"
      BY <1>0, <1>2 DEF TriesInv
    <3> QED
      BY <2>2, <3>1, <3>2, <3>3
  <2> QED
    BY <2>1, <2>2
<1> HIDE DEF h
<1>5. CountersTyped' /\ BodiesTyped'
  BY <1>0, <1>1 DEF CountersTyped, BodiesTyped
<1>6. h \notin taken /\ ~body'[h].counted
  BY <1>0, <1>1, <1>2, <1>3 DEF ForwardInv
<1>7. Derived' = Derived /\ Recorded' = Recorded
  <2>1. h \notin Derived /\ h \notin Recorded
    BY <1>2 DEF Derived, Recorded
  <2>2. /\ Derived' = IF h \in Parsed /\ "queued" \in {"forwarding", "answered", "ended"}
                      THEN Derived \cup {h} ELSE Derived \ {h}
        /\ Recorded' = IF h \in Parsed /\ "queued" = "ended" /\ ~Throws(Of(h).spans)
                       THEN Recorded \cup {h} ELSE Recorded \ {h}
    BY <1>0, <1>1, <1>3, SetsMove DEF Stages
  <2> QED
    BY <2>1, <2>2
<1>8. crashes = 0 => Books'
  BY <1>1, <1>7, BooksStay DEF CountInv
<1> QED
  BY <1>0, <1>1, <1>3, <1>4, <1>5, <1>6, <1>8, AttemptKept DEF Stages

\* Steps that make and move no attempt.
LEMMA CountUndisturbed ==
  ASSUME DeliveryInv, CountInv,
         UNCHANGED <<content, tries, stage, body, taken, meter, stats, crashes>>,
         \A b \in Batch : sdk'[b] = "queued" => sdk[b] = "queued" \/ tries[b] < MaxTries
  PROVE  CountInv'
<1>1. UNCHANGED <<Parsed, Made, Derived, Recorded>>
  <2>1. \A k : Of(k)' = Of(k)
    BY DEF Of
  <2> QED
    BY <2>1 DEF Parsed, Made, Derived, Recorded
<1>2. FiniteInv' /\ BodiesTyped' /\ CountersTyped' /\ TriesInv'
  BY <1>1 DEF CountInv, FiniteInv, BodiesTyped, CountersTyped, TriesInv
<1>3. ForwardInv'
  BY <1>1 DEF CountInv, ForwardInv, Of
<1>4. crashes = 0 => Books'
  BY <1>1, BooksStay DEF CountInv
<1> QED
  BY <1>2, <1>3, <1>4 DEF CountInv

\* A restart forgets the counters: they are of one life of the proxy.
LEMMA RestartCounts ==
  ASSUME DeliveryInv, CountInv, Restart
  PROVE  CountInv'
<1>0. FlowTyped /\ TriesInv /\ ForwardInv /\ FiniteInv /\ CountersTyped
  BY DEF DeliveryInv, CountInv
<1>1. /\ UNCHANGED <<content, tries, taken>> /\ crashes' = crashes + 1
      /\ stage' = [h \in Attempts |-> IF stage[h] = "idle" THEN "idle" ELSE "ended"]
      /\ sdk' = [b \in Batch |-> IF sdk[b] = "waiting" THEN AfterFailure(b) ELSE sdk[b]]
      /\ body' = [h \in Attempts |-> NoBody] /\ meter' = NoMeter /\ stats' = NoStats
  BY DEF Restart
<1>2. BodiesTyped'
  BY <1>1 DEF BodiesTyped, NoBody
<1>3. CountersTyped' /\ crashes' # 0
  BY <1>0, <1>1 DEF CountersTyped, NoMeter, NoStats
<1>4. TriesInv'
  <2>1. \A b \in Batch, k \in 1 .. MaxTries : <<b, k>> \in Attempts
    BY DEF Attempts
  <2> QED
    BY <1>0, <1>1, <2>1 DEF TriesInv, AfterFailure
<1>5. ForwardInv'
  BY <1>0, <1>1 DEF ForwardInv, NoBody
<1>6. FiniteInv'
  <2>1. Made' = Made
    BY <1>1 DEF Made
  <2> QED
    BY <1>0, <1>1, <2>1 DEF FiniteInv
<1> QED
  BY <1>2, <1>3, <1>4, <1>5, <1>6 DEF CountInv

\* Every step keeps the counts.
LEMMA NextKeepsCounts == DeliveryInv /\ CountInv /\ [ProxyNext]_vars => CountInv'
<1> SUFFICES ASSUME DeliveryInv, CountInv, [ProxyNext]_vars PROVE CountInv'
  OBVIOUS
<1>1. CASE Gauge \/ Tick \/ UNCHANGED vars
  BY <1>1, CountUndisturbed
     DEF Gauge, Tick, vars, exportVars, coVars, meterVars, boundVars
<1>2. ASSUME NEW b \in Batch, ExportTimeout(b)
      PROVE  CountInv'
  <2>1. /\ UNCHANGED <<content, tries, stage, body, taken, meter, stats, crashes>>
        /\ sdk' = [sdk EXCEPT ![b] = AfterFailure(b)]
    BY <1>2 DEF ExportTimeout, coVars, meterVars, boundVars
  <2>2. \A c \in Batch : sdk'[c] = "queued" => sdk[c] = "queued" \/ tries[c] < MaxTries
    BY <2>1 DEF AfterFailure, DeliveryInv, FlowTyped
  <2> QED
    BY <2>1, <2>2, CountUndisturbed
<1>3. CASE \E b \in Batch : Export(b)
  BY <1>3, ExportCounts
<1>4. CASE \E h \in Attempts : Coroutine(h)
  BY <1>4, PassesOn, DeriveCounts, ReturnCounts DEF Coroutine
<1>5. CASE \E h \in Attempts : Collector(h)
  BY <1>5, CollectorCounts
<1>6. CASE Restart
  BY <1>6, RestartCounts
<1> QED
  BY <1>1, <1>2, <1>3, <1>4, <1>5, <1>6 DEF ProxyNext

\* Nothing is counted at first.
LEMMA InitCount == ProxyInit => CountInv
<1> SUFFICES ASSUME ProxyInit PROVE CountInv
  OBVIOUS
<1>1. Made = {} /\ Derived = {} /\ Recorded = {} /\ Raised = {} /\ taken = {}
  BY DEF ProxyInit, Made, Derived, Recorded, Raised, Parsed
<1>2. CallsIn(content, {}) = {} /\ SpansIn(content, {}) = {}
  BY DEF CallsIn, SpansIn
<1>3. FiniteInv
  BY <1>1, <1>2, FS_EmptySet DEF FiniteInv
<1>4. BodiesTyped /\ CountersTyped
  BY DEF ProxyInit, BodiesTyped, CountersTyped, NoBody, NoMeter, NoStats
<1>5. TriesInv
  BY TriesAssumption DEF ProxyInit, TriesInv, Attempts
<1>6. ForwardInv
  BY DEF ProxyInit, ForwardInv, NoBody
<1>7. Books
  <2>1. /\ Cardinality(CallsIn(content, Derived)) = 0 /\ Cardinality(Raised) = 0
        /\ Cardinality(SpansIn(content, Recorded)) = 0 /\ Cardinality(Recorded) = 0
    BY <1>1, <1>2, FS_EmptySet
  <2>2. Cardinality(taken \cap Recorded) = 0
    <3>1. taken \cap Recorded = {}
      BY <1>1
    <3> QED
      BY <3>1, FS_EmptySet
  <2>3. /\ meter.tokens = 0 /\ meter.requests = 0 /\ stats.tokens = 0 /\ stats.calls = 0
        /\ stats.forwarded = 0 /\ stats.failed = 0 /\ stats.spans = 0
    BY DEF ProxyInit, NoMeter, NoStats
  <2> QED
    BY <2>1, <2>2, <2>3 DEF Books
<1> QED
  BY <1>3, <1>4, <1>5, <1>6, <1>7 DEF CountInv

\* What the counters say of the attempts follows from their stages.
LEMMA CountsAgree == DeliveryInv /\ CountInv => CountedPerAttempt
<1> SUFFICES ASSUME DeliveryInv, CountInv, crashes = 0
             PROVE  /\ SumOver(taken \cap Parsed, Calls) <= meter.tokens
                    /\ meter.tokens <= SumOver(Made \cap Parsed, Calls)
                    /\ stats.tokens = meter.tokens
                    /\ stats.calls <= meter.requests
                    /\ meter.requests - stats.calls
                         = Cardinality({h \in Made \cap Parsed :
                             Throws(Of(h).spans)
                               /\ stage[h] \in {"forwarding", "answered", "ended"}})
                    /\ stats.forwarded + stats.failed = Cardinality(Recorded)
                    /\ stats.spans = SumOver(Recorded, Spans)
                    /\ stats.forwarded <= Cardinality(taken \cap Recorded)
  BY DEF CountedPerAttempt, Recorded
<1>0. /\ Books /\ FiniteInv /\ ForwardInv /\ CountersTyped
  BY DEF CountInv
<1>1. \A S : /\ SumOver(S, Calls) = Cardinality(CallsIn(content, S))
             /\ SumOver(S, Spans) = Cardinality(SpansIn(content, S))
  BY DEF SumOver, Calls, Spans, CallsIn, SpansIn, Of
<1>2. /\ taken \cap Parsed \subseteq Derived /\ Derived \subseteq Made \cap Parsed
      /\ Made \cap Parsed \subseteq Made /\ Derived \subseteq Made /\ Raised \subseteq Made
  BY <1>0, SetsMade DEF ForwardInv, Derived
<1>3. /\ Cardinality(CallsIn(content, taken \cap Parsed))
           <= Cardinality(CallsIn(content, Derived))
      /\ Cardinality(CallsIn(content, Derived))
           <= Cardinality(CallsIn(content, Made \cap Parsed))
  BY <1>0, <1>2, CountsWithin
<1>4. Raised = {h \in Made \cap Parsed :
                  Throws(Of(h).spans) /\ stage[h] \in {"forwarding", "answered", "ended"}}
  BY DEF Raised, Derived, Made, Parsed
<1>5. Cardinality(Raised) \in Nat
  BY <1>0, <1>2, CountsWithin
<1>6. /\ stats.calls <= meter.requests /\ meter.requests - stats.calls = Cardinality(Raised)
  BY <1>0, <1>5 DEF Books, CountersTyped
<1> QED
  BY <1>0, <1>1, <1>3, <1>4, <1>6 DEF Books

\* As long as the proxy lives, its counters never miss a call the Collector holds,
\* never count one more often than its batch was sent, and /v1/stats records every
\* enriched attempt once, as forwarded only if the Collector took it (process_traces
\* and record_batch), for every mix of batches and however retries, timeouts and
\* lost answers overlap.
THEOREM CountersAreHonest == ProxySpec => []CountedPerAttempt
<1>1. ProxyInit => DeliveryInv /\ CountInv
  BY InitDelivery, InitCount
<1>2. DeliveryInv /\ CountInv /\ [ProxyNext]_vars => (DeliveryInv /\ CountInv)'
  BY NextKeepsDelivery, NextKeepsCounts
<1>3. DeliveryInv /\ CountInv => CountedPerAttempt
  BY CountsAgree
<1> QED
  BY <1>1, <1>2, <1>3, PTL DEF ProxySpec
=============================================================================
