---------------------------- MODULE MinuteLabel ----------------------------
(* What the four samples of the minute bar labelled 14:50 say of its label:*)
(* classify_minute_label_samples, the attribution of the bar to the trades *)
(* of a minute (data/transaction_attribution.py), and the independent      *)
(* verification of the evidence (data/probe_evidence.py).                  *)
(*                                                                         *)
(* Times are seconds from 14:49:00.  The content of a bar, its OHLCV hash, *)
(* is the number of trades in it; a bar without trades is not there.  A    *)
(* sample keeps of its times the lags of the start and of the completion   *)
(* behind the target.  Hashes are those of the contents they were made of. *)
EXTENDS Integers, FiniteSets, Sequences

CONSTANT Code

ASSUME CodeAssumption == Code # {} /\ IsFiniteSet(Code)

Targets == <<55, 65, 90, 125>>       \* PROBE_CLOCKS
MaxStartLag == 2                     \* MAX_PROBE_START_LAG_SECONDS
RequestDeadline == 2                 \* MINUTE_REQUEST_DEADLINE_MS
DiscoveryCutoff == 40                \* ENDPOINT_DISCOVERY_CUTOFF
StableObservations == 3              \* MINIMUM_STABLE_OBSERVATIONS

(* ----------------------------- classification --------------------------- *)

Failed(s) == s.how # "ok"

\* _probe_timing_errors.
OnTime(s) == ~Failed(s) /\ s.lag <= MaxStartLag

\* The bar came with its minute, changed in it and was settled after it.
LooksLikeStart(samples, c) ==
  /\ samples[1].bars[c] = 0
  /\ \A i \in 2..4 : samples[i].bars[c] > 0
  /\ samples[2].bars[c] # samples[3].bars[c]
  /\ samples[3].bars[c] = samples[4].bars[c]

\* A slip of LooksLikeEnd: whether it was there before the minute is not asked.
LooksSettled(samples, c) ==
  /\ \A i \in 2..4 : samples[i].bars[c] > 0
  /\ \A i, j \in 2..4 : samples[i].bars[c] = samples[j].bars[c]

\* The bar was there before the minute and never changed.
LooksLikeEnd(samples, c) ==
  /\ \A i \in 1..4 : samples[i].bars[c] > 0
  /\ \A i, j \in 1..4 : samples[i].bars[c] = samples[j].bars[c]

Classified(samples) ==
  IF ~ \A i \in 1..4 : OnTime(samples[i]) /\ samples[i].covered = Code
  THEN "unverified"
  ELSE IF \A c \in Code : LooksLikeStart(samples, c) THEN "minute_start"
  ELSE IF \A c \in Code : LooksLikeEnd(samples, c) THEN "minute_end"
  ELSE "unverified"

\* _probe_audit_summary; every record of an answer has its code covered.
Late(s) == s.done > RequestDeadline
AuditSummary(samples) ==
  LET ran == {i \in DOMAIN samples : samples[i].how # "missed"}
  IN [lateStarts |-> Cardinality({i \in DOMAIN samples : samples[i].lag > MaxStartLag}),
      overDeadline |-> Cardinality({i \in ran : samples[i].how = "timeout" \/ Late(samples[i])}),
      missed |-> Cardinality(DOMAIN samples \ ran),
      lateRecords |-> Cardinality({p \in (DOMAIN samples) \X Code :
                        /\ ~Failed(samples[p[1]]) /\ Late(samples[p[1]])
                        /\ p[2] \in samples[p[1]].covered})]

\* _probe_sampling_failed.
SamplingFailed(samples) ==
  \/ \E k \in DOMAIN AuditSummary(samples) : AuditSummary(samples)[k] > 0
  \/ \E i \in DOMAIN samples : Failed(samples[i])

(* ------------------------------ attribution ----------------------------- *)

\* The samples in which the bar was there, and what it was in the end, when
\* the last three of them agree.
Observations(samples, c) == {i \in DOMAIN samples : samples[i].bars[c] > 0}
IsFinal(samples, c) ==
  \E last \in SUBSET Observations(samples, c) :
    /\ Cardinality(last) = StableObservations
    /\ \A i \in last, j \in Observations(samples, c) \ last : j < i
    /\ \A i, j \in last : samples[i].bars[c] = samples[j].bars[c]
FinalBar(samples, c) ==
  samples[CHOOSE i \in Observations(samples, c) : \A j \in Observations(samples, c) : j <= i].bars[c]

\* A transaction of a source that gives whole minutes is one of their first second.
EventTime(t, precision) == IF precision = "minute" THEN t - (t % 60) ELSE t

\* A slip of Aggregate: the interval includes the first second of the next.
IntervalToTheMinute(rows, precision, m) ==
  Cardinality({r \in rows : EventTime(r.at, precision) \in 60 * m .. 60 * m + 60})

\* aggregate_transaction_interval: the trades of the minute, first second to last.
Aggregate(rows, precision, m) ==
  Cardinality({r \in rows : EventTime(r.at, precision) \in 60 * m .. 60 * m + 59})

\* _attribute_stock: the one minute, 14:49 or 14:50, whose trades are the bar.
AttributeStock(samples, e, c) ==
  LET a49 == Aggregate(e.rows[c], e.precision, 0)
      a50 == Aggregate(e.rows[c], e.precision, 1)
      bar == FinalBar(samples, c)
  IN IF \/ ~IsFinal(samples, c) \/ ~e.spans \/ e.precision = "mixed"
        \/ 0 \in {a49, a50} \/ (a49 = bar) = (a50 = bar)
     THEN "inconclusive"
     ELSE IF a49 = bar THEN "minute_end" ELSE "minute_start"

\* attribute_mootdx_minute_intervals; without transactions there is nothing.
Attributed(samples, e) ==
  LET statuses == {AttributeStock(samples, e, c) : c \in Code}
  IN IF e.ok /\ Cardinality(statuses) = 1 THEN CHOOSE s \in statuses : TRUE ELSE "inconclusive"

(* ----------------------------- verification ----------------------------- *)

\* _validate_mootdx_ready_preflight, _validate_failure_closed_preflight.
PreflightVerifies(r) ==
  CASE r.status = "SOURCE_PREFLIGHT_FAILED" ->
         r.source = "mootdx" /\ r.preflight.status = "failed" /\ r.samples = <<>>
    [] r.status # "SOURCE_PREFLIGHT_FAILED" /\ r.source = "mootdx" ->
         /\ r.preflight.status = "ready"
         /\ r.preflight.attempts # <<>>
         /\ LET last == r.preflight.attempts[Len(r.preflight.attempts)]
            IN last.ok /\ last.endpoint = r.preflight.endpoint
    [] OTHER -> r.preflight.status = "not required"

\* _validate_v2_samples, _validate_sample_timing.
SampleVerifies(s, r) ==
  /\ Failed(s) \/ s.covered = Code
  /\ s.covered \subseteq Code
  /\ r.source = "mootdx" => s.endpoint = IF s.how = "missed" THEN 0 ELSE r.preflight.endpoint
  /\ 0 <= s.lag /\ s.lag <= s.done
  /\ Failed(s) \/ ~Late(s)

\* verify_probe_evidence, validate_probe_v2_semantics.
Verifies(r) ==
  /\ PreflightVerifies(r)
  /\ r.status # "SOURCE_PREFLIGHT_FAILED" =>
       Len(r.samples) = 4 /\ \A i \in 1..4 : SampleVerifies(r.samples[i], r)
  /\ r.audit = AuditSummary(r.samples)
  /\ r.source = "mootdx" /\ r.status # "SOURCE_PREFLIGHT_FAILED" =>
       /\ r.evidence.endpoint = r.preflight.endpoint
       /\ r.attribution = Attributed(r.samples, r.evidence)

\* build_mootdx_probe_reanalysis: what an accepted file says by its
\* transactions alone, whatever became of its samples.
Reanalysed(r) ==
  IF r.source = "mootdx" /\ r.status # "SOURCE_PREFLIGHT_FAILED" /\ Verifies(r) /\ r.evidence.ok
  THEN Attributed(r.samples, r.evidence) ELSE "inconclusive"
=============================================================================
