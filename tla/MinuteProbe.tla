---------------------------- MODULE MinuteProbe ----------------------------
(* run_scheduled_minute_label_probe: the preflight of the endpoints, the   *)
(* four samples at their times, the transactions after them, the result.   *)
(*                                                                         *)
(* The vendor labels its bars by the start or by the end of their minute,  *)
(* and what it shows is at most MaxLag seconds old, by the clock of the    *)
(* program.  A request runs in a process of its own (ProbeWorker); here it *)
(* answers, fails or is ended at its deadline.  Sleeping may take longer   *)
(* than asked, and a process may start late.                               *)
EXTENDS MinuteLabel

CONSTANTS Trades,        \* the days: when the stocks trade, from 14:49 to 14:51
          Starts,        \* when the probe may be started
          MaxLag,        \* what the vendor shows is never older
          Endpoints,     \* how many candidates there are
          MaxTroubles    \* bound: what does not go smoothly, in one run

ASSUME ProbeAssumption ==
  /\ Trades \subseteq [Code -> SUBSET (0..119)]
  /\ Starts \subseteq 0..DiscoveryCutoff + 85
  /\ MaxLag \in Nat
  /\ Endpoints \in Nat \ {0} /\ MaxTroubles \in Nat

VARIABLES
  label,      \* what the label of a bar means at the vendor
  trades,     \* when the stocks trade
  source, fixed,  \* the source, and whether its endpoint was given
  pc, now,
  attempts,   \* of the preflight
  endpoint,   \* the one it selected, 0 for none
  samples,
  evidence,   \* the transactions
  result,
  troubles    \* history

world == <<label, trades, source, fixed>>
vars == <<world, pc, now, attempts, endpoint, samples, evidence, result, troubles>>

NoEvidence == [ok |-> FALSE, endpoint |-> 0]
NoResult == [status |-> "none"]

Init ==
  /\ label \in {"minute_start", "minute_end"}
  /\ trades \in Trades
  /\ source \in {"eastmoney", "mootdx"}
  /\ fixed \in IF source = "mootdx" THEN BOOLEAN ELSE {FALSE}
  /\ pc = "preflight" /\ now \in Starts
  /\ attempts = <<>> /\ endpoint = 0 /\ samples = <<>>
  /\ evidence = NoEvidence /\ result = NoResult /\ troubles = 0

Trouble(b) == troubles' = (IF b THEN troubles + 1 ELSE troubles) /\ troubles' <= MaxTroubles

(* ------------------------------- the vendor ----------------------------- *)

\* The minute that the bar labelled 14:50 is about.
Minute50 == IF label = "minute_end" THEN 0..59 ELSE 60..119

\* The bar of a stock as it was at a time.
Shown(c, at) == Cardinality({t \in trades[c] : t \in Minute50 /\ t < at})

(* ------------------------------ the preflight --------------------------- *)

\* The candidates: an endpoint that was given is the only one.
Candidates == IF fixed THEN 1 ELSE Endpoints

Preflight(status) == [status |-> status, endpoint |-> endpoint, attempts |-> attempts]

\* A source without endpoints is sampled at once.
NoPreflight ==
  /\ pc = "preflight" /\ source # "mootdx"
  /\ pc' = "sample"
  /\ UNCHANGED <<world, now, attempts, endpoint, samples, evidence, result, troubles>>

\* There is no time left to look for an endpoint.
TooLateToDiscover == source = "mootdx" /\ ~fixed /\ attempts = <<>> /\ now >= DiscoveryCutoff

Attempt ==
  /\ pc = "preflight" /\ source = "mootdx"
  /\ ~TooLateToDiscover /\ Len(attempts) < Candidates
  /\ \E ok \in BOOLEAN, took \in 0..RequestDeadline :
       /\ attempts' = Append(attempts, [endpoint |-> Len(attempts) + 1, ok |-> ok])
       /\ now' = now + took
       /\ endpoint' = IF ok THEN Len(attempts) + 1 ELSE 0
       /\ pc' = IF ok THEN "sample" ELSE "preflight"
       /\ Trouble(~ok)
  /\ UNCHANGED <<world, samples, evidence, result>>

PreflightFails ==
  /\ pc = "preflight" /\ source = "mootdx"
  /\ TooLateToDiscover \/ Len(attempts) = Candidates
  /\ result' = [status |-> "SOURCE_PREFLIGHT_FAILED", source |-> source, preflight |-> Preflight("failed"),
                samples |-> <<>>, audit |-> AuditSummary(<<>>), semantics |-> "unverified"]
  /\ pc' = "done"
  /\ UNCHANGED <<world, now, attempts, endpoint, samples, evidence, troubles>>

(* ------------------------------- the samples ---------------------------- *)

Target == Targets[Len(samples) + 1]
NoBars == [c \in Code |-> 0]

\* A slip of Sample: a target that was missed names the endpoint as well.
SampleOfEndpoint(how, lag, completed, covered, bars) ==
  [how |-> how, lag |-> lag, done |-> completed - Target, covered |-> covered, bars |-> bars,
   endpoint |-> endpoint]

\* _sample_from_worker_result, _empty_probe_sample.
Sample(how, lag, completed, covered, bars) ==
  [how |-> how, lag |-> lag, done |-> completed - Target, covered |-> covered, bars |-> bars,
   endpoint |-> IF how = "missed" THEN 0 ELSE endpoint]

Keep(s, completed) ==
  /\ samples' = Append(samples, s)
  /\ now' = completed
  /\ pc' = IF Len(samples) < 3 THEN "sample" ELSE IF source = "mootdx" THEN "transactions" ELSE "finish"

\* The sleep ends at the target or after it.
Wakes == LET due == IF now > Target THEN now ELSE Target IN {due, due + 2, due + 3}

\* The worker is started in time, but its request may not be.
InTime(launched) == launched - Target <= MaxStartLag

\* SAMPLE_WINDOW_MISSED: it is not made up for.
Miss ==
  /\ pc = "sample"
  /\ \E launched \in Wakes :
       /\ ~InTime(launched)
       /\ Trouble(TRUE)
       /\ Keep(Sample("missed", launched - Target, launched, {}, NoBars), launched)
  /\ UNCHANGED <<world, attempts, endpoint, evidence, result>>

\* Each stock is asked for on its own, and shown as of some time of its own.
Answer ==
  /\ pc = "sample"
  /\ \E launched \in Wakes, covered \in SUBSET Code :
     \E started \in launched..launched + 1 :
     \E completed \in {started, launched + RequestDeadline} :
     \E at \in [Code -> {started - MaxLag, completed}] :
       /\ InTime(launched)
       /\ Trouble(covered # Code \/ launched > Target \/ started > launched \/ completed > started)
       /\ Keep(Sample("ok", started - Target, completed, covered,
                      [c \in Code |-> IF c \in covered THEN Shown(c, at[c]) ELSE 0]),
               completed)
  /\ UNCHANGED <<world, attempts, endpoint, evidence, result>>

\* A request that failed, or was ended at its deadline.
NoAnswer ==
  /\ pc = "sample"
  /\ \E launched \in Wakes, took \in 0..RequestDeadline + 1 :
       /\ InTime(launched)
       /\ Trouble(TRUE)
       /\ Keep(Sample(IF took > RequestDeadline THEN "timeout" ELSE "failed",
                      launched - Target, launched + took, {}, NoBars),
               launched + took)
  /\ UNCHANGED <<world, attempts, endpoint, evidence, result>>

(* ---------------------------- the transactions -------------------------- *)

\* The pages of a stock are read while it trades on: a row that moved to the
\* next page is read again, with another position.
Rows(c, again) == {[at |-> t, copy |-> 0] : t \in trades[c]} \union {[at |-> t, copy |-> 1] : t \in again}

CollectTransactions ==
  /\ pc = "transactions"
  /\ \/ /\ evidence' = [NoEvidence EXCEPT !.endpoint = endpoint]
        /\ Trouble(TRUE)
     \/ \E precision \in {"second", "minute", "mixed"}, spans \in BOOLEAN :
        \E again \in [Code -> {{}} \union {{t} : t \in UNION {trades[c] : c \in Code}}] :
          /\ \A c \in Code : again[c] \subseteq trades[c]
          /\ evidence' = [ok |-> TRUE, endpoint |-> endpoint, precision |-> precision, spans |-> spans,
                          rows |-> [c \in Code |-> Rows(c, again[c])],
                          doubled |-> \E c \in Code : again[c] # {}]
          /\ Trouble(precision = "mixed" \/ ~spans \/ \E c \in Code : again[c] # {})
  /\ pc' = "finish"
  /\ UNCHANGED <<world, now, attempts, endpoint, samples, result>>

(* -------------------------------- the result ---------------------------- *)

\* What the transactions say replaces what the samples said, unless sampling failed.
Finish ==
  /\ pc = "finish"
  /\ LET classified == Classified(samples)
         attributed == IF source = "mootdx" THEN Attributed(samples, evidence) ELSE "inconclusive"
         provisional == attributed # "inconclusive" /\ ~SamplingFailed(samples)
     IN result' =
          [status |-> IF provisional THEN "MINUTE_LABEL_PROVISIONAL"
                      ELSE IF classified # "unverified" THEN "MINUTE_LABEL_VERIFIED"
                      ELSE "MINUTE_LABEL_INCONCLUSIVE",
           semantics |-> IF provisional THEN attributed ELSE classified,
           source |-> source,
           preflight |-> Preflight(IF source = "mootdx" THEN "ready" ELSE "not required"),
           samples |-> samples, audit |-> AuditSummary(samples),
           evidence |-> evidence, attribution |-> attributed]
  /\ pc' = "done"
  /\ UNCHANGED <<world, now, attempts, endpoint, samples, evidence, troubles>>

Next ==
  \/ NoPreflight \/ Attempt \/ PreflightFails
  \/ Miss \/ Answer \/ NoAnswer
  \/ CollectTransactions \/ Finish

Spec == Init /\ [][Next]_vars

(* ------------------------------- properties ----------------------------- *)

\* A label that the four samples verified is the vendor's: the probe never
\* takes an end for a start or a start for an end, whenever the stocks trade,
\* however late in their limits the requests are, and as stale as MaxLag the
\* answers.
VerifiedIsTrue ==
  pc = "done" /\ result.status = "MINUTE_LABEL_VERIFIED" => result.semantics = label

\* So is a label that the transactions of the two minutes decided, in the
\* probe or in a later analysis of its file, unless a page moved while it was
\* read.
AttributedIsTrue ==
  pc = "done" /\ evidence.ok /\ ~evidence.doubled =>
    /\ result.status = "MINUTE_LABEL_PROVISIONAL" => result.semantics = label
    /\ Reanalysed(result) \in {"inconclusive", label}

\* The evidence that the probe writes is accepted by the independent
\* verification, whatever went wrong on the way, unless an answer came late
\* or left out a stock.
EvidenceVerifies ==
  pc = "done" /\ (\A i \in DOMAIN samples : ~Failed(samples[i]) => ~Late(samples[i]) /\ samples[i].covered = Code)
  => Verifies(result)
=============================================================================
