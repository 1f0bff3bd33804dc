------------------------- MODULE MinuteProbeProofs -------------------------
(* That a label that the four samples verified, or that the transactions   *)
(* decided, is the vendor's, for any stocks, any trades, any troubles, and *)
(* a vendor whose answers are at most five seconds old.                    *)
(*                                                                         *)
(* Each bar of an answer is the vendor's as of a moment near its target.   *)
(* With an end label the moments from the second target on are all after   *)
(* the last trade that counts, so that the bar cannot change; with a start *)
(* label the moments of the first target are all before the first, so that *)
(* the bar cannot be there.  So too, a bar that the last three of its      *)
(* observations agree on is that of its whole minute, and the transactions *)
(* of that minute, each counted once, are as many.                         *)
(*                                                                         *)
(* That the verification accepts what a run wrote needs no vendor: one     *)
(* endpoint is kept from the preflight to the end, and each sample is      *)
(* completed after it was started, after its target.                       *)
EXTENDS MinuteProbe, FiniteSetTheorems, FunctionTheorems, TLAPS

\* The vendor's freshness: after this the last two of the four targets are
\* not enough.
FreshVendor == MaxLag <= 5

Moments(i) == (Targets[i] - MaxLag)..(Targets[i] + MaxStartLag + RequestDeadline)

\* What the answers say is what the vendor showed about then.
AnswersShown ==
  \A i \in 1..Len(samples), c \in Code : samples[i].bars[c] > 0 =>
    \E at \in Moments(i) : samples[i].bars[c] = Shown(c, at)

Samples == [how : {"ok", "failed", "timeout", "missed"}, lag : Int, done : Int,
            covered : SUBSET Code, bars : [Code -> Int], endpoint : Int]

World ==
  /\ label \in {"minute_start", "minute_end"}
  /\ trades \in [Code -> SUBSET (0..119)]

Bookkeeping ==
  /\ World
  /\ now \in Nat
  /\ samples \in Seq(Samples)
  /\ pc \in {"preflight", "sample", "transactions", "finish", "done"}
  /\ pc \in {"preflight", "sample"} => Len(samples) < 4
  /\ pc \in {"transactions", "finish"} => Len(samples) = 4

Attempts == attempts \in Seq([endpoint : Int, ok : BOOLEAN]) /\ endpoint \in Int

IInv == Bookkeeping /\ Attempts /\ AnswersShown /\ (FreshVendor => VerifiedIsTrue)

(* -------------------------------- the bars ------------------------------ *)

\* A bar whose minute is over does not change.
LEMMA EndSettles ==
  ASSUME World, label = "minute_end", NEW c \in Code,
         NEW p \in Int, NEW q \in Int, p >= 60, q >= 60
  PROVE  Shown(c, p) = Shown(c, q)
<1>1. {t \in trades[c] : t \in Minute50 /\ t < p} = {t \in trades[c] : t \in Minute50 /\ t < q}
  BY DEF Minute50, World
<1> QED BY <1>1 DEF Shown

\* Before the minute began there is no bar.
LEMMA StartIsAbsent ==
  ASSUME World, label = "minute_start", NEW c \in Code, NEW p \in Int, p <= 60
  PROVE  Shown(c, p) = 0
<1>1. {t \in trades[c] : t \in Minute50 /\ t < p} = {}
  BY DEF Minute50, World
<1> QED BY <1>1, FS_EmptySet DEF Shown

\* An answer of a sample counts trades.
LEMMA ShownIsNumber ==
  ASSUME World, NEW c \in Code, NEW p \in Int
  PROVE  Shown(c, p) \in Nat
<1>1. IsFiniteSet(0..119)
  <2>1. \A m, n \in Int : IsFiniteSet(m..n) BY FS_Interval
  <2>2. 0 \in Int /\ 119 \in Int OBVIOUS
  <2> QED BY ONLY <2>1, <2>2, Zenon
<1>2. {t \in trades[c] : t \in Minute50 /\ t < p} \subseteq 0..119 BY DEF World
<1>3. IsFiniteSet({t \in trades[c] : t \in Minute50 /\ t < p}) BY <1>1, <1>2, FS_Subset
<1> QED BY <1>3, FS_CardinalityType DEF Shown

\* What four samples that are classified say is what the vendor means.
LEMMA ClassifiedIsTrue ==
  ASSUME FreshVendor, Bookkeeping, AnswersShown, Len(samples) = 4
  PROVE  Classified(samples) \in {"unverified", label}
<1> USE CodeAssumption, ProbeAssumption
<1> SUFFICES ASSUME Classified(samples) # "unverified" PROVE Classified(samples) = label
  OBVIOUS
<1>1. \A i \in 1..4 : samples[i].how = "ok" /\ samples[i].covered = Code
  BY DEF Classified, OnTime, Failed
<1>2. PICK c : c \in Code OBVIOUS
<1>3. \A i \in 1..4 : samples[i].bars[c] > 0 =>
        \E at \in Moments(i) : samples[i].bars[c] = Shown(c, at)
  BY <1>2 DEF AnswersShown
<1>4. /\ Moments(1) = (55 - MaxLag)..59 /\ Moments(2) = (65 - MaxLag)..69
      /\ Moments(3) = (90 - MaxLag)..94 /\ Moments(4) = (125 - MaxLag)..129
  BY DEF Moments, Targets, MaxStartLag, RequestDeadline
<1>5. CASE Classified(samples) = "minute_start"
  <2>1. samples[2].bars[c] # samples[3].bars[c] /\ samples[2].bars[c] > 0 /\ samples[3].bars[c] > 0
    BY <1>1, <1>2, <1>5 DEF Classified, LooksLikeStart
  <2>2. PICK p \in Moments(2) : samples[2].bars[c] = Shown(c, p) BY <1>3, <2>1
  <2>3. PICK q \in Moments(3) : samples[3].bars[c] = Shown(c, q) BY <1>3, <2>1
  <2>4. p \in Int /\ q \in Int /\ p >= 60 /\ q >= 60 BY <1>4, <2>2, <2>3 DEF FreshVendor
  <2>5. label # "minute_end" BY <1>2, <2>1, <2>2, <2>3, <2>4, EndSettles DEF Bookkeeping
  <2> QED BY <1>5, <2>5 DEF Bookkeeping, World
<1>6. CASE Classified(samples) = "minute_end"
  <2>1. samples[1].bars[c] > 0
    BY <1>1, <1>2, <1>6 DEF Classified, LooksLikeEnd
  <2>2. PICK p \in Moments(1) : samples[1].bars[c] = Shown(c, p) BY <1>3, <2>1
  <2>3. p \in Int /\ p <= 60 BY <1>4, <2>2
  <2>4. label # "minute_start" BY <1>2, <2>1, <2>2, <2>3, StartIsAbsent DEF Bookkeeping
  <2> QED BY <1>6, <2>4 DEF Bookkeeping, World
<1> QED BY <1>5, <1>6 DEF Classified

(* --------------------------- the transactions --------------------------- *)

\* The trades of a minute are counted once each, to the second or not.
LEMMA CountsTheMinute ==
  ASSUME World, NEW c \in Code, NEW precision \in {"second", "minute"}, NEW m \in {0, 1}
  PROVE  Aggregate(Rows(c, {}), precision, m) = Cardinality({t \in trades[c] : t \in 60 * m .. 60 * m + 59})
<1> DEFINE T == {t \in trades[c] : t \in 60 * m .. 60 * m + 59}
           R == {r \in Rows(c, {}) : EventTime(r.at, precision) \in 60 * m .. 60 * m + 59}
           f == [t \in T |-> [at |-> t, copy |-> 0]]
<1>1. \A t \in trades[c] : t \in 0..119 BY DEF World
<1>2. \A t \in trades[c] : EventTime(t, precision) \in 60 * m .. 60 * m + 59 <=> t \in 60 * m .. 60 * m + 59
  <2>1. \A t \in 0..119 : t - (t % 60) \in 0..59 <=> t \in 0..59 OBVIOUS
  <2>2. \A t \in 0..119 : t - (t % 60) \in 60..119 <=> t \in 60..119 OBVIOUS
  <2> QED BY <1>1, <2>1, <2>2 DEF EventTime
<1>3. Rows(c, {}) = {[at |-> t, copy |-> 0] : t \in trades[c]} BY DEF Rows
<1>4. f \in [T -> R]
  <2>1. \A t \in T : [at |-> t, copy |-> 0] \in R BY <1>2, <1>3
  <2> QED BY <2>1
<1>5. \A t, u \in T : f[t] = f[u] => t = u OBVIOUS
<1>6. \A r \in R : \E t \in T : f[t] = r
  <2>1. SUFFICES ASSUME NEW r \in R PROVE \E t \in T : f[t] = r OBVIOUS
  <2>2. PICK t \in trades[c] : r = [at |-> t, copy |-> 0] BY <1>3
  <2>3. t \in T BY <1>2, <2>2
  <2> QED BY <2>2, <2>3
<1>7. IsFiniteSet(T)
  <2>1. \A x, y \in Int : IsFiniteSet(x..y) BY FS_Interval
  <2>2. 0 \in Int /\ 119 \in Int OBVIOUS
  <2>3. IsFiniteSet(0..119) BY ONLY <2>1, <2>2, Zenon
  <2>4. T \subseteq 0..119 BY <1>1
  <2> QED BY ONLY <2>3, <2>4, FS_Subset
<1> HIDE DEF T, R, f
<1>8. f \in Bijection(T, R) BY <1>4, <1>5, <1>6, Fun_IsBij
<1>9. Cardinality(R) = Cardinality(T) BY <1>7, <1>8, FS_Bijection DEF ExistsBijection
<1> QED BY <1>9 DEF Aggregate, R, T

\* A bar that the last three observations agree on is that of the whole minute.
LEMMA FinalIsWhole ==
  ASSUME FreshVendor, Bookkeeping, AnswersShown, Len(samples) = 4, NEW c \in Code, IsFinal(samples, c)
  PROVE  FinalBar(samples, c) = Cardinality({t \in trades[c] : t \in Minute50})
<1> USE ProbeAssumption
<1> DEFINE obs == Observations(samples, c)
<1>1. obs \subseteq 1..4
  <2>1. samples \in Seq(Samples) BY DEF Bookkeeping
  <2>2. DOMAIN samples = 1..4 BY <2>1
  <2> QED BY <2>2 DEF Observations
<1>2. \A i \in obs : samples[i].bars[c] > 0 /\ \E at \in Moments(i) : samples[i].bars[c] = Shown(c, at)
  BY <1>1 DEF Observations, AnswersShown
<1>3. /\ Moments(1) = (55 - MaxLag)..59 /\ Moments(2) = (65 - MaxLag)..69
      /\ Moments(3) = (90 - MaxLag)..94 /\ Moments(4) = (125 - MaxLag)..129
  BY DEF Moments, Targets, MaxStartLag, RequestDeadline
<1> HIDE DEF obs
<1>4. PICK last \in SUBSET obs : Cardinality(last) = 3
  BY DEF IsFinal, obs, StableObservations
<1>5. \A x \in Int : ~(last \subseteq x..x + 1)
  <2>1. SUFFICES ASSUME NEW x \in Int, last \subseteq x..x + 1 PROVE FALSE OBVIOUS
  <2>2. \A p, q \in Int : IsFiniteSet(p..q) /\ Cardinality(p..q) = IF p > q THEN 0 ELSE q - p + 1
    BY FS_Interval
  <2>3. PICK y \in Int : y = x + 1 OBVIOUS
  <2>4. IsFiniteSet(x..y) /\ Cardinality(x..y) = IF x > y THEN 0 ELSE y - x + 1 BY <2>2
  <2>5. Cardinality(x..y) = 2 BY <2>3, <2>4
  <2>6. Cardinality(last) <= Cardinality(x..y) BY <2>1, <2>3, <2>4, FS_Subset
  <2> QED BY <1>4, <2>5, <2>6
<1>6. 3 \in obs \/ 4 \in obs
  <2>1. ~(last \subseteq 1..1 + 1) BY <1>5
  <2> QED BY <1>1, <1>4, <2>1
<1>7. label = "minute_start" => 4 \in obs
  <2>1. SUFFICES ASSUME label = "minute_start" PROVE 4 \in obs OBVIOUS
  <2>2. 1 \notin obs
    <3>1. SUFFICES ASSUME 1 \in obs PROVE FALSE OBVIOUS
    <3>2. PICK at \in Moments(1) : samples[1].bars[c] = Shown(c, at) /\ samples[1].bars[c] > 0 BY <1>2, <3>1
    <3>3. at \in Int /\ at <= 60 BY <1>3, <3>2
    <3> QED BY <2>1, <3>2, <3>3, StartIsAbsent DEF Bookkeeping
  <2>3. ~(last \subseteq 2..2 + 1) BY <1>5
  <2> QED BY <1>1, <1>4, <2>2, <2>3
<1> DEFINE m == CHOOSE i \in obs : \A j \in obs : j <= i
<1>8. m \in obs /\ \A j \in obs : j <= m
  <2>1. \E i \in obs : \A j \in obs : j <= i
    <3>1. CASE 4 \in obs BY <1>1, <3>1
    <3>2. CASE 4 \notin obs BY <1>1, <1>6, <3>2
    <3> QED BY <3>1, <3>2
  <2> QED BY <2>1
<1>9. FinalBar(samples, c) = samples[m].bars[c] BY DEF FinalBar, obs
<1> HIDE DEF m
<1>10. m \in {3, 4} /\ (label = "minute_start" => m = 4) BY <1>1, <1>6, <1>7, <1>8
<1>11. PICK at \in Moments(m) : samples[m].bars[c] = Shown(c, at) BY <1>2, <1>8
<1>12. at \in Int /\ at >= 60 /\ (label = "minute_start" => at >= 120)
  BY <1>3, <1>10, <1>11 DEF FreshVendor
<1>13. \A t \in trades[c] : t \in Minute50 => t < at
  <2>1. \A t \in trades[c] : t \in 0..119 BY DEF Bookkeeping, World
  <2>2. CASE label = "minute_end" BY <1>12, <2>2 DEF Minute50
  <2>3. CASE label = "minute_start" BY <1>12, <2>1, <2>3 DEF Minute50
  <2> QED BY <2>2, <2>3 DEF Bookkeeping, World
<1>14. {t \in trades[c] : t \in Minute50 /\ t < at} = {t \in trades[c] : t \in Minute50} BY <1>13
<1> QED BY <1>9, <1>11, <1>14 DEF Shown

\* The transactions are the trades.
Traded(e) ==
  /\ e.precision \in {"second", "minute", "mixed"}
  /\ \A c \in Code : e.rows[c] = Rows(c, {})

\* What the transactions decide of one stock.
LEMMA StockIsTrue ==
  ASSUME FreshVendor, Bookkeeping, AnswersShown, Len(samples) = 4, NEW c \in Code, NEW e, Traded(e)
  PROVE  AttributeStock(samples, e, c) \in {"inconclusive", label}
<1> DEFINE a49 == Aggregate(e.rows[c], e.precision, 0)
           a50 == Aggregate(e.rows[c], e.precision, 1)
           bar == FinalBar(samples, c)
<1> SUFFICES ASSUME AttributeStock(samples, e, c) # "inconclusive"
             PROVE  AttributeStock(samples, e, c) = label
  OBVIOUS
<1>1. IsFinal(samples, c) /\ e.precision # "mixed" /\ ~((a49 = bar) = (a50 = bar))
      /\ AttributeStock(samples, e, c) = IF a49 = bar THEN "minute_end" ELSE "minute_start"
  BY DEF AttributeStock
<1>2. bar = Cardinality({t \in trades[c] : t \in Minute50}) BY <1>1, FinalIsWhole
<1>3. e.precision \in {"second", "minute"} /\ e.rows[c] = Rows(c, {}) BY <1>1 DEF Traded
<1>4. a49 = Cardinality({t \in trades[c] : t \in 0..59})
  <2>1. 60 * 0 = 0 /\ 60 * 0 + 59 = 59 OBVIOUS
  <2>2. a49 = Cardinality({t \in trades[c] : t \in 60 * 0 .. 60 * 0 + 59})
    BY <1>3, CountsTheMinute DEF Bookkeeping
  <2> QED BY <2>1, <2>2
<1>5. a50 = Cardinality({t \in trades[c] : t \in 60..119})
  <2>1. 60 * 1 = 60 /\ 60 * 1 + 59 = 119 OBVIOUS
  <2>2. a50 = Cardinality({t \in trades[c] : t \in 60 * 1 .. 60 * 1 + 59})
    BY <1>3, CountsTheMinute DEF Bookkeeping
  <2> QED BY <2>1, <2>2
<1>6. CASE label = "minute_end"
  <2>1. a49 = bar BY <1>2, <1>4, <1>6 DEF Minute50
  <2> QED BY <1>1, <1>6, <2>1
<1>7. CASE label = "minute_start"
  <2>1. a50 = bar BY <1>2, <1>5, <1>7 DEF Minute50
  <2>2. a49 # bar BY <1>1, <2>1
  <2> QED BY <1>1, <1>7, <2>2
<1> QED BY <1>6, <1>7 DEF Bookkeeping, World

\* And of all the stocks.
LEMMA AttributedIsLabel ==
  ASSUME FreshVendor, Bookkeeping, AnswersShown, Len(samples) = 4, NEW e, Traded(e)
  PROVE  Attributed(samples, e) \in {"inconclusive", label}
<1> DEFINE statuses == {AttributeStock(samples, e, c) : c \in Code}
<1>1. statuses \subseteq {"inconclusive", label} BY StockIsTrue
<1>2. statuses # {} BY CodeAssumption
<1>3. (CHOOSE s \in statuses : TRUE) \in {"inconclusive", label} BY <1>1, <1>2
<1> QED BY <1>3 DEF Attributed

(* --------------------------------- the run ------------------------------ *)

LEMMA InitHolds == Init => IInv
<1> SUFFICES ASSUME Init PROVE IInv OBVIOUS
<1> USE ProbeAssumption DEF Init
<1>1. samples = <<>> /\ Len(samples) = 0 /\ samples \in Seq(Samples) OBVIOUS
<1>2. World BY DEF World
<1>3. now \in Nat BY DEF DiscoveryCutoff
<1>4. Bookkeeping BY <1>1, <1>2, <1>3 DEF Bookkeeping
<1>5. AnswersShown BY <1>1 DEF AnswersShown
<1> QED BY <1>4, <1>5 DEF IInv, Attempts, VerifiedIsTrue

\* A sample is kept with the time it was completed at.
LEMMA KeepHolds ==
  ASSUME IInv, UNCHANGED <<world, attempts, endpoint, result>>, pc = "sample",
         NEW s \in Samples,
         \A c \in Code : s.bars[c] > 0 => \E at \in Moments(Len(samples) + 1) : s.bars[c] = Shown(c, at),
         NEW completed \in Nat, Keep(s, completed)
  PROVE  IInv'
<1> USE DEF world
<1>0. samples \in Seq(Samples) /\ Len(samples) < 4 BY DEF IInv, Bookkeeping
<1>1. Len(samples) \in 0..3 /\ samples' = Append(samples, s)
  <2>1. samples' = Append(samples, s) BY DEF Keep
  <2>2. Len(samples) \in Nat BY <1>0
  <2>4. Len(samples) < 4 BY <1>0
  <2>5. \A n \in Nat : n < 4 => n \in 0..3 OBVIOUS
  <2>3. Len(samples) \in 0..3 BY ONLY <2>2, <2>4, <2>5, Zenon
  <2> QED BY ONLY <2>1, <2>3
<1>2. Len(samples') = Len(samples) + 1 /\ samples'[Len(samples) + 1] = s
      /\ \A i \in 1..Len(samples) : samples'[i] = samples[i]
  BY <1>0, <1>1
<1>3. Bookkeeping'
  <2>1. World' BY DEF IInv, Bookkeeping, World
  <2>2. now' \in Nat /\ pc' \in {"sample", "transactions", "finish"} BY DEF Keep
  <2>3. samples' \in Seq(Samples) BY <1>0, <1>1
  <2>a. pc' = "sample" => Len(samples) < 3 BY DEF Keep
  <2>b. pc' # "sample" => ~(Len(samples) < 3) BY DEF Keep
  <2>4. pc' = "sample" => Len(samples') < 4 BY <1>1, <1>2, <2>a
  <2>c. Len(samples') = Len(samples) + 1 BY <1>2
  <2>d. Len(samples) \in 0..3 BY <1>1
  <2>e. \A n \in 0..3 : ~(n < 3) => n + 1 = 4 OBVIOUS
  <2>5. pc' # "sample" => Len(samples') = 4 BY ONLY <2>b, <2>c, <2>d, <2>e, Zenon
  <2> QED BY <2>1, <2>2, <2>3, <2>4, <2>5 DEF Bookkeeping
<1>4. AnswersShown'
  <2>1. \A c, at : Shown(c, at)' = Shown(c, at) BY DEF Shown, Minute50
  <2>2. \A i : Moments(i)' = Moments(i) BY DEF Moments, Targets
  <2>3. SUFFICES ASSUME NEW i \in 1..Len(samples'), NEW c \in Code, samples'[i].bars[c] > 0
                 PROVE  \E at \in Moments(i) : samples'[i].bars[c] = Shown(c, at)
    BY <2>1, <2>2 DEF AnswersShown
  <2>4. CASE i \in 1..Len(samples) BY <1>2, <2>3, <2>4 DEF IInv, AnswersShown
  <2>5. CASE i = Len(samples) + 1 BY <1>2, <2>3, <2>5
  <2> QED BY <1>1, <1>2, <2>4, <2>5
<1>5. VerifiedIsTrue' BY DEF IInv, VerifiedIsTrue, Keep
<1> QED BY <1>3, <1>4, <1>5 DEF IInv, Attempts

\* What a sample is made of.
LEMMA SampleTyped ==
  ASSUME NEW h \in {"ok", "failed", "timeout", "missed"}, NEW x \in Int, NEW y \in Int,
         NEW cov \in SUBSET Code, NEW bs \in [Code -> Int], Target \in Int, endpoint \in Int
  PROVE  LET s == Sample(h, x, y, cov, bs)
         IN s \in Samples /\ s.how = h /\ s.covered = cov /\ s.bars = bs
<1>1. y - Target \in Int OBVIOUS
<1>2. (IF h = "missed" THEN 0 ELSE endpoint) \in Int OBVIOUS
<1> QED BY <1>1, <1>2 DEF Sample, Samples

\* The target of the next sample, and when it is woken for.
LEMMA TargetIsTime ==
  ASSUME IInv, pc = "sample"
  PROVE  /\ Target \in 55..125 /\ Len(samples) + 1 \in 1..4 /\ Target = Targets[Len(samples) + 1]
         /\ \A launched \in Wakes : launched \in Nat /\ launched >= Target
<1>1. Len(samples) + 1 \in 1..4 BY DEF IInv, Bookkeeping
<1>2. Target = Targets[Len(samples) + 1] BY DEF Target
<1>3. Target \in 55..125
  <2>1. Len(samples) + 1 \in {1, 2, 3, 4} BY <1>1
  <2>2. Targets[1] = 55 /\ Targets[2] = 65 /\ Targets[3] = 90 /\ Targets[4] = 125 BY DEF Targets
  <2>3. Target \in {55, 65, 90, 125} BY <2>1, <2>2, <1>2
  <2> QED BY <2>3
<1>4. ASSUME NEW launched \in Wakes PROVE launched \in Nat /\ launched >= Target
  BY <1>3, <1>4 DEF Wakes, IInv, Bookkeeping
<1> QED BY <1>1, <1>2, <1>3, <1>4

LEMMA NextHolds == IInv /\ [Next]_vars => IInv'
<1> SUFFICES ASSUME IInv, [Next]_vars PROVE IInv' OBVIOUS
<1> USE ProbeAssumption DEF NoBars
<1>a. \A c, at : world' = world => Shown(c, at)' = Shown(c, at) BY DEF Shown, Minute50, world
<1>b. \A i : Moments(i)' = Moments(i) BY DEF Moments, Targets
<1>c. world' = world /\ samples' = samples => AnswersShown'
  BY <1>a, <1>b DEF AnswersShown, IInv
<1>d. MaxLag \in Nat OBVIOUS
<1>1. CASE NoPreflight
  BY <1>1, <1>c DEF NoPreflight, IInv, Attempts, Bookkeeping, VerifiedIsTrue, World, world
<1>2. CASE Attempt
  <2>1. UNCHANGED <<world, samples, result>> /\ pc = "preflight" /\ pc' \in {"sample", "preflight"}
    BY <1>2 DEF Attempt
  <2>2. PICK ok \in BOOLEAN, took \in 0..RequestDeadline :
          now' = now + took /\ endpoint' = IF ok THEN Len(attempts) + 1 ELSE 0
    BY <1>2 DEF Attempt
  <2>3. now' \in Nat BY <2>2 DEF RequestDeadline, IInv, Bookkeeping
  <2>4. attempts \in Seq([endpoint : Int, ok : BOOLEAN]) /\ Len(attempts) \in Nat BY DEF IInv, Attempts
  <2>5. endpoint' \in Int BY <2>2, <2>4
  <2>6. attempts' \in Seq([endpoint : Int, ok : BOOLEAN])
    <3>1. PICK o \in BOOLEAN : attempts' = Append(attempts, [endpoint |-> Len(attempts) + 1, ok |-> o])
      BY <1>2 DEF Attempt
    <3>2. [endpoint |-> Len(attempts) + 1, ok |-> o] \in [endpoint : Int, ok : BOOLEAN] BY <2>4
    <3> QED BY <2>4, <3>1, <3>2
  <2>7. Bookkeeping' BY <2>1, <2>3 DEF IInv, Bookkeeping, World, world
  <2>8. VerifiedIsTrue' BY <2>1 DEF VerifiedIsTrue
  <2> QED BY <1>c, <2>1, <2>5, <2>6, <2>7, <2>8 DEF IInv, Attempts
<1>3. CASE PreflightFails
  BY <1>3, <1>c DEF PreflightFails, IInv, Attempts, Bookkeeping, VerifiedIsTrue, World, world
<1>4. CASE Miss
  <2>1. PICK launched \in Wakes :
          Keep(Sample("missed", launched - Target, launched, {}, NoBars), launched)
    BY <1>4 DEF Miss
  <2>a. pc = "sample" BY <1>4 DEF Miss
  <2>2. launched \in Nat /\ Target \in 55..125 BY <2>a, TargetIsTime
  <2>b. launched - Target \in Int BY <2>2
  <2> DEFINE s == Sample("missed", launched - Target, launched, {}, NoBars)
  <2>3. s \in Samples /\ \A c \in Code : s.bars[c] = 0
    BY <2>2, <2>b DEF Sample, IInv, Attempts, Samples
  <2> HIDE DEF s
  <2>4. UNCHANGED <<world, attempts, endpoint, result>> /\ pc = "sample" /\ Keep(s, launched)
    BY <1>4, <2>1 DEF Miss, s
  <2> QED BY <2>2, <2>3, <2>4, KeepHolds
<1>5. CASE Answer
  <2>1. PICK launched \in Wakes, covered \in SUBSET Code :
        \E started \in launched..launched + 1 :
        \E completed \in {started, launched + RequestDeadline} :
        \E at \in [Code -> {started - MaxLag, completed}] :
          /\ InTime(launched)
          /\ Trouble(covered # Code \/ launched > Target \/ started > launched \/ completed > started)
          /\ Keep(Sample("ok", started - Target, completed, covered,
                         [c \in Code |-> IF c \in covered THEN Shown(c, at[c]) ELSE 0]),
                  completed)
    BY <1>5 DEF Answer
  <2>2. PICK started \in launched..launched + 1 :
        \E completed \in {started, launched + RequestDeadline} :
        \E at \in [Code -> {started - MaxLag, completed}] :
          /\ InTime(launched)
          /\ Keep(Sample("ok", started - Target, completed, covered,
                         [c \in Code |-> IF c \in covered THEN Shown(c, at[c]) ELSE 0]), completed)
    BY <2>1
  <2>21. PICK completed \in {started, launched + RequestDeadline} :
         \E at \in [Code -> {started - MaxLag, completed}] :
          /\ InTime(launched)
          /\ Keep(Sample("ok", started - Target, completed, covered,
                         [c \in Code |-> IF c \in covered THEN Shown(c, at[c]) ELSE 0]), completed)
    BY <2>2
  <2>22. PICK at \in [Code -> {started - MaxLag, completed}] :
          /\ InTime(launched)
          /\ Keep(Sample("ok", started - Target, completed, covered,
                         [c \in Code |-> IF c \in covered THEN Shown(c, at[c]) ELSE 0]), completed)
    BY <2>21
  <2> DEFINE bars == [c \in Code |-> IF c \in covered THEN Shown(c, at[c]) ELSE 0]
             s == Sample("ok", started - Target, completed, covered, bars)
  <2>3. /\ pc = "sample" /\ UNCHANGED <<world, attempts, endpoint, result>>
    BY <1>5 DEF Answer
  <2>4. /\ launched \in Nat /\ launched >= Target /\ Target \in 55..125
        /\ Target = Targets[Len(samples) + 1] /\ Len(samples) + 1 \in 1..4
    BY <2>3, TargetIsTime
  <2>5. launched <= Target + 2 BY <2>22, <2>4 DEF InTime, MaxStartLag
  <2>6. /\ started \in Nat /\ completed \in Nat
        /\ Target <= started /\ started <= Target + 3
        /\ started <= completed /\ completed <= Target + 4
    BY <2>2, <2>21, <2>4, <2>5 DEF RequestDeadline
  <2>7. \A c \in Code : at[c] \in Moments(Len(samples) + 1)
    <3>1. SUFFICES ASSUME NEW c \in Code PROVE at[c] \in Moments(Len(samples) + 1) OBVIOUS
    <3>2. at[c] = started - MaxLag \/ at[c] = completed BY <2>22
    <3>3. started - MaxLag \in (Target - MaxLag)..(Target + 4) BY <1>d, <2>4, <2>6
    <3>4. completed \in (Target - MaxLag)..(Target + 4) BY <1>d, <2>4, <2>6
    <3>5. at[c] \in (Target - MaxLag)..(Target + 4) BY <3>2, <3>3, <3>4
    <3> QED BY <2>4, <3>5 DEF Moments, MaxStartLag, RequestDeadline
  <2>8. \A c \in Code : at[c] \in Int /\ Shown(c, at[c]) \in Int
    <3>1. SUFFICES ASSUME NEW c \in Code PROVE at[c] \in Int /\ Shown(c, at[c]) \in Int OBVIOUS
    <3>2. at[c] = started - MaxLag \/ at[c] = completed BY <2>22
    <3>3. at[c] \in Int BY <1>d, <2>6, <3>2
    <3> QED BY <3>3, ShownIsNumber DEF IInv, Bookkeeping
  <2>9. bars \in [Code -> Int] BY <2>8
  <2>10. \A c \in Code : bars[c] > 0 => bars[c] = Shown(c, at[c]) BY <2>1
  <2> HIDE DEF bars
  <2>11. s \in Samples
         /\ s.covered = covered /\ s.bars = bars
    <3>1. started - Target \in Int /\ completed - Target \in Int BY <2>4, <2>6
    <3>2. endpoint \in Int /\ covered \in SUBSET Code BY <2>1 DEF IInv, Attempts
    <3> QED BY <2>9, <3>1, <3>2 DEF Sample, Samples
  <2>12. \A c \in Code : s.bars[c] > 0 => \E m \in Moments(Len(samples) + 1) : s.bars[c] = Shown(c, m)
    BY <2>7, <2>10, <2>11
  <2>13. Keep(s, completed) BY <2>22 DEF bars
  <2> HIDE DEF s
  <2> QED BY <2>3, <2>6, <2>11, <2>12, <2>13, KeepHolds
<1>6. CASE NoAnswer
  <2>1. PICK launched \in Wakes, took \in 0..RequestDeadline + 1 :
          Keep(Sample(IF took > RequestDeadline THEN "timeout" ELSE "failed",
                      launched - Target, launched + took, {}, NoBars), launched + took)
    BY <1>6 DEF NoAnswer
  <2> DEFINE s == Sample(IF took > RequestDeadline THEN "timeout" ELSE "failed",
                         launched - Target, launched + took, {}, NoBars)
  <2>a. pc = "sample" BY <1>6 DEF NoAnswer
  <2>b. launched \in Nat /\ Target \in 55..125 BY <2>a, TargetIsTime
  <2>c. took \in Nat BY <2>1 DEF RequestDeadline
  <2>2. launched - Target \in Int /\ launched + took - Target \in Int /\ launched + took \in Nat
    BY <2>b, <2>c
  <2>3. s \in Samples /\ \A c \in Code : s.bars[c] = 0
    <3>1. (IF took > RequestDeadline THEN "timeout" ELSE "failed") \in {"failed", "timeout"} OBVIOUS
    <3>2. endpoint \in Int BY DEF IInv, Attempts
    <3>3. {} \in SUBSET Code /\ NoBars \in [Code -> Int] /\ Target \in Int BY <2>b
    <3> QED BY <2>2, <3>1, <3>2, <3>3, SampleTyped
  <2> HIDE DEF s
  <2>4. UNCHANGED <<world, attempts, endpoint, result>> /\ pc = "sample" /\ Keep(s, launched + took)
    BY <1>6, <2>1 DEF NoAnswer, s
  <2> QED BY <2>2, <2>3, <2>4, KeepHolds
<1>7. CASE CollectTransactions
  BY <1>7, <1>c DEF CollectTransactions, IInv, Attempts, Bookkeeping, VerifiedIsTrue, World, world
<1>8. CASE Finish
  <2>1. Len(samples) = 4 /\ UNCHANGED <<world, now, attempts, endpoint, samples>> /\ pc' = "done"
    BY <1>8 DEF Finish, IInv, Bookkeeping
  <2>2. FreshVendor => Classified(samples) \in {"unverified", label}
    BY <2>1, ClassifiedIsTrue DEF IInv
  <2>3. result'.status = "MINUTE_LABEL_VERIFIED" =>
          result'.semantics = Classified(samples) /\ Classified(samples) # "unverified"
    BY <1>8 DEF Finish
  <2>4. FreshVendor => VerifiedIsTrue' BY <2>1, <2>2, <2>3 DEF VerifiedIsTrue, World, world
  <2>5. Bookkeeping' BY <2>1 DEF IInv, Bookkeeping, World, world
  <2> QED BY <1>c, <2>1, <2>4, <2>5 DEF IInv, Attempts
<1>9. CASE UNCHANGED vars
  <2>1. VerifiedIsTrue' <=> VerifiedIsTrue BY <1>9 DEF VerifiedIsTrue, vars, world
  <2>2. Bookkeeping' /\ Attempts' BY <1>9 DEF IInv, Attempts, Bookkeeping, World, vars, world
  <2> QED BY <1>9, <1>c, <2>1, <2>2 DEF IInv, vars
<1> QED BY <1>1, <1>2, <1>3, <1>4, <1>5, <1>6, <1>7, <1>8, <1>9 DEF Next

\* A label that the four samples verified is the vendor's, if what the vendor
\* shows is never older than five seconds (run_scheduled_minute_label_probe).
THEOREM LabelIsTrue == FreshVendor /\ Spec => []VerifiedIsTrue
<1> SUFFICES ASSUME FreshVendor PROVE Spec => []VerifiedIsTrue
  OBVIOUS
<1>1. Init => IInv BY InitHolds
<1>2. IInv /\ [Next]_vars => IInv' BY NextHolds
<1>3. IInv => VerifiedIsTrue BY DEF IInv
<1> QED BY <1>1, <1>2, <1>3, PTL DEF Spec

(* ---------------------------- the attribution --------------------------- *)

\* What the run keeps of the transactions, when no page moved.
EvidenceTrue ==
  /\ pc \in {"preflight", "sample", "transactions"} => ~evidence.ok
  /\ evidence.ok /\ ~evidence.doubled => Traded(evidence)

\* The rows that moved to another page, of each stock.
Moved == [Code -> {{}} \union {{t} : t \in UNION {trades[c] : c \in Code}}]

\* Transactions are kept, or the endpoint that gave none.
LEMMA Collected ==
  ASSUME CollectTransactions
  PROVE  \/ evidence' = [NoEvidence EXCEPT !.endpoint = endpoint]
         \/ \E precision \in {"second", "minute", "mixed"}, spans \in BOOLEAN, again \in Moved :
              evidence' = [ok |-> TRUE, endpoint |-> endpoint, precision |-> precision, spans |-> spans,
                           rows |-> [c \in Code |-> Rows(c, again[c])],
                           doubled |-> \E c \in Code : again[c] # {}]
<1> DEFINE Kept(precision, spans, again) ==
             evidence' = [ok |-> TRUE, endpoint |-> endpoint, precision |-> precision, spans |-> spans,
                          rows |-> [c \in Code |-> Rows(c, again[c])],
                          doubled |-> \E c \in Code : again[c] # {}]
<1>1. \/ evidence' = [NoEvidence EXCEPT !.endpoint = endpoint]
      \/ \E precision \in {"second", "minute", "mixed"}, spans \in BOOLEAN :
         \E again \in Moved :
           /\ \A c \in Code : again[c] \subseteq trades[c]
           /\ Kept(precision, spans, again)
           /\ Trouble(precision = "mixed" \/ ~spans \/ \E c \in Code : again[c] # {})
  BY Zenon DEF CollectTransactions, Moved
<1> HIDE DEF Kept
<1>2. \/ evidence' = [NoEvidence EXCEPT !.endpoint = endpoint]
      \/ \E precision \in {"second", "minute", "mixed"}, spans \in BOOLEAN, again \in Moved : Kept(precision, spans, again)
  BY ONLY <1>1
<1> QED BY ONLY <1>2 DEF Kept

LEMMA AttributionStep ==
  ASSUME FreshVendor, IInv, EvidenceTrue, AttributedIsTrue, [Next]_vars
  PROVE  EvidenceTrue' /\ AttributedIsTrue'
<1> DEFINE Same == UNCHANGED <<world, evidence>>
<1>a. \A c, again : world' = world => Rows(c, again)' = Rows(c, again) BY DEF Rows, world
<1>b. Same => (Traded(evidence)' <=> Traded(evidence)) BY <1>a DEF Traded
<1>1. CASE NoPreflight \/ Attempt \/ Miss \/ Answer \/ NoAnswer
  <2>1. Same /\ pc \in {"preflight", "sample"} BY <1>1 DEF NoPreflight, Attempt, Miss, Answer, NoAnswer
  <2>2. pc' # "done" BY <1>1 DEF NoPreflight, Attempt, Miss, Answer, NoAnswer, Keep
  <2> QED BY <1>b, <2>1, <2>2 DEF EvidenceTrue, AttributedIsTrue
<1>2. CASE PreflightFails
  <2>1. Same /\ pc = "preflight" BY <1>2 DEF PreflightFails
  <2>2. ~evidence.ok /\ evidence' = evidence BY <2>1 DEF EvidenceTrue
  <2> QED BY <2>2 DEF EvidenceTrue, AttributedIsTrue
<1>3. CASE CollectTransactions
  <2>1. world' = world /\ pc' = "finish" BY <1>3 DEF CollectTransactions
  <2>2. CASE evidence' = [NoEvidence EXCEPT !.endpoint = endpoint]
    <3>1. ~evidence'.ok BY <2>2 DEF NoEvidence
    <3> QED BY <2>1, <3>1 DEF EvidenceTrue, AttributedIsTrue
  <2>3. CASE evidence' # [NoEvidence EXCEPT !.endpoint = endpoint]
    <3>1. PICK precision \in {"second", "minute", "mixed"}, spans \in BOOLEAN, again \in Moved :
            evidence' = [ok |-> TRUE, endpoint |-> endpoint, precision |-> precision, spans |-> spans,
                         rows |-> [c \in Code |-> Rows(c, again[c])],
                         doubled |-> \E c \in Code : again[c] # {}]
      BY <1>3, <2>3, Collected
    <3>2. evidence'.precision = precision /\ \A c \in Code : evidence'.rows[c] = Rows(c, again[c]) BY <3>1
    <3>3. ~evidence'.doubled => \A c \in Code : again[c] = {} BY <3>1
    <3>4. ~evidence'.doubled => Traded(evidence)' BY <1>a, <2>1, <3>1, <3>2, <3>3 DEF Traded
    <3> QED BY <2>1, <3>4 DEF EvidenceTrue, AttributedIsTrue
  <2> QED BY <2>2, <2>3
<1>4. CASE Finish
  <2>1. Same /\ samples' = samples /\ pc' = "done" /\ pc = "finish" BY <1>4 DEF Finish
  <2>2. EvidenceTrue' BY <1>b, <2>1 DEF EvidenceTrue
  <2>3. SUFFICES ASSUME evidence.ok, ~evidence.doubled
                 PROVE  /\ result'.status = "MINUTE_LABEL_PROVISIONAL" => result'.semantics = label
                        /\ Reanalysed(result') \in {"inconclusive", label}
    BY <2>1, <2>2 DEF AttributedIsTrue, world
  <2>4. Attributed(samples, evidence) \in {"inconclusive", label}
    BY <2>1, <2>3, AttributedIsLabel DEF EvidenceTrue, IInv, Bookkeeping
  <2>5. result'.samples = samples /\ result'.evidence = evidence BY <1>4 DEF Finish
  <2>6. Reanalysed(result') \in {"inconclusive", label} BY <2>4, <2>5 DEF Reanalysed
  <2>7. result'.status = "MINUTE_LABEL_PROVISIONAL" =>
          result'.semantics = Attributed(samples, evidence) /\ Attributed(samples, evidence) # "inconclusive"
    BY <1>4 DEF Finish
  <2> QED BY <2>4, <2>6, <2>7
<1>5. CASE UNCHANGED vars
  BY <1>5, <1>b DEF vars, world, EvidenceTrue, AttributedIsTrue, Reanalysed, Attributed, Verifies
<1> QED BY <1>1, <1>2, <1>3, <1>4, <1>5 DEF Next

\* A label that the transactions decided is the vendor's, in the probe and in
\* a later analysis of its file, unless a page moved while it was read
\* (attribute_mootdx_minute_intervals, build_mootdx_probe_reanalysis).
THEOREM AttributionIsTrue == FreshVendor /\ Spec => []AttributedIsTrue
<1> SUFFICES ASSUME FreshVendor PROVE Spec => []AttributedIsTrue
  OBVIOUS
<1> DEFINE AInv == IInv /\ EvidenceTrue /\ AttributedIsTrue
<1>1. Init => AInv
  <2>1. Init => EvidenceTrue /\ AttributedIsTrue
    BY DEF Init, EvidenceTrue, AttributedIsTrue, NoEvidence
  <2> QED BY <2>1, InitHolds
<1>2. AInv /\ [Next]_vars => AInv' BY NextHolds, AttributionStep
<1>3. AInv => AttributedIsTrue OBVIOUS
<1> QED BY <1>1, <1>2, <1>3, PTL DEF Spec

(* ---------------------------- the verification -------------------------- *)

\* What the verification of a file asks of the samples in it.
SampleInOrder(s) ==
  /\ 0 <= s.lag /\ s.lag <= s.done
  /\ source = "mootdx" => s.endpoint = IF s.how = "missed" THEN 0 ELSE endpoint

\* And what it asks of the run: one endpoint from the preflight to the end.
RecordKept ==
  /\ source \in {"eastmoney", "mootdx"}
  /\ pc = "preflight" => samples = <<>>
  /\ source = "mootdx" /\ pc \in {"sample", "transactions", "finish"} =>
       /\ attempts # <<>>
       /\ attempts[Len(attempts)].ok /\ attempts[Len(attempts)].endpoint = endpoint
  /\ source = "mootdx" /\ pc = "finish" => evidence.endpoint = endpoint
  /\ \A i \in 1..Len(samples) : SampleInOrder(samples[i])

LEMMA KeepRecords ==
  ASSUME IInv, RecordKept, pc = "sample", UNCHANGED <<world, attempts, endpoint, evidence, result>>,
         NEW s, SampleInOrder(s), NEW completed, Keep(s, completed)
  PROVE  RecordKept' /\ EvidenceVerifies'
<1>1. samples' = Append(samples, s) /\ samples \in Seq(Samples) BY DEF Keep, IInv, Bookkeeping
<1>2. /\ Len(samples') = Len(samples) + 1 /\ Len(samples) \in Nat
      /\ samples'[Len(samples) + 1] = s
      /\ \A i \in 1..Len(samples) : samples'[i] = samples[i]
  BY <1>1
<1>3. source' = source /\ endpoint' = endpoint /\ attempts' = attempts BY DEF world
<1>4. ASSUME NEW i \in 1..Len(samples') PROVE SampleInOrder(samples'[i])
  <2>1. CASE i \in 1..Len(samples) BY <1>2, <2>1 DEF RecordKept
  <2>2. CASE i = Len(samples) + 1 BY <1>2, <2>2
  <2> QED BY <1>2, <1>4, <2>1, <2>2
<1>5. \A i \in 1..Len(samples') : SampleInOrder(samples[i])' BY <1>3, <1>4 DEF SampleInOrder
<1>6. pc' \in {"sample", "transactions", "finish"} /\ (pc' = "finish" => source # "mootdx") BY DEF Keep
<1> QED BY <1>3, <1>5, <1>6 DEF RecordKept, EvidenceVerifies

LEMMA RecordStep ==
  ASSUME IInv, RecordKept, EvidenceVerifies, [Next]_vars
  PROVE  RecordKept' /\ EvidenceVerifies'
<1> USE ProbeAssumption
<1>a. ASSUME pc = "sample"
      PROVE  Target \in Int /\ \A launched \in Wakes : launched \in Nat /\ launched >= Target
  <2>1. Target \in 55..125 /\ \A launched \in Wakes : launched \in Nat /\ launched >= Target
    BY <1>a, TargetIsTime
  <2> QED BY <2>1
<1>1. CASE NoPreflight
  BY <1>1 DEF NoPreflight, RecordKept, EvidenceVerifies, SampleInOrder, world
<1>2. CASE Attempt
  <2>1. /\ source' = source /\ samples' = samples /\ pc = "preflight" /\ samples = <<>> /\ Len(samples) = 0
    BY <1>2 DEF Attempt, world, RecordKept
  <2>2. PICK ok \in BOOLEAN :
          /\ attempts' = Append(attempts, [endpoint |-> Len(attempts) + 1, ok |-> ok])
          /\ endpoint' = IF ok THEN Len(attempts) + 1 ELSE 0
          /\ pc' = IF ok THEN "sample" ELSE "preflight"
    BY <1>2 DEF Attempt
  <2>3. attempts \in Seq([endpoint : Int, ok : BOOLEAN]) BY DEF IInv, Attempts
  <2>4. attempts' # <<>> /\ attempts'[Len(attempts')] = [endpoint |-> Len(attempts) + 1, ok |-> ok]
    BY <2>2, <2>3
  <2> QED BY <2>1, <2>2, <2>4 DEF RecordKept, EvidenceVerifies
<1>3. CASE PreflightFails
  <2>1. /\ pc = "preflight" /\ source = "mootdx" /\ pc' = "done" /\ UNCHANGED <<source, samples>>
        /\ result' = [status |-> "SOURCE_PREFLIGHT_FAILED", source |-> source, preflight |-> Preflight("failed"),
                      samples |-> <<>>, audit |-> AuditSummary(<<>>), semantics |-> "unverified"]
    BY <1>3 DEF PreflightFails, world
  <2>2. Preflight("failed").status = "failed" BY DEF Preflight
  <2>3. PreflightVerifies(result') BY <2>1, <2>2 DEF PreflightVerifies
  <2>4. result'.audit = AuditSummary(result'.samples) /\ result'.status = "SOURCE_PREFLIGHT_FAILED" BY <2>1
  <2>5. Verifies(result') BY <2>3, <2>4 DEF Verifies
  <2> QED BY <2>1, <2>5 DEF RecordKept, EvidenceVerifies
<1>4. CASE Miss
  <2>1. pc = "sample" /\ UNCHANGED <<world, attempts, endpoint, evidence, result>> BY <1>4 DEF Miss
  <2>2. PICK launched \in Wakes :
          Keep(Sample("missed", launched - Target, launched, {}, NoBars), launched)
    BY <1>4 DEF Miss
  <2>3. SampleInOrder(Sample("missed", launched - Target, launched, {}, NoBars))
    BY <1>a, <2>1 DEF Sample, SampleInOrder
  <2> QED BY <2>1, <2>2, <2>3, KeepRecords
<1>5. CASE Answer
  <2>1. pc = "sample" /\ UNCHANGED <<world, attempts, endpoint, evidence, result>> BY <1>5 DEF Answer
  <2>2. PICK launched \in Wakes, covered \in SUBSET Code :
        \E started \in launched..launched + 1 :
        \E completed \in {started, launched + RequestDeadline} :
        \E at \in [Code -> {started - MaxLag, completed}] :
          /\ InTime(launched)
          /\ Trouble(covered # Code \/ launched > Target \/ started > launched \/ completed > started)
          /\ Keep(Sample("ok", started - Target, completed, covered,
                         [c \in Code |-> IF c \in covered THEN Shown(c, at[c]) ELSE 0]),
                  completed)
    BY <1>5 DEF Answer
  <2>3. PICK started \in launched..launched + 1 :
        \E completed \in {started, launched + RequestDeadline} :
        \E at \in [Code -> {started - MaxLag, completed}] :
          Keep(Sample("ok", started - Target, completed, covered,
                      [c \in Code |-> IF c \in covered THEN Shown(c, at[c]) ELSE 0]), completed)
    BY <2>2
  <2>4. PICK completed \in {started, launched + RequestDeadline} :
        \E at \in [Code -> {started - MaxLag, completed}] :
          Keep(Sample("ok", started - Target, completed, covered,
                      [c \in Code |-> IF c \in covered THEN Shown(c, at[c]) ELSE 0]), completed)
    BY <2>3
  <2>5. PICK at \in [Code -> {started - MaxLag, completed}] :
          Keep(Sample("ok", started - Target, completed, covered,
                      [c \in Code |-> IF c \in covered THEN Shown(c, at[c]) ELSE 0]), completed)
    BY <2>4
  <2>6. Target \in Int /\ Target <= started /\ started <= completed /\ started \in Int /\ completed \in Int
    BY <1>a, <2>1, <2>2, <2>3, <2>4 DEF RequestDeadline
  <2>7. \A bars : SampleInOrder(Sample("ok", started - Target, completed, covered, bars))
    BY <2>6 DEF Sample, SampleInOrder
  <2> QED BY <2>1, <2>5, <2>7, KeepRecords
<1>6. CASE NoAnswer
  <2>1. pc = "sample" /\ UNCHANGED <<world, attempts, endpoint, evidence, result>> BY <1>6 DEF NoAnswer
  <2>2. PICK launched \in Wakes, took \in 0..RequestDeadline + 1 :
          Keep(Sample(IF took > RequestDeadline THEN "timeout" ELSE "failed",
                      launched - Target, launched + took, {}, NoBars), launched + took)
    BY <1>6 DEF NoAnswer
  <2>3. took \in Nat BY <2>2 DEF RequestDeadline
  <2>4. \A how : SampleInOrder(Sample(how, launched - Target, launched + took, {}, NoBars))
    BY <1>a, <2>1, <2>3 DEF Sample, SampleInOrder
  <2> QED BY <2>1, <2>2, <2>4, KeepRecords
<1>7. CASE CollectTransactions
  <2>1. /\ pc = "transactions" /\ pc' = "finish"
        /\ UNCHANGED <<source, attempts, endpoint, samples>>
    BY <1>7 DEF CollectTransactions, world
  <2>2. evidence'.endpoint = endpoint BY <1>7, Collected DEF NoEvidence
  <2> QED BY <2>1, <2>2 DEF RecordKept, EvidenceVerifies, SampleInOrder
<1>8. CASE Finish
  <2>1. pc = "finish" /\ pc' = "done" /\ UNCHANGED <<source, attempts, endpoint, samples, evidence>>
    BY <1>8 DEF Finish, world
  <2>2. RecordKept' BY <2>1 DEF RecordKept, SampleInOrder
  <2>3. SUFFICES ASSUME \A i \in DOMAIN samples :
                          ~Failed(samples[i]) => ~Late(samples[i]) /\ samples[i].covered = Code
                 PROVE  Verifies(result')
    BY <2>1, <2>2 DEF EvidenceVerifies
  <2>4. /\ result'.status \in {"MINUTE_LABEL_PROVISIONAL", "MINUTE_LABEL_VERIFIED", "MINUTE_LABEL_INCONCLUSIVE"}
        /\ result'.source = source /\ result'.samples = samples /\ result'.audit = AuditSummary(samples)
        /\ result'.evidence = evidence
        /\ result'.preflight = Preflight(IF source = "mootdx" THEN "ready" ELSE "not required")
        /\ result'.attribution = IF source = "mootdx" THEN Attributed(samples, evidence) ELSE "inconclusive"
    BY <1>8 DEF Finish
  <2>5. \A status : /\ Preflight(status).status = status /\ Preflight(status).attempts = attempts
                    /\ Preflight(status).endpoint = endpoint
    BY DEF Preflight
  <2>6. PreflightVerifies(result')
    <3>1. CASE source = "mootdx"
      <4>1. result'.preflight.status = "ready" /\ result'.preflight.attempts = attempts
            /\ result'.preflight.endpoint = endpoint /\ result'.source = "mootdx"
        BY <2>4, <2>5, <3>1
      <4>2. attempts # <<>> /\ attempts[Len(attempts)].ok /\ attempts[Len(attempts)].endpoint = endpoint
        BY <2>1, <3>1 DEF RecordKept
      <4> QED BY <2>4, <4>1, <4>2 DEF PreflightVerifies
    <3>2. CASE source # "mootdx" BY <2>4, <2>5, <3>2 DEF PreflightVerifies
    <3> QED BY <3>1, <3>2
  <2>7. samples \in Seq(Samples) /\ Len(samples) = 4 /\ DOMAIN samples = 1..4
    BY <2>1 DEF IInv, Bookkeeping
  <2>8. ASSUME NEW i \in 1..4 PROVE SampleVerifies(samples[i], result')
    <3>0. samples[i] \in Samples BY <2>7
    <3>1. SampleInOrder(samples[i]) /\ samples[i].covered \subseteq Code
      BY <2>7, <3>0 DEF RecordKept, Samples
    <3>2. Failed(samples[i]) \/ (~Late(samples[i]) /\ samples[i].covered = Code) BY <2>3, <2>7
    <3>3. result'.preflight.endpoint = endpoint BY <2>4, <2>5
    <3> QED BY <2>4, <3>1, <3>2, <3>3 DEF SampleVerifies, SampleInOrder
  <2>9. source = "mootdx" => evidence.endpoint = result'.preflight.endpoint
    BY <2>1, <2>4, <2>5 DEF RecordKept
  <2> QED BY <2>4, <2>6, <2>7, <2>8, <2>9 DEF Verifies
<1>9. CASE UNCHANGED vars
  BY <1>9 DEF vars, world, RecordKept, SampleInOrder, EvidenceVerifies
<1> QED BY <1>1, <1>2, <1>3, <1>4, <1>5, <1>6, <1>7, <1>8, <1>9 DEF Next

\* Whatever goes wrong in a run, the independent verification accepts what it
\* wrote, unless an answer came late or left out a stock
\* (verify_probe_evidence, validate_probe_v2_semantics).
THEOREM HonestEvidenceVerifies == Spec => []EvidenceVerifies
<1> DEFINE VInv == IInv /\ RecordKept /\ EvidenceVerifies
<1>1. Init => VInv
  <2>1. Init => RecordKept /\ EvidenceVerifies
    BY DEF Init, RecordKept, EvidenceVerifies
  <2> QED BY <2>1, InitHolds
<1>2. VInv /\ [Next]_vars => VInv' BY NextHolds, RecordStep
<1>3. VInv => EvidenceVerifies OBVIOUS
<1> QED BY <1>1, <1>2, <1>3, PTL DEF Spec
=============================================================================
