------------------------- MODULE RequestsTransport -------------------------
(* RequestsTransport of data/real_point_in_time_collectors.py: the HTTP    *)
(* transport that the providers of one collection share, one thread each.  *)
(* A call of request passes the cancellation check, reserves a slot of its *)
(* host, sleeps until the slot, checks the remaining time, sends, and      *)
(* tries again when the connection fails.  Time passes between any two of  *)
(* these steps.  Contents of requests and responses are left out.          *)
EXTENDS Naturals, FiniteSets

CONSTANTS Caller,        \* the threads that call request
          Host,
          hostOf,        \* [Caller -> Host]
          HostInterval,  \* min_host_interval_seconds, in ticks
          MaxAttempts,   \* max_attempts
          requestsOf,    \* [Caller -> Nat], bound on the requests of each
          MaxTime,       \* bound on the clock
          NoTime         \* None

ASSUME TransportAssumption ==
  /\ hostOf \in [Caller -> Host]
  /\ HostInterval \in Nat
  /\ MaxAttempts \in Nat \ {0}
  /\ requestsOf \in [Caller -> Nat \ {0}]
  /\ MaxTime \in Nat
  /\ NoTime \notin Nat

VARIABLES
  now,              \* the clock, wall and monotonic, in ticks
  globalDeadline,   \* _global_deadline
  cancelled,        \* _collection_cancelled
  lastHostRequest,  \* _last_host_request, the newest slot of each host
  stage,            \* where each thread is in request
  asked,            \* the requests it has made
  attempt,          \* the attempts of the one it makes
  slot              \* the slot it has reserved and not used, or NoTime

transportVars == <<globalDeadline, cancelled, lastHostRequest, stage, asked, attempt, slot>>
threadVars == <<stage, asked, attempt, slot>>

Ended == {"answered", "failed", "deadline"}
Stages == {"out", "attempt", "asleep", "ready", "wire"} \union Ended

TransportTypeOK ==
  /\ now \in 0..MaxTime
  /\ globalDeadline \in Nat \union {NoTime}
  /\ cancelled \in BOOLEAN
  /\ lastHostRequest \in [Host -> Nat \union {NoTime}]
  /\ stage \in [Caller -> Stages]
  /\ asked \in [Caller -> Nat]
  /\ attempt \in [Caller -> 0..MaxAttempts]
  /\ slot \in [Caller -> Nat \union {NoTime}]

TransportInit ==
  /\ now = 0
  /\ globalDeadline = NoTime
  /\ cancelled = FALSE
  /\ lastHostRequest = [h \in Host |-> NoTime]
  /\ stage = [c \in Caller |-> "out"]
  /\ asked = [c \in Caller |-> 0]
  /\ attempt = [c \in Caller |-> 0]
  /\ slot = [c \in Caller |-> NoTime]

-----------------------------------------------------------------------------
SetGlobalDeadlineKeepsFlag(d) ==
  /\ globalDeadline' = d
  /\ UNCHANGED cancelled

SetGlobalDeadline(d) ==
  /\ globalDeadline' = d
  /\ cancelled' = FALSE

CancelCurrentCollection ==
  /\ cancelled' = TRUE
  /\ UNCHANGED globalDeadline

\* _deadline_remaining is not positive.
OutOfTime == globalDeadline # NoTime /\ now >= globalDeadline

\* raise_if_cancelled raises.
Refused == cancelled \/ OutOfTime

\* Thread c moves on.
To(c, s) == stage' = [stage EXCEPT ![c] = s]

\* Thread c moves on unless the check refuses it.
Checked(c, s) == To(c, IF Refused THEN "deadline" ELSE s)

Request(c) ==
  /\ stage[c] = "out"
  /\ To(c, "attempt")
  /\ asked' = [asked EXCEPT ![c] = 1]
  /\ attempt' = [attempt EXCEPT ![c] = 1]
  /\ UNCHANGED slot

\* A provider asks for several codes, and for a backup when a source fails.
RequestAgain(c) ==
  /\ stage[c] \in Ended /\ asked[c] < requestsOf[c]
  /\ To(c, "attempt")
  /\ asked' = [asked EXCEPT ![c] = @ + 1]
  /\ attempt' = [attempt EXCEPT ![c] = 1]
  /\ UNCHANGED <<now, globalDeadline, cancelled, lastHostRequest, slot>>

\* The slot that _respect_host_interval reserves next.
NextSlot(h) ==
  LET last == lastHostRequest[h]
  IN  IF last # NoTime /\ last + HostInterval > now THEN last + HostInterval ELSE now

\* One attempt begins: the check, then the reservation of a slot, which
\* stays reserved when the deadline comes before it.  What happens between
\* the two is seen by the checks of Wake and Send.
Attempt(c) ==
  /\ stage[c] = "attempt"
  /\ LET h == hostOf[c]
         s == NextSlot(h)
     IN  IF Refused
           THEN To(c, "deadline") /\ UNCHANGED <<lastHostRequest, slot>>
           ELSE /\ lastHostRequest' = [lastHostRequest EXCEPT ![h] = s]
                /\ IF s > now /\ globalDeadline # NoTime /\ s >= globalDeadline
                     THEN To(c, "deadline") /\ UNCHANGED slot
                     ELSE /\ To(c, IF s > now THEN "asleep" ELSE "ready")
                          /\ slot' = [slot EXCEPT ![c] = s]
  /\ UNCHANGED <<now, globalDeadline, cancelled, asked, attempt>>

Wake(c) ==
  /\ stage[c] = "asleep" /\ now >= slot[c]
  /\ Checked(c, "ready")
  /\ slot' = IF Refused THEN [slot EXCEPT ![c] = NoTime] ELSE slot
  /\ UNCHANGED <<now, globalDeadline, cancelled, lastHostRequest, asked, attempt>>

SendUnchecked(c) ==
  /\ stage[c] = "ready"
  /\ To(c, "wire")
  /\ slot' = [slot EXCEPT ![c] = NoTime]
  /\ UNCHANGED <<now, globalDeadline, cancelled, lastHostRequest, asked, attempt>>

Send(c) ==
  /\ stage[c] = "ready"
  /\ To(c, IF OutOfTime THEN "deadline" ELSE "wire")
  /\ slot' = [slot EXCEPT ![c] = NoTime]
  /\ UNCHANGED <<now, globalDeadline, cancelled, lastHostRequest, asked, attempt>>

Answer(c) ==
  /\ stage[c] = "wire"
  /\ Checked(c, "answered")
  /\ UNCHANGED <<now, globalDeadline, cancelled, lastHostRequest, asked, attempt, slot>>

\* A RequestException; the back-off sleep ends at any later time.
Break(c) ==
  /\ stage[c] = "wire"
  /\ IF attempt[c] < MaxAttempts
       THEN /\ Checked(c, "attempt")
            /\ attempt' = [attempt EXCEPT ![c] = @ + 1]
       ELSE To(c, "failed") /\ UNCHANGED attempt
  /\ UNCHANGED <<now, globalDeadline, cancelled, lastHostRequest, asked, slot>>

RequestStep(c) ==
  \/ RequestAgain(c) \/ Attempt(c) \/ Wake(c) \/ Send(c) \/ Answer(c) \/ Break(c)

Tick ==
  /\ now < MaxTime
  /\ now' = now + 1
  /\ UNCHANGED transportVars

-----------------------------------------------------------------------------
(* Threads that share a host hold slots a host interval apart, whatever    *)
(* the order in which they reserve, sleep and wake (l. 243-267).           *)
SlotsApart ==
  \A c, d \in Caller :
     (c # d /\ hostOf[c] = hostOf[d] /\ slot[c] # NoTime /\ slot[d] # NoTime)
       => \/ slot[c] >= slot[d] + HostInterval
          \/ slot[d] >= slot[c] + HostInterval
=============================================================================
