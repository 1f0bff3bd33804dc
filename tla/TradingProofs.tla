---------------------------- MODULE TradingProofs ----------------------------
(* What holds of the two components that keep positions.  Of the ledger,   *)
(* for any number of codes, days, tickets and fills: its types and its     *)
(* replay with any number of recorders, what is written while one runs at  *)
(* a time.  Of the backtest, for any number of stocks, any history of bars *)
(* within their ranges and any number of preparations: that what it        *)
(* reports is of one dataset, looks at no later day and trades only as     *)
(* could be done.                                                          *)
EXTENDS OrderLedger, Backtest, FiniteSetTheorems, WellFoundedInduction, TLAPS

(* Any ticket found is the ticket of some day.                             *)
LEMMA FindTicketType ==
  ASSUME TypeOK, NEW q
  PROVE  FindTicket(q) \in Day \union {NoTicket}
<1>1. LatestTicket(q.code) \in Day \union {NoTicket}
  <2>1. CASE TicketsOf(q.code) = {}
    BY <2>1 DEF LatestTicket
  <2>2. CASE TicketsOf(q.code) # {}
    BY <2>2 DEF LatestTicket, TicketsOf
  <2>3. QED
    BY <2>1, <2>2
<1>2. QED
  BY <1>1 DEF FindTicket, TicketsOf

(* Every step keeps the types.                                             *)
LEMMA TypeStep ==
  ASSUME TypeOK, [Next]_vars
  PROVE  TypeOK'
<1> USE LedgerAssumption DEF LedgerAssumption, TypeOK, Goto, Ends, locals
<1>1. ASSUME NEW r \in Recorder, Submit(r) PROVE TypeOK'
  BY <1>1 DEF Submit
<1>2. ASSUME NEW r \in Recorder, Lookup(r) PROVE TypeOK'
  BY <1>2, FindTicketType DEF Lookup
<1>3. ASSUME NEW r \in Recorder, Validate(r) PROVE TypeOK'
  BY <1>3 DEF Validate
<1>4. ASSUME NEW r \in Recorder, Reread(r) PROVE TypeOK'
  BY <1>4 DEF Reread
<1>5. ASSUME NEW r \in Recorder, Truncate(r) PROVE TypeOK'
  BY <1>5 DEF Truncate
<1>6. ASSUME NEW r \in Recorder, Write(r) PROVE TypeOK'
  <2>1. Cardinality(filed) \in Nat
    BY FS_CardinalityType
  <2>2. request[r] \in Requests /\ ticket[r] \in Day \union {NoTicket}
    BY <1>6 DEF Write
  <2>3. NewRow(r, 1 + Cardinality(filed)) \in Row
    BY <2>1, <2>2 DEF NewRow, Row, Requests
  <2>4. IsFiniteSet(filed')
    BY <1>6, FS_AddElement DEF Write
  <2>5. QED
    BY <1>6, <2>3, <2>4 DEF Write
<1>7. ASSUME NEW r \in Recorder, Report(r) PROVE TypeOK'
  BY <1>7 DEF Report
<1>8. ASSUME NEW r \in Recorder, Crash(r) PROVE TypeOK'
  BY <1>8 DEF Crash
<1>9. CASE ResetRows
  BY <1>9, FS_EmptySet DEF ResetRows
<1>10. CASE ResetTickets
  BY <1>10 DEF ResetTickets
<1>11. CASE UNCHANGED vars
  BY <1>11 DEF vars
<1>12. QED
  BY <1>1, <1>2, <1>3, <1>4, <1>5, <1>6, <1>7, <1>8, <1>9, <1>10, <1>11 DEF Next

(* One recorder at a time: a checked request stays the first BUY for its   *)
(* ticket until it is written.                                             *)
LEMMA RequestStep ==
  ASSUME \A a, b \in Recorder : a = b,
         TypeOK, RequestInv, [Next]_vars
  PROVE  RequestInv'
<1> USE LedgerAssumption DEF LedgerAssumption, TypeOK, Goto, Ends, locals, Appending, RequestInv
<1>1. ASSUME NEW r \in Recorder, Submit(r) PROVE RequestInv'
  BY <1>1 DEF Submit
<1>2. ASSUME NEW r \in Recorder, Lookup(r) PROVE RequestInv'
  BY <1>2 DEF Lookup
<1>3. ASSUME NEW r \in Recorder, Validate(r) PROVE RequestInv'
  BY <1>3 DEF Validate, TicketAllows
<1>4. ASSUME NEW r \in Recorder, Reread(r) PROVE RequestInv'
  BY <1>4 DEF Reread
<1>5. ASSUME NEW r \in Recorder, Truncate(r) PROVE RequestInv'
  BY <1>5 DEF Truncate
<1>6. ASSUME NEW r \in Recorder, Write(r) PROVE RequestInv'
  BY <1>6 DEF Write
<1>7. ASSUME NEW r \in Recorder, Report(r) PROVE RequestInv'
  BY <1>7 DEF Report
<1>8. ASSUME NEW r \in Recorder, Crash(r) PROVE RequestInv'
  BY <1>8 DEF Crash
<1>9. CASE ResetRows
  BY <1>9 DEF ResetRows
<1>10. CASE ResetTickets
  BY <1>10 DEF ResetTickets
<1>11. CASE UNCHANGED vars
  BY <1>11 DEF vars
<1>12. QED
  BY <1>1, <1>2, <1>3, <1>4, <1>5, <1>6, <1>7, <1>8, <1>9, <1>10, <1>11 DEF Next

(* ... so neither the ledger nor what is written back repeats a ticket.    *)
LEMMA KeptStep ==
  ASSUME \A a, b \in Recorder : a = b,
         TypeOK, RequestInv, KeptInv, [Next]_vars
  PROVE  KeptInv'
<1> USE LedgerAssumption DEF LedgerAssumption, TypeOK, Goto, Ends, locals, Appending, KeptInv, OneBuyEach, SameTicketBuy
<1>1. ASSUME NEW r \in Recorder, Submit(r) PROVE KeptInv'
  BY <1>1 DEF Submit
<1>2. ASSUME NEW r \in Recorder, Lookup(r) PROVE KeptInv'
  BY <1>2 DEF Lookup
<1>3. ASSUME NEW r \in Recorder, Validate(r) PROVE KeptInv'
  BY <1>3 DEF Validate
<1>4. ASSUME NEW r \in Recorder, Reread(r) PROVE KeptInv'
  BY <1>4 DEF Reread
<1>5. ASSUME NEW r \in Recorder, Truncate(r) PROVE KeptInv'
  BY <1>5 DEF Truncate
<1>6. ASSUME NEW r \in Recorder, Write(r) PROVE KeptInv'
  BY <1>6 DEF Write, RequestInv, NewRow
<1>7. ASSUME NEW r \in Recorder, Report(r) PROVE KeptInv'
  BY <1>7 DEF Report
<1>8. ASSUME NEW r \in Recorder, Crash(r) PROVE KeptInv'
  BY <1>8 DEF Crash
<1>9. CASE ResetRows
  BY <1>9 DEF ResetRows
<1>10. CASE ResetTickets
  BY <1>10 DEF ResetTickets
<1>11. CASE UNCHANGED vars
  BY <1>11 DEF vars
<1>12. QED
  BY <1>1, <1>2, <1>3, <1>4, <1>5, <1>6, <1>7, <1>8, <1>9, <1>10, <1>11 DEF Next

(* ... and no ticketed row is dropped on the way.                          *)
LEMMA FiledStep ==
  ASSUME \A a, b \in Recorder : a = b,
         TypeOK, FiledInv, [Next]_vars
  PROVE  FiledInv'
<1> USE LedgerAssumption DEF LedgerAssumption, TypeOK, Goto, Ends, locals, Appending, FiledInv
<1>1. ASSUME NEW r \in Recorder, Submit(r) PROVE FiledInv'
  BY <1>1 DEF Submit
<1>2. ASSUME NEW r \in Recorder, Lookup(r) PROVE FiledInv'
  BY <1>2 DEF Lookup
<1>3. ASSUME NEW r \in Recorder, Validate(r) PROVE FiledInv'
  BY <1>3 DEF Validate
<1>4. ASSUME NEW r \in Recorder, Reread(r) PROVE FiledInv'
  BY <1>4 DEF Reread, IsPlaceholder
<1>5. ASSUME NEW r \in Recorder, Truncate(r) PROVE FiledInv'
  BY <1>5 DEF Truncate
<1>6. ASSUME NEW r \in Recorder, Write(r) PROVE FiledInv'
  BY <1>6 DEF Write
<1>7. ASSUME NEW r \in Recorder, Report(r) PROVE FiledInv'
  BY <1>7 DEF Report
<1>8. ASSUME NEW r \in Recorder, Crash(r) PROVE FiledInv'
  BY <1>8 DEF Crash
<1>9. CASE ResetRows
  BY <1>9 DEF ResetRows
<1>10. CASE ResetTickets
  BY <1>10 DEF ResetTickets
<1>11. CASE UNCHANGED vars
  BY <1>11 DEF vars
<1>12. QED
  BY <1>1, <1>2, <1>3, <1>4, <1>5, <1>6, <1>7, <1>8, <1>9, <1>10, <1>11 DEF Next

(* The inductive invariant holds in every reachable state.                 *)
THEOREM Invariance ==
  ASSUME \A a, b \in Recorder : a = b
  PROVE  Spec => []LedgerInv
<1>1. Init => LedgerInv
  <2> SUFFICES ASSUME Init
               PROVE  LedgerInv
    OBVIOUS
  <2> USE LedgerAssumption DEF LedgerAssumption, Init
  <2>1. Legacy \in Row
    BY DEF Legacy, Row, Sides
  <2>2. IsFiniteSet(filed)
    <3>1. filed = {} \/ filed = {Legacy}
      OBVIOUS
    <3>2. IsFiniteSet({}) /\ IsFiniteSet({Legacy})
      BY FS_EmptySet, FS_Singleton
    <3>3. QED
      BY <3>1, <3>2
  <2>3. TypeOK
    BY <2>1, <2>2 DEF TypeOK
  <2>4. RequestInv /\ FiledInv
    BY DEF RequestInv, FiledInv, Appending
  <2>5. KeptInv
    BY DEF KeptInv, OneBuyEach, SameTicketBuy
  <2>6. QED
    BY <2>3, <2>4, <2>5 DEF LedgerInv
<1>2. LedgerInv /\ [Next]_vars => LedgerInv'
  BY TypeStep, RequestStep, KeptStep, FiledStep DEF LedgerInv
<1>3. QED
  BY <1>1, <1>2, PTL DEF Spec

(* No ticket is bought twice, whatever sequence of fills, refusals,        *)
(* crashes and resets the operator goes through.                           *)
THEOREM TicketBoughtOnce ==
  ASSUME \A a, b \in Recorder : a = b
  PROVE  Spec => []OneBuyPerTicket
<1>1. LedgerInv => OneBuyPerTicket
  BY DEF LedgerInv, KeptInv, OneBuyPerTicket
<1>2. QED
  BY <1>1, Invariance, PTL

(* Ticketed fills are kept.                                                *)
THEOREM FillsKept ==
  ASSUME \A a, b \in Recorder : a = b
  PROVE  Spec => []TicketedFillsKept
<1>1. LedgerInv => TicketedFillsKept
  BY DEF LedgerInv, FiledInv, TicketedFillsKept
<1>2. QED
  BY <1>1, Invariance, PTL
-----------------------------------------------------------------------------
(* What a replay computes, for any finite ledger.  The library proves that *)
(* a set of numbers has a smallest one; every induction below is over a    *)
(* smallest exception.                                                     *)

\* Of any numbers there is a smallest.
LEMMA SmallestNumber ==
  ASSUME NEW Bad \in SUBSET Nat, Bad # {}
  PROVE  \E n \in Bad : n - 1 \notin Bad
<1>1. PICK n \in Bad : \A m \in Bad : ~(<<m, n>> \in OpToRel(<, Nat))
  BY WFMin, NatLessThanWellFounded
<1>2. ASSUME n - 1 \in Bad PROVE FALSE
  <2>1. n \in Nat /\ n - 1 \in Nat /\ n - 1 < n
    BY <1>2
  <2> QED
    BY <1>1, <1>2, <2>1 DEF OpToRel
<1> QED
  BY <1>2

\* Among any subsets of a finite set one is smallest.
LEMMA Smallest ==
  ASSUME NEW own, IsFiniteSet(own), NEW Bad \in SUBSET SUBSET own, Bad # {}
  PROVE  \E S \in Bad : \A x \in S : S \ {x} \notin Bad
<1> DEFINE Sizes == {Cardinality(S) : S \in Bad}
<1>1. Sizes \subseteq Nat /\ Sizes # {}
  BY FS_Subset, FS_CardinalityType
<1>2. PICK n \in Sizes : \A m \in Sizes : ~(<<m, n>> \in OpToRel(<, Nat))
  <2> HIDE DEF Sizes
  <2> QED
    BY <1>1, WFMin, NatLessThanWellFounded
<1>3. PICK S \in Bad : n = Cardinality(S)
  BY <1>2
<1>4. ASSUME NEW x \in S, S \ {x} \in Bad PROVE FALSE
  <2>1. IsFiniteSet(S) /\ Cardinality(S \ {x}) = n - 1
    BY <1>3, FS_Subset, FS_RemoveElement
  <2>2. n - 1 \in Sizes
    BY <1>4, <2>1
  <2>3. n \in Sizes
    BY <1>2
  <2> HIDE DEF Sizes
  <2>4. n \in Nat /\ n - 1 \in Nat /\ n - 1 < n
    BY <1>1, <2>2, <2>3
  <2> QED
    BY <1>2, <2>2, <2>4 DEF OpToRel
<1> QED
  BY <1>3, <1>4

\* Rows that can be replayed: finitely many, in one order.
Replayable(S) == IsFiniteSet(S) /\ S \subseteq Row /\ \A x, y \in S : x.n = y.n => x = y

\* Rows with numbers of their own are replayed in one order.
LEMMA ReplayOrder ==
  ASSUME NEW S, Replayable(S)
  PROVE  /\ \A x, y \in S : x = y \/ ReplayedBefore(x, y) \/ ReplayedBefore(y, x)
         /\ \A x, y \in S : ReplayedBefore(x, y) => ~ReplayedBefore(y, x)
         /\ \A x, y, z \in S : ReplayedBefore(x, y) /\ ReplayedBefore(y, z) => ReplayedBefore(x, z)
<1>1. \A x \in S : TextKey(x.time) \in Int /\ x.n \in Int
  <2> SUFFICES ASSUME NEW x \in S PROVE TextKey(x.time) \in Int /\ x.n \in Int
    OBVIOUS
  <2>1. x.n \in Nat /\ x.time \in Stamps \union {NoStamp}
    BY DEF Replayable, Row
  <2>2. PerDay \in Int /\ Day \subseteq Int
    BY DayAssumption, LedgerAssumption
  <2>3. CASE x.time = NoStamp
    BY <2>1, <2>2, <2>3 DEF TextKey
  <2>4. CASE x.time # NoStamp
    <3>1. x.time.day \in Day /\ x.time.at \in 0..(PerDay - 1)
      BY <2>1, <2>4 DEF Stamps
    <3>2. \A k \in Int, i \in Int : PerDay * k + i \in Int /\ i - PerDay \in Int
      BY <2>2
    <3>3. x.time.day \in Int /\ x.time.at \in Int
      <4>1. \A i \in 0..(PerDay - 1) : i \in Int
        BY ONLY <2>2
      <4> QED
        BY ONLY <2>2, <3>1, <4>1
    <3> DEFINE d == x.time.day
               key == 2 * d + (IF x.time.form = "T" THEN 1 ELSE 0)
    <3>4. key \in Int
      BY ONLY <3>3
    <3>5. TextKey(x.time) = IF x.time.form = "short" THEN x.time.at - PerDay
                            ELSE PerDay * key + x.time.at
      BY ONLY <2>4 DEF TextKey
    <3> HIDE DEF key
    <3>6. PerDay * key + x.time.at \in Int /\ x.time.at - PerDay \in Int
      BY ONLY <3>2, <3>3, <3>4
    <3> QED
      BY <2>1, <3>5, <3>6
  <2> QED
    BY <2>3, <2>4
<1> QED
  BY <1>1 DEF Replayable, ReplayedBefore

\* So are any of them.
LEMMA ReplayableSubset ==
  ASSUME NEW S, Replayable(S), NEW T \in SUBSET S
  PROVE  Replayable(T)
  BY FS_Subset DEF Replayable

\* Some row is replayed last.
LEMMA LastExists ==
  ASSUME NEW S, Replayable(S), S # {}
  PROVE  /\ LastReplayed(S) \in S
         /\ \A y \in S \ {LastReplayed(S)} : ReplayedBefore(y, LastReplayed(S))
<1> DEFINE HasLast(T) == \E x \in T : \A y \in T \ {x} : ReplayedBefore(y, x)
           Bad == {T \in SUBSET S : T # {} /\ ~HasLast(T)}
<1>1. HasLast(S)
  <2> SUFFICES ASSUME ~HasLast(S) PROVE FALSE
    OBVIOUS
  <2>1. Bad # {} /\ Bad \in SUBSET SUBSET S /\ IsFiniteSet(S)
    BY DEF Replayable
  <2>2. PICK T \in Bad : \A x \in T : T \ {x} \notin Bad
    <3> HIDE DEF Bad
    <3> QED
      BY <2>1, Smallest
  <2>3. T \subseteq S /\ T # {} /\ ~HasLast(T)
    BY <2>2
  <2>4. PICK x \in T : TRUE
    BY <2>3
  <2>5. T \ {x} # {}
    BY <2>3, <2>4
  <2>6. HasLast(T \ {x})
    BY <2>2, <2>3, <2>4, <2>5
  <2>7. PICK z \in T \ {x} : \A y \in (T \ {x}) \ {z} : ReplayedBefore(y, z)
    BY <2>6
  <2> HIDE DEF Bad
  <2>8. CASE ReplayedBefore(x, z)
    BY <2>3, <2>7, <2>8
  <2>9. CASE ReplayedBefore(z, x)
    <3>1. \A y \in T \ {x} : ReplayedBefore(y, x)
      BY <2>3, <2>4, <2>7, <2>9, ReplayOrder
    <3> QED
      BY <2>3, <2>4, <3>1
  <2> QED
    BY <2>3, <2>4, <2>7, <2>8, <2>9, ReplayOrder
<1> QED
  BY <1>1 DEF LastReplayed

\* The equation Replay is to satisfy.
Body(f, S) == IF S = {} THEN EmptyPosition
              ELSE Apply(f[S \ {LastReplayed(S)}], LastReplayed(S))

\* The recursion of Replay has a value: it is built from sets of one size to
\* sets of the next.
LEMMA ReplayRecurs ==
  ASSUME NEW own, Replayable(own)
  PROVE  \A S \in SUBSET own : Replay(own)[S] = Body(Replay(own), S)
<1> DEFINE Small(n) == {S \in SUBSET own : Cardinality(S) <= n}
           Replays(f, n) == f = [S \in Small(n) |-> Body(f, S)]
           Bad == {n \in Nat : ~\E f : Replays(f, n)}
<1>1. \A S \in SUBSET own : /\ Cardinality(S) \in Nat /\ Cardinality(S) <= Cardinality(own)
                            /\ S = {} <=> Cardinality(S) = 0
                            /\ S # {} => /\ S \ {LastReplayed(S)} \in SUBSET own
                                         /\ Cardinality(S \ {LastReplayed(S)}) = Cardinality(S) - 1
  <2> SUFFICES ASSUME NEW S \in SUBSET own
               PROVE  /\ Cardinality(S) \in Nat /\ Cardinality(S) <= Cardinality(own)
                      /\ S = {} <=> Cardinality(S) = 0
                      /\ S # {} => /\ S \ {LastReplayed(S)} \in SUBSET own
                                   /\ Cardinality(S \ {LastReplayed(S)}) = Cardinality(S) - 1
    OBVIOUS
  <2>1. Replayable(S)
    BY ReplayableSubset
  <2>2. IsFiniteSet(own) /\ IsFiniteSet(S)
    BY <2>1 DEF Replayable
  <2>3. S # {} => LastReplayed(S) \in S
    BY <2>1, LastExists
  <2> QED
    BY <2>2, <2>3, FS_Subset, FS_CardinalityType, FS_EmptySet, FS_RemoveElement
<1>2. ASSUME NEW n \in Nat PROVE \E f : Replays(f, n)
  <2> SUFFICES ASSUME Bad # {} PROVE FALSE
    OBVIOUS
  <2>1. PICK m \in Bad : m - 1 \notin Bad
    <3>1. Bad \in SUBSET Nat
      OBVIOUS
    <3> HIDE DEF Bad
    <3> QED
      BY <3>1, SmallestNumber
  <2>2. m \in Nat /\ ~\E f : Replays(f, m)
    BY <2>1
  <2>3. CASE m = 0
    <3>1. Small(m) = {{}}
      <4>1. {} \in Small(m)
        <5>1. {} \in SUBSET own /\ Cardinality({}) = 0
          BY FS_EmptySet
        <5> QED
          BY ONLY <2>3, <5>1
      <4>2. ASSUME NEW S \in Small(m) PROVE S = {}
        <5>1. S \in SUBSET own /\ Cardinality(S) <= m
          BY <4>2
        <5>2. Cardinality(S) \in Nat /\ (S = {} <=> Cardinality(S) = 0)
          BY <1>1, <5>1
        <5> QED
          BY ONLY <2>3, <5>1, <5>2
      <4> HIDE DEF Small
      <4> QED
        BY <4>1, <4>2
    <3> DEFINE f == [S \in Small(m) |-> EmptyPosition]
    <3>2. Replays(f, m)
      BY <3>1 DEF Body
    <3> QED
      BY <2>2, <3>2
  <2>4. CASE m # 0
    <3>1. PICK f : Replays(f, m - 1)
      <4>1. m - 1 \in Nat
        BY <2>2, <2>4
      <4> HIDE DEF Replays
      <4> QED
        BY <2>1, <4>1
    <3> DEFINE g == [S \in Small(m) |-> Body(f, S)]
    <3>2. ASSUME NEW S \in Small(m) PROVE Body(g, S) = Body(f, S)
      <4>1. CASE S = {}
        BY <4>1 DEF Body
      <4>2. CASE S # {}
        <5> DEFINE T == S \ {LastReplayed(S)}
        <5>1. T \in Small(m - 1) /\ T \in Small(m)
          BY <1>1, <2>2, <4>2
        <5>2. f[T] = Body(f, T)
          BY <3>1, <5>1
        <5>3. g[T] = Body(f, T)
          BY <5>1
        <5> QED
          BY <4>2, <5>2, <5>3 DEF Body
      <4> QED
        BY <4>1, <4>2
    <3>3. Replays(g, m)
      BY <3>2
    <3> QED
      BY <2>2, <3>3
  <2> QED
    BY <2>3, <2>4
<1>3. Cardinality(own) \in Nat /\ Small(Cardinality(own)) = SUBSET own
  BY <1>1
<1>4. \E f : f = [S \in SUBSET own |-> Body(f, S)]
  BY <1>2, <1>3
<1>5. Replay(own) = CHOOSE f : f = [S \in SUBSET own |-> Body(f, S)]
  BY DEF Replay, Body
<1>6. Replay(own) = [S \in SUBSET own |-> Body(Replay(own), S)]
  <2> DEFINE P(f) == f = [S \in SUBSET own |-> Body(f, S)]
  <2>1. \E f : P(f)
    BY <1>4
  <2> HIDE DEF P
  <2>2. P(CHOOSE f : P(f))
    BY <2>1
  <2>3. P(Replay(own))
    BY <1>5, <2>2 DEF P
  <2> QED
    BY <2>3 DEF P
<1> QED
  BY <1>6

\* The replay of a set of rows.
Replayed(S) == Replay(S)[S]

\* A replay of a part is the same within any whole.
LEMMA ReplayAgrees ==
  ASSUME NEW own, Replayable(own), NEW S \in SUBSET own
  PROVE  Replay(own)[S] = Replayed(S)
<1> DEFINE Bad == {T \in SUBSET S : Replay(own)[T] # Replay(S)[T]}
<1>1. Replayable(S) /\ IsFiniteSet(S)
  BY ReplayableSubset DEF Replayable
<1>2. Bad = {}
  <2> SUFFICES ASSUME Bad # {} PROVE FALSE
    OBVIOUS
  <2>1. PICK T \in Bad : \A x \in T : T \ {x} \notin Bad
    <3>1. Bad \in SUBSET SUBSET S
      OBVIOUS
    <3> HIDE DEF Bad
    <3> QED
      BY <1>1, <3>1, Smallest
  <2>2. T \in SUBSET S /\ T \in SUBSET own /\ Replay(own)[T] # Replay(S)[T]
    BY <2>1
  <2>3. Replay(own)[T] = Body(Replay(own), T) /\ Replay(S)[T] = Body(Replay(S), T)
    BY <1>1, <2>2, ReplayRecurs
  <2>4. T # {}
    BY <2>2, <2>3 DEF Body
  <2>5. LastReplayed(T) \in T
    BY <1>1, <2>2, <2>4, ReplayableSubset, LastExists
  <2>6. Replay(own)[T \ {LastReplayed(T)}] = Replay(S)[T \ {LastReplayed(T)}]
    BY <2>1, <2>2, <2>5
  <2> QED
    BY <2>2, <2>3, <2>4, <2>6 DEF Body
<1> QED
  BY <1>2 DEF Replayed

\* The last row is applied to the replay of the others.
LEMMA ReplayedStep ==
  ASSUME NEW S, Replayable(S), S # {}
  PROVE  Replayed(S) = Apply(Replayed(S \ {LastReplayed(S)}), LastReplayed(S))
<1>1. Replayed(S) = Apply(Replay(S)[S \ {LastReplayed(S)}], LastReplayed(S))
  BY ReplayRecurs DEF Replayed, Body
<1> QED
  BY <1>1, ReplayAgrees

\* The replay of no row.
LEMMA ReplayedNothing == Replayed({}) = EmptyPosition
<1>1. Replayable({})
  BY FS_EmptySet DEF Replayable
<1> QED
  BY <1>1, ReplayRecurs DEF Replayed, Body

Positions == [open : Int, bought : Nat, sold : Nat, cycleSold : Nat,
              lastBuy : Stamps \union {NoStamp}, source : Day \union {NoTicket}, raised : BOOLEAN]
Signed(x) == IF x.side = "BUY" THEN x.qty ELSE -x.qty

\* Every row has a quantity above zero.
LEMMA RowQuantity ==
  ASSUME NEW x \in Row
  PROVE  x.qty \in Nat /\ x.qty > 0 /\ Signed(x) \in Int
<1>1. x.qty \in Qty
  BY DEF Row
<1>2. \A q \in Qty : q \in Nat /\ q > 0
  BY LedgerAssumption
<1> QED
  BY <1>1, <1>2 DEF Signed

\* What one row changes.
LEMMA ApplyEffect ==
  ASSUME NEW p \in Positions, NEW x \in Row
  PROVE  /\ Apply(p, x) \in Positions
         /\ Apply(p, x).open = p.open + Signed(x)
         /\ x.side = "BUY" =>
              /\ Apply(p, x).bought = p.bought + x.qty /\ Apply(p, x).sold = p.sold
              /\ Apply(p, x).cycleSold = IF p.open = 0 THEN 0 ELSE p.cycleSold
              /\ Apply(p, x).lastBuy = x.time
              /\ Apply(p, x).raised <=> p.raised \/ p.open + x.qty = 0
         /\ x.side # "BUY" =>
              /\ Apply(p, x).bought = p.bought /\ Apply(p, x).sold = p.sold + x.qty
              /\ Apply(p, x).cycleSold = p.cycleSold + x.qty
              /\ Apply(p, x).lastBuy = p.lastBuy
              /\ Apply(p, x).raised <=> p.raised
<1>1. x.qty \in Nat \ {0} /\ x.time \in Stamps \union {NoStamp} /\ x.ticket \in Day \union {NoTicket}
  BY LedgerAssumption DEF Row
<1>2. CASE x.side = "BUY"
  <2> DEFINE raised == p.raised \/ p.open + x.qty = 0
             source == IF x.ticket = NoTicket THEN p.source ELSE x.ticket
  <2>1. Apply(p, x) =
          [open |-> p.open + x.qty, bought |-> p.bought + x.qty, sold |-> p.sold,
           cycleSold |-> IF p.open = 0 THEN 0 ELSE p.cycleSold, lastBuy |-> x.time,
           source |-> source, raised |-> raised]
    BY <1>2 DEF Apply, ApplyBuy, Positions
  <2>2. raised \in BOOLEAN /\ source \in Day \union {NoTicket}
    BY <1>1 DEF Positions
  <2> HIDE DEF raised, source
  <2>3. Apply(p, x) \in Positions
    BY <1>1, <2>1, <2>2 DEF Positions
  <2>4. Apply(p, x).raised = raised
    BY <2>1
  <2>5. Apply(p, x).raised <=> p.raised \/ p.open + x.qty = 0
    BY <2>4 DEF raised
  <2> QED
    BY <1>2, <2>1, <2>3, <2>5 DEF Signed
<1>3. CASE x.side # "BUY"
  <2> DEFINE source == IF p.bought + p.sold = 0 THEN x.ticket ELSE p.source
  <2>1. Apply(p, x) =
          [open |-> p.open - x.qty, bought |-> p.bought, sold |-> p.sold + x.qty,
           cycleSold |-> p.cycleSold + x.qty, lastBuy |-> p.lastBuy,
           source |-> source, raised |-> p.raised]
    BY <1>3 DEF Apply, ApplySell, Positions
  <2>2. source \in Day \union {NoTicket}
    BY <1>1 DEF Positions
  <2> HIDE DEF source
  <2>3. Apply(p, x) \in Positions
    BY <1>1, <2>1, <2>2 DEF Positions
  <2> QED
    BY <1>1, <1>3, <2>1, <2>3 DEF Signed, Positions
<1> QED
  BY <1>2, <1>3

\* An induction over the rows in their order of replay, by a smallest exception.
LEMMA SmallestReplay ==
  ASSUME NEW own, Replayable(own), NEW Bad \in SUBSET SUBSET own, Bad # {}
  PROVE  \E S \in Bad :
           /\ Replayable(S)
           /\ S # {} => /\ LastReplayed(S) \in S /\ LastReplayed(S) \in Row
                        /\ \A y \in S \ {LastReplayed(S)} : ReplayedBefore(y, LastReplayed(S))
                        /\ S \ {LastReplayed(S)} \notin Bad
                        /\ S \ {LastReplayed(S)} \in SUBSET own
                        /\ Replayed(S) = Apply(Replayed(S \ {LastReplayed(S)}), LastReplayed(S))
<1>1. PICK S \in Bad : \A x \in S : S \ {x} \notin Bad
  BY Smallest DEF Replayable
<1>2. Replayable(S) /\ S \in SUBSET own
  BY <1>1, ReplayableSubset
<1>3. ASSUME S # {}
      PROVE  /\ LastReplayed(S) \in S /\ LastReplayed(S) \in Row
             /\ \A y \in S \ {LastReplayed(S)} : ReplayedBefore(y, LastReplayed(S))
             /\ S \ {LastReplayed(S)} \notin Bad
             /\ S \ {LastReplayed(S)} \in SUBSET own
             /\ Replayed(S) = Apply(Replayed(S \ {LastReplayed(S)}), LastReplayed(S))
  <2>1. LastReplayed(S) \in S /\ \A y \in S \ {LastReplayed(S)} : ReplayedBefore(y, LastReplayed(S))
    BY <1>2, <1>3, LastExists
  <2>2. Replayed(S) = Apply(Replayed(S \ {LastReplayed(S)}), LastReplayed(S))
    BY <1>2, <1>3, ReplayedStep
  <2>3. S \subseteq Row
    BY <1>2 DEF Replayable
  <2> QED
    BY <1>1, <1>2, <2>1, <2>2, <2>3
<1> QED
  BY <1>1, <1>2, <1>3

\* The empty position is one.
LEMMA EmptyIsPosition == EmptyPosition \in Positions
  BY DEF EmptyPosition, Positions

\* A replay is a position, and holds what was bought less what was sold.
LEMMA ReplayedType ==
  ASSUME NEW own, Replayable(own)
  PROVE  /\ Replayed(own) \in Positions
         /\ Replayed(own).open = Replayed(own).bought - Replayed(own).sold
<1> DEFINE Balanced(p) == p \in Positions /\ p.open = p.bought - p.sold
           Bad == {S \in SUBSET own : ~Balanced(Replayed(S))}
<1>1. Balanced(Replayed({}))
  <2>1. EmptyPosition.open = EmptyPosition.bought - EmptyPosition.sold
    BY DEF EmptyPosition
  <2> QED
    BY <2>1, ReplayedNothing, EmptyIsPosition
<1>2. ASSUME NEW p, NEW x \in Row, Balanced(p)
      PROVE  Balanced(Apply(p, x))
  <2>1. x.qty \in Nat /\ p.open \in Int /\ p.bought \in Nat /\ p.sold \in Nat
    BY <1>2, LedgerAssumption DEF Positions, Row
  <2>2. CASE x.side = "BUY"
    BY <1>2, <2>1, <2>2, ApplyEffect DEF Signed
  <2>3. CASE x.side # "BUY"
    BY <1>2, <2>1, <2>3, ApplyEffect DEF Signed
  <2> QED
    BY <2>2, <2>3
<1> HIDE DEF Balanced
<1>3. SUFFICES ASSUME Bad # {} PROVE FALSE
  BY DEF Balanced
<1>4. Bad \in SUBSET SUBSET own
  OBVIOUS
<1> HIDE DEF Bad
<1>5. PICK S \in Bad :
        S # {} => /\ LastReplayed(S) \in Row
                  /\ S \ {LastReplayed(S)} \notin Bad /\ S \ {LastReplayed(S)} \in SUBSET own
                  /\ Replayed(S) = Apply(Replayed(S \ {LastReplayed(S)}), LastReplayed(S))
  BY <1>3, <1>4, SmallestReplay
<1>6. ~Balanced(Replayed(S))
  BY <1>5 DEF Bad
<1>7. S # {}
  BY <1>1, <1>6
<1>8. Balanced(Replayed(S \ {LastReplayed(S)}))
  BY <1>5, <1>7 DEF Bad
<1> QED
  BY <1>2, <1>5, <1>6, <1>7, <1>8

\* What is held does not depend on where in the order a row stands.
LEMMA OneRowMore ==
  ASSUME NEW own, Replayable(own), NEW x \in own
  PROVE  Replayed(own).open = Replayed(own \ {x}).open + Signed(x)
<1> DEFINE More(S) == x \in S => Replayed(S).open = Replayed(S \ {x}).open + Signed(x)
           Bad == {S \in SUBSET own : ~More(S)}
<1>1. SUFFICES ASSUME Bad # {} PROVE FALSE
  OBVIOUS
<1>2. Bad \in SUBSET SUBSET own
  OBVIOUS
<1> HIDE DEF Bad, More
<1>3. PICK S \in Bad :
        /\ Replayable(S)
        /\ S # {} => /\ LastReplayed(S) \in S /\ LastReplayed(S) \in Row
                     /\ \A y \in S \ {LastReplayed(S)} : ReplayedBefore(y, LastReplayed(S))
                     /\ S \ {LastReplayed(S)} \notin Bad /\ S \ {LastReplayed(S)} \in SUBSET own
                     /\ Replayed(S) = Apply(Replayed(S \ {LastReplayed(S)}), LastReplayed(S))
  BY <1>1, <1>2, SmallestReplay
<1>4. x \in S /\ Replayed(S).open # Replayed(S \ {x}).open + Signed(x)
  BY <1>3 DEF Bad, More
<1>5. PICK l \in S : /\ l = LastReplayed(S) /\ l \in Row /\ Replayed(S) = Apply(Replayed(S \ {l}), l)
                     /\ \A y \in S \ {l} : ReplayedBefore(y, l)
                     /\ S \ {l} \notin Bad /\ S \ {l} \in SUBSET own
  BY <1>3, <1>4
<1>6. More(S \ {l})
  BY <1>5 DEF Bad
<1>7. \A T \in SUBSET S : Replayable(T) /\ Replayed(T) \in Positions
  BY <1>3, ReplayableSubset, ReplayedType
<1>8. Replayed(S).open = Replayed(S \ {l}).open + Signed(l)
  BY <1>5, <1>7, ApplyEffect
<1>9. CASE x = l
  BY <1>4, <1>8, <1>9
<1>10. CASE x # l
  <2>1. LastReplayed(S \ {x}) = l
    <3>1. S \ {x} # {} /\ Replayable(S \ {x}) /\ l \in S \ {x}
      BY <1>5, <1>7, <1>10
    <3>2. PICK m : m = LastReplayed(S \ {x})
      OBVIOUS
    <3>3. m \in S \ {x} /\ \A y \in (S \ {x}) \ {m} : ReplayedBefore(y, m)
      BY <3>1, <3>2, LastExists
    <3>4. m = l \/ (ReplayedBefore(m, l) /\ ReplayedBefore(l, m))
      BY <1>5, <3>1, <3>3
    <3>5. m = l
      BY <1>3, <3>1, <3>3, <3>4, ReplayOrder
    <3> QED
      BY <3>2, <3>5
  <2>2. Replayed(S \ {x}) = Apply(Replayed((S \ {x}) \ {l}), l)
    BY <1>5, <1>7, <1>10, <2>1, ReplayedStep
  <2>3. Replayed(S \ {x}).open = Replayed((S \ {x}) \ {l}).open + Signed(l)
    BY <1>5, <1>7, <2>2, ApplyEffect
  <2>4. Replayed(S \ {l}).open = Replayed((S \ {l}) \ {x}).open + Signed(x)
    BY <1>4, <1>6, <1>10 DEF More
  <2>5. (S \ {l}) \ {x} = (S \ {x}) \ {l}
    OBVIOUS
  <2>6. x \in Row
    BY <1>3, <1>4 DEF Replayable
  <2>7. Signed(x) \in Int /\ Signed(l) \in Int /\ Replayed((S \ {x}) \ {l}).open \in Int
    BY <1>5, <1>7, <2>6, RowQuantity DEF Positions
  <2>8. Replayed((S \ {l}) \ {x}).open = Replayed((S \ {x}) \ {l}).open
    BY <2>5
  <2> QED
    BY ONLY <1>4, <1>8, <2>3, <2>4, <2>7, <2>8
<1> QED
  BY <1>9, <1>10

\* The reference sum of a set of fills is what their replay holds.
LEMMA SumIsHeld ==
  ASSUME NEW own, Replayable(own)
  PROVE  MapThenSumSet(LAMBDA y : IF y.side = "BUY" THEN y.qty ELSE -y.qty, own) = Replayed(own).open
<1> DEFINE Pick(S) == CHOOSE x \in S : TRUE
           Added(g, S) == IF S = {} THEN 0 ELSE Signed(Pick(S)) + g[S \ {Pick(S)}]
           Sums(g) == g = [S \in SUBSET own |-> Added(g, S)]
           held == [S \in SUBSET own |-> Replayed(S).open]
<1>1. MapThenSumSet(LAMBDA y : IF y.side = "BUY" THEN y.qty ELSE -y.qty, own) = (CHOOSE g : Sums(g))[own]
  BY DEF MapThenSumSet, MapThenFoldSet, Signed
<1>2. ASSUME NEW S \in SUBSET own, S # {}
      PROVE  /\ Pick(S) \in S
             /\ Replayed(S).open = Signed(Pick(S)) + Replayed(S \ {Pick(S)}).open
  <2>1. Pick(S) \in S
    BY <1>2
  <2>2. Replayable(S) /\ Replayable(S \ {Pick(S)}) /\ S \subseteq Row
    BY ReplayableSubset DEF Replayable
  <2>3. Replayed(S).open = Replayed(S \ {Pick(S)}).open + Signed(Pick(S))
    BY <2>1, <2>2, OneRowMore
  <2>4. Replayed(S \ {Pick(S)}).open \in Int /\ Signed(Pick(S)) \in Int
    BY <2>1, <2>2, ReplayedType, RowQuantity DEF Positions
  <2> HIDE DEF Pick
  <2> QED
    BY <2>1, <2>3, <2>4
<1>3. Replayed({}).open = 0
  BY ReplayedNothing DEF EmptyPosition
<1> HIDE DEF Pick
<1>4. Sums(held)
  <2>1. ASSUME NEW S \in SUBSET own PROVE Replayed(S).open = Added(held, S)
    <3>1. CASE S = {}
      BY <1>3, <3>1
    <3>2. CASE S # {}
      BY <1>2, <3>2
    <3> QED
      BY <3>1, <3>2
  <2> HIDE DEF Added
  <2> QED
    BY <2>1
<1>5. PICK g : g = (CHOOSE h : Sums(h)) /\ Sums(g)
  <2>1. \E h : Sums(h)
    BY <1>4
  <2> HIDE DEF Sums
  <2> QED
    BY <2>1
<1> DEFINE Bad == {S \in SUBSET own : g[S] # Replayed(S).open}
<1>6. Bad = {}
  <2> SUFFICES ASSUME Bad # {} PROVE FALSE
    OBVIOUS
  <2>1. PICK S \in Bad : \A x \in S : S \ {x} \notin Bad
    <3>1. Bad \in SUBSET SUBSET own /\ IsFiniteSet(own)
      BY DEF Replayable
    <3> HIDE DEF Bad
    <3> QED
      BY <3>1, Smallest
  <2>2. S \in SUBSET own /\ g[S] # Replayed(S).open
    BY <2>1
  <2>3. g[S] = Added(g, S)
    BY <1>5, <2>2
  <2>4. S # {}
    BY <1>3, <2>2, <2>3
  <2>5. g[S \ {Pick(S)}] = Replayed(S \ {Pick(S)}).open
    BY <1>2, <2>1, <2>2, <2>4
  <2> HIDE DEF Bad, Sums
  <2> QED
    BY <1>2, <2>2, <2>3, <2>4, <2>5
<1>7. own \in SUBSET own
  OBVIOUS
<1> HIDE DEF Sums
<1> QED
  BY <1>1, <1>5, <1>6, <1>7

\* The rows of S until x, and what is held then.
UpTo(S, x) == {y \in S : y = x \/ ReplayedBefore(y, x)}
Held(S, x) == Replayed(UpTo(S, x)).open

\* Rows before the last do not see it.
LEMMA UpToLast ==
  ASSUME NEW S, Replayable(S), NEW l \in S, \A y \in S \ {l} : ReplayedBefore(y, l)
  PROVE  /\ UpTo(S, l) = S
         /\ \A x \in S \ {l} : UpTo(S \ {l}, x) = UpTo(S, x)
  BY ReplayOrder DEF UpTo

\* The replay raises when a BUY brings an oversold position to zero, only.
LEMMA NothingRaises ==
  ASSUME NEW own, Replayable(own), \A x \in own : x.side = "BUY" => Held(own, x) # 0
  PROVE  ~Replayed(own).raised
<1> DEFINE Never(S) == \A x \in S : x.side = "BUY" => Held(S, x) # 0
           Bad == {S \in SUBSET own : Never(S) /\ Replayed(S).raised}
<1>1. SUFFICES ASSUME Bad # {} PROVE FALSE
  OBVIOUS
<1>2. Bad \in SUBSET SUBSET own
  OBVIOUS
<1> HIDE DEF Bad
<1>3. PICK S \in Bad :
        /\ Replayable(S)
        /\ S # {} => /\ LastReplayed(S) \in S /\ LastReplayed(S) \in Row
                     /\ \A y \in S \ {LastReplayed(S)} : ReplayedBefore(y, LastReplayed(S))
                     /\ S \ {LastReplayed(S)} \notin Bad /\ S \ {LastReplayed(S)} \in SUBSET own
                     /\ Replayed(S) = Apply(Replayed(S \ {LastReplayed(S)}), LastReplayed(S))
  BY <1>1, <1>2, SmallestReplay
<1>4. Never(S) /\ Replayed(S).raised
  BY <1>3 DEF Bad
<1>5. S # {}
  BY <1>4, ReplayedNothing DEF EmptyPosition
<1>6. PICK l \in S : /\ l = LastReplayed(S) /\ l \in Row /\ Replayed(S) = Apply(Replayed(S \ {l}), l)
                     /\ \A y \in S \ {l} : ReplayedBefore(y, l)
                     /\ S \ {l} \notin Bad /\ S \ {l} \in SUBSET own
  BY <1>3, <1>5
<1>7. UpTo(S, l) = S /\ \A x \in S \ {l} : UpTo(S \ {l}, x) = UpTo(S, x)
  BY <1>3, <1>6, UpToLast
<1>8. Never(S \ {l})
  BY <1>4, <1>7 DEF Held
<1>9. ~Replayed(S \ {l}).raised
  BY <1>6, <1>8 DEF Bad
<1>10. Replayed(S \ {l}) \in Positions
  BY <1>3, ReplayableSubset, ReplayedType
<1>11. l.side = "BUY" /\ Replayed(S \ {l}).open + l.qty = 0
  BY <1>4, <1>6, <1>9, <1>10, ApplyEffect
<1>12. Replayed(S).open = 0
  BY <1>6, <1>10, <1>11, ApplyEffect DEF Signed
<1> QED
  BY <1>4, <1>7, <1>11, <1>12 DEF Held

\* The last purchase is the last BUY that is replayed.
LEMMA LastBuyIsLast ==
  ASSUME NEW own, Replayable(own), NEW b \in own, b.side = "BUY"
  PROVE  \E z \in own : /\ z.side = "BUY" /\ Replayed(own).lastBuy = z.time
                       /\ \A y \in own : y.side = "BUY" => y = z \/ ReplayedBefore(y, z)
<1> DEFINE Known(S) == \E z \in S : /\ z.side = "BUY" /\ Replayed(S).lastBuy = z.time
                                   /\ \A y \in S : y.side = "BUY" => y = z \/ ReplayedBefore(y, z)
           Bad == {S \in SUBSET own : (\E y \in S : y.side = "BUY") /\ ~Known(S)}
<1>1. SUFFICES ASSUME Bad # {} PROVE FALSE
  OBVIOUS
<1>2. Bad \in SUBSET SUBSET own
  OBVIOUS
<1> HIDE DEF Bad
<1>3. PICK S \in Bad :
        /\ Replayable(S)
        /\ S # {} => /\ LastReplayed(S) \in S /\ LastReplayed(S) \in Row
                     /\ \A y \in S \ {LastReplayed(S)} : ReplayedBefore(y, LastReplayed(S))
                     /\ S \ {LastReplayed(S)} \notin Bad /\ S \ {LastReplayed(S)} \in SUBSET own
                     /\ Replayed(S) = Apply(Replayed(S \ {LastReplayed(S)}), LastReplayed(S))
  BY <1>1, <1>2, SmallestReplay
<1>4. (\E y \in S : y.side = "BUY") /\ ~Known(S)
  BY <1>3 DEF Bad
<1>5. PICK l \in S : /\ l \in Row /\ Replayed(S) = Apply(Replayed(S \ {l}), l)
                     /\ \A y \in S \ {l} : ReplayedBefore(y, l)
                     /\ S \ {l} \notin Bad /\ S \ {l} \in SUBSET own
  BY <1>3, <1>4
<1>6. Replayed(S \ {l}) \in Positions
  BY <1>3, ReplayableSubset, ReplayedType
<1>7. CASE l.side = "BUY"
  <2>1. Replayed(S).lastBuy = l.time
    BY <1>5, <1>6, <1>7, ApplyEffect
  <2> QED
    BY <1>4, <1>5, <1>7, <2>1
<1>8. CASE l.side # "BUY"
  <2>1. Replayed(S).lastBuy = Replayed(S \ {l}).lastBuy
    BY <1>5, <1>6, <1>8, ApplyEffect
  <2>2. \E y \in S \ {l} : y.side = "BUY"
    BY <1>4, <1>8
  <2>3. Known(S \ {l})
    BY <1>5, <2>2 DEF Bad
  <2> QED
    BY <1>4, <1>8, <2>1, <2>3
<1> QED
  BY <1>7, <1>8

\* Without some of its sales, a history holds no less.
LEMMA SalesTakeAway ==
  ASSUME NEW own, Replayable(own), NEW U \in SUBSET own, \A x \in own \ U : x.side # "BUY"
  PROVE  Replayed(own).open <= Replayed(U).open
<1> DEFINE sales == own \ U
           Bad == {D \in SUBSET sales : ~(Replayed(U \union D).open <= Replayed(U).open)}
<1>1. \A T \in SUBSET own : Replayable(T) /\ Replayed(T).open \in Int
  BY ReplayableSubset, ReplayedType DEF Positions
<1>2. Bad = {}
  <2> SUFFICES ASSUME Bad # {} PROVE FALSE
    OBVIOUS
  <2>1. Bad \in SUBSET SUBSET sales /\ IsFiniteSet(sales)
    BY <1>1 DEF Replayable
  <2>2. PICK D \in Bad : \A x \in D : D \ {x} \notin Bad
    <3> HIDE DEF Bad, sales
    <3> QED
      BY <2>1, Smallest
  <2>3. D \in SUBSET sales /\ ~(Replayed(U \union D).open <= Replayed(U).open)
    BY <2>2
  <2>4. CASE D = {}
    BY <1>1, <2>3, <2>4
  <2>5. CASE D # {}
    <3>1. PICK x \in D : TRUE
      BY <2>5
    <3>2. x \in own /\ x \notin U /\ x.side # "BUY" /\ x \in Row
      BY <2>3, <3>1 DEF Replayable
    <3>3. (U \union D) \ {x} = U \union (D \ {x}) /\ U \union D \in SUBSET own /\ x \in U \union D
      BY <2>3, <3>1, <3>2
    <3>4. Replayed(U \union D).open = Replayed(U \union (D \ {x})).open + Signed(x)
      BY <1>1, <3>3, OneRowMore
    <3>5. Replayed(U \union (D \ {x})).open <= Replayed(U).open
      BY <2>2, <2>3, <3>1
    <3>6. Signed(x) \in Int /\ Signed(x) < 0
      BY <3>2, RowQuantity DEF Signed
    <3>7. U \union (D \ {x}) \in SUBSET own
      BY <2>3
    <3>8. /\ Replayed(U \union D).open \in Int /\ Replayed(U).open \in Int
          /\ Replayed(U \union (D \ {x})).open \in Int
      BY <1>1, <3>3, <3>7
    <3> QED
      BY ONLY <2>3, <3>4, <3>5, <3>6, <3>8
  <2> QED
    BY <2>4, <2>5
<1>3. U \union (own \ U) = own
  OBVIOUS
<1> QED
  BY <1>2, <1>3

\* At no time of its replay is a history sold beyond what was bought.
NeverBelow(S) == \A x \in S : Held(S, x) >= 0
Before(S, x) == {y \in S : ReplayedBefore(y, x)}

\* What is held before a row, of these or of others, is never below zero.
LEMMA HeldBefore ==
  ASSUME NEW S, Replayable(S), NEW T, Replayable(T), S \subseteq T, NEW x \in T, NeverBelow(S)
  PROVE  Replayed(Before(S, x)).open \in Nat
<1> DEFINE B == Before(S, x)
<1>1. Replayable(B) /\ B \subseteq S
  BY ReplayableSubset DEF Before
<1>2. Replayed(B).open \in Int
  BY <1>1, ReplayedType DEF Positions
<1>3. CASE B = {}
  BY <1>3, ReplayedNothing DEF EmptyPosition
<1>4. CASE B # {}
  <2>1. PICK l \in B : \A y \in B \ {l} : ReplayedBefore(y, l)
    BY <1>1, <1>4, LastExists
  <2>2. UpTo(S, l) = B
    BY <2>1, ReplayOrder DEF UpTo, Before
  <2> QED
    BY <1>1, <1>2, <2>1, <2>2 DEF NeverBelow, Held
<1> QED
  BY <1>3, <1>4

\* A history that is never below zero does not raise.
LEMMA BuysAreHeld ==
  ASSUME NEW S, Replayable(S), NeverBelow(S)
  PROVE  Replayed(S).open >= 0 /\ ~Replayed(S).raised
<1>1. Replayed(S).open >= 0
  <2>1. CASE S = {}
    BY <2>1, ReplayedNothing DEF EmptyPosition
  <2>2. CASE S # {}
    BY <2>2, LastExists, UpToLast DEF NeverBelow, Held
  <2> QED
    BY <2>1, <2>2
<1>2. ASSUME NEW x \in S, x.side = "BUY" PROVE Held(S, x) # 0
  <2>1. Replayed(Before(S, x)).open \in Nat
    BY HeldBefore
  <2>2. ~ReplayedBefore(x, x)
    BY ReplayOrder
  <2>3. UpTo(S, x) \ {x} = Before(S, x) /\ Replayable(UpTo(S, x)) /\ x \in UpTo(S, x)
    BY <2>2, ReplayableSubset DEF UpTo, Before
  <2>4. Held(S, x) = Replayed(Before(S, x)).open + Signed(x)
    BY <2>3, OneRowMore DEF Held
  <2>5. Signed(x) \in Int /\ Signed(x) > 0
    BY <1>2, RowQuantity DEF Signed, Replayable
  <2> QED
    BY <2>1, <2>4, <2>5
<1> QED
  BY <1>1, <1>2, NothingRaises

\* A purchase at any time, or a sale of no more than is held after the last
\* purchase, keeps it so.
LEMMA FitsIn ==
  ASSUME NEW S, NEW x, x \notin S, Replayable(S \union {x}), NeverBelow(S),
         x.side # "BUY" => /\ x.qty <= Replayed(S).open
                          /\ \A b \in S : b.side = "BUY" => ReplayedBefore(b, x)
  PROVE  NeverBelow(S \union {x})
<1> DEFINE T == S \union {x}
<1>1. \A U \in SUBSET T : Replayable(U) /\ Replayed(U).open \in Int
  BY ReplayableSubset, ReplayedType DEF Positions
<1>2. x \in Row /\ x.qty \in Nat /\ x.qty > 0
  <2>1. x \in Row
    BY DEF Replayable
  <2> QED
    BY <2>1, RowQuantity
<1>3. Replayed(T).open = Replayed(S).open + Signed(x)
  <2>1. T \ {x} = S
    OBVIOUS
  <2> QED
    BY <2>1, OneRowMore
<1>4. /\ \A y, z \in T : y = z \/ ReplayedBefore(y, z) \/ ReplayedBefore(z, y)
      /\ \A y, z \in T : ReplayedBefore(y, z) => ~ReplayedBefore(z, y)
      /\ \A u, y, z \in T : ReplayedBefore(u, y) /\ ReplayedBefore(y, z) => ReplayedBefore(u, z)
  BY ReplayOrder
<1> SUFFICES ASSUME NEW z \in T PROVE Held(T, z) >= 0
  BY DEF NeverBelow
<1>5. CASE z # x /\ ~ReplayedBefore(x, z)
  <2>1. UpTo(T, z) = UpTo(S, z)
    BY <1>5 DEF UpTo
  <2> QED
    BY <1>5, <2>1 DEF NeverBelow, Held
<1>6. CASE x.side = "BUY" /\ (z = x \/ ReplayedBefore(x, z))
  <2>1. x \in UpTo(T, z) /\ UpTo(T, z) \in SUBSET T
    BY <1>6 DEF UpTo
  <2>2. Held(T, z) = Replayed(UpTo(T, z) \ {x}).open + Signed(x)
    BY <1>1, <2>1, OneRowMore DEF Held
  <2>3. Replayed(UpTo(T, z) \ {x}).open >= 0
    <3>1. CASE z = x
      <4>1. UpTo(T, z) \ {x} = Before(S, x)
        BY <1>4, <3>1 DEF UpTo, Before
      <4>2. Replayed(Before(S, x)).open \in Nat
        BY <1>1, HeldBefore
      <4> QED
        BY <4>1, <4>2
    <3>2. CASE z # x
      <4>1. UpTo(T, z) \ {x} = UpTo(S, z) /\ z \in S
        BY <1>6, <3>2 DEF UpTo
      <4> QED
        BY <4>1 DEF NeverBelow, Held
    <3> QED
      BY <3>1, <3>2
  <2>4. Signed(x) = x.qty /\ Replayed(UpTo(T, z) \ {x}).open \in Int
    BY <1>1, <1>6, <2>1 DEF Signed
  <2> QED
    BY <1>2, <2>2, <2>3, <2>4
<1>7. CASE x.side # "BUY" /\ (z = x \/ ReplayedBefore(x, z))
  <2>1. \A y \in T \ UpTo(T, z) : y.side # "BUY"
    BY <1>4, <1>7 DEF UpTo
  <2>2. UpTo(T, z) \in SUBSET T
    BY DEF UpTo
  <2>3. Replayed(T).open <= Held(T, z)
    BY <1>1, <2>1, <2>2, SalesTakeAway DEF Held
  <2>4. Signed(x) = -x.qty /\ x.qty <= Replayed(S).open
    BY <1>7 DEF Signed
  <2>5. Replayed(S).open \in Int /\ Held(T, z) \in Int /\ Replayed(T).open \in Int
    BY <1>1, <2>2 DEF Held
  <2> QED
    BY <1>2, <1>3, <2>3, <2>4, <2>5
<1> QED
  BY <1>5, <1>6, <1>7

\* Something was sold since nothing was held, told from the rows alone.
SoldAndHeld(S) ==
  \E s \in S : /\ s.side = "SELL"
              /\ \A x \in S : ~ReplayedBefore(x, s) => Held(S, x) # 0

\* The replay's cycleSold tells the same.
LEMMA CycleIsKnown ==
  ASSUME NEW own, Replayable(own)
  PROVE  SoldAndHeld(own) <=> Replayed(own).open # 0 /\ Replayed(own).cycleSold > 0
<1> DEFINE Told(S) == SoldAndHeld(S) <=> Replayed(S).open # 0 /\ Replayed(S).cycleSold > 0
           Bad == {S \in SUBSET own : ~Told(S)}
<1>1. SUFFICES ASSUME Bad # {} PROVE FALSE
  OBVIOUS
<1>2. Bad \in SUBSET SUBSET own
  OBVIOUS
<1> HIDE DEF Bad
<1>3. PICK S \in Bad :
        /\ Replayable(S)
        /\ S # {} => /\ LastReplayed(S) \in S /\ LastReplayed(S) \in Row
                     /\ \A y \in S \ {LastReplayed(S)} : ReplayedBefore(y, LastReplayed(S))
                     /\ S \ {LastReplayed(S)} \notin Bad /\ S \ {LastReplayed(S)} \in SUBSET own
                     /\ Replayed(S) = Apply(Replayed(S \ {LastReplayed(S)}), LastReplayed(S))
  BY <1>1, <1>2, SmallestReplay
<1>4. ~Told(S)
  BY <1>3 DEF Bad
<1>5. S # {}
  <2>1. Replayed({}).open = 0
    BY ReplayedNothing DEF EmptyPosition
  <2> QED
    BY <1>4, <2>1 DEF SoldAndHeld
<1>6. PICK l \in S : /\ l \in Row /\ Replayed(S) = Apply(Replayed(S \ {l}), l)
                     /\ \A y \in S \ {l} : ReplayedBefore(y, l)
                     /\ S \ {l} \notin Bad /\ S \ {l} \in SUBSET own
  BY <1>3, <1>5
<1> DEFINE D == S \ {l}
<1>7. Told(D)
  BY <1>6 DEF Bad
<1>8. UpTo(S, l) = S /\ \A x \in D : UpTo(D, x) = UpTo(S, x)
  BY <1>3, <1>6, UpToLast
<1>9. Held(S, l) = Replayed(S).open /\ \A x \in D : Held(D, x) = Held(S, x)
  BY <1>8 DEF Held
<1>10. \A s \in S : ~ReplayedBefore(l, s)
  BY <1>3, <1>6, ReplayOrder
<1>11. SoldAndHeld(S) <=> Replayed(S).open # 0 /\ (l.side = "SELL" \/ SoldAndHeld(D))
  BY <1>6, <1>9, <1>10 DEF SoldAndHeld
<1>12. Replayed(D) \in Positions
  BY <1>3, ReplayableSubset, ReplayedType
<1>13. Replayed(D).cycleSold \in Nat /\ Replayed(D).open \in Int /\ l.qty \in Nat /\ l.qty > 0
  BY <1>6, <1>12, RowQuantity DEF Positions
<1>14. l.side = "BUY" \/ l.side = "SELL"
  BY <1>6 DEF Row, Sides
<1> HIDE DEF D
<1>15. CASE l.side = "SELL"
  <2>1. Replayed(S).cycleSold = Replayed(D).cycleSold + l.qty
    BY <1>6, <1>12, <1>15, ApplyEffect DEF D
  <2>2. Replayed(S).cycleSold > 0
    BY <1>13, <2>1
  <2> QED
    BY <1>4, <1>11, <1>15, <2>2
<1>16. CASE l.side = "BUY"
  <2>1. Replayed(S).cycleSold = IF Replayed(D).open = 0 THEN 0 ELSE Replayed(D).cycleSold
    BY <1>6, <1>12, <1>16, ApplyEffect DEF D
  <2>2. Replayed(S).cycleSold > 0 <=> Replayed(D).open # 0 /\ Replayed(D).cycleSold > 0
    BY <1>13, <2>1
  <2> QED
    BY <1>4, <1>7, <1>11, <1>16, <2>2
<1> QED
  BY <1>14, <1>15, <1>16
-----------------------------------------------------------------------------
(* The rows of a ledger can be replayed, and those of a plain one are      *)
(* never below zero; a sale that was let pass still fits when it is        *)
(* written.                                                                *)

Own(S, c) == {x \in S : x.code = c}

NumberInv ==
  /\ rows \subseteq filed
  /\ \A r \in Recorder : pc[r] \in {"truncate", "write"} => kept[r] \subseteq filed
  /\ \A x \in filed : x.n <= Cardinality(filed) /\ (x.ticket # NoTicket => x.time \in Stamps)
  /\ \A x, y \in filed : x.n = y.n => x = y

Fits(S, q) ==
  /\ q.qty <= Replayed(Own(S, q.code)).open
  /\ \A b \in Own(S, q.code) : b.side = "BUY" => TextKey(b.time) < TextKey(q.time)

PlainInv ==
  Plain =>
    /\ \A c \in Code : NeverBelow(Own(rows, c))
    /\ \A r \in Recorder :
         /\ pc[r] \in {"truncate", "write"} => \A c \in Code : NeverBelow(Own(kept[r], c))
         /\ pc[r] \in Appending /\ request[r].side = "SELL" /\ request[r].time.form = "space" =>
              Fits(IF pc[r] = "append" THEN rows ELSE kept[r], request[r])

\* Rows are numbered apart, and the file holds none that was not put there.
LEMMA NumberStep ==
  ASSUME TypeOK, NumberInv, [Next]_vars
  PROVE  NumberInv'
<1> USE DEF NumberInv, Goto, Ends, locals
<1>0. pc \in [Recorder -> {"idle", "lookup", "validate", "append", "truncate", "write",
                           "report"}]
      /\ kept \in [Recorder -> SUBSET Row]
  BY DEF TypeOK
<1>1. ASSUME NEW r \in Recorder, Submit(r) PROVE NumberInv'
  BY <1>0, <1>1 DEF Submit
<1>2. ASSUME NEW r \in Recorder, Lookup(r) PROVE NumberInv'
  BY <1>0, <1>2 DEF Lookup
<1>3. ASSUME NEW r \in Recorder, Validate(r) PROVE NumberInv'
  BY <1>0, <1>3 DEF Validate
<1>4. ASSUME NEW r \in Recorder, Reread(r) PROVE NumberInv'
  BY <1>0, <1>4 DEF Reread
<1>5. ASSUME NEW r \in Recorder, Truncate(r) PROVE NumberInv'
  BY <1>0, <1>5 DEF Truncate
<1>6. ASSUME NEW r \in Recorder, Write(r) PROVE NumberInv'
  <2> DEFINE row == NewRow(r, 1 + Cardinality(filed))
  <2>1. /\ pc[r] = "write" /\ pc' = [pc EXCEPT ![r] = "report"]
        /\ rows' = kept[r] \union {row} /\ filed' = filed \union {row} /\ kept' = kept
    BY <1>6 DEF Write
  <2>2. Cardinality(filed) \in Nat /\ \A x \in filed : x.n \in Nat /\ x.n <= Cardinality(filed)
    BY FS_CardinalityType DEF TypeOK, Row
  <2>3. row.n = 1 + Cardinality(filed) /\ row.time = request[r].time
    BY DEF NewRow
  <2>4. row.time \in Stamps
    BY <2>1, <2>3 DEF TypeOK, Requests
  <2>5. row \notin filed
    BY <2>2, <2>3
  <2>6. Cardinality(filed') = 1 + Cardinality(filed)
    <3>1. IsFiniteSet(filed)
      BY DEF TypeOK
    <3> HIDE DEF row, NumberInv
    <3>2. Cardinality(filed \union {row}) = Cardinality(filed) + 1
      BY <2>5, <3>1, FS_AddElement
    <3>3. filed' = filed \union {row} /\ Cardinality(filed) \in Nat
      BY <2>1, <2>2
    <3> QED
      BY ONLY <3>2, <3>3
  <2> HIDE DEF row
  <2>7. \A x \in filed' : x.n <= Cardinality(filed') /\ (x.ticket # NoTicket => x.time \in Stamps)
    BY <2>1, <2>2, <2>3, <2>4, <2>6
  <2>8. \A x, y \in filed' : x.n = y.n => x = y
    BY <2>1, <2>2, <2>3
  <2>9. rows' \subseteq filed'
    BY <2>1
  <2>10. \A s \in Recorder : pc'[s] \in {"truncate", "write"} => kept'[s] \subseteq filed'
    BY <1>0, <2>1
  <2> QED
    BY <2>7, <2>8, <2>9, <2>10
<1>7. ASSUME NEW r \in Recorder, Report(r) PROVE NumberInv'
  BY <1>0, <1>7 DEF Report
<1>8. ASSUME NEW r \in Recorder, Crash(r) PROVE NumberInv'
  BY <1>0, <1>8 DEF Crash
<1>9. CASE ResetRows
  BY <1>0, <1>9 DEF ResetRows
<1>10. CASE ResetTickets
  BY <1>10 DEF ResetTickets
<1>11. CASE UNCHANGED vars
  BY <1>11 DEF vars
<1> QED
  BY <1>1, <1>2, <1>3, <1>4, <1>5, <1>6, <1>7, <1>8, <1>9, <1>10, <1>11 DEF Next

\* What was ever filed can be replayed.
LEMMA FiledReplays ==
  ASSUME TypeOK, NumberInv, NEW S \in SUBSET filed
  PROVE  Replayable(S)
<1>1. IsFiniteSet(S)
  BY FS_Subset DEF TypeOK
<1> QED
  BY <1>1 DEF TypeOK, NumberInv, Replayable

\* In one form of trade time, later is later as text.
LEMMA PlainOrder ==
  ASSUME NEW s \in Stamps, NEW t \in Stamps, s.form = "space", t.form = "space"
  PROVE  /\ TextKey(s) \in Int /\ TextKey(t) \in Int
         /\ Instant(s) > Instant(t) => TextKey(t) < TextKey(s)
<1>1. PerDay \in Nat /\ PerDay > 0 /\ Day \subseteq Nat /\ s # NoStamp /\ t # NoStamp
  BY DayAssumption, LedgerAssumption DEF Stamps
<1> DEFINE d == s.day
           e == t.day
           a == s.at
           b == t.at
<1>2. d \in Nat /\ e \in Nat
  BY <1>1 DEF Stamps
<1>3. a \in Int /\ b \in Int /\ 0 <= a /\ a < PerDay /\ 0 <= b /\ b < PerDay
  <2>1. a \in 0..(PerDay - 1) /\ b \in 0..(PerDay - 1)
    BY DEF Stamps
  <2> HIDE DEF a, b
  <2> QED
    BY <1>1, <2>1
<1>4. /\ TextKey(s) = PerDay * (2 * d + 0) + a /\ TextKey(t) = PerDay * (2 * e + 0) + b
      /\ Instant(s) = PerDay * d + a /\ Instant(t) = PerDay * e + b
  BY <1>1 DEF TextKey, Instant
<1> HIDE DEF d, e, a, b
<1> DEFINE p == PerDay * d
           q == PerDay * e
<1>5. p \in Int /\ q \in Int
  BY <1>1, <1>2
<1>6. PerDay * (2 * d + 0) = 2 * p /\ PerDay * (2 * e + 0) = 2 * q
  BY <1>1, <1>2
<1>10. /\ TextKey(s) = 2 * p + a /\ TextKey(t) = 2 * q + b
       /\ Instant(s) = p + a /\ Instant(t) = q + b
  BY <1>4, <1>6
<1>7. CASE d > e
  <2>1. PerDay * (d - e) >= PerDay
    BY <1>1, <1>2, <1>7
  <2>2. PerDay * (d - e) = p - q
    BY <1>1, <1>2
  <2> HIDE DEF p, q
  <2>3. p - q >= PerDay
    BY ONLY <2>1, <2>2
  <2> QED
    BY ONLY <1>1, <1>3, <1>5, <1>10, <2>3
<1>8. CASE d = e
  <2>1. p = q
    BY <1>8
  <2> HIDE DEF p, q
  <2> QED
    BY ONLY <1>1, <1>3, <1>5, <1>10, <2>1
<1>9. CASE d < e
  <2>1. PerDay * (e - d) >= PerDay
    BY <1>1, <1>2, <1>9
  <2>2. PerDay * (e - d) = q - p
    BY <1>1, <1>2
  <2> HIDE DEF p, q
  <2>3. q - p >= PerDay
    BY ONLY <2>1, <2>2
  <2> QED
    BY ONLY <1>1, <1>3, <1>5, <1>10, <2>3
<1> QED
  BY <1>2, <1>7, <1>8, <1>9

\* A position is the replay of the rows of its code.
LEMMA PositionIsReplay ==
  ASSUME NEW S, NEW c
  PROVE  Position(S, c) = Replayed(Own(S, c))
  BY DEF Position, Own, Replayed

\* A sale that a plain ledger lets pass comes after every purchase, as text.
LEMMA ValidSaleFits ==
  ASSUME TypeOK, NumberInv, Plain, NEW q \in Requests, q.side = "SELL", q.time.form = "space",
         PositionAllows(q)
  PROVE  Fits(rows, q)
<1> DEFINE own == Own(rows, q.code)
<1>1. own \subseteq rows /\ own \subseteq filed /\ Replayable(own)
  BY FiledReplays DEF Own, NumberInv
<1>2. /\ q.qty <= Replayed(own).open
      /\ Parsed(q.time) /\ Parsed(Replayed(own).lastBuy) =>
           Instant(q.time) > Instant(Replayed(own).lastBuy)
  BY PositionIsReplay DEF PositionAllows
<1>3. q.time \in Stamps /\ \A x \in own : x.time \in Stamps /\ x.time.form = "space"
  BY <1>1 DEF NumberInv, Plain, Requests
<1>4. ASSUME NEW t \in Stamps, t.form = "space" PROVE Parsed(t)
  BY <1>4, LedgerAssumption DEF Parsed, Stamps
<1>5. ASSUME NEW b \in own, b.side = "BUY" PROVE TextKey(b.time) < TextKey(q.time)
  <2> HIDE DEF own
  <2>1. PICK z \in own : /\ z.side = "BUY" /\ Replayed(own).lastBuy = z.time
                         /\ \A y \in own : y.side = "BUY" => y = z \/ ReplayedBefore(y, z)
    BY <1>1, <1>5, LastBuyIsLast
  <2>2. Instant(q.time) > Instant(z.time)
    BY <1>2, <1>3, <1>4, <2>1
  <2>3. TextKey(z.time) < TextKey(q.time) /\ TextKey(z.time) \in Int /\ TextKey(q.time) \in Int
    BY <1>3, <2>2, PlainOrder
  <2>4. TextKey(b.time) = TextKey(z.time) \/ TextKey(b.time) < TextKey(z.time)
    BY <1>5, <2>1 DEF ReplayedBefore
  <2>5. TextKey(b.time) \in Int
    BY <1>3, <1>5, PlainOrder
  <2> QED
    BY ONLY <2>3, <2>4, <2>5
<1> QED
  BY <1>2, <1>5 DEF Fits

\* What keeps the ledger, and what recorders about to append know, keeps
\* the plain ledger above zero.
LEMMA PlainFrame ==
  ASSUME PlainInv, UNCHANGED <<rows, filed>>,
         \A r \in Recorder : pc'[r] \in Appending =>
           pc'[r] = pc[r] /\ request'[r] = request[r] /\ kept'[r] = kept[r]
  PROVE  PlainInv'
<1>1. Plain' = Plain
  BY DEF Plain
<1> SUFFICES ASSUME Plain
             PROVE  /\ \A c \in Code : NeverBelow(Own(rows', c))
                    /\ \A r \in Recorder :
                         /\ pc'[r] \in {"truncate", "write"} =>
                              \A c \in Code : NeverBelow(Own(kept'[r], c))
                         /\ /\ pc'[r] \in Appending /\ request'[r].side = "SELL"
                            /\ request'[r].time.form = "space"
                            => Fits(IF pc'[r] = "append" THEN rows' ELSE kept'[r], request'[r])
  BY <1>1 DEF PlainInv
<1>2. \A r \in Recorder : pc'[r] \in {"truncate", "write"} => pc'[r] \in Appending
  BY DEF Appending
<1> QED
  BY <1>2 DEF PlainInv

\* ... and so does a fill that passed validation, once it is written.
LEMMA PlainStep ==
  ASSUME \A a, b \in Recorder : a = b,
         TypeOK, NumberInv, PlainInv, [Next]_vars
  PROVE  PlainInv'
<1>0. /\ pc \in [Recorder -> {"idle", "lookup", "validate", "append", "truncate", "write",
                              "report"}]
      /\ kept \in [Recorder -> SUBSET Row]
      /\ request \in [Recorder -> Requests \union {NoRequest}]
      /\ \A r \in Recorder : pc[r] # "idle" => request[r] \in Requests
  BY DEF TypeOK
<1> USE DEF Goto, Ends, locals
<1>1. ASSUME NEW r \in Recorder, Submit(r) PROVE PlainInv'
  BY <1>0, <1>1, PlainFrame DEF Submit, Appending
<1>2. ASSUME NEW r \in Recorder, Lookup(r) PROVE PlainInv'
  BY <1>0, <1>2, PlainFrame DEF Lookup, Appending
<1>3. ASSUME NEW r \in Recorder, Validate(r) PROVE PlainInv'
  <2>1. CASE Ends(r)
    BY <1>0, <1>3, <2>1, PlainFrame DEF Validate, Appending
  <2>2. CASE ~Ends(r)
    <3>1. /\ PositionAllows(request[r]) /\ pc[r] = "validate"
          /\ pc' = [pc EXCEPT ![r] = "append"]
          /\ UNCHANGED <<request, kept, rows, filed>>
      BY <1>3, <2>2 DEF Validate
    <3>2. request[r] \in Requests /\ pc'[r] = "append" /\ \A s \in Recorder : s = r
      BY <1>0, <3>1
    <3>3. ASSUME Plain, request[r].side = "SELL", request[r].time.form = "space"
          PROVE  Fits(rows, request[r])
      BY <3>1, <3>2, <3>3, ValidSaleFits
    <3>4. Plain' = Plain
      BY <3>1 DEF Plain
    <3> SUFFICES ASSUME Plain
                 PROVE  /\ \A c \in Code : NeverBelow(Own(rows', c))
                        /\ \A s \in Recorder :
                             /\ pc'[s] \in {"truncate", "write"} =>
                                  \A c \in Code : NeverBelow(Own(kept'[s], c))
                             /\ /\ pc'[s] \in Appending /\ request'[s].side = "SELL"
                                /\ request'[s].time.form = "space"
                                => Fits(IF pc'[s] = "append" THEN rows' ELSE kept'[s], request'[s])
      BY <3>4 DEF PlainInv
    <3>5. \A c \in Code : NeverBelow(Own(rows', c))
      BY <3>1 DEF PlainInv
    <3> QED
      BY <3>1, <3>2, <3>3, <3>5
  <2> QED
    BY <2>1, <2>2
<1>4. ASSUME NEW r \in Recorder, Reread(r) PROVE PlainInv'
  <2>1. /\ pc[r] = "append" /\ pc' = [pc EXCEPT ![r] = "truncate"]
        /\ kept' = [kept EXCEPT ![r] = {x \in rows : ~IsPlaceholder(x, request[r])}]
        /\ UNCHANGED <<request, rows, filed>>
    BY <1>4 DEF Reread
  <2>2. Plain' = Plain
    BY <2>1 DEF Plain
  <2> SUFFICES ASSUME Plain
               PROVE  /\ \A c \in Code : NeverBelow(Own(rows', c))
                      /\ \A s \in Recorder :
                           /\ pc'[s] \in {"truncate", "write"} =>
                                \A c \in Code : NeverBelow(Own(kept'[s], c))
                           /\ /\ pc'[s] \in Appending /\ request'[s].side = "SELL"
                              /\ request'[s].time.form = "space"
                              => Fits(IF pc'[s] = "append" THEN rows' ELSE kept'[s], request'[s])
    BY <2>2 DEF PlainInv
  <2>3. kept'[r] = rows
    BY <1>0, <2>1 DEF IsPlaceholder, NumberInv, Plain
  <2>4. pc'[r] = "truncate" /\ \A s \in Recorder : s = r
    BY <1>0, <2>1
  <2> QED
    BY <2>1, <2>3, <2>4 DEF PlainInv, Appending
<1>5. ASSUME NEW r \in Recorder, Truncate(r) PROVE PlainInv'
  <2>1. /\ pc[r] = "truncate" /\ pc' = [pc EXCEPT ![r] = "write"] /\ rows' = {}
        /\ UNCHANGED <<request, kept, filed>>
    BY <1>5 DEF Truncate
  <2>2. Plain' = Plain
    BY <2>1 DEF Plain
  <2> SUFFICES ASSUME Plain
               PROVE  /\ \A c \in Code : NeverBelow(Own(rows', c))
                      /\ \A s \in Recorder :
                           /\ pc'[s] \in {"truncate", "write"} =>
                                \A c \in Code : NeverBelow(Own(kept'[s], c))
                           /\ /\ pc'[s] \in Appending /\ request'[s].side = "SELL"
                              /\ request'[s].time.form = "space"
                              => Fits(IF pc'[s] = "append" THEN rows' ELSE kept'[s], request'[s])
    BY <2>2 DEF PlainInv
  <2>3. \A c \in Code : NeverBelow(Own(rows', c))
    BY <2>1 DEF NeverBelow, Own
  <2>4. pc'[r] = "write" /\ \A s \in Recorder : s = r
    BY <1>0, <2>1
  <2> QED
    BY <2>1, <2>3, <2>4 DEF PlainInv, Appending
<1>6. ASSUME NEW r \in Recorder, Write(r) PROVE PlainInv'
  <2> DEFINE row == NewRow(r, 1 + Cardinality(filed))
             q == request[r]
  <2>1. /\ pc[r] = "write" /\ pc' = [pc EXCEPT ![r] = "report"]
        /\ rows' = kept[r] \union {row} /\ filed' = filed \union {row}
    BY <1>6 DEF Write
  <2>2. pc'[r] = "report" /\ \A s \in Recorder : s = r
    BY <1>0, <2>1
  <2>3. SUFFICES ASSUME Plain', NEW c \in Code PROVE NeverBelow(Own(rows', c))
    <3>1. ASSUME Plain' => \A c \in Code : NeverBelow(Own(rows', c)) PROVE PlainInv'
      BY <2>2, <3>1 DEF PlainInv, Appending
    <3> QED
      BY <3>1
  <2>4. Plain /\ row.time.form = "space" /\ row.ticket # NoTicket
    BY <2>1, <2>3 DEF Plain
  <2>5. q \in Requests /\ row.code = q.code /\ row.side = q.side /\ row.qty = q.qty
        /\ row.time = q.time /\ row.n = 1 + Cardinality(filed)
    BY <1>0, <2>1 DEF NewRow
  <2>6. kept[r] \subseteq filed /\ NeverBelow(Own(kept[r], c))
    BY <2>1, <2>4 DEF NumberInv, PlainInv
  <2>7. row \notin kept[r]
    <3>1. Cardinality(filed) \in Nat /\ \A x \in filed : x.n \in Nat /\ x.n <= Cardinality(filed)
      BY FS_CardinalityType DEF TypeOK, Row, NumberInv
    <3> HIDE DEF row
    <3> QED
      BY <2>5, <2>6, <3>1
  <2>8. Replayable(filed')
    <3>1. TypeOK' /\ NumberInv'
      BY TypeStep, NumberStep
    <3>2. IsFiniteSet(filed') /\ filed' \subseteq Row
      BY <3>1 DEF TypeOK
    <3>3. \A x, y \in filed' : x.n = y.n => x = y
      BY <3>1 DEF NumberInv
    <3> QED
      BY <3>2, <3>3 DEF Replayable
  <2>9. CASE row.code # c
    <3>1. Own(rows', c) = Own(kept[r], c)
      BY <2>1, <2>9 DEF Own
    <3> QED
      BY <2>6, <3>1
  <2>10. CASE row.code = c
    <3>1. Own(rows', c) = Own(kept[r], c) \union {row}
      BY <2>1, <2>10 DEF Own
    <3>2. Own(kept[r], c) \union {row} \subseteq filed'
      BY <2>1, <2>6 DEF Own
    <3>3. Replayable(Own(kept[r], c) \union {row})
      BY <2>8, <3>2, ReplayableSubset
    <3>4. row \notin Own(kept[r], c)
      BY <2>7 DEF Own
    <3>5. ASSUME row.side # "BUY"
          PROVE  /\ row.qty <= Replayed(Own(kept[r], c)).open
                 /\ \A b \in Own(kept[r], c) : b.side = "BUY" => ReplayedBefore(b, row)
      <4>1. q.side = "SELL" /\ q.time.form = "space"
        BY <2>4, <2>5, <3>5 DEF Requests, Sides
      <4>2. Fits(kept[r], q)
        BY <2>1, <2>4, <4>1 DEF PlainInv, Appending
      <4> HIDE DEF row, q
      <4> QED
        BY <2>5, <2>10, <4>2 DEF Fits, ReplayedBefore
    <3> HIDE DEF row, q
    <3> QED
      BY <2>6, <3>1, <3>3, <3>4, <3>5, FitsIn
  <2> QED
    BY <2>9, <2>10
<1>7. ASSUME NEW r \in Recorder, Report(r) PROVE PlainInv'
  BY <1>0, <1>7, PlainFrame DEF Report, Appending
<1>8. ASSUME NEW r \in Recorder, Crash(r) PROVE PlainInv'
  BY <1>0, <1>8, PlainFrame DEF Crash, Appending
<1>9. CASE ResetRows
  <2>1. rows' = {} /\ \A r \in Recorder : pc'[r] = "idle"
    BY <1>9 DEF ResetRows
  <2>2. \A c \in Code : NeverBelow(Own(rows', c))
    BY <2>1 DEF NeverBelow, Own
  <2> QED
    BY <2>1, <2>2 DEF PlainInv, Appending
<1>10. CASE ResetTickets
  BY <1>10, PlainFrame DEF ResetTickets
<1>11. CASE UNCHANGED vars
  BY <1>11, PlainFrame DEF vars
<1> QED
  BY <1>1, <1>2, <1>3, <1>4, <1>5, <1>6, <1>7, <1>8, <1>9, <1>10, <1>11 DEF Next

\* HeldAfter and SoldSinceFlat, which look at the rows of one code only,
\* are what is held and sold among these.
LEMMA HistoryOfOne ==
  ASSUME TypeOK, NumberInv, NEW c \in Code
  PROVE  /\ Replayable(Own(rows, c))
         /\ \A x \in Own(rows, c) : HeldAfter(rows, x) = Held(Own(rows, c), x)
         /\ SoldSinceFlat(rows, c) <=> SoldAndHeld(Own(rows, c))
<1> DEFINE own == Own(rows, c)
<1>1. Replayable(own)
  BY FiledReplays DEF Own, NumberInv
<1>2. ASSUME NEW x \in own PROVE HeldAfter(rows, x) = Held(own, x)
  <2>1. {y \in rows : y.code = x.code /\ (y = x \/ ReplayedBefore(y, x))} = UpTo(own, x)
    BY <1>2 DEF Own, UpTo
  <2>2. UpTo(own, x) \subseteq own /\ Replayable(UpTo(own, x))
    BY <1>1, ReplayableSubset DEF UpTo
  <2>3. HeldAfter(rows, x) = Replayed(UpTo(own, x)).open
    BY <2>1, <2>2, SumIsHeld DEF HeldAfter
  <2> QED
    BY <2>3 DEF Held
<1>3. SoldSinceFlat(rows, c) <=> SoldAndHeld(own)
  <2>1. \A x : x \in own <=> x \in rows /\ x.code = c
    BY DEF Own
  <2> HIDE DEF own
  <2> QED
    BY <1>2, <2>1 DEF SoldSinceFlat, SoldAndHeld
<1> QED
  BY <1>1, <1>2, <1>3

\* Initial states are numbered.
LEMMA InitNumbered == Init => TypeOK /\ NumberInv
<1> SUFFICES ASSUME Init
             PROVE  TypeOK /\ NumberInv
  OBVIOUS
<1>1. filed = rows /\ (rows = {} \/ rows = {Legacy}) /\ \A r \in Recorder : pc[r] = "idle"
  BY LedgerAssumption DEF Init, LedgerAssumption
<1>2. Legacy \in Row /\ Legacy.n = 0 /\ Legacy.ticket = NoTicket
  BY LedgerAssumption DEF LedgerAssumption, Legacy, Row, Sides
<1>3. IsFiniteSet(filed) /\ Cardinality(filed) \in Nat
  BY <1>1, FS_EmptySet, FS_Singleton, FS_CardinalityType
<1>4. TypeOK
  BY <1>1, <1>2, <1>3 DEF Init, TypeOK
<1>5. NumberInv
  BY <1>1, <1>2, <1>3 DEF NumberInv
<1> QED
  BY <1>4, <1>5

(* Every variable keeps its type, and rows keep their numbers.             *)
THEOREM RowsNumbered == Spec => [](TypeOK /\ NumberInv)
<1>1. TypeOK /\ NumberInv /\ [Next]_vars => (TypeOK /\ NumberInv)'
  BY TypeStep, NumberStep
<1> QED
  BY <1>1, InitNumbered, PTL DEF Spec

(* Every variable keeps its type.                                          *)
THEOREM TypeCorrect == Spec => []TypeOK
  BY RowsNumbered, PTL

(* Whatever the rows and however many recorders wrote them, the position   *)
(* replayed is what the history holds, and is partly closed when something *)
(* was sold since nothing was held.                                        *)
THEOREM HistoryMatched == Spec => []ReplayMatchesHistory
<1>1. TypeOK /\ NumberInv => ReplayMatchesHistory
  <2> SUFFICES ASSUME TypeOK, NumberInv, NEW c \in Code
               PROVE  LET last == {x \in rows : x.code = c /\ \A y \in rows : y.code = c =>
                                              y = x \/ ReplayedBefore(y, x)}
                          p == Holding(c)
                      IN  /\ \A x \in last : p.open = HeldAfter(rows, x)
                          /\ Status(p) = "PARTIALLY_CLOSED" => SoldSinceFlat(rows, c)
                          /\ Status(p) = "OPEN" => ~SoldSinceFlat(rows, c)
    BY DEF ReplayMatchesHistory
  <2> DEFINE own == Own(rows, c)
  <2>1. Holding(c) = Replayed(own)
    BY PositionIsReplay DEF Holding
  <2>2. ASSUME NEW x \in rows, x.code = c,
               \A y \in rows : y.code = c => y = x \/ ReplayedBefore(y, x)
        PROVE  Holding(c).open = HeldAfter(rows, x)
    <3>1. UpTo(own, x) = own /\ x \in own
      BY <2>2 DEF UpTo, Own
    <3> QED
      BY <2>1, <3>1, HistoryOfOne DEF Held
  <2>3. /\ SoldSinceFlat(rows, c) <=> Replayed(own).open # 0 /\ Replayed(own).cycleSold > 0
        /\ Replayed(own) \in Positions /\ Replayed(own).open = Replayed(own).bought - Replayed(own).sold
    BY HistoryOfOne, CycleIsKnown, ReplayedType
  <2> HIDE DEF own
  <2>4. Status(Holding(c)) = "PARTIALLY_CLOSED" => SoldSinceFlat(rows, c)
    BY <2>1, <2>3 DEF Status, Positions
  <2>5. Status(Holding(c)) = "OPEN" => ~SoldSinceFlat(rows, c)
    BY <2>1, <2>3 DEF Status, Positions
  <2> QED
    BY <2>2, <2>4, <2>5
<1> QED
  BY <1>1, RowsNumbered, PTL

(* With one recorder at a time a plain ledger is never below zero, and a   *)
(* sale about to be written still fits in it.                              *)
THEOREM PlainLedger ==
  ASSUME \A a, b \in Recorder : a = b
  PROVE  Spec => [](TypeOK /\ NumberInv /\ PlainInv)
<1>1. Init => PlainInv
  <2> SUFFICES ASSUME Init, Plain
               PROVE  /\ \A c \in Code : NeverBelow(Own(rows, c))
                      /\ \A r \in Recorder : pc[r] \notin {"truncate", "write"} \union Appending
    BY DEF PlainInv
  <2>1. rows = {} \/ rows = {Legacy}
    BY DEF Init
  <2>2. rows = {}
    BY <2>1 DEF Init, Plain, Legacy
  <2> QED
    BY <2>2 DEF Init, NeverBelow, Own, Appending
<1>2. TypeOK /\ NumberInv /\ PlainInv /\ [Next]_vars => (TypeOK /\ NumberInv /\ PlainInv)'
  BY TypeStep, NumberStep, PlainStep
<1> QED
  BY <1>1, <1>2, InitNumbered, PTL DEF Spec

(* No sequence of accepted fills against tickets sells more than was       *)
(* bought: a sale is checked against what is held after every purchase,    *)
(* so it fits in whatever order the rows are replayed.                     *)
THEOREM NotOverSold ==
  ASSUME \A a, b \in Recorder : a = b
  PROVE  Spec => []NeverOverSold
<1>1. TypeOK /\ NumberInv /\ PlainInv => NeverOverSold
  <2> SUFFICES ASSUME TypeOK, NumberInv, PlainInv, Plain, NEW c \in Code
               PROVE  Status(Holding(c)) # "ERROR_OVER_SOLD"
    BY DEF NeverOverSold
  <2> DEFINE own == Own(rows, c)
  <2>1. Holding(c) = Replayed(own)
    BY PositionIsReplay DEF Holding
  <2>2. Replayable(own) /\ NeverBelow(own)
    BY HistoryOfOne DEF PlainInv
  <2>3. /\ Replayed(own).open >= 0 /\ Replayed(own) \in Positions
        /\ Replayed(own).open = Replayed(own).bought - Replayed(own).sold
    BY <2>2, BuysAreHeld, ReplayedType
  <2> HIDE DEF own
  <2> QED
    BY <2>1, <2>3 DEF Status, Positions
<1> QED
  BY <1>1, PlainLedger, PTL

(* ... nor makes the summary raise once a fill is stored, since no BUY     *)
(* ever finds the position below zero.                                     *)
THEOREM FillReported ==
  ASSUME \A a, b \in Recorder : a = b
  PROVE  Spec => []StoredFillReported
<1>1. TypeOK /\ NumberInv /\ PlainInv => StoredFillReported
  <2> SUFFICES ASSUME TypeOK, NumberInv, PlainInv, Plain, NEW x \in rows
               PROVE  ~Position(rows, x.code).raised
    BY DEF StoredFillReported, SummaryRaises
  <2>1. x.code \in Code
    BY DEF TypeOK, Row
  <2>2. Replayable(Own(rows, x.code)) /\ NeverBelow(Own(rows, x.code))
    BY <2>1, HistoryOfOne DEF PlainInv
  <2> QED
    BY <2>2, BuysAreHeld, PositionIsReplay
<1> QED
  BY <1>1, PlainLedger, PTL

-----------------------------------------------------------------------------
(* The backtest: its dataset directory.                                    *)

\* The five files prepare_dataset writes, in order.
LEMMA FilesAre ==
  /\ Files[1] = "daily_bars" /\ Files[2] = "selection_snapshots"
  /\ Files[3] = "market_snapshots" /\ Files[4] = "benchmark_bars"
  /\ Files[5] = "dataset_manifest"
  /\ TableName = {"daily_bars", "selection_snapshots", "market_snapshots", "benchmark_bars"}
  /\ FileName = TableName \union {"dataset_manifest"}
<1> DEFINE T1 == "daily_bars"
           T2 == "selection_snapshots"
           T3 == "market_snapshots"
           T4 == "benchmark_bars"
<1>1. /\ Tables \in Seq({T1, T2, T3, T4}) /\ Len(Tables) = 4
      /\ Tables[1] = T1 /\ Tables[2] = T2 /\ Tables[3] = T3 /\ Tables[4] = T4
  BY DEF Tables
<1>2. /\ \A i \in 1..4 : Files[i] = Tables[i]
      /\ Files[5] = "dataset_manifest"
  <2> DEFINE one == <<"dataset_manifest">>
  <2>1. one \in Seq({"dataset_manifest"}) /\ Len(one) = 1 /\ one[1] = "dataset_manifest"
    OBVIOUS
  <2>2. Files = Tables \o one
    BY DEF Files
  <2> DEFINE names == {T1, T2, T3, T4, "dataset_manifest"}
  <2>3. Tables \in Seq(names) /\ one \in Seq(names)
    BY DEF Tables
  <2> HIDE DEF one, T1, T2, T3, T4, names
  <2>4. \A i \in 1..(Len(Tables) + Len(one)) :
          (Tables \o one)[i] = IF i <= Len(Tables) THEN Tables[i] ELSE one[i - Len(Tables)]
    BY ONLY <2>3
  <2>5. 1..(Len(Tables) + Len(one)) = 1..5
    BY <1>1, <2>1
  <2>6. \A i \in 1..4 : i \in 1..5 /\ i <= Len(Tables)
    BY <1>1
  <2>7. 5 \in 1..5 /\ ~(5 <= Len(Tables)) /\ one[5 - Len(Tables)] = "dataset_manifest"
    BY <1>1, <2>1
  <2> QED
    BY ONLY <2>2, <2>4, <2>5, <2>6, <2>7
<1>3. 1..4 = {1, 2, 3, 4} /\ 1..5 = {1, 2, 3, 4, 5}
  OBVIOUS
<1>4. TableName = {Tables[1], Tables[2], Tables[3], Tables[4]}
  BY <1>3 DEF TableName
<1>5. FileName = {Files[1], Files[2], Files[3], Files[4], Files[5]}
  BY <1>3 DEF FileName
<1>6. Files[1] = T1 /\ Files[2] = T2 /\ Files[3] = T3 /\ Files[4] = T4
  BY <1>1, <1>2
<1> QED
  BY <1>1, <1>2, <1>4, <1>5, <1>6

\* The table read next.
LEMMA AfterIs ==
  /\ After("daily_bars") = "selection_snapshots"
  /\ After("selection_snapshots") = "market_snapshots"
  /\ After("market_snapshots") = "benchmark_bars"
  /\ After("benchmark_bars") = "dataset_manifest"
<1>1. /\ (CHOOSE i \in 1..4 : Files[i] = "daily_bars") = 1
      /\ (CHOOSE i \in 1..4 : Files[i] = "selection_snapshots") = 2
      /\ (CHOOSE i \in 1..4 : Files[i] = "market_snapshots") = 3
      /\ (CHOOSE i \in 1..4 : Files[i] = "benchmark_bars") = 4
  <2>1. 1..4 = {1, 2, 3, 4}
    OBVIOUS
  <2> QED
    BY <2>1, FilesAre
<1> QED
  BY <1>1, FilesAre DEF After

\* What the preparations made, and the files that are there.
Datasets == {Makes(codes) : codes \in (SUBSET Stock) \ {{}}}

WriterInv ==
  /\ made \in Seq(Datasets)
  /\ \A p \in Preparer : step[p] \in {"open", "fill"} =>
       /\ number[p] \in 1..Len(made)
       /\ \A i \in 1..5 : i < next[p] \/ (i = next[p] /\ step[p] = "fill") => disk[FileAt(i)] # NoFile
  /\ disk["dataset_manifest"] # NoFile => \A f \in FileName : disk[f] # NoFile

\* What an undisturbed backtest has read.
Sees(n) ==
  /\ \A f \in FileName : disk[f] = Whole(n)
  /\ \A f \in TableName :
       \/ loaded[f] = Whole(n)
       \/ reader = "daily_bars"
       \/ reader = "selection_snapshots" /\ f # "daily_bars"
       \/ reader = "market_snapshots" /\ f \in {"market_snapshots", "benchmark_bars"}
       \/ reader = "benchmark_bars" /\ f = "benchmark_bars"
  /\ reader \in {"report", "reported"} =>
       DOMAIN report = {"tables", "manifest", "run"} /\ report.tables = loaded
  /\ reader = "reported" => report.manifest = Whole(n)

ReadInv == undisturbed /\ reader # "idle" => \E n \in 1..Len(made) : Sees(n)

\* A step of the backtest leaves the preparations alone.
LEMMA WriterFrame ==
  ASSUME WriterInv, UNCHANGED <<scenario, disk, made, preparing>>
  PROVE  WriterInv'
<1>1. Datasets' = Datasets
  BY DEF Datasets, Makes
<1> QED
  BY <1>1 DEF WriterInv, preparing

\* A preparation writes its manifest last.
LEMMA WriterStep ==
  ASSUME BacktestTypeOK, WriterInv, [BacktestNext]_backtestVars
  PROVE  WriterInv'
<1> DEFINE n == Len(made)
           Written(p) == step[p] \in {"open", "fill"} =>
             /\ number[p] \in 1..n
             /\ \A i \in 1..5 : i < next[p] \/ (i = next[p] /\ step[p] = "fill") => disk[Files[i]] # NoFile
           Manifested == disk["dataset_manifest"] # NoFile => \A f \in FileName : disk[f] # NoFile
<1>0. /\ made \in Seq(Datasets) /\ n \in Nat
      /\ disk \in [FileName -> [by : 1..n, whole : BOOLEAN] \union {NoFile}]
      /\ step \in [Preparer -> {"idle", "load", "open", "fill", "validate"}]
      /\ number \in [Preparer -> 0..n] /\ next \in [Preparer -> 1..5]
      /\ \A p \in Preparer : Written(p)
      /\ Manifested
  BY DEF BacktestTypeOK, WriterInv, FileAt
<1>a. ASSUME UNCHANGED <<scenario, made>>, \A p \in Preparer : Written(p)', Manifested'
      PROVE  WriterInv'
  <2>1. Datasets' = Datasets
    BY <1>a DEF Datasets, Makes
  <2> QED
    BY <1>0, <1>a, <2>1 DEF WriterInv, FileAt
<1> USE FilesAre DEF StepTo
<1>1. ASSUME NEW p \in Preparer, Request(p) PROVE WriterInv'
  BY <1>0, <1>1, <1>a DEF Request
<1>2. ASSUME NEW p \in Preparer, LoadFails(p) PROVE WriterInv'
  BY <1>0, <1>2, <1>a DEF LoadFails
<1>3. ASSUME NEW p \in Preparer, Load(p) PROVE WriterInv'
  <2>1. PICK codes \in (SUBSET Stock) \ {{}} : made' = Append(made, Makes(codes))
    BY <1>3 DEF Load
  <2>2. Makes(codes) \in Datasets
    BY DEF Datasets
  <2>3. scenario' = scenario /\ Datasets' = Datasets
    BY <1>3 DEF Load, Datasets, Makes
  <2>4. made' \in Seq(Datasets) /\ Len(made') = n + 1
    BY <1>0, <2>1, <2>2
  <2>5. 1..n \subseteq 1..(n + 1) /\ n + 1 \in 1..(n + 1)
    BY <1>0
  <2>6. /\ disk' = disk /\ step[p] = "load" /\ step' = [step EXCEPT ![p] = "open"]
        /\ number' = [number EXCEPT ![p] = n + 1] /\ next' = [next EXCEPT ![p] = 1]
    BY <1>3, <2>4 DEF Load
  <2> HIDE DEF n
  <2>7. \A q \in Preparer : step'[q] \in {"open", "fill"} =>
             /\ number'[q] \in 1..(n + 1)
             /\ \A i \in 1..5 : i < next'[q] \/ (i = next'[q] /\ step'[q] = "fill") =>
                  disk'[Files[i]] # NoFile
    BY <1>0, <2>5, <2>6
  <2> QED
    BY <1>0, <2>3, <2>4, <2>6, <2>7 DEF WriterInv, FileAt
<1>4. ASSUME NEW p \in Preparer, Open(p) PROVE WriterInv'
  <2>1. /\ step[p] = "open" /\ step' = [step EXCEPT ![p] = "fill"]
        /\ disk' = [disk EXCEPT ![Files[next[p]]] = [by |-> number[p], whole |-> FALSE]]
        /\ UNCHANGED <<scenario, made, number, next>>
    BY <1>4 DEF Open, FileAt
  <2>2. Files[next[p]] \in FileName /\ [by |-> number[p], whole |-> FALSE] # NoFile
    <3>1. next[p] \in 1..5 /\ number[p] \in 1..n
      BY <1>0, <2>1
    <3>2. number[p] \in Nat
      BY <1>0, <3>1
    <3>3. Files[next[p]] \in FileName
      BY ONLY <3>1 DEF FileName
    <3>4. [by |-> number[p], whole |-> FALSE] \in [by : Nat, whole : BOOLEAN]
      BY ONLY <3>2
    <3> QED
      BY <3>3, <3>4, FileAssumption
  <2>3. \A f \in FileName : disk'[f] # NoFile <=> disk[f] # NoFile \/ f = Files[next[p]]
    BY <1>0, <2>1, <2>2
  <2>4. \A q \in Preparer : Written(q)'
    <3>1. \A i \in 1..5 : Files[i] \in FileName
      BY DEF FileName
    <3> SUFFICES ASSUME NEW q \in Preparer PROVE Written(q)'
      OBVIOUS
    <3>2. CASE q # p
      BY <1>0, <2>1, <2>3, <3>1, <3>2
    <3>3. CASE q = p
      <4>1. step'[p] # "validate" => number'[p] \in 1..n
        BY <1>0, <2>1
      <4>2. ASSUME step'[p] \in {"open", "fill"}, NEW i \in 1..5,
                   i < next'[p] \/ (i = next'[p] /\ step'[p] = "fill")
            PROVE  i < next[p] \/ i = next[p]
        BY <1>0, <2>1, <4>2
      <4>3. \A i \in 1..5 : i < next[p] \/ i = next[p] => disk'[Files[i]] # NoFile
        <5>1. Written(p)
          BY <1>0
        <5> QED
          BY <2>1, <2>3, <3>1, <5>1
      <4> QED
        BY <2>1, <3>3, <4>1, <4>2, <4>3
    <3> QED
      BY <3>2, <3>3
  <2>5. Manifested'
    <3>1. ASSUME next[p] = 5, NEW f \in FileName PROVE disk'[f] # NoFile
      <4>1. \A i \in 1..4 : disk[Files[i]] # NoFile
        <5>1. Written(p)
          BY <1>0
        <5>2. \A i \in 1..4 : i \in 1..5 /\ i < 5
          OBVIOUS
        <5> QED
          BY ONLY <2>1, <3>1, <5>1, <5>2
      <4> QED
        BY <1>0, <2>3, <3>1, <4>1 DEF FileName
    <3>2. next[p] # 5 => Files[next[p]] # "dataset_manifest"
      <4>1. next[p] \in {1, 2, 3, 4, 5}
        BY <1>0
      <4> QED
        BY ONLY <4>1, FilesAre
    <3> QED
      BY <1>0, <2>3, <3>1, <3>2
  <2> QED
    BY <1>a, <2>1, <2>4, <2>5
<1>5. ASSUME NEW p \in Preparer, Fill(p) PROVE WriterInv'
  <2>1. /\ step[p] = "fill"
        /\ step' = [step EXCEPT ![p] = IF next[p] = 5 THEN "validate" ELSE "open"]
        /\ next' = [next EXCEPT ![p] = IF @ = 5 THEN 1 ELSE @ + 1]
        /\ disk' = [disk EXCEPT ![Files[next[p]]] = Whole(number[p])]
        /\ UNCHANGED <<scenario, made, number>>
    BY <1>5 DEF Fill, FileAt
  <2>2. Files[next[p]] \in FileName /\ Whole(number[p]) # NoFile
    <3>1. next[p] \in 1..5 /\ number[p] \in 1..n
      BY <1>0, <2>1
    <3>2. number[p] \in Nat
      BY <1>0, <3>1
    <3>3. Files[next[p]] \in FileName
      BY ONLY <3>1 DEF FileName
    <3>4. Whole(number[p]) \in [by : Nat, whole : BOOLEAN]
      BY ONLY <3>2 DEF Whole
    <3> QED
      BY <3>3, <3>4, FileAssumption
  <2>3. \A f \in FileName : disk'[f] # NoFile <=> disk[f] # NoFile \/ f = Files[next[p]]
    BY <1>0, <2>1, <2>2
  <2>4. \A q \in Preparer : Written(q)'
    <3>1. \A i \in 1..5 : Files[i] \in FileName
      BY DEF FileName
    <3> SUFFICES ASSUME NEW q \in Preparer PROVE Written(q)'
      OBVIOUS
    <3>2. CASE q # p
      BY <1>0, <2>1, <2>3, <3>1, <3>2
    <3>3. CASE q = p
      <4>1. step'[p] # "validate" => number'[p] \in 1..n
        BY <1>0, <2>1
      <4>2. ASSUME step'[p] \in {"open", "fill"}, NEW i \in 1..5,
                   i < next'[p] \/ (i = next'[p] /\ step'[p] = "fill")
            PROVE  i < next[p] \/ i = next[p]
        BY <1>0, <2>1, <4>2
      <4>3. \A i \in 1..5 : i < next[p] \/ i = next[p] => disk'[Files[i]] # NoFile
        <5>1. Written(p)
          BY <1>0
        <5> QED
          BY <2>1, <2>3, <3>1, <5>1
      <4> QED
        BY <2>1, <3>3, <4>1, <4>2, <4>3
    <3> QED
      BY <3>2, <3>3
  <2>5. Manifested'
    <3>1. ASSUME next[p] = 5, NEW f \in FileName PROVE disk'[f] # NoFile
      <4>1. \A i \in 1..4 : disk[Files[i]] # NoFile
        <5>1. Written(p)
          BY <1>0
        <5>2. \A i \in 1..4 : i \in 1..5 /\ i < 5
          OBVIOUS
        <5> QED
          BY ONLY <2>1, <3>1, <5>1, <5>2
      <4> QED
        BY <1>0, <2>3, <3>1, <4>1 DEF FileName
    <3>2. next[p] # 5 => Files[next[p]] # "dataset_manifest"
      <4>1. next[p] \in {1, 2, 3, 4, 5}
        BY <1>0
      <4> QED
        BY ONLY <4>1, FilesAre
    <3> QED
      BY <1>0, <2>3, <3>1, <3>2
  <2> QED
    BY <1>a, <2>1, <2>4, <2>5
<1>6. ASSUME NEW p \in Preparer, ValidateLoadable(p) PROVE WriterInv'
  BY <1>0, <1>6, <1>a DEF ValidateLoadable
<1>7. ASSUME NEW p \in Preparer, PreparerDies(p) PROVE WriterInv'
  BY <1>0, <1>7, <1>a DEF PreparerDies
<1>8. CASE Starts
  BY <1>8, WriterFrame DEF Starts
<1>9. ASSUME NEW f \in TableName, ReadTable(f) \/ ReadFails(f) PROVE WriterInv'
  BY <1>9, WriterFrame DEF ReadTable, ReadFails
<1>10. CASE Simulate \/ ReportManifest \/ EndBacktest
  BY <1>10, WriterFrame DEF Simulate, ReportManifest, EndBacktest
<1>11. CASE UNCHANGED backtestVars
  BY <1>11, WriterFrame DEF backtestVars
<1> QED
  BY <1>1, <1>2, <1>3, <1>4, <1>5, <1>6, <1>7, <1>8, <1>9, <1>10, <1>11 DEF BacktestNext

\* Every step keeps the types.
LEMMA BacktestTypeStep ==
  ASSUME BacktestTypeOK, WriterInv, [BacktestNext]_backtestVars
  PROVE  BacktestTypeOK'
<1> DEFINE n == Len(made)
<1>0. /\ made \in Seq(Datasets) /\ n \in Nat
      /\ disk \in [FileName -> [by : 1..n, whole : BOOLEAN] \union {NoFile}]
      /\ loaded \in [TableName -> [by : 1..n, whole : BOOLEAN] \union {NoFile}]
      /\ step \in [Preparer -> {"idle", "load", "open", "fill", "validate"}]
      /\ number \in [Preparer -> 0..n] /\ next \in [Preparer -> 1..5]
      /\ \A p \in Preparer : step[p] \in {"open", "fill"} => number[p] \in 1..n
  BY DEF BacktestTypeOK, WriterInv
<1> USE FilesAre DEF BacktestTypeOK, StepTo, preparing, reading
<1>1. ASSUME NEW p \in Preparer, Request(p) PROVE BacktestTypeOK'
  BY <1>1 DEF Request
<1>2. ASSUME NEW p \in Preparer, LoadFails(p) PROVE BacktestTypeOK'
  BY <1>2 DEF LoadFails
<1>3. ASSUME NEW p \in Preparer, Load(p) PROVE BacktestTypeOK'
  <2>1. PICK codes \in (SUBSET Stock) \ {{}} : made' = Append(made, Makes(codes))
    BY <1>3 DEF Load
  <2>2. Makes(codes) \in Datasets
    BY DEF Datasets
  <2>4. Len(made') = n + 1
    BY <1>0, <2>1, <2>2
  <2>5. 1..n \subseteq 1..(n + 1) /\ 0..n \subseteq 0..(n + 1) /\ n + 1 \in 0..(n + 1)
    BY <1>0
  <2>6. /\ UNCHANGED <<scenario, disk, reading>> /\ step[p] = "load"
        /\ step' = [step EXCEPT ![p] = "open"]
        /\ number' = [number EXCEPT ![p] = n + 1] /\ next' = [next EXCEPT ![p] = 1]
    BY <1>3, <2>4 DEF Load
  <2> HIDE DEF n
  <2> QED
    BY <1>0, <2>4, <2>5, <2>6 DEF n
<1>4. ASSUME NEW p \in Preparer, Open(p) PROVE BacktestTypeOK'
  BY <1>0, <1>4 DEF Open, FileAt
<1>5. ASSUME NEW p \in Preparer, Fill(p) PROVE BacktestTypeOK'
  <2>1. /\ step[p] = "fill"
        /\ step' = [step EXCEPT ![p] = IF next[p] = 5 THEN "validate" ELSE "open"]
        /\ next' = [next EXCEPT ![p] = IF @ = 5 THEN 1 ELSE @ + 1]
        /\ disk' = [disk EXCEPT ![Files[next[p]]] = Whole(number[p])]
        /\ undisturbed' \in BOOLEAN
        /\ UNCHANGED <<scenario, made, number, reader, loaded>>
    BY <1>5 DEF Fill, FileAt
  <2>2. Whole(number[p]) \in [by : 1..n, whole : BOOLEAN]
    BY <1>0, <2>1 DEF Whole
  <2>3. disk' \in [FileName -> [by : 1..n, whole : BOOLEAN] \union {NoFile}]
    BY <1>0, <2>1, <2>2
  <2>4. next' \in [Preparer -> 1..5]
    <3>1. (IF next[p] = 5 THEN 1 ELSE next[p] + 1) \in 1..5
      BY <1>0
    <3> QED
      BY <1>0, <2>1, <3>1
  <2> QED
    BY <1>0, <2>1, <2>3, <2>4
<1>6. ASSUME NEW p \in Preparer, ValidateLoadable(p) PROVE BacktestTypeOK'
  BY <1>0, <1>6 DEF ValidateLoadable
<1>7. ASSUME NEW p \in Preparer, PreparerDies(p) PROVE BacktestTypeOK'
  BY <1>0, <1>7 DEF PreparerDies
<1>8. CASE Starts
  BY <1>8 DEF Starts, OfOnePreparation
<1>9. ASSUME NEW f \in TableName, ReadTable(f) PROVE BacktestTypeOK'
  BY <1>0, <1>9, AfterIs DEF ReadTable
<1>10. ASSUME NEW f \in TableName, ReadFails(f) PROVE BacktestTypeOK'
  BY <1>10 DEF ReadFails
<1>11. CASE Simulate \/ ReportManifest \/ EndBacktest
  BY <1>0, <1>11 DEF Simulate, ReportManifest, EndBacktest
<1>12. CASE UNCHANGED backtestVars
  BY <1>12 DEF backtestVars
<1> QED
  BY <1>1, <1>2, <1>3, <1>4, <1>5, <1>6, <1>7, <1>8, <1>9, <1>10, <1>11, <1>12 DEF BacktestNext

\* While no file is written over, a backtest goes on seeing what it saw.
LEMMA ReadFrame ==
  ASSUME BacktestTypeOK, WriterInv, ReadInv,
         UNCHANGED <<reader, loaded, report>>,
         Len(made') \in Nat, Len(made') >= Len(made),
         undisturbed' => undisturbed,
         undisturbed' /\ (\E m \in 1..Len(made) : \A f \in FileName : disk[f] = Whole(m)) => disk' = disk
  PROVE  ReadInv'
<1> SUFFICES ASSUME undisturbed', reader # "idle"
             PROVE  \E m \in 1..Len(made') : Sees(m)'
  BY DEF ReadInv
<1>1. PICK m \in 1..Len(made) : Sees(m)
  BY DEF ReadInv
<1>2. Len(made) \in Nat /\ m \in 1..Len(made')
  BY DEF WriterInv
<1>3. disk' = disk
  BY <1>1 DEF Sees
<1>4. Sees(m)'
  BY <1>1, <1>3 DEF Sees, Whole
<1> QED
  BY <1>2, <1>4

\* Every step keeps what an undisturbed backtest sees.
LEMMA ReadStep ==
  ASSUME BacktestTypeOK, WriterInv, ReadInv, [BacktestNext]_backtestVars
  PROVE  ReadInv'
<1> DEFINE n == Len(made)
<1>0. /\ made \in Seq(Datasets) /\ n \in Nat
      /\ disk \in [FileName -> [by : 1..n, whole : BOOLEAN] \union {NoFile}]
      /\ loaded \in [TableName -> [by : 1..n, whole : BOOLEAN] \union {NoFile}]
      /\ next \in [Preparer -> 1..5]
      /\ \A m \in 1..n : Whole(m) # NoFile
      /\ \A i \in 1..5 : FileAt(i) \in FileName
  <2>1. n \in Nat
    BY DEF WriterInv
  <2>2. ASSUME NEW m \in 1..n PROVE Whole(m) # NoFile
    <3>1. Whole(m) \in [by : Nat, whole : BOOLEAN]
      BY <2>1 DEF Whole
    <3> QED
      BY <3>1, FileAssumption
  <2> QED
    BY <2>1, <2>2 DEF BacktestTypeOK, WriterInv, FileAt, FileName
<1> USE DEF preparing, reading
<1>1. ASSUME NEW p \in Preparer, Request(p) \/ LoadFails(p) \/ ValidateLoadable(p) \/ PreparerDies(p)
      PROVE  ReadInv'
  BY <1>0, <1>1, ReadFrame DEF Request, LoadFails, ValidateLoadable, PreparerDies
<1>2. ASSUME NEW p \in Preparer, Load(p) PROVE ReadInv'
  <2>1. Len(made') = n + 1
    BY <1>0, <1>2 DEF Load
  <2> QED
    BY <1>0, <1>2, <2>1, ReadFrame DEF Load
<1>3. ASSUME NEW p \in Preparer, Open(p) PROVE ReadInv'
  <2>1. /\ undisturbed' => undisturbed /\ disk[FileAt(next[p])] = NoFile
        /\ UNCHANGED <<made, reader, loaded, report>>
    BY <1>3 DEF Open
  <2>2. FileAt(next[p]) \in FileName
    BY <1>0
  <2>3. ASSUME NEW m \in 1..Len(made), \A f \in FileName : disk[f] = Whole(m), undisturbed' PROVE FALSE
    BY <1>0, <2>1, <2>2, <2>3
  <2> QED
    BY <1>0, <2>1, <2>3, ReadFrame
<1>4. ASSUME NEW p \in Preparer, Fill(p) PROVE ReadInv'
  <2>1. /\ undisturbed' => undisturbed /\ disk[FileAt(next[p])].by = number[p]
        /\ disk' = [disk EXCEPT ![FileAt(next[p])] = Whole(number[p])]
        /\ UNCHANGED <<made, reader, loaded, report>>
    BY <1>4 DEF Fill
  <2>2. FileAt(next[p]) \in FileName
    BY <1>0
  <2>3. ASSUME NEW m \in 1..Len(made), \A f \in FileName : disk[f] = Whole(m), undisturbed'
        PROVE  disk' = disk
    <3>1. disk[FileAt(next[p])] = Whole(number[p])
      <4>1. disk[FileAt(next[p])] = Whole(m)
        BY <2>2, <2>3
      <4>2. Whole(m).by = m
        BY DEF Whole
      <4>3. disk[FileAt(next[p])].by = number[p]
        BY <2>1, <2>3, Zenon
      <4> QED
        BY <4>1, <4>2, <4>3
    <3> QED
      BY <1>0, <2>1, <2>2, <3>1
  <2> QED
    BY <1>0, <2>1, <2>3, ReadFrame
<1>5. CASE Starts
  <2>1. /\ disk["dataset_manifest"] # NoFile /\ reader' = "daily_bars"
        /\ undisturbed' = OfOnePreparation /\ UNCHANGED <<disk, made>>
    BY <1>5, FilesAre DEF Starts
  <2>2. \A f \in FileName : f \in Present
    BY <2>1 DEF WriterInv, Present
  <2>3. ASSUME NEW m \in 1..Len(made), \A f \in Present : disk[f] = Whole(m) PROVE Sees(m)'
    BY <2>1, <2>2, <2>3 DEF Sees, Whole
  <2> QED
    BY <2>1, <2>3 DEF ReadInv, OfOnePreparation
<1>6. ASSUME NEW f \in TableName, ReadTable(f) PROVE ReadInv'
  <2>1. /\ reader = f /\ loaded' = [loaded EXCEPT ![f] = disk[f]]
        /\ reader' = IF After(f) = "dataset_manifest" THEN "simulate" ELSE After(f)
        /\ UNCHANGED <<disk, made, report, undisturbed>>
    BY <1>6 DEF ReadTable
  <2>2. f \in FileName /\ f # "idle"
    BY FilesAre
  <2>3. ASSUME NEW m \in 1..Len(made), Sees(m) PROVE Sees(m)'
    <3>1. disk[f] = Whole(m)
      BY <2>2, <2>3 DEF Sees
    <3>2. \A g \in TableName : loaded'[g] = IF g = f THEN Whole(m) ELSE loaded[g]
      BY <1>0, <2>1, <3>1
    <3>3. \A g \in TableName :
            \/ loaded[g] = Whole(m)
            \/ f = "daily_bars"
            \/ f = "selection_snapshots" /\ g # "daily_bars"
            \/ f = "market_snapshots" /\ g \in {"market_snapshots", "benchmark_bars"}
            \/ f = "benchmark_bars" /\ g = "benchmark_bars"
      BY <2>1, <2>3 DEF Sees
    <3>4. /\ f = "daily_bars" => reader' = "selection_snapshots"
          /\ f = "selection_snapshots" => reader' = "market_snapshots"
          /\ f = "market_snapshots" => reader' = "benchmark_bars"
          /\ f = "benchmark_bars" => reader' = "simulate"
      BY <2>1, AfterIs
    <3>5. f \in {"daily_bars", "selection_snapshots", "market_snapshots", "benchmark_bars"}
      BY FilesAre
    <3>6. \A g \in TableName :
            \/ loaded'[g] = Whole(m)
            \/ reader' = "daily_bars"
            \/ reader' = "selection_snapshots" /\ g # "daily_bars"
            \/ reader' = "market_snapshots" /\ g \in {"market_snapshots", "benchmark_bars"}
            \/ reader' = "benchmark_bars" /\ g = "benchmark_bars"
      <4> SUFFICES ASSUME NEW g \in TableName
                   PROVE  \/ loaded'[g] = Whole(m)
                          \/ reader' = "daily_bars"
                          \/ reader' = "selection_snapshots" /\ g # "daily_bars"
                          \/ reader' = "market_snapshots" /\ g \in {"market_snapshots", "benchmark_bars"}
                          \/ reader' = "benchmark_bars" /\ g = "benchmark_bars"
        OBVIOUS
      <4>1. g \in {"daily_bars", "selection_snapshots", "market_snapshots", "benchmark_bars"}
        BY FilesAre
      <4> QED
        BY ONLY <3>2, <3>3, <3>4, <3>5, <4>1
    <3>7. reader' \notin {"report", "reported"}
      BY <3>4, <3>5
    <3>8. \A g \in FileName : disk'[g] = Whole(m)
      BY <2>1, <2>3 DEF Sees
    <3> QED
      BY <3>6, <3>7, <3>8 DEF Sees, Whole
  <2> QED
    BY <2>1, <2>2, <2>3 DEF ReadInv
<1>7. ASSUME NEW f \in TableName, ReadFails(f) PROVE ReadInv'
  BY <1>7 DEF ReadFails, ReadInv
<1>8. CASE Simulate
  <2>1. /\ reader = "simulate" /\ reader' = "report" /\ report'.tables = loaded
        /\ UNCHANGED <<disk, made, loaded, undisturbed>>
    BY <1>8 DEF Simulate
  <2>3. DOMAIN report' = {"tables", "manifest", "run"}
    BY <1>8 DEF Simulate
  <2>2. ASSUME NEW m \in 1..Len(made), Sees(m) PROVE Sees(m)'
    BY <2>1, <2>2, <2>3 DEF Sees, Whole
  <2> QED
    BY <2>1, <2>2 DEF ReadInv
<1>9. CASE ReportManifest
  <2>1. /\ reader = "report" /\ reader' = "reported"
        /\ UNCHANGED <<disk, made, loaded, undisturbed>>
        /\ report' = [report EXCEPT !.manifest = disk["dataset_manifest"]]
    BY <1>9 DEF ReportManifest
  <2>2. ASSUME NEW m \in 1..Len(made), Sees(m) PROVE Sees(m)'
    <3>1. disk["dataset_manifest"] = Whole(m)
      BY <2>2, FilesAre DEF Sees
    <3>2. /\ report'.manifest = Whole(m) /\ report'.tables = loaded
          /\ DOMAIN report' = {"tables", "manifest", "run"}
      BY <2>1, <2>2, <3>1 DEF Sees
    <3> QED
      BY <2>1, <2>2, <3>2 DEF Sees, Whole
  <2> QED
    BY <2>1, <2>2 DEF ReadInv
<1>10. CASE EndBacktest
  BY <1>10 DEF EndBacktest, ReadInv
<1>11. CASE UNCHANGED backtestVars
  BY <1>0, <1>11, ReadFrame DEF backtestVars
<1> QED
  BY <1>1, <1>2, <1>3, <1>4, <1>5, <1>6, <1>7, <1>8, <1>9, <1>10, <1>11 DEF BacktestNext

LEMMA BacktestStarts == BacktestInit => BacktestTypeOK /\ WriterInv /\ ReadInv
<1> SUFFICES ASSUME BacktestInit
             PROVE  BacktestTypeOK /\ WriterInv /\ ReadInv
  OBVIOUS
<1>1. Makes(Stock) \in Datasets
  <2>1. Stock \in (SUBSET Stock) \ {{}}
    BY EngineAssumption
  <2> QED
    BY <2>1 DEF Datasets
<1>2. made \in Seq(Datasets) /\ Len(made) = IF scenario.prepared THEN 1 ELSE 0
  BY <1>1 DEF BacktestInit
<1>3. Whole(1) \in [by : 1..1, whole : BOOLEAN] /\ Whole(1) \in [by : Nat, whole : BOOLEAN]
  BY DEF Whole
<1>4. BacktestTypeOK
  <2>1. disk \in [FileName -> [by : 1..Len(made), whole : BOOLEAN] \union {NoFile}]
    BY <1>2, <1>3 DEF BacktestInit
  <2>2. number \in [Preparer -> 0..Len(made)] /\ next \in [Preparer -> 1..5]
    BY <1>2 DEF BacktestInit
  <2> QED
    BY <2>1, <2>2 DEF BacktestInit, BacktestTypeOK
<1>5. WriterInv
  BY <1>2, <1>3, FileAssumption, FilesAre DEF BacktestInit, WriterInv
<1>6. ReadInv
  BY DEF BacktestInit, ReadInv
<1> QED
  BY <1>4, <1>5, <1>6

(* Every variable keeps its type; prepare_dataset's manifest is the last   *)
(* file there; an undisturbed backtest sees the tables of one preparation. *)
THEOREM BacktestInvariance == BacktestSpec => [](BacktestTypeOK /\ WriterInv /\ ReadInv)
<1>1. BacktestTypeOK /\ WriterInv /\ ReadInv /\ [BacktestNext]_backtestVars
        => (BacktestTypeOK /\ WriterInv /\ ReadInv)'
  BY BacktestTypeStep, WriterStep, ReadStep
<1> QED
  BY <1>1, BacktestStarts, PTL DEF BacktestSpec

(* Any number of preparations beside it, dying anywhere: a backtest begun  *)
(* on one whole dataset that none of them writes over reports on it.       *)
THEOREM OneDatasetReported == BacktestSpec => []ReportOfOneDataset
<1>1. BacktestTypeOK /\ WriterInv /\ ReadInv => ReportOfOneDataset
  <2> SUFFICES ASSUME ReadInv, reader = "reported", undisturbed
               PROVE  \E n \in 1..Len(made) :
                        report.manifest = Whole(n) /\ \A f \in TableName : report.tables[f] = Whole(n)
    BY DEF ReportOfOneDataset
  <2>1. PICK n \in 1..Len(made) : Sees(n)
    BY DEF ReadInv
  <2> QED
    BY <2>1 DEF Sees
<1> QED
  BY <1>1, BacktestInvariance, PTL

-----------------------------------------------------------------------------
(* What a simulation computes, for any number of stocks and any tables.    *)

\* The equation Simulation is to satisfy.
DayOf(t, how, f, d) ==
  IF d = 0 THEN Start
  ELSE IF ~IsTradingDate(t, d) THEN f[d - 1]
  ELSE AfterSelection(t, AfterExit(t, f[d - 1], d, how), d)

\* Its recursion has a value: it is built from days to days.
LEMMA SimulationRecurs ==
  ASSUME NEW t, NEW how
  PROVE  \A d \in 0..LastDate : Simulation(t, how)[d] = DayOf(t, how, Simulation(t, how), d)
<1> DEFINE Runs(f, n) == f = [d \in 0..n |-> DayOf(t, how, f, d)]
           Bad == {n \in Nat : ~\E f : Runs(f, n)}
<1>1. ASSUME NEW n \in Nat PROVE \E f : Runs(f, n)
  <2> SUFFICES ASSUME Bad # {} PROVE FALSE
    OBVIOUS
  <2>1. PICK m \in Bad : m - 1 \notin Bad
    <3>1. Bad \in SUBSET Nat
      OBVIOUS
    <3> HIDE DEF Bad
    <3> QED
      BY <3>1, SmallestNumber
  <2>2. m \in Nat /\ ~\E f : Runs(f, m)
    BY <2>1
  <2>3. CASE m = 0
    <3> DEFINE f == [d \in 0..m |-> Start]
    <3>1. \A d \in 0..m : d = 0
      BY <2>3
    <3>2. Runs(f, m)
      BY <3>1 DEF DayOf
    <3> QED
      BY <2>2, <3>2
  <2>4. CASE m # 0
    <3>1. PICK f : Runs(f, m - 1)
      <4>1. m - 1 \in Nat
        BY <2>2, <2>4
      <4> HIDE DEF Runs
      <4> QED
        BY <2>1, <4>1
    <3> DEFINE g == [d \in 0..m |-> DayOf(t, how, f, d)]
    <3>2. ASSUME NEW d \in 0..m PROVE DayOf(t, how, g, d) = DayOf(t, how, f, d)
      <4>1. CASE d = 0
        BY <4>1 DEF DayOf
      <4>2. CASE d # 0
        <5>1. d - 1 \in 0..m /\ d - 1 \in 0..(m - 1)
          BY <2>2, <4>2
        <5>2. g[d - 1] = DayOf(t, how, f, d - 1)
          BY <5>1
        <5>3. f[d - 1] = DayOf(t, how, f, d - 1)
          BY <3>1, <5>1
        <5> HIDE DEF g
        <5> QED
          BY <5>2, <5>3 DEF DayOf
      <4> QED
        BY <4>1, <4>2
    <3>3. Runs(g, m)
      <4> HIDE DEF DayOf
      <4> QED
        BY <3>2
    <3> QED
      BY <2>2, <3>3
  <2> QED
    BY <2>3, <2>4
<1>2. LastDate \in Nat
  BY EngineAssumption
<1>3. Simulation(t, how) = CHOOSE f : Runs(f, LastDate)
  BY DEF Simulation, DayOf
<1>4. Runs(Simulation(t, how), LastDate)
  <2> HIDE DEF Runs
  <2> QED
    BY <1>1, <1>2, <1>3
<1> QED
  BY <1>4

\* The last bar until a day that has one is that day's.
LEMMA LastBarIsToday ==
  ASSUME NEW t, NEW c \in Stock, NEW d \in Date, t.daily_bars[c][d] # NoRow
  PROVE  LastBar(t, c, d) = t.daily_bars[c][d]
<1> DEFINE R == RowsUntil(t.daily_bars, c, d)
<1>1. d \in R /\ d \in Int /\ \A e \in R : e \in Int /\ e <= d
  BY DEF RowsUntil, Date
<1>2. Max(R) = d
  <2> HIDE DEF R
  <2>1. \A y \in R : d >= y
    BY <1>1
  <2>2. \A x \in R : (\A y \in R : x >= y) => x = d
    BY <1>1
  <2>3. Max(R) \in R /\ \A y \in R : Max(R) >= y
    BY <1>1, <2>1 DEF Max
  <2> QED
    BY <2>2, <2>3
<1> QED
  BY <1>2 DEF LastBar

\* Scores are compared as numbers.
LEMMA ScoreIsNumber ==
  ASSUME NEW t, NEW d, NEW c \in Stock
  PROVE  Score(t, c, d) \in Int /\ BaseScore[c] \in Int
<1>1. BaseScore[c] \in Nat /\ VolumeBase[c] \in Nat
  BY EngineAssumption
<1>2. PriceVolumeScore(t.selection_snapshots[c][d], c) \in Int
  BY <1>1 DEF PriceVolumeScore, Clamp
<1>3. TrendScore(LastBar(t, c, d)) \in Int
  BY DEF TrendScore
<1> QED
  BY <1>1, <1>2, <1>3 DEF Score

\* Where there are candidates there is a best one.
LEMMA BestExists ==
  ASSUME NEW t, NEW d, Buyable(t, d) # {}
  PROVE  Best(t, d) \in Buyable(t, d)
<1> DEFINE Beats(c, other) ==
             \/ Score(t, c, d) > Score(t, other, d)
             \/ Score(t, c, d) = Score(t, other, d) /\ BaseScore[c] >= BaseScore[other]
           HasBest(S) == \E c \in S : \A other \in S \ {c} : Beats(c, other)
           Bad == {S \in SUBSET Buyable(t, d) : S # {} /\ ~HasBest(S)}
<1>1. Buyable(t, d) \subseteq Stock /\ IsFiniteSet(Buyable(t, d))
  <2>1. Buyable(t, d) \subseteq Stock
    BY DEF Buyable
  <2> QED
    BY <2>1, EngineAssumption, FS_Subset
<1>2. \A a \in Stock : Score(t, a, d) \in Int /\ BaseScore[a] \in Int
  BY ScoreIsNumber
<1>3. /\ \A a, b \in Stock : Beats(a, b) \/ Beats(b, a)
      /\ \A a, b, c \in Stock : Beats(a, b) /\ Beats(b, c) => Beats(a, c)
  BY <1>2
<1>4. HasBest(Buyable(t, d))
  <2> SUFFICES ASSUME Bad # {} PROVE FALSE
    OBVIOUS
  <2>1. Bad \in SUBSET SUBSET Buyable(t, d)
    OBVIOUS
  <2>2. PICK S \in Bad : \A x \in S : S \ {x} \notin Bad
    <3> HIDE DEF Bad
    <3> QED
      BY <1>1, <2>1, Smallest
  <2>3. S \subseteq Stock /\ S # {} /\ ~HasBest(S) /\ S \in SUBSET Buyable(t, d)
    BY <1>1, <2>2
  <2> HIDE DEF Beats
  <2>4. PICK x \in S : TRUE
    BY <2>3
  <2>5. S \ {x} # {}
    BY <2>3, <2>4
  <2>6. HasBest(S \ {x})
    BY <2>2, <2>3, <2>4, <2>5
  <2>7. PICK z \in S \ {x} : \A y \in (S \ {x}) \ {z} : Beats(z, y)
    BY <2>6
  <2>8. CASE Beats(z, x)
    BY <2>3, <2>4, <2>7, <2>8
  <2>9. CASE Beats(x, z)
    <3>1. \A y \in S \ {x} : Beats(x, y)
      BY <1>3, <2>3, <2>4, <2>7, <2>9
    <3> QED
      BY <2>3, <2>4, <3>1
  <2> QED
    BY <1>3, <2>3, <2>4, <2>7, <2>8, <2>9
<1> QED
  BY <1>4 DEF Best

\* Tables that say the same until a day.
Agree(t, u, d) ==
  \A c \in Stock, e \in Date : e <= d =>
    /\ t.daily_bars[c][e] = u.daily_bars[c][e]
    /\ t.selection_snapshots[c][e] = u.selection_snapshots[c][e]
    /\ t.market_snapshots[e] = u.market_snapshots[e]
    /\ t.benchmark_bars[e] = u.benchmark_bars[e]

\* Tables that say the same until a day select the same on it.
LEMMA SameSelection ==
  ASSUME NEW t, NEW u, NEW d \in Date, Agree(t, u, d)
  PROVE  /\ IsTradingDate(t, d) <=> IsTradingDate(u, d)
         /\ MarketPasses(t, d) <=> MarketPasses(u, d)
         /\ Buyable(t, d) = Buyable(u, d)
         /\ Best(t, d) = Best(u, d)
         /\ \A c \in Buyable(t, d) : LastBar(t, c, d) = LastBar(u, c, d)
<1>1. d <= d /\ Stock # {}
  BY EngineAssumption DEF Date
<1>2. \A c \in Stock : t.daily_bars[c][d] = u.daily_bars[c][d]
                       /\ t.selection_snapshots[c][d] = u.selection_snapshots[c][d]
  BY <1>1 DEF Agree
<1>3. MarketPasses(t, d) <=> MarketPasses(u, d)
  BY <1>1 DEF Agree, MarketPasses
<1>4. \A c \in Stock : t.daily_bars[c][d] # NoRow => LastBar(t, c, d) = LastBar(u, c, d)
  <2> SUFFICES ASSUME NEW c \in Stock, t.daily_bars[c][d] # NoRow
               PROVE  LastBar(t, c, d) = LastBar(u, c, d)
    OBVIOUS
  <2>1. u.daily_bars[c][d] = t.daily_bars[c][d]
    BY <1>2
  <2>2. LastBar(t, c, d) = t.daily_bars[c][d]
    BY LastBarIsToday
  <2>3. LastBar(u, c, d) = u.daily_bars[c][d]
    BY <2>1, LastBarIsToday
  <2> QED
    BY <2>1, <2>2, <2>3
<1>5. \A c \in Stock : t.daily_bars[c][d] # NoRow => Score(t, c, d) = Score(u, c, d)
  BY <1>2, <1>4 DEF Score
<1>6. Buyable(t, d) = Buyable(u, d)
  BY <1>2, <1>5 DEF Buyable
<1>7. \A c \in Buyable(t, d) : c \in Stock /\ t.daily_bars[c][d] # NoRow
  BY DEF Buyable
<1>8. \A c \in Buyable(t, d) : Score(t, c, d) = Score(u, c, d)
  BY <1>5, <1>7
<1>9. Best(t, d) = Best(u, d)
  <2> DEFINE B == Buyable(t, d)
             P(c) == \A other \in B \ {c} :
                       \/ Score(t, c, d) > Score(t, other, d)
                       \/ Score(t, c, d) = Score(t, other, d) /\ BaseScore[c] >= BaseScore[other]
             Q(c) == \A other \in B \ {c} :
                       \/ Score(u, c, d) > Score(u, other, d)
                       \/ Score(u, c, d) = Score(u, other, d) /\ BaseScore[c] >= BaseScore[other]
  <2>1. \A c \in B : P(c) <=> Q(c)
    BY <1>8
  <2>2. Best(t, d) = (CHOOSE c \in B : P(c)) /\ Best(u, d) = (CHOOSE c \in B : Q(c))
    BY <1>6 DEF Best
  <2> HIDE DEF P, Q, B
  <2>3. (CHOOSE c \in B : P(c)) = (CHOOSE c \in B : Q(c))
    BY <2>1
  <2> QED
    BY <2>2, <2>3
<1> QED
  BY <1>2, <1>3, <1>4, <1>6, <1>7, <1>9 DEF IsTradingDate

-----------------------------------------------------------------------------
\* Tables whose bars are bars, and what a simulation knows of them.
GoodTables(t) ==
  \A c \in Stock, d \in Date : LET bar == t.daily_bars[c][d] IN bar # NoRow =>
    /\ bar.open \in Nat /\ bar.high \in Nat /\ bar.low \in Nat /\ bar.close \in Nat
    /\ bar.low <= bar.open /\ bar.open <= bar.high
    /\ bar.low <= bar.close /\ bar.close <= bar.high

Holdings == [code : Stock, buy : Date, price : Nat, held : Nat]
Trades == [code : Stock, buy : Date, price : Nat, sell : Date, held : Nat, sold : Int]
Reasons == {"limit_down_exit_risk", "market", "no_buy_candidate", "board_lot_not_affordable"}
States == [position : Holdings \union {NoPosition}, trades : SUBSET Trades,
           skipped : SUBSET (Date \X Reasons)]

\* A sale is made within the range of its day.
LEMMA SoldWithinRange ==
  ASSUME NEW t, GoodTables(t), NEW c \in Stock, NEW d \in Date, t.daily_bars[c][d] # NoRow,
         NEW buy \in Nat, NEW how
  PROVE  LET bar == t.daily_bars[c][d]
             sold == SellPrice(buy, bar, how)
         IN  /\ sold \in Int /\ 100 * bar.low <= sold /\ sold <= 100 * bar.high
             /\ bar.low \in Nat /\ bar.high \in Nat
<1> DEFINE bar == t.daily_bars[c][d]
<1>1. /\ bar.open \in Nat /\ bar.high \in Nat /\ bar.low \in Nat /\ bar.close \in Nat
      /\ bar.low <= bar.open /\ bar.open <= bar.high
      /\ bar.low <= bar.close /\ bar.close <= bar.high
  BY DEF GoodTables
<1> DEFINE profit == 103 * buy
           stop == 97 * buy
           open == 100 * bar.open
           hitProfit == 100 * bar.high >= profit
           hitStop == 100 * bar.low <= stop
           both == CASE how = "optimistic" -> profit
                     [] how = "close_based" -> 100 * bar.close
                     [] OTHER -> stop
<1>2. profit \in Int /\ stop \in Int /\ open \in Int
  BY <1>1
<1>3. 100 * bar.low <= open /\ open <= 100 * bar.high
      /\ 100 * bar.low <= 100 * bar.close /\ 100 * bar.close <= 100 * bar.high
  BY <1>1
<1>4. 100 * bar.low \in Int /\ 100 * bar.high \in Int /\ 100 * bar.close \in Int
  BY <1>1
<1>5. SellPrice(buy, bar, how) =
        IF open >= profit \/ open <= stop THEN open
        ELSE IF hitProfit /\ hitStop THEN both
        ELSE IF hitStop THEN stop
        ELSE IF hitProfit THEN profit
        ELSE 100 * bar.close
  BY DEF SellPrice
<1> DEFINE low == 100 * bar.low
           high == 100 * bar.high
           close == 100 * bar.close
           sold == SellPrice(buy, bar, how)
           Within(p) == p \in Int /\ low <= p /\ p <= high
<1>6. Within(open) /\ Within(close)
  BY <1>2, <1>3, <1>4
<1>7. ASSUME ~(open >= profit \/ open <= stop) PROVE (hitProfit => Within(profit)) /\ (hitStop => Within(stop))
  <2> HIDE DEF open, profit, stop, low, high
  <2> QED
    BY ONLY <1>2, <1>3, <1>4, <1>7 DEF low, high
<1>8. Within(sold)
  <2>1. both \in {profit, close, stop}
    OBVIOUS
  <2>2. open >= profit \/ open <= stop => sold = open
    BY <1>5
  <2>4. ~(open >= profit \/ open <= stop) /\ hitProfit /\ hitStop => sold = both
    BY <1>5
  <2>5. ~(open >= profit \/ open <= stop) /\ ~(hitProfit /\ hitStop) =>
          sold = IF hitStop THEN stop ELSE IF hitProfit THEN profit ELSE close
    BY <1>5
  <2> HIDE DEF Within, sold, both, open, profit, stop, hitProfit, hitStop, close
  <2> QED
    BY ONLY <1>6, <1>7, <2>1, <2>2, <2>4, <2>5
<1> QED
  BY <1>1, <1>8

\* A reason for not trading changes neither the position nor the trades.
LEMMA SkipOnly ==
  ASSUME NEW s \in States, NEW d \in Date, NEW why \in Reasons
  PROVE  /\ Skip(s, d, why) \in States
         /\ Skip(s, d, why).position = s.position /\ Skip(s, d, why).trades = s.trades
<1>1. <<d, why>> \in Date \X Reasons /\ s.skipped \subseteq Date \X Reasons
  BY DEF States
<1> DEFINE x == <<d, why>>
<1>2. Skip(s, d, why) = [s EXCEPT !.skipped = s.skipped \union {x}]
  BY DEF Skip
<1>3. s.skipped \union {x} \subseteq Date \X Reasons
  BY <1>1
<1> HIDE DEF x
<1> QED
  BY <1>2, <1>3 DEF States

\* What one day changes.
LEMMA ExitType ==
  ASSUME NEW t, GoodTables(t), NEW s \in States, NEW d \in Date, NEW how
  PROVE  AfterExit(t, s, d, how) \in States
<1> DEFINE p == s.position
           bar == t.daily_bars[p.code][d]
<1>1. CASE p = NoPosition \/ bar = NoRow
  BY <1>1 DEF AfterExit
<1>2. CASE p # NoPosition /\ bar # NoRow
  <2>1. p \in Holdings /\ p.code \in Stock /\ p.price \in Nat /\ p.buy \in Date /\ p.held \in Nat
        /\ p.held + 1 \in Nat
    BY <1>2 DEF States, Holdings
  <2>2. SellPrice(p.price, bar, how) \in Int
    BY <1>2, <2>1, SoldWithinRange
  <2>3. CASE bar.locked
    <3>1. AfterExit(t, s, d, how) = Skip([s EXCEPT !.position.held = @ + 1], d, "limit_down_exit_risk")
      BY <1>2, <2>3 DEF AfterExit
    <3>2. [s EXCEPT !.position.held = @ + 1] \in States
      BY <2>1 DEF States, Holdings
    <3> DEFINE waiting == [s EXCEPT !.position.held = @ + 1]
    <3>3. Skip(waiting, d, "limit_down_exit_risk") \in States
      <4> HIDE DEF waiting
      <4>1. waiting \in States
        BY <3>2 DEF waiting
      <4>2. "limit_down_exit_risk" \in Reasons
        BY DEF Reasons
      <4> QED
        BY <4>1, <4>2, SkipOnly
    <3> QED
      BY <3>1, <3>3
  <2>4. CASE ~bar.locked
    <3> DEFINE x == [code |-> p.code, buy |-> p.buy, price |-> p.price, sell |-> d,
                     held |-> p.held + 1, sold |-> SellPrice(p.price, bar, how)]
    <3>1. x \in Trades
      BY <2>1, <2>2 DEF Trades
    <3>2. AfterExit(t, s, d, how) = [s EXCEPT !.position = NoPosition, !.trades = @ \union {x}]
      BY <1>2, <2>4 DEF AfterExit
    <3> HIDE DEF x
    <3> QED
      BY <3>1, <3>2 DEF States
  <2> QED
    BY <2>3, <2>4
<1> QED
  BY <1>1, <1>2

\* With nothing held, a selection buys the best candidate or nothing.
LEMMA SelectionEffect ==
  ASSUME NEW t, GoodTables(t), NEW s \in States, NEW d \in Date, s.position = NoPosition
  PROVE  LET c == Best(t, d)
             after == AfterSelection(t, s, d)
             bought == /\ MarketPasses(t, d) /\ Buyable(t, d) # {}
                       /\ t.daily_bars[c][d].close <= Affordable
         IN  /\ after \in States /\ after.trades = s.trades
             /\ bought => after.position # NoPosition /\ after.position.code = c /\ after.position.buy = d
             /\ ~bought => after.position = NoPosition
<1> DEFINE c == Best(t, d)
           price == LastBar(t, c, d).close
<1>1. CASE ~MarketPasses(t, d) \/ Buyable(t, d) = {}
  <2>1. AfterSelection(t, s, d) \in {Skip(s, d, "market"), Skip(s, d, "no_buy_candidate")}
    BY <1>1 DEF AfterSelection
  <2>2. /\ AfterSelection(t, s, d) \in States /\ AfterSelection(t, s, d).trades = s.trades
        /\ AfterSelection(t, s, d).position = s.position
    <3>0. "market" \in Reasons /\ "no_buy_candidate" \in Reasons
      BY DEF Reasons
    <3>1. CASE AfterSelection(t, s, d) = Skip(s, d, "market")
      BY <3>0, <3>1, SkipOnly
    <3>2. CASE AfterSelection(t, s, d) = Skip(s, d, "no_buy_candidate")
      BY <3>0, <3>2, SkipOnly
    <3> QED
      BY <2>1, <3>1, <3>2
  <2> QED
    BY <1>1, <2>2
<1>2. CASE MarketPasses(t, d) /\ Buyable(t, d) # {}
  <2>1. c \in Stock /\ t.daily_bars[c][d] # NoRow
    BY <1>2, BestExists DEF Buyable
  <2>2. price = t.daily_bars[c][d].close /\ price \in Nat
    BY <2>1, LastBarIsToday DEF GoodTables
  <2>3. Affordable \in Nat
    BY EngineAssumption
  <2>4. CASE price > Affordable
    <3>1. AfterSelection(t, s, d) = Skip(s, d, "board_lot_not_affordable")
      BY <1>2, <2>4 DEF AfterSelection
    <3>2. /\ AfterSelection(t, s, d) \in States /\ AfterSelection(t, s, d).trades = s.trades
          /\ AfterSelection(t, s, d).position = s.position
      <4>1. "board_lot_not_affordable" \in Reasons
        BY DEF Reasons
      <4> QED
        BY <3>1, <4>1, SkipOnly
    <3> QED
      BY <2>2, <2>3, <2>4, <3>2
  <2>5. CASE ~(price > Affordable)
    <3> DEFINE p == [code |-> c, buy |-> d, price |-> price, held |-> 0]
    <3>1. p \in Holdings /\ p # NoPosition /\ p.code = c /\ p.buy = d
      <4>1. p \in Holdings /\ p \in [code : Stock, buy : 1..LastDate, price : Nat, held : Nat]
        BY <2>1, <2>2 DEF Holdings, Date
      <4> QED
        BY <4>1, EngineAssumption
    <3>2. AfterSelection(t, s, d) = [s EXCEPT !.position = p]
      BY <1>2, <2>5 DEF AfterSelection
    <3> HIDE DEF p
    <3>3. /\ AfterSelection(t, s, d) \in States /\ AfterSelection(t, s, d).trades = s.trades
          /\ AfterSelection(t, s, d).position = p
      BY <3>1, <3>2 DEF States
    <3> QED
      BY <1>2, <2>2, <2>3, <2>5, <3>1, <3>3
  <2> QED
    BY <2>4, <2>5
<1> QED
  BY <1>1, <1>2

-----------------------------------------------------------------------------
\* Every day leaves the simulation in a state of its type.
LEMMA SelectionType ==
  ASSUME NEW t, GoodTables(t), NEW s \in States, NEW d \in Date
  PROVE  AfterSelection(t, s, d) \in States
<1>1. CASE s.position = NoPosition
  BY <1>1, SelectionEffect
<1>2. CASE s.position # NoPosition
  BY <1>2 DEF AfterSelection
<1> QED
  BY <1>1, <1>2

\* So after every day.
LEMMA DaysAreStates ==
  ASSUME NEW t, GoodTables(t), NEW how
  PROVE  \A d \in 0..LastDate : Simulation(t, how)[d] \in States
<1> DEFINE f == Simulation(t, how)
           Bad == {d \in 0..LastDate : f[d] \notin States}
<1> SUFFICES ASSUME Bad # {} PROVE FALSE
  OBVIOUS
<1>0. LastDate \in Nat
  BY EngineAssumption
<1>1. PICK m \in Bad : m - 1 \notin Bad
  <2>1. Bad \in SUBSET Nat
    BY <1>0
  <2> HIDE DEF Bad
  <2> QED
    BY <2>1, SmallestNumber
<1>2. m \in 0..LastDate /\ f[m] \notin States /\ f[m] = DayOf(t, how, f, m)
  BY <1>1, SimulationRecurs
<1>3. CASE m = 0
  BY <1>2, <1>3 DEF DayOf, Start, States
<1>4. CASE m # 0
  <2>1. m \in Date /\ m - 1 \in 0..LastDate
    BY <1>0, <1>2, <1>4 DEF Date
  <2>2. f[m - 1] \in States
    BY <1>1, <2>1
  <2> HIDE DEF f
  <2>3. AfterSelection(t, AfterExit(t, f[m - 1], m, how), m) \in States
    BY <2>1, <2>2, ExitType, SelectionType
  <2> QED
    BY <1>2, <1>4, <2>2, <2>3 DEF DayOf
<1> QED
  BY <1>3, <1>4

\* One day, of tables that say the same until it.
LEMMA SameDay ==
  ASSUME NEW t, NEW u, NEW d \in Date, Agree(t, u, d), GoodTables(t), NEW s \in States, NEW how
  PROVE  AfterSelection(t, AfterExit(t, s, d, how), d) = AfterSelection(u, AfterExit(u, s, d, how), d)
<1>1. \A c \in Stock : t.daily_bars[c][d] = u.daily_bars[c][d]
  <2>1. d <= d
    BY EngineAssumption DEF Date
  <2> QED
    BY <2>1 DEF Agree
<1>2. AfterExit(t, s, d, how) = AfterExit(u, s, d, how)
  <2>1. CASE s.position = NoPosition
    BY <2>1 DEF AfterExit
  <2>2. CASE s.position # NoPosition
    <3>1. s.position.code \in Stock
      BY <2>2 DEF States, Holdings
    <3> QED
      BY <1>1, <3>1 DEF AfterExit
  <2> QED
    BY <2>1, <2>2
<1> DEFINE after == AfterExit(t, s, d, how)
<1>3. AfterSelection(t, after, d) = AfterSelection(u, after, d)
  <2> HIDE DEF after
  <2>1. Buyable(t, d) # {} => Best(t, d) \in Buyable(t, d)
    BY BestExists
  <2>2. Buyable(t, d) # {} => LastBar(t, Best(t, d), d) = LastBar(u, Best(u, d), d)
    BY <2>1, SameSelection
  <2> QED
    BY <2>2, SameSelection DEF AfterSelection
<1> QED
  BY <1>2, <1>3

\* And all days until then.
LEMMA SameUntil ==
  ASSUME NEW t, NEW u, NEW d \in Date, Agree(t, u, d), GoodTables(t), NEW how
  PROVE  Simulation(t, how)[d] = Simulation(u, how)[d]
<1> DEFINE f == Simulation(t, how)
           g == Simulation(u, how)
           Bad == {e \in 0..d : f[e] # g[e]}
<1>0. d \in Nat /\ LastDate \in Nat /\ d <= LastDate
  BY EngineAssumption DEF Date
<1> SUFFICES ASSUME Bad # {} PROVE FALSE
  BY <1>0
<1>1. PICK m \in Bad : m - 1 \notin Bad
  <2>1. Bad \in SUBSET Nat
    BY <1>0
  <2> HIDE DEF Bad
  <2> QED
    BY <2>1, SmallestNumber
<1>2. /\ m \in 0..d /\ m \in 0..LastDate /\ f[m] # g[m]
      /\ f[m] = DayOf(t, how, f, m) /\ g[m] = DayOf(u, how, g, m)
  BY <1>0, <1>1, SimulationRecurs
<1>3. CASE m = 0
  BY <1>2, <1>3 DEF DayOf
<1>4. CASE m # 0
  <2>1. m \in Date /\ m - 1 \in 0..LastDate /\ m - 1 \in 0..d /\ m <= d
    BY <1>0, <1>2, <1>4 DEF Date
  <2>2. f[m - 1] = g[m - 1] /\ f[m - 1] \in States
    BY <1>1, <2>1, DaysAreStates
  <2>3. Agree(t, u, m)
    BY <1>0, <2>1 DEF Agree, Date
  <2> HIDE DEF f, g
  <2>4. AfterSelection(t, AfterExit(t, f[m - 1], m, how), m) = AfterSelection(u, AfterExit(u, f[m - 1], m, how), m)
    BY <2>1, <2>2, <2>3, SameDay
  <2>5. IsTradingDate(t, m) <=> IsTradingDate(u, m)
    BY <2>1, <2>3, SameSelection
  <2> QED
    BY <1>2, <1>4, <2>2, <2>4, <2>5 DEF DayOf
<1> QED
  BY <1>3, <1>4

-----------------------------------------------------------------------------
\* Days that have a last one.
LEMMA LastOfDays ==
  ASSUME NEW S \in SUBSET Date, S # {}
  PROVE  Max(S) \in S
<1> DEFINE Bounds == {n \in Nat : \A x \in S : x <= n}
<1>0. LastDate \in Nat /\ S \subseteq Nat /\ \A x \in S : x <= LastDate /\ x > 0
  BY EngineAssumption DEF Date
<1>1. PICK m \in Bounds : m - 1 \notin Bounds
  <2>1. Bounds \in SUBSET Nat /\ LastDate \in Bounds
    BY <1>0
  <2> HIDE DEF Bounds
  <2> QED
    BY <2>1, SmallestNumber
<1>2. m \in Nat /\ \A x \in S : x <= m
  BY <1>1
<1>3. PICK x \in S : ~(x <= m - 1)
  <2>1. m # 0
    <3>1. PICK z \in S : TRUE
      OBVIOUS
    <3>2. z \in Nat /\ z > 0 /\ z <= m
      BY <1>0, <1>2, <3>1
    <3> QED
      BY <1>2, <3>2
  <2>2. m - 1 \in Nat
    BY <1>2, <2>1
  <2> QED
    BY <1>1, <2>2
<1>4. x = m
  BY <1>0, <1>2, <1>3
<1>5. \E z \in S : \A y \in S : z >= y
  BY <1>0, <1>2, <1>4
<1> QED
  BY <1>5 DEF Max

\* What a preparation makes of a day it makes of the days until then.
LEMMA PreparedAgree ==
  ASSUME NEW h, NEW codes, NEW d \in Date
  PROVE  Agree(Prepared(Part(h, codes, LastDate)), Prepared(Part(h, codes, d)), d)
<1> DEFINE A == Part(h, codes, LastDate)
           B == Part(h, codes, d)
<1>0. d \in Nat /\ LastDate \in Nat /\ \A e \in Date : e \in Nat /\ e <= LastDate
  BY EngineAssumption DEF Date
<1>1. \A c \in Stock, e \in Date : e <= d => A.bars[c][e] = B.bars[c][e]
  BY <1>0 DEF Part
<1>2. \A e \in Date : e <= d => A.benchmark[e] = B.benchmark[e]
  BY <1>0 DEF Part
<1> HIDE DEF A, B
<1>3. ASSUME NEW c \in Stock, NEW e \in Date, e <= d
      PROVE  /\ DailyRow(A.bars, c, e) = DailyRow(B.bars, c, e)
             /\ SelectionRow(A.bars, c, e) = SelectionRow(B.bars, c, e)
  <2> DEFINE known == RowsUntil(A.bars, c, e)
             earlier == known \ {e}
  <2>1. known = RowsUntil(B.bars, c, e) /\ known \subseteq Date /\ \A x \in known : x <= d
    <3>1. \A x \in Date : x <= e => x <= d
      BY <1>0, <1>3
    <3>2. \A x \in Date : x <= e => A.bars[c][x] = B.bars[c][x]
      BY <1>1, <3>1
    <3>3. known = RowsUntil(B.bars, c, e)
      BY <3>2 DEF RowsUntil
    <3>4. known \subseteq Date /\ \A x \in known : x <= e
      BY DEF RowsUntil
    <3> QED
      BY <3>1, <3>3, <3>4
  <2>2. \A x \in known : A.bars[c][x] = B.bars[c][x]
    BY <1>1, <2>1
  <2>3. earlier # {} => A.bars[c][Max(earlier)] = B.bars[c][Max(earlier)]
    <3> HIDE DEF known
    <3> QED
      BY <2>1, <2>2, LastOfDays
  <2>4. SumOfCloses(A.bars, c, known) = SumOfCloses(B.bars, c, known)
    <3>1. [x \in known |-> A.bars[c][x].close] = [x \in known |-> B.bars[c][x].close]
      <4> HIDE DEF known
      <4> QED
        BY <2>2
    <3> HIDE DEF known
    <3> QED
      BY <3>1 DEF SumOfCloses
  <2>5. A.bars[c][e] = B.bars[c][e]
    BY <1>1, <1>3
  <2>6. VolRatio(A.bars, c, e) = VolRatio(B.bars, c, e)
    <3>1. [x \in earlier |-> A.bars[c][x].volume] = [x \in earlier |-> B.bars[c][x].volume]
      <4> HIDE DEF known
      <4> QED
        BY <2>2
    <3>2. SumOfVolumes(A.bars, c, earlier) = SumOfVolumes(B.bars, c, earlier)
      <4> HIDE DEF earlier
      <4> QED
        BY <3>1 DEF SumOfVolumes
    <3>3. RatioTo(A.bars, c, e, earlier) = RatioTo(B.bars, c, e, earlier)
      <4> HIDE DEF earlier
      <4> QED
        BY <2>5, <3>2 DEF RatioTo
    <3>4. earlier = RowsUntil(A.bars, c, e) \ {e} /\ earlier = RowsUntil(B.bars, c, e) \ {e}
      BY <2>1
    <3> HIDE DEF earlier
    <3> QED
      BY <3>3, <3>4 DEF VolRatio
  <2>7. SelectionRow(A.bars, c, e) = SelectionRow(B.bars, c, e)
    BY <2>5, <2>6 DEF SelectionRow
  <2> HIDE DEF known
  <2>8. DailyRow(A.bars, c, e) =
          IF A.bars[c][e] = NoRow THEN NoRow
          ELSE [prior |-> IF earlier = {} THEN 0 ELSE A.bars[c][Max(earlier)].close,
                mean |-> SumOfCloses(A.bars, c, known) \div Cardinality(known),
                open |-> A.bars[c][e].open, high |-> A.bars[c][e].high,
                low |-> A.bars[c][e].low, close |-> A.bars[c][e].close,
                locked |-> A.bars[c][e].locked, suspended |-> A.bars[c][e].suspended,
                fit |-> A.bars[c][e].fit]
    BY DEF DailyRow, known
  <2>9. DailyRow(B.bars, c, e) =
          IF B.bars[c][e] = NoRow THEN NoRow
          ELSE [prior |-> IF earlier = {} THEN 0 ELSE B.bars[c][Max(earlier)].close,
                mean |-> SumOfCloses(B.bars, c, known) \div Cardinality(known),
                open |-> B.bars[c][e].open, high |-> B.bars[c][e].high,
                low |-> B.bars[c][e].low, close |-> B.bars[c][e].close,
                locked |-> B.bars[c][e].locked, suspended |-> B.bars[c][e].suspended,
                fit |-> B.bars[c][e].fit]
    BY <2>1 DEF DailyRow
  <2> HIDE DEF earlier
  <2> QED
    BY ONLY <2>3, <2>4, <2>5, <2>7, <2>8, <2>9
<1>4. ASSUME NEW c \in Stock, NEW e \in Date, e <= d
      PROVE  /\ Prepared(A).daily_bars[c][e] = Prepared(B).daily_bars[c][e]
             /\ Prepared(A).selection_snapshots[c][e] = Prepared(B).selection_snapshots[c][e]
             /\ Prepared(A).market_snapshots[e] = Prepared(B).market_snapshots[e]
             /\ Prepared(A).benchmark_bars[e] = Prepared(B).benchmark_bars[e]
  <2>1. Prepared(A).daily_bars[c][e] = Prepared(B).daily_bars[c][e]
    BY <1>3, <1>4 DEF Prepared
  <2>2. Prepared(A).selection_snapshots[c][e] = Prepared(B).selection_snapshots[c][e]
    BY <1>3, <1>4 DEF Prepared
  <2>3. Prepared(A).market_snapshots[e] = Prepared(B).market_snapshots[e]
    BY <1>2, <1>4 DEF Prepared
  <2>4. Prepared(A).benchmark_bars[e] = Prepared(B).benchmark_bars[e]
    BY <1>2, <1>4 DEF Prepared
  <2> QED
    BY <2>1, <2>2, <2>3, <2>4
<1> QED
  BY <1>4 DEF Agree, A, B

\* The prepared bars of a history of bars are bars.
LEMMA PreparedGood ==
  ASSUME NEW s \in Scenario, NEW codes, NEW d \in Date
  PROVE  GoodTables(Prepared(Part(s.history, codes, d)))
<1> DEFINE h == Part(s.history, codes, d)
           t == Prepared(h)
<1> SUFFICES ASSUME NEW c \in Stock, NEW e \in Date, t.daily_bars[c][e] # NoRow
             PROVE  LET bar == t.daily_bars[c][e] IN
                    /\ bar.open \in Nat /\ bar.high \in Nat /\ bar.low \in Nat /\ bar.close \in Nat
                    /\ bar.low <= bar.open /\ bar.open <= bar.high
                    /\ bar.low <= bar.close /\ bar.close <= bar.high
  BY DEF GoodTables
<1> DEFINE bar == h.bars[c][e]
<1>1. t.daily_bars[c][e] = DailyRow(h.bars, c, e)
  BY DEF Prepared
<1> HIDE DEF t
<1>2. bar # NoRow
  BY <1>1 DEF DailyRow
<1>3. bar = s.history.bars[c][e]
  BY <1>2 DEF Part
<1>4. IsBar(bar)
  BY <1>2, <1>3, HistoryAssumption
<1>5. LET row == DailyRow(h.bars, c, e) IN
        row.open = bar.open /\ row.high = bar.high /\ row.low = bar.low /\ row.close = bar.close
  BY <1>2 DEF DailyRow
<1> QED
  BY <1>1, <1>4, <1>5 DEF IsBar

-----------------------------------------------------------------------------
\* The run that is being reported is of one preparation's tables.
RunIsOf(n) ==
  /\ \A f \in TableName : report.tables[f] = Whole(n)
  /\ report.run = Simulation(made[n][LastDate], scenario.assumption)

RunInv == Ran => \E n \in 1..Len(made) : RunIsOf(n)

\* A run stays that of its preparation when others are made.
LEMMA RunFrame ==
  ASSUME WriterInv, RunInv, UNCHANGED <<scenario, reader, report>>, made' \in Seq(Datasets),
         Len(made') >= Len(made), \A n \in 1..Len(made) : made'[n] = made[n]
  PROVE  RunInv'
<1> SUFFICES ASSUME Ran' PROVE \E n \in 1..Len(made') : RunIsOf(n)'
  BY DEF RunInv
<1>1. Ran
  BY DEF Ran
<1>2. PICK n \in 1..Len(made) : RunIsOf(n)
  BY <1>1 DEF RunInv
<1>3. n \in 1..Len(made')
  BY DEF WriterInv
<1>4. RunIsOf(n)'
  BY <1>2 DEF RunIsOf, Whole
<1> QED
  BY <1>3, <1>4

\* Every step keeps it.
LEMMA RunStep ==
  ASSUME WriterInv, RunInv, [BacktestNext]_backtestVars
  PROVE  RunInv'
<1>0. made \in Seq(Datasets) /\ Len(made) \in Nat
  BY DEF WriterInv
<1>1. ASSUME UNCHANGED <<scenario, made, reader, report>> PROVE RunInv'
  BY <1>0, <1>1, RunFrame
<1> USE DEF preparing, reading
<1>2. ASSUME NEW p \in Preparer, Load(p) PROVE RunInv'
  <2>1. PICK codes \in (SUBSET Stock) \ {{}} : made' = Append(made, Makes(codes))
    BY <1>2 DEF Load
  <2>2. Makes(codes) \in Datasets
    BY DEF Datasets
  <2>3. /\ made' \in Seq(Datasets) /\ Len(made') >= Len(made)
        /\ \A n \in 1..Len(made) : made'[n] = made[n]
    BY <1>0, <2>1, <2>2
  <2>4. UNCHANGED <<scenario, reader, report>>
    BY <1>2 DEF Load
  <2> QED
    BY <2>3, <2>4, RunFrame
<1>3. ASSUME NEW p \in Preparer,
             Request(p) \/ LoadFails(p) \/ Open(p) \/ Fill(p) \/ ValidateLoadable(p) \/ PreparerDies(p)
      PROVE  RunInv'
  BY <1>1, <1>3 DEF Request, LoadFails, Open, Fill, ValidateLoadable, PreparerDies
<1>4. CASE Simulate
  <2>1. CASE ~LoadedOne
    <3>1. report' = [tables |-> loaded, manifest |-> None, run |-> None]
      BY <1>4, <2>1 DEF Simulate
    <3> QED
      BY <3>1 DEF RunInv, Ran
  <2>2. CASE LoadedOne
    <3>1. PICK m \in 1..Len(made) :
            OneDataset(m) /\ m = CHOOSE k \in 1..Len(made) : OneDataset(k)
      BY <2>2 DEF LoadedOne
    <3>2. /\ UNCHANGED <<scenario, made>>
          /\ report' = [tables |-> loaded, manifest |-> None,
                        run |-> Simulation(made[m][LastDate], scenario.assumption)]
      BY <1>4, <2>2, <3>1 DEF Simulate
    <3>3. RunIsOf(m)'
      BY <3>1, <3>2 DEF RunIsOf, OneDataset, Whole
    <3> QED
      BY <3>1, <3>2, <3>3 DEF RunInv
  <2> QED
    BY <2>1, <2>2
<1>5. CASE Starts \/ ReportManifest \/ EndBacktest \/ (\E f \in TableName : ReadTable(f) \/ ReadFails(f))
  <2>1. reader' # "report"
    BY <1>5, FilesAre, AfterIs DEF Starts, ReportManifest, EndBacktest, ReadTable, ReadFails
  <2> QED
    BY <2>1 DEF RunInv, Ran
<1>6. CASE UNCHANGED backtestVars
  BY <1>1, <1>6 DEF backtestVars
<1> QED
  BY <1>2, <1>3, <1>4, <1>5, <1>6 DEF BacktestNext

(* What is run is what one preparation made of the history.                *)
LEMMA RunKnown == BacktestSpec => [](WriterInv /\ RunInv /\ scenario \in Scenario)
<1>1. BacktestInit => RunInv
  BY DEF BacktestInit, RunInv, Ran
<1>2. WriterInv /\ RunInv /\ [BacktestNext]_backtestVars => RunInv'
  BY RunStep
<1>3. BacktestTypeOK => scenario \in Scenario
  BY DEF BacktestTypeOK
<1> QED
  BY <1>1, <1>2, <1>3, BacktestInvariance, PTL DEF BacktestSpec

\* The run and the tables it was of.
LEMMA RunMeans ==
  ASSUME WriterInv, RunInv, scenario \in Scenario, Ran
  PROVE  \E codes : /\ \A d \in Date : made[RunOf][d] = Prepared(Part(scenario.history, codes, d))
                    /\ report.run = Simulation(made[RunOf][LastDate], scenario.assumption)
<1>1. PICK n \in 1..Len(made) : RunIsOf(n)
  BY DEF RunInv
<1>2. RunOf = n
  <2>1. \E f \in TableName : TRUE
    BY FilesAre
  <2>2. \A m \in 1..Len(made) : RunIsOf(m) => m = n
    BY <1>1, <2>1 DEF RunIsOf, Whole
  <2>3. ASSUME NEW m \in 1..Len(made), \A f \in TableName : report.tables[f] = Whole(m) PROVE m = n
    BY <1>1, <2>1, <2>3 DEF RunIsOf, Whole
  <2> QED
    BY <1>1, <2>3 DEF RunOf, RunIsOf
<1>3. made[n] \in Datasets
  BY <1>1 DEF WriterInv
<1>4. PICK codes \in (SUBSET Stock) \ {{}} : made[n] = Makes(codes)
  BY <1>3 DEF Datasets
<1>5. \A d \in Date : made[n][d] = Prepared(Part(scenario.history, codes, d))
  BY <1>4 DEF Makes
<1> QED
  BY <1>1, <1>2, <1>5 DEF RunIsOf

(* No day of a backtest depends on a later one: bars_until, the market     *)
(* view, the score and the indicators prepare_dataset derives see a day    *)
(* as they would if the history ended with it.                             *)
THEOREM NoLookAhead == BacktestSpec => []NothingFromTheFuture
<1>1. WriterInv /\ RunInv /\ scenario \in Scenario => NothingFromTheFuture
  <2> SUFFICES ASSUME WriterInv, RunInv, scenario \in Scenario, Ran, NEW d \in Date
               PROVE  report.run[d] = Simulation(made[RunOf][d], scenario.assumption)[d]
    BY DEF NothingFromTheFuture
  <2>1. PICK codes :
          /\ \A e \in Date : made[RunOf][e] = Prepared(Part(scenario.history, codes, e))
          /\ report.run = Simulation(made[RunOf][LastDate], scenario.assumption)
    BY RunMeans
  <2>2. LastDate \in Date
    BY EngineAssumption DEF Date
  <2> DEFINE t == Prepared(Part(scenario.history, codes, LastDate))
             u == Prepared(Part(scenario.history, codes, d))
  <2>3. Agree(t, u, d) /\ GoodTables(t)
    BY <2>2, PreparedAgree, PreparedGood
  <2>4. made[RunOf][LastDate] = t /\ made[RunOf][d] = u
    BY <2>1, <2>2
  <2> HIDE DEF t, u
  <2>5. Simulation(t, scenario.assumption)[d] = Simulation(u, scenario.assumption)[d]
    BY <2>3, SameUntil
  <2> QED
    BY <2>1, <2>4, <2>5
<1> QED
  BY <1>1, RunKnown, PTL
-----------------------------------------------------------------------------
(* What a run knows after a day is true of the tables until then.          *)
Sellable(t, c, e) == t.daily_bars[c][e] # NoRow /\ ~t.daily_bars[c][e].locked

BuysAt(t, e) == /\ MarketPasses(t, e) /\ Buyable(t, e) # {}
                /\ t.daily_bars[Best(t, e)][e].close <= Affordable

HeldAt(s, e) == \/ \E x \in s.trades : x.buy < e /\ e < x.sell
                \/ s.position # NoPosition /\ s.position.buy < e

BoughtAt(t, s, e) ==
  \/ \E x \in s.trades : x.buy = e /\ x.code = Best(t, e)
  \/ s.position # NoPosition /\ s.position.buy = e /\ s.position.code = Best(t, e)

RealTrade(t, x) ==
  LET bar == t.daily_bars[x.code][x.sell] IN
  /\ x.buy < x.sell /\ Sellable(t, x.code, x.sell)
  /\ \A e \in x.buy + 1 .. x.sell - 1 : ~Sellable(t, x.code, e)
  /\ 100 * bar.low <= x.sold /\ x.sold <= 100 * bar.high

\* Up to a day: what was sold was sold by then, what is held could not be.
Sold(t, s, d) == \A x \in s.trades : RealTrade(t, x) /\ x.sell <= d
HeldSince(t, s, d) == s.position # NoPosition =>
  s.position.buy <= d /\ \A e \in s.position.buy + 1 .. d : ~Sellable(t, s.position.code, e)
Decided(t, s, d) == \A e \in 1..d : BuysAt(t, e) /\ ~HeldAt(s, e) <=> BoughtAt(t, s, e)

Real(t, s, d) == Sold(t, s, d) /\ HeldSince(t, s, d) /\ Decided(t, s, d)

\* After the exits of a day, before its selection.
Exited(t, s, d) ==
  /\ Sold(t, s, d) /\ Decided(t, s, d - 1)
  /\ HeldSince(t, s, d) /\ (s.position # NoPosition => s.position.buy < d)

\* The exits of a day: a sale is real, and what is not sold could not be.
LEMMA ExitReal ==
  ASSUME NEW t, GoodTables(t), NEW s \in States, NEW d \in Date, NEW how, Real(t, s, d - 1)
  PROVE  Exited(t, AfterExit(t, s, d, how), d)
<1> DEFINE p == s.position
           bar == t.daily_bars[p.code][d]
           after == AfterExit(t, s, d, how)
<1>0. d \in Nat /\ d >= 1 /\ d - 1 \in Nat
  BY EngineAssumption DEF Date
<1>1. \A x \in s.trades : x \in Trades /\ x.buy \in Int /\ x.sell \in Int
  BY EngineAssumption DEF States, Trades, Date
<1>2. Sold(t, s, d)
  BY <1>0, <1>1 DEF Real, Sold
<1>3. p # NoPosition => /\ p \in Holdings /\ p.code \in Stock /\ p.buy \in Nat /\ p.buy \in Date
                        /\ p.price \in Nat /\ p.held \in Nat /\ p.buy < d
                        /\ \A e \in p.buy + 1 .. d - 1 : ~Sellable(t, p.code, e)
  <2>1. p # NoPosition => p \in Holdings
    BY DEF States
  <2>2. p # NoPosition => p.buy <= d - 1 /\ \A e \in p.buy + 1 .. d - 1 : ~Sellable(t, p.code, e)
    BY DEF Real, HeldSince
  <2>3. Date \subseteq Nat
    BY EngineAssumption DEF Date
  <2> HIDE DEF p
  <2> QED
    BY <1>0, <2>1, <2>2, <2>3 DEF Holdings
\* Where nothing is sold, what is held is not sellable.
<1>4. ASSUME after.trades = s.trades, after.position = NoPosition <=> p = NoPosition,
             p # NoPosition => /\ after.position.buy = p.buy /\ after.position.code = p.code
                               /\ ~Sellable(t, p.code, d)
      PROVE  Exited(t, after, d)
  <2> HIDE DEF after, p
  <2>1. Sold(t, after, d)
    BY <1>2, <1>4 DEF Sold
  <2>2. Decided(t, after, d - 1)
    <3>1. Decided(t, s, d - 1)
      BY DEF Real
    <3>2. \A e \in 1..(d - 1) : /\ HeldAt(after, e) <=> HeldAt(s, e)
                                /\ BoughtAt(t, after, e) <=> BoughtAt(t, s, e)
      BY <1>4 DEF HeldAt, BoughtAt, p
    <3> QED
      BY <3>1, <3>2 DEF Decided
  <2>3. after.position # NoPosition => after.position.buy < d
    BY <1>3, <1>4
  <2>4. ASSUME after.position # NoPosition, NEW e \in after.position.buy + 1 .. d
        PROVE  ~Sellable(t, after.position.code, e)
    <3>1. e \in p.buy + 1 .. d - 1 \/ e = d
      BY <1>0, <1>3, <1>4, <2>4
    <3> QED
      BY <1>3, <1>4, <2>4, <3>1
  <2>5. HeldSince(t, after, d)
    BY <1>0, <1>3, <1>4, <2>3, <2>4 DEF HeldSince
  <2> QED
    BY <2>1, <2>2, <2>3, <2>5 DEF Exited
<1>5. CASE p = NoPosition \/ bar = NoRow
  <2>1. after = s
    BY <1>5 DEF AfterExit
  <2>2. p # NoPosition => ~Sellable(t, p.code, d)
    BY <1>5 DEF Sellable
  <2> QED
    BY ONLY <1>4, <2>1, <2>2
<1>6. CASE p # NoPosition /\ bar # NoRow /\ bar.locked
  <2> DEFINE waiting == [s EXCEPT !.position.held = @ + 1]
  <2>1. after = Skip(waiting, d, "limit_down_exit_risk")
    BY <1>6 DEF AfterExit
  <2>2. waiting \in States /\ waiting.trades = s.trades /\ waiting.position # NoPosition
        /\ waiting.position.buy = p.buy /\ waiting.position.code = p.code
    <3>1. waiting.position = [p EXCEPT !.held = @ + 1] /\ waiting.trades = s.trades
          /\ waiting.skipped = s.skipped
          /\ waiting = [position |-> waiting.position, trades |-> s.trades, skipped |-> s.skipped]
      BY DEF States
    <3>2. [p EXCEPT !.held = @ + 1] \in Holdings
      BY <1>3, <1>6 DEF Holdings
    <3>3. [p EXCEPT !.held = @ + 1].buy = p.buy /\ [p EXCEPT !.held = @ + 1].code = p.code
      BY <1>3, <1>6 DEF Holdings
    <3>4. NoPosition \notin Holdings
      BY EngineAssumption DEF Holdings, Date
    <3> QED
      BY <3>1, <3>2, <3>3, <3>4 DEF States
  <2>3. after.trades = waiting.trades /\ after.position = waiting.position
    <3> HIDE DEF waiting, after
    <3>1. "limit_down_exit_risk" \in Reasons
      BY DEF Reasons
    <3> QED
      BY <2>1, <2>2, <3>1, SkipOnly
  <2>4. ~Sellable(t, p.code, d)
    BY <1>6 DEF Sellable
  <2>5. /\ after.trades = s.trades /\ (after.position = NoPosition <=> p = NoPosition)
        /\ after.position.buy = p.buy /\ after.position.code = p.code
    <3> HIDE DEF after, waiting, p
    <3> QED
      BY <1>6, <2>2, <2>3
  <2> QED
    BY ONLY <1>4, <2>4, <2>5
<1>7. CASE p # NoPosition /\ bar # NoRow /\ ~bar.locked
  <2> DEFINE sold == SellPrice(p.price, bar, how)
             x == [code |-> p.code, buy |-> p.buy, price |-> p.price, sell |-> d,
                   held |-> p.held + 1, sold |-> sold]
  <2>1. after = [s EXCEPT !.position = NoPosition, !.trades = @ \union {x}]
    BY <1>7 DEF AfterExit
  <2>2. after.position = NoPosition /\ after.trades = s.trades \union {x}
    <3> HIDE DEF x, after
    <3> QED
      BY <2>1 DEF States
  <2>3. 100 * bar.low <= sold /\ sold <= 100 * bar.high
    BY <1>3, <1>7, SoldWithinRange
  <2>4. x.code = p.code /\ x.buy = p.buy /\ x.sell = d /\ x.sold = sold
    OBVIOUS
  <2>5. Sellable(t, p.code, d)
    BY <1>7 DEF Sellable
  <2> HIDE DEF x, sold
  <2>6. RealTrade(t, x)
    BY <1>3, <1>7, <2>3, <2>4, <2>5 DEF RealTrade
  <2> HIDE DEF after
  <2>7. Sold(t, after, d)
    BY <1>0, <1>2, <2>2, <2>4, <2>6 DEF Sold
  <2>8. Decided(t, after, d - 1)
    <3>1. Decided(t, s, d - 1)
      BY DEF Real
    <3>2. ASSUME NEW e \in 1..(d - 1)
          PROVE  /\ HeldAt(after, e) <=> HeldAt(s, e)
                 /\ BoughtAt(t, after, e) <=> BoughtAt(t, s, e)
      <4>1. e < d
        BY <1>0
      <4> QED
        BY <1>7, <2>2, <2>4, <4>1 DEF HeldAt, BoughtAt
    <3> QED
      BY <3>1, <3>2 DEF Decided
  <2>9. Exited(t, after, d)
    BY <2>2, <2>7, <2>8 DEF Exited, HeldSince
  <2> QED
    BY <2>9 DEF after
<1> QED
  BY <1>5, <1>6, <1>7

\* The selection of a day: it buys where nothing is held, and only then.
LEMMA SelectionReal ==
  ASSUME NEW t, GoodTables(t), NEW s \in States, NEW d \in Date, Exited(t, s, d)
  PROVE  Real(t, AfterSelection(t, s, d), d)
<1> DEFINE after == AfterSelection(t, s, d)
<1>0. d \in Nat /\ d >= 1 /\ d - 1 \in Nat /\ \A e \in 1..d : e \in 1..(d - 1) \/ e = d
  BY EngineAssumption DEF Date
<1>1. \A x \in s.trades : x.buy \in Int /\ x.sell \in Int /\ x.buy < x.sell /\ x.sell <= d
  BY EngineAssumption DEF States, Trades, Date, Exited, Sold, RealTrade
<1>2. \A x \in s.trades : ~(d < x.sell) /\ x.buy # d
  BY <1>0, <1>1
<1>3. CASE s.position # NoPosition
  <2>1. after = s
    BY <1>3 DEF AfterSelection
  <2>2. HeldAt(s, d) /\ ~BoughtAt(t, s, d)
    <3>1. s.position.buy < d /\ s.position.buy \in Int
      BY <1>3, EngineAssumption DEF Exited, States, Holdings, Date
    <3> QED
      BY <1>0, <1>2, <1>3, <3>1 DEF HeldAt, BoughtAt
  <2>3. Decided(t, s, d)
    BY <1>0, <2>2 DEF Exited, Decided
  <2> QED
    BY ONLY Exited(t, s, d), <2>1, <2>3 DEF Exited, Real
<1>4. CASE s.position = NoPosition
  <2> DEFINE c == Best(t, d)
  <2>1. /\ after \in States /\ after.trades = s.trades
        /\ BuysAt(t, d) => after.position # NoPosition /\ after.position.code = c /\ after.position.buy = d
        /\ ~BuysAt(t, d) => after.position = NoPosition
    BY <1>4, SelectionEffect DEF BuysAt
  <2> HIDE DEF after
  <2>2. Sold(t, after, d)
    BY <2>1 DEF Exited, Sold
  <2>3. HeldSince(t, after, d)
    <3>1. d <= d /\ d + 1 .. d = {}
      BY <1>0
    <3> QED
      BY <2>1, <3>1 DEF HeldSince
  <2>4. Decided(t, after, d)
    <3>1. ~HeldAt(after, d)
      BY <1>0, <1>2, <2>1 DEF HeldAt
    <3>2. BoughtAt(t, after, d) <=> BuysAt(t, d)
      BY <1>2, <2>1 DEF BoughtAt
    <3>3. ASSUME NEW e \in 1..(d - 1)
          PROVE  /\ HeldAt(after, e) <=> HeldAt(s, e)
                 /\ BoughtAt(t, after, e) <=> BoughtAt(t, s, e)
      <4>1. e # d /\ ~(d < e)
        BY <1>0
      <4> QED
        BY <1>4, <2>1, <4>1 DEF HeldAt, BoughtAt
    <3>4. Decided(t, s, d - 1)
      BY DEF Exited
    <3> QED
      BY <1>0, <3>1, <3>2, <3>3, <3>4 DEF Decided
  <2>5. Real(t, after, d)
    BY <2>2, <2>3, <2>4 DEF Real
  <2> QED
    BY <2>5 DEF after
<1> QED
  BY <1>3, <1>4

\* A day of which no stock has a bar.
LEMMA ClosedReal ==
  ASSUME NEW t, NEW s \in States, NEW d \in Date, ~IsTradingDate(t, d), Real(t, s, d - 1)
  PROVE  Real(t, s, d)
<1>0. /\ d \in Nat /\ d >= 1 /\ d - 1 \in Nat
      /\ \A e \in 1..d : e \in 1..(d - 1) \/ e = d
  BY EngineAssumption DEF Date
<1>1. \A x \in s.trades : x.buy \in Int /\ x.sell \in Int /\ x.buy < x.sell /\ x.sell <= d - 1
  BY EngineAssumption DEF States, Trades, Date, Real, Sold, RealTrade
<1>2. s.position # NoPosition => s.position.code \in Stock /\ s.position.buy \in Int /\ s.position.buy <= d - 1
  BY EngineAssumption DEF States, Holdings, Date, Real, HeldSince
<1>3. Buyable(t, d) = {} /\ \A c \in Stock : ~Sellable(t, c, d)
  BY DEF IsTradingDate, Buyable, Sellable
<1>4. Sold(t, s, d)
  BY <1>0, <1>1 DEF Real, Sold
<1>5. HeldSince(t, s, d)
  <2> SUFFICES ASSUME s.position # NoPosition
               PROVE  s.position.buy <= d /\ \A e \in s.position.buy + 1 .. d : ~Sellable(t, s.position.code, e)
    BY DEF HeldSince
  <2>1. \A e \in s.position.buy + 1 .. d : e \in s.position.buy + 1 .. d - 1 \/ e = d
    BY <1>0, <1>2
  <2> QED
    BY <1>0, <1>2, <1>3, <2>1 DEF Real, HeldSince
<1>6. Decided(t, s, d)
  <2>1. ~BuysAt(t, d)
    BY <1>3 DEF BuysAt
  <2>2. ~BoughtAt(t, s, d)
    BY <1>0, <1>1, <1>2 DEF BoughtAt
  <2> QED
    BY <1>0, <2>1, <2>2 DEF Real, Decided
<1> QED
  BY <1>4, <1>5, <1>6 DEF Real

\* By the first day of which it would not be so.
LEMMA DaysAreReal ==
  ASSUME NEW t, GoodTables(t), NEW how
  PROVE  \A d \in 0..LastDate : Real(t, Simulation(t, how)[d], d)
<1> DEFINE f == Simulation(t, how)
           Bad == {d \in 0..LastDate : ~Real(t, f[d], d)}
<1> SUFFICES ASSUME Bad # {} PROVE FALSE
  OBVIOUS
<1>0. LastDate \in Nat
  BY EngineAssumption
<1>1. PICK m \in Bad : m - 1 \notin Bad
  <2>1. Bad \in SUBSET Nat
    BY <1>0
  <2> HIDE DEF Bad
  <2> QED
    BY <2>1, SmallestNumber
<1>2. m \in 0..LastDate /\ ~Real(t, f[m], m) /\ f[m] = DayOf(t, how, f, m)
  BY <1>1, SimulationRecurs
<1>3. CASE m = 0
  <2>1. f[m] = Start /\ 1..m = {}
    BY <1>2, <1>3 DEF DayOf
  <2>2. Real(t, Start, m)
    BY <2>1 DEF Start, Real, Sold, HeldSince, Decided
  <2> QED
    BY <1>2, <2>1, <2>2
<1>4. CASE m # 0
  <2>1. m \in Date /\ m - 1 \in 0..LastDate
    BY <1>0, <1>2, <1>4 DEF Date
  <2>2. f[m - 1] \in States /\ Real(t, f[m - 1], m - 1)
    BY <1>1, <2>1, DaysAreStates
  <2> HIDE DEF f
  <2>3. Real(t, AfterSelection(t, AfterExit(t, f[m - 1], m, how), m), m)
    BY <2>1, <2>2, ExitType, ExitReal, SelectionReal
  <2>4. ~IsTradingDate(t, m) => Real(t, f[m - 1], m)
    BY <2>1, <2>2, ClosedReal
  <2> QED
    BY <1>2, <1>4, <2>3, <2>4 DEF DayOf
<1> QED
  BY <1>3, <1>4

(* The trades of BacktestEngine.run are those that could have been made,   *)
(* at prices of their day under every intraday assumption, and none is     *)
(* left out; but for sales on a day on which the stock is halted, which it *)
(* makes and which are not claimed to be real.                             *)
THEOREM OnlyRealTrades == BacktestSpec => []TradesAreReal
<1>1. WriterInv /\ RunInv /\ scenario \in Scenario => TradesAreReal
  <2> SUFFICES ASSUME WriterInv, RunInv, scenario \in Scenario, Ran PROVE TradesAreReal
    BY DEF TradesAreReal
  <2>1. PICK codes :
          /\ \A e \in Date : made[RunOf][e] = Prepared(Part(scenario.history, codes, e))
          /\ report.run = Simulation(made[RunOf][LastDate], scenario.assumption)
    BY RunMeans
  <2>2. LastDate \in Date /\ LastDate \in 0..LastDate /\ 1..LastDate = Date
    BY EngineAssumption DEF Date
  <2> DEFINE t == made[RunOf][LastDate]
             end == report.run[LastDate]
  <2>3. GoodTables(t)
    <3>1. t = Prepared(Part(scenario.history, codes, LastDate))
      BY <2>1, <2>2
    <3> QED
      BY <2>2, <3>1, PreparedGood
  <2>4. Real(t, end, LastDate)
    BY <2>1, <2>2, <2>3, DaysAreReal
  <2> DEFINE bar(c, d) == t.daily_bars[c][d]
             halted(c, d) == bar(c, d) # NoRow /\ bar(c, d).suspended
             trades(c, d) == bar(c, d) # NoRow /\ ~bar(c, d).locked /\ ~bar(c, d).suspended
  <2>5. ASSUME NEW c, NEW d
        PROVE  /\ ~Sellable(t, c, d) => ~trades(c, d)
               /\ Sellable(t, c, d) => halted(c, d) \/ trades(c, d)
    BY DEF Sellable
  <2>6. ASSUME NEW x \in end.trades
        PROVE  /\ x.buy < x.sell
               /\ \A d \in x.buy + 1 .. x.sell - 1 : ~trades(x.code, d)
               /\ \/ halted(x.code, x.sell)
                  \/ /\ trades(x.code, x.sell)
                     /\ 100 * bar(x.code, x.sell).low <= x.sold
                     /\ x.sold <= 100 * bar(x.code, x.sell).high
    <3>1. RealTrade(t, x)
      BY <2>4 DEF Real, Sold
    <3>2. /\ x.buy < x.sell /\ Sellable(t, x.code, x.sell)
          /\ \A d \in x.buy + 1 .. x.sell - 1 : ~Sellable(t, x.code, d)
          /\ 100 * bar(x.code, x.sell).low <= x.sold
          /\ x.sold <= 100 * bar(x.code, x.sell).high
      BY <3>1 DEF RealTrade
    <3> HIDE DEF bar, halted, trades, t, end
    <3> QED
      BY ONLY <2>5, <3>2
  <2>7. ASSUME end.position # NoPosition, NEW d \in end.position.buy + 1 .. LastDate
        PROVE  ~trades(end.position.code, d)
    <3>1. ~Sellable(t, end.position.code, d)
      BY <2>4, <2>7 DEF Real, HeldSince
    <3> QED
      BY <2>5, <3>1
  <2>8. \A d \in Date : BuysAt(t, d) /\ ~HeldAt(end, d) <=> BoughtAt(t, end, d)
    BY <2>2, <2>4 DEF Real, Decided
  <2> QED
    BY <2>6, <2>7, <2>8 DEF TradesAreReal, BuysAt, HeldAt, BoughtAt
<1> QED
  BY <1>1, RunKnown, PTL
=============================================================================
