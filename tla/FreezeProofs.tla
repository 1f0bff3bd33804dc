---------------------------- MODULE FreezeProofs ----------------------------
(* The safety properties of SnapshotStore for any processes, inputs and    *)
(* number of freezes, and of DailyFreeze for any controllers, directories, *)
(* number of requests and faults.                                          *)
EXTENDS SnapshotStore, DailyFreeze, FiniteSetTheorems, WellFoundedInduction, TLAPS

Held(p) == pc[p] \in {"write", "replace"}

\* An inode is of one file only, whoever can still write to it.
Leads(i, file) ==
  \/ Exists(Target(file)) /\ disk[Target(file)] = i
  \/ Exists(Temporary(file)) /\ disk[Temporary(file)] = i
  \/ \E p \in Process : Held(p) /\ writing[p] = file /\ handle[p] = i
InodeInv == \A i \in DOMAIN content : \A f, g \in Files : Leads(i, f) /\ Leads(i, g) => f = g

\* A process writes the file of the day or its own audit.
ProcessInv ==
  \A p \in Process :
    /\ pc[p] # "idle" => writing[p] \in {Day, Refused[input[p]]}
    /\ pc[p] = "written" => Exists(Target(writing[p]))
    /\ result[p] = "frozen" =>
         /\ pc[p] = "idle" /\ input[p] \in Input
         /\ Refused[input[p]] # {} => Exists(Target(Refused[input[p]]))

\* A file whose writers never met has one of them at most, and what it holds
\* when it is there is whole.
WriterInv(f) ==
  /\ \A p, q \in Process : Unchecked(p, f) /\ Unchecked(q, f) => p = q
  /\ \A p \in Process : Unchecked(p, f) =>
       /\ ~Exists(Target(f))
       /\ Held(p) => Exists(Temporary(f)) /\ disk[Temporary(f)] = handle[p]
       /\ pc[p] = "write" => content[handle[p]] = Torn
       /\ pc[p] = "replace" => content[handle[p]] = input[p]
WholeInv(f) ==
  Exists(Target(f)) => /\ ContentOf(Target(f)) \in Input
                       /\ f # Day => Refused[ContentOf(Target(f))] = f
FileInv == \A f \in Files \ overlap : WriterInv(f) /\ WholeInv(f)

\* What the file of the day was, is and was decided on.
DayInv ==
  Day \notin overlap =>
    /\ Exists(Target(Day)) => Len(published) = 1 /\ published[1] = ContentOf(Target(Day))
    /\ ~Exists(Target(Day)) => published = <<>>
    /\ \A in \in decided : Exists(Target(Day)) /\ in = ContentOf(Target(Day))

IInv == TypeOK /\ InodeInv /\ ProcessInv /\ FileInv /\ DayInv
-----------------------------------------------------------------------------
\* The names of two files are two names.
LEMMA NamesApart ==
  \A f, g : /\ Target(f) # Temporary(g)
            /\ Target(f) = Target(g) => f = g
            /\ Temporary(f) = Temporary(g) => f = g
  BY DEF Target, Temporary

\* The next inode is one that is not there yet.
LEMMA Fresh ==
  ASSUME TypeOK
  PROVE  /\ Cardinality(DOMAIN content) \in Nat
         /\ Cardinality(DOMAIN content) \notin DOMAIN content
         /\ DOMAIN content \union {Cardinality(DOMAIN content)} = 0..Cardinality(DOMAIN content)
<1>1. PICK n \in Nat : DOMAIN content = 0..(n - 1)
  BY DEF TypeOK
<1>2. Cardinality(0..(n - 1)) = n
  BY FS_Interval, SMT
<1>3. /\ n \notin 0..(n - 1) /\ 0..(n - 1) \union {n} = 0..n
  OBVIOUS
<1> QED
  BY <1>1, <1>2, <1>3

\* Every variable keeps its type.
LEMMA TypeStep == ASSUME TypeOK, ProcessInv, [Next]_vars PROVE TypeOK'
<1> USE SnapshotStoreAssumption DEF TypeOK, vars, processVars, historyVars, Places, Results
<1>1. ASSUME NEW p \in Process, Freeze(p) PROVE TypeOK'
  <2> PICK in \in Input : input' = [input EXCEPT ![p] = in]
    BY <1>1 DEF Freeze
  <2>1. /\ runs' \in 0..MaxRuns /\ writing' \in [Process -> Files]
        /\ input' \in [Process -> Input \union {Nobody}]
        /\ UNCHANGED <<disk, content, handle, published, decided>>
    BY <1>1 DEF Freeze, Files
  <2>2. /\ \E place \in {"idle", "exists"} : pc' = [pc EXCEPT ![p] = place]
        /\ \E how \in {"empty", "none"} : result' = [result EXCEPT ![p] = how]
    BY <1>1 DEF Freeze, Stop
  <2>3. pc' \in [Process -> Places] /\ result' \in [Process -> Results]
    BY <2>2
  <2>4. \A q \in Process : /\ pc'[q] # "idle" => input'[q] \in Input
                           /\ pc'[q] \in {"write", "replace"} => handle'[q] \in DOMAIN content'
    BY <2>1, <2>2
  <2> QED
    BY <2>1, <2>3, <2>4
<1>2. ASSUME NEW p \in Process, CheckExists(p) PROVE TypeOK'
  BY <1>2 DEF CheckExists, Goto, Stop
<1>3. ASSUME NEW p \in Process, OpenTemporary(p) PROVE TypeOK'
  <2> DEFINE name == Temporary(writing[p])
             inode == IF Exists(name) THEN disk[name] ELSE Cardinality(DOMAIN content)
  <2>1. inode \in DOMAIN content \/ inode = Cardinality(DOMAIN content)
    BY DEF Exists
  <2>2. \E n \in Nat : DOMAIN content \union {inode} = 0..(n - 1)
    <3>1. CASE inode \in DOMAIN content
      BY <3>1
    <3>2. CASE inode = Cardinality(DOMAIN content)
      <4>1. inode + 1 \in Nat /\ DOMAIN content \union {inode} = 0..((inode + 1) - 1)
        BY <3>2, Fresh
      <4> QED
        BY <4>1
    <3> QED
      BY <2>1, <3>1, <3>2
  <2>3. DOMAIN content' = DOMAIN content \union {inode} /\ DOMAIN disk' = DOMAIN disk \union {name}
    BY <1>3 DEF OpenTemporary
  <2>4. /\ content' \in [DOMAIN content' -> Input \union {Torn}]
        /\ disk' \in [DOMAIN disk' -> DOMAIN content']
    BY <1>3, <2>3 DEF OpenTemporary
  <2>5. /\ handle' = [handle EXCEPT ![p] = inode]
        /\ pc' = [pc EXCEPT ![p] = "write"]
    BY <1>3 DEF OpenTemporary, Goto
  <2>6. UNCHANGED <<input, writing, result, runs, published, decided>>
    BY <1>3 DEF OpenTemporary, Goto
  <2>7. handle' \in [Process -> DOMAIN content' \union {Nobody}]
    BY <2>3, <2>5
  <2>8. \A q \in Process : /\ pc'[q] # "idle" => input'[q] \in Input
                           /\ pc'[q] \in {"write", "replace"} => handle'[q] \in DOMAIN content'
    BY <1>3, <2>3, <2>5, <2>6 DEF OpenTemporary
  <2>9. pc' \in [Process -> Places] /\ \E n \in Nat : DOMAIN content' = 0..(n - 1)
    BY <2>2, <2>3, <2>5
  <2> HIDE DEF name, inode
  <2> QED
    BY <2>4, <2>6, <2>7, <2>8, <2>9
<1>4. ASSUME NEW p \in Process, WriteTemporary(p) PROVE TypeOK'
  BY <1>4 DEF WriteTemporary, Goto
<1>5. ASSUME NEW p \in Process, Replace(p) PROVE TypeOK'
  <2>1. disk' \in [DOMAIN disk' -> DOMAIN content']
    <3>1. CASE Exists(Temporary(writing[p]))
      BY <1>5, <3>1 DEF Replace, Exists
    <3>2. CASE ~Exists(Temporary(writing[p]))
      BY <1>5, <3>2 DEF Replace
    <3> QED
      BY <3>1, <3>2
  <2>2. published' \in Seq(Input \union {Torn})
    <3>1. Exists(Temporary(writing[p])) => ContentOf(Temporary(writing[p])) \in Input \union {Torn}
      BY DEF Exists, ContentOf
    <3>2. \/ published' = published
          \/ \E x \in Input \union {Torn} : published' = Append(published, x)
      BY <1>5, <3>1, Zenon DEF Replace
    <3>3. \A S : \A s \in Seq(S), x \in S : Append(s, x) \in Seq(S)
      OBVIOUS
    <3>4. published \in Seq(Input \union {Torn})
      OBVIOUS
    <3> HIDE DEF TypeOK
    <3> QED
      BY <3>2, <3>3, <3>4
  <2> QED
    BY <1>5, <2>1, <2>2 DEF Replace, Goto, Stop
<1>6. ASSUME NEW p \in Process, Written(p) PROVE TypeOK'
  <2>1. input[p] \in Input
    BY <1>6 DEF Written
  <2>2. Refused[input[p]] \in Files
    BY <2>1 DEF Files
  <2> QED
    BY <1>6, <2>1, <2>2 DEF Written, Goto, Stop
<1>7. ASSUME NEW p \in Process, Crash(p) PROVE TypeOK'
  BY <1>7 DEF Crash, Stop
<1>8. CASE Decide
  BY <1>8 DEF Decide, Exists, ContentOf
<1>9. CASE UNCHANGED vars
  BY <1>9
<1> QED
  BY <1>1, <1>2, <1>3, <1>4, <1>5, <1>6, <1>7, <1>8, <1>9 DEF Next

\* An inode stays with its file.
LEMMA InodeStep == ASSUME IInv, [Next]_vars PROVE InodeInv'
<1> USE SnapshotStoreAssumption, NamesApart DEF IInv, Held, Leads, Exists
<1>1. ASSUME NEW p \in Process, Freeze(p) \/ CheckExists(p) \/ Written(p) \/ Crash(p) PROVE InodeInv'
  <2>1. disk' = disk /\ DOMAIN content' = DOMAIN content
    BY <1>1 DEF Freeze, CheckExists, Written, Crash, TypeOK
  <2>2. \A q \in Process : Held(q)' => Held(q) /\ writing'[q] = writing[q] /\ handle'[q] = handle[q]
    BY <1>1 DEF Freeze, CheckExists, Written, Crash, Goto, Stop, TypeOK
  <2> QED
    BY <2>1, <2>2 DEF InodeInv
<1>2. ASSUME NEW p \in Process, OpenTemporary(p) PROVE InodeInv'
  <2> DEFINE f == writing[p]
             inode == IF Exists(Temporary(f)) THEN disk[Temporary(f)] ELSE Cardinality(DOMAIN content)
  <2>1. /\ disk' = [n \in DOMAIN disk \union {Temporary(f)} |-> IF n = Temporary(f) THEN inode ELSE disk[n]]
        /\ DOMAIN content' = DOMAIN content \union {inode}
        /\ handle' = [handle EXCEPT ![p] = inode]
        /\ pc' = [pc EXCEPT ![p] = "write"] /\ UNCHANGED writing
    BY <1>2 DEF OpenTemporary, Goto
  <2>2. f \in Files /\ \A i : \A g \in Files : Leads(i, g)' => (g = f /\ i = inode) \/ Leads(i, g)
    BY <2>1 DEF TypeOK
  <2>3. \A g \in Files : Leads(inode, g) => g = f
    <3>1. CASE Exists(Temporary(f))
      BY <3>1, <2>2 DEF InodeInv, TypeOK
    <3>2. CASE ~Exists(Temporary(f))
      <4>1. \A i : \A g \in Files : Leads(i, g) => i \in DOMAIN content
        BY DEF TypeOK
      <4> QED
        BY <3>2, <4>1, Fresh
    <3> QED
      BY <3>1, <3>2
  <2>4. \A i : \A g \in Files : Leads(i, g) => i \in DOMAIN content
    BY DEF TypeOK
  <2> HIDE DEF inode, f
  <2> QED
    BY <2>2, <2>3, <2>4 DEF InodeInv
<1>3. ASSUME NEW p \in Process, WriteTemporary(p) PROVE InodeInv'
  <2>1. disk' = disk /\ DOMAIN content' = DOMAIN content
    BY <1>3 DEF WriteTemporary, TypeOK
  <2>2. \A q \in Process : Held(q)' => Held(q) /\ writing'[q] = writing[q] /\ handle'[q] = handle[q]
    BY <1>3 DEF WriteTemporary, Goto, TypeOK
  <2> QED
    BY <2>1, <2>2 DEF InodeInv
<1>4. ASSUME NEW p \in Process, Replace(p) PROVE InodeInv'
  <2>1. \A q \in Process : Held(q)' => Held(q) /\ writing'[q] = writing[q] /\ handle'[q] = handle[q]
    BY <1>4 DEF Replace, Goto, Stop, TypeOK
  <2>2. \A i : \A g \in Files : Leads(i, g)' => Leads(i, g)
    <3>1. CASE Exists(Temporary(writing[p]))
      BY <1>4, <2>1, <3>1 DEF Replace, TypeOK
    <3>2. CASE ~Exists(Temporary(writing[p]))
      BY <1>4, <2>1, <3>2 DEF Replace, TypeOK
    <3> QED
      BY <3>1, <3>2
  <2>3. UNCHANGED content
    BY <1>4 DEF Replace
  <2> QED
    BY <2>2, <2>3 DEF InodeInv
<1>5. CASE Decide \/ UNCHANGED vars
  BY <1>5 DEF Decide, vars, processVars, historyVars, InodeInv
<1> QED
  BY <1>1, <1>2, <1>3, <1>4, <1>5 DEF Next

\* A process that has written a file has left it there.
LEMMA ProcessStep == ASSUME IInv, [Next]_vars PROVE ProcessInv'
<1> USE SnapshotStoreAssumption, NamesApart DEF IInv, Exists
<1>1. ASSUME NEW p \in Process, Freeze(p) PROVE ProcessInv'
  <2>1. /\ UNCHANGED disk
        /\ \E in \in Input : input' = [input EXCEPT ![p] = in]
        /\ writing' = [writing EXCEPT ![p] = Day]
        /\ \E place \in {"idle", "exists"} : pc' = [pc EXCEPT ![p] = place]
        /\ \E how \in {"empty", "none"} : result' = [result EXCEPT ![p] = how]
    BY <1>1 DEF Freeze, Stop
  <2> QED
    BY ONLY <2>1, IInv DEF IInv, Exists, ProcessInv, TypeOK
<1>2. ASSUME NEW p \in Process, CheckExists(p) PROVE ProcessInv'
  BY <1>2 DEF CheckExists, Goto, Stop, ProcessInv, TypeOK
<1>3. ASSUME NEW p \in Process, OpenTemporary(p) \/ WriteTemporary(p) PROVE ProcessInv'
  <2>1. DOMAIN disk \subseteq DOMAIN disk' /\ UNCHANGED <<input, writing, result>>
    BY <1>3 DEF OpenTemporary, WriteTemporary, Goto
  <2>2. \E place \in {"write", "replace"} : pc' = [pc EXCEPT ![p] = place] /\ pc[p] # "idle"
    BY <1>3 DEF OpenTemporary, WriteTemporary, Goto
  <2> QED
    BY <2>1, <2>2 DEF ProcessInv, TypeOK
<1>4. ASSUME NEW p \in Process, Replace(p) PROVE ProcessInv'
  <2>1. \A f : Exists(Target(f)) => Exists(Target(f))'
    BY <1>4 DEF Replace
  <2>2. pc'[p] = "written" => Exists(Target(writing[p]))'
    BY <1>4 DEF Replace, Goto, Stop, TypeOK
  <2> QED
    BY <1>4, <2>1, <2>2 DEF Replace, Goto, Stop, ProcessInv, TypeOK
<1>5. ASSUME NEW p \in Process, Written(p) PROVE ProcessInv'
  BY <1>5 DEF Written, Goto, Stop, ProcessInv, TypeOK
<1>6. ASSUME NEW p \in Process, Crash(p) PROVE ProcessInv'
  BY <1>6 DEF Crash, Stop, ProcessInv, TypeOK
<1>7. CASE Decide \/ UNCHANGED vars
  BY <1>7 DEF Decide, vars, processVars, historyVars, ProcessInv
<1> QED
  BY <1>1, <1>2, <1>3, <1>4, <1>5, <1>6, <1>7 DEF Next

\* A step can only add to the files whose writers met.
LEMMA OverlapGrows == ASSUME [Next]_vars PROVE overlap \subseteq overlap'
  BY DEF Next, Freeze, CheckExists, OpenTemporary, WriteTemporary, Replace, Written, Crash, Decide,
         vars, processVars, historyVars

\* A file whose writers never met is written by one process and is whole.
LEMMA FileStep == ASSUME IInv, [Next]_vars PROVE FileInv'
<1> USE SnapshotStoreAssumption, NamesApart DEF IInv, Exists
<1> SUFFICES ASSUME NEW f \in Files, f \notin overlap'
             PROVE  (WriterInv(f) /\ WholeInv(f))'
  BY DEF FileInv, Files
<1>1. f \notin overlap /\ WriterInv(f) /\ WholeInv(f)
  BY OverlapGrows DEF FileInv
<1>2. ASSUME NEW p \in Process, Freeze(p) \/ Written(p) PROVE (WriterInv(f) /\ WholeInv(f))'
  <2>1. UNCHANGED <<disk, content, handle>>
    BY <1>2 DEF Freeze, Written
  <2>2. \A q \in Process : pc'[q] \in {"open", "write", "replace"} =>
          pc'[q] = pc[q] /\ writing'[q] = writing[q] /\ input'[q] = input[q]
    BY <1>2 DEF Freeze, Written, Goto, Stop, TypeOK
  <2>3. WriterInv(f)'
    BY <1>1, <2>1, <2>2 DEF WriterInv, Unchecked, Held
  <2> QED
    BY <1>1, <2>1, <2>3 DEF WholeInv, ContentOf
<1>3. ASSUME NEW p \in Process, CheckExists(p) PROVE (WriterInv(f) /\ WholeInv(f))'
  <2>1. UNCHANGED <<disk, content, handle, writing, input>>
    BY <1>3 DEF CheckExists
  <2>2. \A q \in Process \ {p} : pc'[q] = pc[q]
    BY <1>3 DEF CheckExists, Goto, Stop, TypeOK
  <2>3. pc'[p] \in {"open", "write", "replace"} =>
          /\ pc'[p] = "open" /\ ~Exists(Target(writing[p]))
          /\ writing[p] = f => \A q \in Process \ {p} : ~Unchecked(q, f)
    BY <1>3 DEF CheckExists, Goto, Stop, TypeOK
  <2>4. WriterInv(f)'
    BY <1>1, <2>1, <2>2, <2>3 DEF WriterInv, Unchecked, Held
  <2> QED
    BY <1>1, <2>1, <2>4 DEF WholeInv, ContentOf
<1>4. ASSUME NEW p \in Process, OpenTemporary(p) PROVE (WriterInv(f) /\ WholeInv(f))'
  <2> DEFINE name == Temporary(writing[p])
             inode == IF Exists(name) THEN disk[name] ELSE Cardinality(DOMAIN content)
  <2>1. /\ disk' = [n \in DOMAIN disk \union {name} |-> IF n = name THEN inode ELSE disk[n]]
        /\ content' = [i \in DOMAIN content \union {inode} |-> IF i = inode THEN Torn ELSE content[i]]
        /\ handle' = [handle EXCEPT ![p] = inode]
        /\ pc' = [pc EXCEPT ![p] = "write"] /\ pc[p] = "open"
        /\ UNCHANGED <<writing, input>>
    BY <1>4 DEF OpenTemporary, Goto
  <2>2. writing[p] = f => Unchecked(p, f)
    BY <2>1 DEF Unchecked
  <2>3. \A i \in DOMAIN content : Leads(i, f) /\ writing[p] # f => i # inode
    <3> SUFFICES ASSUME NEW i \in DOMAIN content, Leads(i, f), writing[p] # f PROVE i # inode
      OBVIOUS
    <3>1. CASE Exists(name)
      <4>1. Leads(disk[name], writing[p]) /\ disk[name] \in DOMAIN content /\ writing[p] \in Files
        BY <3>1 DEF Leads, TypeOK
      <4> QED
        BY <3>1, <4>1 DEF InodeInv
    <3>2. CASE ~Exists(name)
      BY <3>2, Fresh
    <3> QED
      BY <3>1, <3>2
  <2>4. \A q \in Process : Held(q) /\ writing[q] = f => Leads(handle[q], f) /\ handle[q] \in DOMAIN content
    BY DEF Leads, Held, TypeOK
  <2>5. Exists(Target(f)) => Leads(disk[Target(f)], f) /\ disk[Target(f)] \in DOMAIN content
    BY DEF Leads, TypeOK
  <2>6. Exists(Temporary(f)) => Leads(disk[Temporary(f)], f) /\ disk[Temporary(f)] \in DOMAIN content
    BY DEF Leads, TypeOK
  <2> HIDE DEF inode
  <2>7. WholeInv(f)'
    <3>1. CASE writing[p] = f
      BY <1>1, <2>1, <2>2, <3>1 DEF WriterInv, WholeInv
    <3>2. CASE writing[p] # f
      BY <1>1, <2>1, <2>3, <2>5, <3>2 DEF WholeInv, ContentOf
    <3> QED
      BY <3>1, <3>2
  <2>8. WriterInv(f)'
    <3>1. \A q, r \in Process : Unchecked(q, f)' /\ Unchecked(r, f)' => q = r
      BY <1>1, <2>1 DEF WriterInv, Unchecked, TypeOK
    <3>2. ASSUME NEW q \in Process, Unchecked(q, f)'
          PROVE  /\ ~Exists(Target(f))'
                 /\ Held(q)' => Exists(Temporary(f))' /\ disk'[Temporary(f)] = handle'[q]
                 /\ pc'[q] = "write" => content'[handle'[q]] = Torn
                 /\ pc'[q] = "replace" => content'[handle'[q]] = input'[q]
      <4>1. Unchecked(q, f) /\ ~Exists(Target(f))'
        BY <1>1, <2>1, <3>2 DEF WriterInv, Unchecked, TypeOK
      <4>2. CASE q = p
        BY <2>1, <3>2, <4>1, <4>2 DEF Held, Unchecked, TypeOK
      <4>3. CASE q # p
        <5>1. writing[p] # f
          BY <1>1, <2>2, <4>1, <4>3 DEF WriterInv
        <5>2. pc'[q] = pc[q] /\ handle'[q] = handle[q]
          BY <2>1, <4>3 DEF TypeOK
        <5>3. Held(q) => handle[q] # inode /\ handle[q] \in DOMAIN content
          BY <2>3, <2>4, <4>1, <5>1 DEF Unchecked
        <5> QED
          BY <1>1, <2>1, <4>1, <5>1, <5>2, <5>3 DEF WriterInv, Held
      <4> QED
        BY <4>2, <4>3
    <3> QED
      BY <3>1, <3>2 DEF WriterInv
  <2> QED
    BY <2>7, <2>8
<1>5. ASSUME NEW p \in Process, WriteTemporary(p) \/ Crash(p) PROVE (WriterInv(f) /\ WholeInv(f))'
  <2>1. UNCHANGED <<disk, writing, input>>
    BY <1>5 DEF WriteTemporary, Crash
  <2>2. /\ \A q \in Process \ {p} : pc'[q] = pc[q] /\ handle'[q] = handle[q]
        /\ \/ pc[p] = "write" /\ pc'[p] = "replace" /\ handle'[p] = handle[p]
           \/ pc'[p] = "idle"
    BY <1>5 DEF WriteTemporary, Crash, Goto, Stop, TypeOK
  <2>3. \/ UNCHANGED content
        \/ pc[p] = "write" /\ \E c \in Input \union {Torn} : content' = [content EXCEPT ![handle[p]] = c]
    BY <1>5 DEF WriteTemporary, Crash, TypeOK
  <2>4. \A i \in DOMAIN content : Leads(i, f) /\ writing[p] # f => content'[i] = content[i]
    <3> SUFFICES ASSUME NEW i \in DOMAIN content, Leads(i, f), writing[p] # f, pc[p] = "write"
                 PROVE  i # handle[p]
      BY <2>3 DEF TypeOK
    <3>1. Leads(handle[p], writing[p]) /\ handle[p] \in DOMAIN content /\ writing[p] \in Files
      BY DEF Leads, Held, TypeOK
    <3> QED
      BY <3>1 DEF InodeInv
  <2>5. pc'[p] = "replace" /\ writing[p] = f => content'[handle[p]] = input[p]
    <3>1. pc'[p] = "replace" => WriteTemporary(p) /\ pc[p] = "write"
      BY <1>5 DEF WriteTemporary, Crash, Stop, TypeOK
    <3>2. pc[p] = "write" /\ writing[p] = f => content[handle[p]] = Torn
      BY <1>1 DEF WriterInv, Unchecked
    <3> QED
      BY <3>1, <3>2 DEF WriteTemporary, TypeOK
  <2>6. \A q \in Process : Held(q) /\ writing[q] = f => Leads(handle[q], f) /\ handle[q] \in DOMAIN content
    BY DEF Leads, Held, TypeOK
  <2>7. WholeInv(f)'
    <3>1. CASE writing[p] = f
      <4>1. Exists(Target(f)) => UNCHANGED content
        BY <1>1, <2>3, <3>1 DEF WriterInv, Unchecked
      <4> QED
        BY <1>1, <2>1, <4>1 DEF WholeInv, ContentOf
    <3>2. CASE writing[p] # f
      BY <1>1, <2>1, <2>4, <3>2 DEF WholeInv, ContentOf, Leads, TypeOK
    <3> QED
      BY <3>1, <3>2
  <2>8. WriterInv(f)'
    <3>1. \A q \in Process : Unchecked(q, f)' => Unchecked(q, f)
      BY <2>1, <2>2 DEF Unchecked
    <3>2. ASSUME NEW q \in Process, Unchecked(q, f)'
          PROVE  /\ ~Exists(Target(f))'
                 /\ Held(q)' => Exists(Temporary(f))' /\ disk'[Temporary(f)] = handle'[q]
                 /\ pc'[q] = "write" => content'[handle'[q]] = Torn
                 /\ pc'[q] = "replace" => content'[handle'[q]] = input'[q]
      <4>1. CASE q = p
        BY <1>1, <2>1, <2>2, <2>5, <3>1, <3>2, <4>1 DEF WriterInv, Unchecked, Held
      <4>2. CASE q # p
        <5>1. writing[q] = f /\ (pc[p] = "write" => writing[p] # f)
          BY <1>1, <3>1, <3>2, <4>2 DEF WriterInv, Unchecked
        <5>2. Held(q) => content'[handle[q]] = content[handle[q]]
          BY <2>3, <2>4, <2>6, <5>1
        <5> QED
          BY <1>1, <2>1, <2>2, <3>1, <3>2, <4>2, <5>1, <5>2 DEF WriterInv, Unchecked, Held
      <4> QED
        BY <4>1, <4>2
    <3> QED
      BY <1>1, <3>1, <3>2 DEF WriterInv
  <2> QED
    BY <2>7, <2>8
<1>6. ASSUME NEW p \in Process, Replace(p) PROVE (WriterInv(f) /\ WholeInv(f))'
  <2>1. UNCHANGED <<content, writing, input>>
    BY <1>6 DEF Replace
  <2>2. /\ \A q \in Process \ {p} : pc'[q] = pc[q] /\ handle'[q] = handle[q]
        /\ pc[p] = "replace" /\ pc'[p] \in {"written", "idle"}
    BY <1>6 DEF Replace, Goto, Stop, TypeOK
  <2>3. CASE writing[p] = f
    <3>1. \A q \in Process : ~Unchecked(q, f)'
      BY <1>1, <2>1, <2>2, <2>3 DEF WriterInv, Unchecked
    <3>2. /\ ~Exists(Target(f)) /\ Exists(Temporary(f)) /\ content[disk[Temporary(f)]] = input[p]
          /\ input[p] \in Input /\ (f # Day => Refused[input[p]] = f)
      BY <1>1, <2>2, <2>3 DEF WriterInv, Unchecked, Held, TypeOK, ProcessInv
    <3>3. Exists(Target(f))' /\ disk'[Target(f)] = disk[Temporary(f)]
      BY <1>6, <2>3, <3>2 DEF Replace
    <3>4. WriterInv(f)'
      BY <3>1 DEF WriterInv
    <3>5. WholeInv(f)'
      BY <2>1, <3>2, <3>3 DEF WholeInv, ContentOf
    <3> QED
      BY <3>4, <3>5
  <2>4. CASE writing[p] # f
    <3>1. /\ Exists(Target(f))' <=> Exists(Target(f))
          /\ Exists(Temporary(f))' <=> Exists(Temporary(f))
          /\ Exists(Target(f)) => disk'[Target(f)] = disk[Target(f)]
          /\ Exists(Temporary(f)) => disk'[Temporary(f)] = disk[Temporary(f)]
      BY <1>6, <2>4 DEF Replace
    <3>2. WriterInv(f)'
      <4>1. \A q \in Process : Unchecked(q, f)' => q # p /\ Unchecked(q, f)
        BY <2>1, <2>2, <2>4 DEF Unchecked
      <4>2. \A q \in Process \ {p} : Held(q)' <=> Held(q)
        BY <2>2 DEF Held
      <4> QED
        BY <1>1, <2>1, <2>2, <3>1, <4>1, <4>2 DEF WriterInv
    <3>3. WholeInv(f)'
      BY <1>1, <2>1, <3>1 DEF WholeInv, ContentOf
    <3> QED
      BY <3>2, <3>3
  <2> QED
    BY <2>3, <2>4
<1>7. CASE Decide \/ UNCHANGED vars
  BY <1>1, <1>7 DEF Decide, vars, processVars, historyVars, WriterInv, WholeInv, Unchecked, Held, ContentOf
<1> QED
  BY <1>2, <1>3, <1>4, <1>5, <1>6, <1>7 DEF Next

\* The file of the day is what was published first.
LEMMA DayStep == ASSUME IInv, [Next]_vars PROVE DayInv'
<1> USE SnapshotStoreAssumption, NamesApart DEF IInv, Exists
<1> SUFFICES ASSUME Day \notin overlap' PROVE DayInv'
  BY DEF DayInv
<1>1. Day \notin overlap /\ WriterInv(Day) /\ WholeInv(Day)
  BY OverlapGrows DEF FileInv, Files
<1>2. ASSUME Exists(Target(Day)) => Exists(Target(Day))' /\ ContentOf(Target(Day))' = ContentOf(Target(Day)),
             ~Exists(Target(Day)) => ~Exists(Target(Day))', UNCHANGED <<published, decided>>
      PROVE  DayInv'
  BY <1>1, <1>2 DEF DayInv
<1>3. ASSUME NEW p \in Process, Freeze(p) \/ CheckExists(p) \/ Written(p) PROVE DayInv'
  BY <1>2, <1>3 DEF Freeze, CheckExists, Written, historyVars, ContentOf
<1>4. ASSUME NEW p \in Process, OpenTemporary(p) \/ WriteTemporary(p) \/ Crash(p) PROVE DayInv'
  <2>1. /\ \A g : Target(g) \in DOMAIN disk' <=> Target(g) \in DOMAIN disk
        /\ \A g : Target(g) \in DOMAIN disk => disk'[Target(g)] = disk[Target(g)]
    BY <1>4 DEF OpenTemporary, WriteTemporary, Crash
  <2>2. UNCHANGED <<published, decided>>
    BY <1>4 DEF OpenTemporary, WriteTemporary, Crash, historyVars
  <2>3. Exists(Target(Day)) => content'[disk[Target(Day)]] = content[disk[Target(Day)]]
    <3> SUFFICES ASSUME Exists(Target(Day)) PROVE content'[disk[Target(Day)]] = content[disk[Target(Day)]]
      OBVIOUS
    <3>1. disk[Target(Day)] \in DOMAIN content /\ Leads(disk[Target(Day)], Day) /\ Day \in Files
      BY DEF Leads, TypeOK, Files
    <3>2. pc[p] = "write" => disk[Target(Day)] # handle[p]
      <4>1. pc[p] = "write" => writing[p] # Day /\ Leads(handle[p], writing[p]) /\ writing[p] \in Files
        BY <1>1 DEF WriterInv, Unchecked, Leads, Held, TypeOK
      <4> QED
        BY <3>1, <4>1 DEF InodeInv
    <3>3. CASE OpenTemporary(p)
      <4>1. writing[p] # Day /\ writing[p] \in Files
        BY <1>1, <3>3 DEF OpenTemporary, WriterInv, Unchecked, TypeOK
      <4>2. Exists(Temporary(writing[p])) => disk[Temporary(writing[p])] # disk[Target(Day)]
        BY <3>1, <4>1 DEF InodeInv, Leads
      <4> QED
        BY <3>1, <3>3, <4>2, Fresh DEF OpenTemporary
    <3>4. CASE WriteTemporary(p) \/ Crash(p)
      BY <3>1, <3>2, <3>4 DEF WriteTemporary, Crash, TypeOK
    <3> QED
      BY <1>4, <3>3, <3>4
  <2> QED
    BY <1>2, <2>1, <2>2, <2>3 DEF ContentOf
<1>5. ASSUME NEW p \in Process, Replace(p) PROVE DayInv'
  <2>1. UNCHANGED <<content, decided>>
    BY <1>5 DEF Replace
  <2>2. CASE writing[p] = Day
    <3>1. ~Exists(Target(Day)) /\ Exists(Temporary(Day)) /\ published = <<>> /\ decided = {}
      BY <1>1, <1>5, <2>2 DEF Replace, WriterInv, Unchecked, Held, DayInv
    <3>2. /\ Exists(Target(Day))' /\ disk'[Target(Day)] = disk[Temporary(Day)]
          /\ published' = <<ContentOf(Temporary(Day))>>
      BY <1>5, <2>2, <3>1 DEF Replace
    <3> QED
      BY <2>1, <3>1, <3>2 DEF DayInv, ContentOf
  <2>3. CASE writing[p] # Day
    BY <1>2, <1>5, <2>1, <2>3 DEF Replace, ContentOf
  <2> QED
    BY <2>2, <2>3
<1>6. CASE Decide
  BY <1>1, <1>6 DEF Decide, processVars, DayInv, ContentOf
<1>7. CASE UNCHANGED vars
  BY <1>1, <1>7 DEF vars, processVars, historyVars, DayInv, ContentOf
<1> QED
  BY <1>3, <1>4, <1>5, <1>6, <1>7 DEF Next

\* The invariants hold together in every state.
THEOREM Invariance == Spec => []IInv
<1>1. Init => IInv
  <2> SUFFICES ASSUME Init PROVE IInv
    OBVIOUS
  <2>1. TypeOK
    <3>1. 0 \in Nat /\ DOMAIN content = 0..(0 - 1)
      BY DEF Init
    <3> QED
      BY <3>1, SnapshotStoreAssumption DEF Init, TypeOK, Files, Places, Results
  <2>2. InodeInv /\ ProcessInv /\ FileInv /\ DayInv
    BY DEF Init, InodeInv, ProcessInv, FileInv, DayInv, WriterInv, WholeInv, Unchecked, Exists
  <2> QED
    BY <2>1, <2>2 DEF IInv
<1>2. IInv /\ [Next]_vars => IInv'
  BY TypeStep, InodeStep, ProcessStep, FileStep, DayStep DEF IInv
<1> QED
  BY <1>1, <1>2, PTL DEF Spec

\* Types are kept for any processes, inputs and number of freezes.
THEOREM TypeCorrect == Spec => []TypeOK
<1>1. IInv => TypeOK
  BY DEF IInv
<1> QED
  BY <1>1, Invariance, PTL

\* Where no two writers met, the first snapshot of a day stands and is whole,
\* whatever dies, is repeated or comes later (write_once, freeze).
THEOREM FirstStands == Spec => []FirstFreezeStands
<1>1. IInv => FirstFreezeStands
  <2> SUFFICES ASSUME IInv, Day \notin overlap PROVE FirstFreezeStands
    BY DEF FirstFreezeStands
  <2>1. WholeInv(Day) /\ DayInv
    BY DEF IInv, FileInv, Files
  <2>2. Len(published) <= 1 /\ \A i \in DOMAIN published : i = 1 /\ Exists(Target(Day))
    <3>1. CASE Exists(Target(Day))
      <4>1. published \in Seq(Input \union {Torn}) /\ Len(published) = 1
        BY <2>1, <3>1 DEF DayInv, IInv, TypeOK
      <4> QED
        BY <3>1, <4>1
    <3>2. CASE ~Exists(Target(Day))
      BY <2>1, <3>2 DEF DayInv
    <3> QED
      BY <3>1, <3>2
  <2>3. Exists(Target(Day)) => 1 \in DOMAIN published
    BY <2>1 DEF DayInv, IInv, TypeOK
  <2> QED
    BY <2>1, <2>2, <2>3, SnapshotStoreAssumption DEF FirstFreezeStands, WholeInv, DayInv
<1> QED
  BY <1>1, Invariance, PTL

\* A freeze that reports success has left its audit, also after a crash
\* between the two files (freeze).
THEOREM AuditIsKept == Spec => []AuditKept
<1>1. IInv => AuditKept
  <2> SUFFICES ASSUME IInv, NEW p \in Process, result[p] = "frozen", Refused[input[p]] # {},
                      Refused[input[p]] \notin overlap
               PROVE  /\ Exists(Target(Refused[input[p]]))
                      /\ Same(Refused[input[p]], input[p], ContentOf(Target(Refused[input[p]])))
    BY DEF AuditKept
  <2>1. Exists(Target(Refused[input[p]])) /\ input[p] \in Input
    BY DEF IInv, ProcessInv
  <2>2. WholeInv(Refused[input[p]])
    BY <2>1 DEF IInv, FileInv, Files
  <2> QED
    BY <2>1, <2>2, SnapshotStoreAssumption DEF WholeInv, Same, Day
<1> QED
  BY <1>1, Invariance, PTL

-----------------------------------------------------------------------------
(* The three filterings agree, and none of them looks at the order.        *)

\* What the rules read of a row is the same once it is stored.
LEMMA ShelvedIsAlike ==
  ASSUME NEW r, IsRow(r)
  PROVE  /\ IsRow(Shelved(r))
         /\ Shelved(Shelved(r)) = Shelved(r)
         /\ LogicalKey(Shelved(r)) = LogicalKey(r)
         /\ Proven(Shelved(r)) = Proven(r)
         /\ \A d, c : Known(Shelved(r), d, ContractOf(Shelved(r), c, d)) = Known(r, d, ContractOf(r, c, d))
<1> DEFINE s == Shelved(r)
<1>1. /\ s.type = r.type /\ s.code = r.code /\ s.event = r.event /\ s.observed = r.observed
      /\ s.available = r.available /\ s.cutoff = r.cutoff /\ s.published = r.published
      /\ s.source = r.source /\ s.raw = r.raw /\ s.body = r.body /\ s.key = r.key
      /\ s.grade = r.grade /\ s.final = r.final /\ s.contract = r.contract
      /\ s.at = 0
  BY DEF IsRow, RowFields, Shelved
<1>2. DOMAIN s = RowFields /\ s = [f \in RowFields |-> s[f]]
  BY DEF IsRow, Shelved
<1>3. IsRow(s)
  BY <1>1, <1>2 DEF IsRow
<1>4. Shelved(s) = s
  BY <1>1, <1>2 DEF Shelved
<1> HIDE DEF s
<1>5. LogicalKey(s) = LogicalKey(r)
  BY <1>1 DEF LogicalKey
<1>6. Proven(s) = Proven(r)
  BY <1>1 DEF Proven
<1>7. ASSUME NEW d, NEW c
      PROVE  Known(s, d, ContractOf(s, c, d)) = Known(r, d, ContractOf(r, c, d))
  <2>1. ContractOf(s, c, d) = ContractOf(r, c, d)
    BY <1>1 DEF ContractOf
  <2> QED
    BY <1>1, <2>1, Zenon DEF Known
<1> QED
  BY <1>3, <1>4, <1>5, <1>6, <1>7 DEF s

\* The first six places of the key that decides are kept, the last is the place.
LEMMA WinnerKeys ==
  ASSUME NEW r, IsRow(r)
  PROVE  /\ \A i \in 1..7 : WinnerKey(r)[i] \in Int
         /\ \A i \in 1..6 : WinnerKey(Shelved(r))[i] = WinnerKey(r)[i]
         /\ WinnerKey(r)[7] = r.at
         /\ WinnerKey(Shelved(r))[7] = 0
         /\ \A q : (\A i \in 1..7 : WinnerKey(q)[i] = WinnerKey(r)[i]) => WinnerKey(q) = WinnerKey(r)
<1>1. WinnerKey(r)[7] = r.at
  BY DEF WinnerKey
<1>2. /\ Shelved(r).at = 0 /\ Shelved(r).type = r.type /\ Shelved(r).event = r.event
      /\ Shelved(r).observed = r.observed
      /\ Shelved(r).available = r.available /\ Shelved(r).cutoff = r.cutoff
      /\ Shelved(r).source = r.source /\ Shelved(r).raw = r.raw /\ Shelved(r).body = r.body
  BY DEF IsRow, RowFields, Shelved
<1>3. WinnerKey(Shelved(r))[7] = 0
  BY <1>2 DEF WinnerKey
<1>4. \A i \in 1..6 : i = 1 \/ i = 2 \/ i = 3 \/ i = 4 \/ i = 5 \/ i = 6
  OBVIOUS
<1>5. \A i \in 1..6 : WinnerKey(Shelved(r))[i] = WinnerKey(r)[i]
  BY <1>2, <1>4 DEF WinnerKey
<1>6. \A i \in 1..7 : WinnerKey(r)[i] \in Int
  BY DEF WinnerKey, IsRow
<1>7. ASSUME NEW q, \A i \in 1..7 : WinnerKey(q)[i] = WinnerKey(r)[i]
      PROVE  WinnerKey(q) = WinnerKey(r)
  <2>1. /\ WinnerKey(q)[1] = WinnerKey(r)[1] /\ WinnerKey(q)[2] = WinnerKey(r)[2]
        /\ WinnerKey(q)[3] = WinnerKey(r)[3] /\ WinnerKey(q)[4] = WinnerKey(r)[4]
        /\ WinnerKey(q)[5] = WinnerKey(r)[5] /\ WinnerKey(q)[6] = WinnerKey(r)[6]
        /\ WinnerKey(q)[7] = WinnerKey(r)[7]
    BY <1>7
  <2> QED
    BY <2>1 DEF WinnerKey
<1> QED
  BY <1>1, <1>3, <1>5, <1>6, <1>7

\* Of two rows one beats the other at most.
LEMMA BeatsIsAsymmetric ==
  ASSUME NEW r, NEW q, IsRow(r), IsRow(q), Beats(r, q)
  PROVE  ~Beats(q, r)
<1> DEFINE a == WinnerKey(q)
           b == WinnerKey(r)
<1>1. \A i \in 1..7 : a[i] \in Int /\ b[i] \in Int
  BY WinnerKeys
<1>2. PICK i \in 1..7 : a[i] < b[i] /\ \A j \in 1..(i - 1) : a[j] = b[j]
  BY Zenon DEF Beats
<1>3. SUFFICES ASSUME NEW k \in 1..7, b[k] < a[k], \A j \in 1..(k - 1) : b[j] = a[j]
               PROVE  FALSE
  BY Zenon DEF Beats
<1> HIDE DEF a, b
<1> QED
  BY <1>1, <1>2, <1>3

\* One row of each thing wins.
LEMMA WinnersDiffer ==
  ASSUME NEW rows, \A r \in rows : IsRow(r)
  PROVE  \A r, q \in Winners(rows) : LogicalKey(r) = LogicalKey(q) => r = q
  BY BeatsIsAsymmetric DEF Winners

\* To filter again what was accepted changes nothing, as long as it is known.
LEMMA AcceptedAgain ==
  ASSUME NEW rows, NEW d, NEW c, NEW k, \A r \in rows : IsRow(r),
         \A r \in Accepted(rows, d, c) : Known(r, d, ContractOf(r, k, d))
  PROVE  Accepted(Accepted(rows, d, c), d, k) = Accepted(rows, d, c)
<1> DEFINE known == Timely(rows, d, c)
           kept == Accepted(rows, d, c)
<1>1. \A s \in kept : \E r \in Winners(known) : s = Shelved(r)
  BY DEF Accepted, Stored
<1>2. \A r \in Winners(known) : r \in rows /\ IsRow(r) /\ Proven(r)
  BY DEF Winners, Timely
<1>3. \A s \in kept : IsRow(s) /\ Proven(s) /\ Shelved(s) = s
  BY <1>1, <1>2, ShelvedIsAlike
<1>4. \A s, t \in kept : LogicalKey(s) = LogicalKey(t) => s = t
  <2> SUFFICES ASSUME NEW s \in kept, NEW t \in kept, LogicalKey(s) = LogicalKey(t)
               PROVE  s = t
    OBVIOUS
  <2>1. PICK r \in Winners(known) : s = Shelved(r)
    BY <1>1
  <2>2. PICK q \in Winners(known) : t = Shelved(q)
    BY <1>1
  <2>3. LogicalKey(r) = LogicalKey(q)
    BY <1>2, <2>1, <2>2, ShelvedIsAlike
  <2>4. \A x \in known : IsRow(x)
    BY DEF Timely
  <2> QED
    BY <2>1, <2>2, <2>3, <2>4, WinnersDiffer
<1> HIDE DEF kept
<1>5. Timely(kept, d, k) = kept
  BY <1>3 DEF Timely, kept
<1>6. Winners(kept) = kept
  BY <1>4 DEF Winners
<1>7. Stored(kept) = kept
  BY <1>3 DEF Stored
<1> QED
  BY <1>5, <1>6, <1>7 DEF Accepted, kept

\* Accepted rows were known, and are still known when they are stored.
LEMMA AcceptedIsKnown ==
  ASSUME NEW rows, NEW d, NEW c, \A r \in rows : IsRow(r)
  PROVE  \A s \in Accepted(rows, d, c) :
           /\ IsRow(s) /\ Known(s, d, ContractOf(s, c, d))
           /\ \E r \in rows : s.type = r.type
<1> SUFFICES ASSUME NEW s \in Accepted(rows, d, c)
             PROVE  /\ IsRow(s) /\ Known(s, d, ContractOf(s, c, d))
                    /\ \E r \in rows : s.type = r.type
  OBVIOUS
<1>1. PICK r \in Timely(rows, d, c) : s = Shelved(r)
  BY DEF Accepted, Stored, Winners
<1>2. r \in rows /\ IsRow(r) /\ Known(r, d, ContractOf(r, c, d))
  BY DEF Timely
<1>3. s.type = r.type
  BY <1>1, <1>2 DEF Shelved, IsRow, RowFields
<1> QED
  BY <1>1, <1>2, <1>3, ShelvedIsAlike

\* What was known under the single cutoff is known under a contract of the day
\* that the row brings along: its feature cutoff is no earlier.
LEMMA KnownByOwnContract ==
  ASSUME NEW s, IsRow(s), Known(s, 0, ContractOf(s, SingleCutoff(0), 0)), SingleCutoff(0) # NoValue
  PROVE  Known(s, 0, ContractOf(s, NoValue, 0))
<1>1. CASE s.type = "source_status" \/ s.contract = NoValue
  BY <1>1 DEF ContractOf, ContractOr
<1>2. CASE s.type # "source_status" /\ s.contract \in DayContracts
  <2>1. ContractOf(s, SingleCutoff(0), 0) = SingleCutoff(0)
    BY DEF ContractOf, ContractOr
  <2>2. /\ s.event <= 0 /\ s.observed <= 0 /\ s.available <= 0 /\ s.observed <= s.available
        /\ 0 <= s.cutoff
        /\ s.type = "minute_bar" => s.final
        /\ s.type = "news" => s.published # NoValue /\ s.published <= 0
    BY <1>2, <2>1 DEF Known, SingleCutoff
  <2>3. s.contract.feature = 0 /\ s.contract.deadline \in {30, 65}
    BY <1>2 DEF DayContracts, TimeContract
  <2>4. s.contract # NoValue => ContractOf(s, NoValue, 0) = s.contract
    BY <1>2 DEF ContractOf, ContractOr
  <2>5. s.contract = NoValue => ContractOf(s, NoValue, 0) = SingleCutoff(0)
    BY DEF ContractOf, ContractOr
  <2>6. s.observed <= 30 /\ s.observed <= 65 /\ s.available <= 30 /\ s.available <= 65
    BY <2>2 DEF IsRow
  <2>7. CASE s.contract # NoValue
    BY ONLY <1>2, <2>2, <2>3, <2>4, <2>6, <2>7 DEF Known
  <2>8. CASE s.contract = NoValue
    BY <2>1, <2>5, <2>8
  <2> QED
    BY <2>7, <2>8
<1> QED
  BY <1>1, <1>2 DEF IsRow

\* What a whole file says of an input, whoever reads it.
LEMMA FilteredAlike ==
  ASSUME NEW in \in Input, NEW rows, rows = rowsOf[in] \/ rows = statusOf[in]
  PROVE  LET d == DecisionTime(contractOf[in])
             c == ContractOr(contractOf[in], d)
             kept == Accepted(rows, d, c)
         IN Accepted(kept, d, contractOf[in]) = kept /\ Accepted(kept, d, c) = kept
<1> DEFINE contract == contractOf[in]
           d == DecisionTime(contract)
           c == ContractOr(contract, d)
           kept == Accepted(rows, d, c)
<1>1. \A r \in rows : IsRow(r)
  BY RowAssumption
<1>2. contract = NoValue => d = 0 /\ c = SingleCutoff(0) /\ SingleCutoff(0) # NoValue
  BY SnapshotStoreAssumption DEF DecisionTime, ContractOr
<1>3. contract # NoValue => c = contract
  BY DEF ContractOr
<1> HIDE DEF contract, d, c
<1>4. \A s \in kept : IsRow(s) /\ Known(s, d, ContractOf(s, c, d))
  BY <1>1, AcceptedIsKnown
<1>5. \A s \in kept : Known(s, d, ContractOf(s, contract, d))
  BY <1>2, <1>3, <1>4, KnownByOwnContract
<1>6. Accepted(kept, d, c) = kept
  BY <1>1, <1>4, AcceptedAgain
<1>7. Accepted(kept, d, contract) = kept
  BY <1>1, <1>5, AcceptedAgain
<1> QED
  BY <1>6, <1>7 DEF contract, d, c

\* A frozen file is whole when it is loaded, and decides on the rows, the
\* readiness and the stocks it was frozen with.
LEMMA LoadedAsFrozen ==
  ASSUME NEW in \in Input
  PROVE  Loaded[in].whole /\ AsFrozen(Decision[in], Frozen[in])
<1> DEFINE contract == contractOf[in]
           d == DecisionTime(contract)
           c == ContractOr(contract, d)
           rows == Accepted(rowsOf[in], d, c)
           stat == Accepted(statusOf[in], d, c)
<1>1. /\ Accepted(rows, d, contract) = rows /\ Accepted(rows, d, c) = rows
      /\ Accepted(stat, d, contract) = stat /\ Accepted(stat, d, c) = stat
  BY FilteredAlike
<1>2. Frozen[in] = Snapshot(in, d, c, rows, stat)
  BY DEF Frozen
<1> HIDE DEF rows, stat, d, c
<1>3. /\ Frozen[in].decision = d /\ Frozen[in].records = rows /\ Frozen[in].status = stat
      /\ Frozen[in].ready = DataReady(rows, stat, c) /\ Frozen[in].eligible = Eligible(rows, c)
      /\ Frozen[in].hash = SnapshotHash(d, contract, rows, stat)
  BY <1>2 DEF Snapshot
<1>4. Loaded[in] = Reloaded(SnapshotHash(d, contract, rows, stat), d, contract, rows, stat)
  BY <1>1, <1>3 DEF Loaded, ReloadedUnder
<1>5. Loaded[in].whole /\ Loaded[in].records = rows /\ Loaded[in].status = stat
  <2>1. Loaded[in].records = rows /\ Loaded[in].status = stat
    BY <1>4 DEF Reloaded
  <2>2. ASSUME NEW h PROVE Reloaded(h, d, contract, rows, stat).whole <=> h = SnapshotHash(d, contract, rows, stat)
    BY DEF Reloaded
  <2> QED
    BY <1>4, <2>1, <2>2
<1>6. Decision[in] = DecisionOn(Loaded[in], d, c)
  BY DEF Decision, d, c
<1>7. Decision[in] = Evaluation(rows, stat, c)
  BY <1>1, <1>5, <1>6 DEF DecisionOn
<1>8. AsFrozen(Decision[in], Frozen[in])
  BY <1>3, <1>7 DEF AsFrozen, Evaluation
<1> QED
  BY <1>5, <1>8

\* Whatever is loaded decides as it was frozen, and no whole file is refused,
\* for any inputs (freeze, load_frozen_snapshot, snapshot_at).
THEOREM DecidedAsFrozen == Spec => []DecidesAsFrozen
<1>1. TypeOK => DecidesAsFrozen
  <2> SUFFICES ASSUME TypeOK PROVE DecidesAsFrozen
    OBVIOUS
  <2>1. \A i \in DOMAIN published : published[i] \in Input \union {Torn}
    BY DEF TypeOK
  <2> QED
    BY <2>1, LoadedAsFrozen DEF TypeOK, DecidesAsFrozen
<1> QED
  BY <1>1, TypeCorrect, PTL

\* A row of the future does not get past the check of the times, which comes
\* before any choice between rows, so that it is as if it were not there.
LEMMA PastIsEnough ==
  ASSUME NEW rows, \A r \in rows : IsRow(r),
         NEW d, NEW c, c # NoValue, {c.feature, c.deadline} \subseteq Int
  PROVE  Accepted(Past(rows, c), d, c) = Accepted(rows, d, c)
<1>1. ASSUME NEW r \in rows, Known(r, d, ContractOf(r, c, d))
      PROVE  ~AfterTheFact(r, c)
  <2>1. ContractOf(r, c, d) = c
    BY DEF ContractOf, ContractOr
  <2>2. {r.event, r.observed, r.available} \subseteq Int /\ r.published \in Int \union {NoValue}
    BY DEF IsRow
  <2> QED
    BY <1>1, <2>1, <2>2 DEF Known, AfterTheFact
<1>2. Timely(Past(rows, c), d, c) = Timely(rows, d, c)
  BY <1>1 DEF Timely, Past
<1> QED
  BY <1>2 DEF Accepted

\* A decision is the one that would have been made had nothing come after the
\* cutoffs, for any inputs and contracts: whatever lies beside the rows that
\* were known in time neither enters it nor displaces one of them.
THEOREM NothingAhead == Spec => []FutureDecidesNothing
<1>1. ASSUME NEW in \in Input
      PROVE  Frozen[in] = FrozenOfPast(in)
  <2> DEFINE d == DecisionTime(contractOf[in])
             c == ContractOr(contractOf[in], d)
  <2>1. c # NoValue
    BY SnapshotStoreAssumption DEF ContractOr, DecisionTime
  <2>2. {c.feature, c.deadline} \subseteq Int
    BY ContractAssumption DEF ContractOr, DecisionTime, SingleCutoff
  <2>3. \A r \in rowsOf[in] \union statusOf[in] : IsRow(r)
    BY RowAssumption
  <2>4. /\ Accepted(Past(rowsOf[in], c), d, c) = Accepted(rowsOf[in], d, c)
        /\ Accepted(Past(statusOf[in], c), d, c) = Accepted(statusOf[in], d, c)
    BY <2>1, <2>2, <2>3, PastIsEnough
  <2> QED
    BY <2>4 DEF Frozen, FrozenOfPast
<1>2. TypeOK => FutureDecidesNothing
  BY <1>1, LoadedAsFrozen DEF TypeOK, FutureDecidesNothing
<1> QED
  BY <1>2, TypeCorrect, PTL

\* Some row of a finite set comes last: a smallest set without one would have
\* one once any of its rows is taken away.
LEMMA SomeRowIsLast ==
  ASSUME NEW S, IsFiniteSet(S), S # {}, \A r \in S : r.at \in Nat
  PROVE  \E last \in S : \A r \in S : r.at <= last.at
<1> DEFINE HasLast(U) == \E last \in U : \A r \in U : r.at <= last.at
           Sizes == {Cardinality(U) : U \in {U \in SUBSET S : U # {} /\ ~HasLast(U)}}
<1>1. SUFFICES ASSUME ~HasLast(S) PROVE FALSE
  OBVIOUS
<1>2. Sizes \subseteq Nat /\ Cardinality(S) \in Sizes
  BY <1>1, FS_Subset, FS_CardinalityType
<1>3. PICK n \in Sizes : \A m \in Sizes : ~(<<m, n>> \in OpToRel(<, Nat))
  <2> HIDE DEF Sizes
  <2> QED
    BY <1>2, WFMin, NatLessThanWellFounded
<1>4. PICK U \in SUBSET S : U # {} /\ ~HasLast(U) /\ n = Cardinality(U)
  BY <1>3
<1>5. PICK x \in U : TRUE
  BY <1>4
<1>6. IsFiniteSet(U) /\ IsFiniteSet(U \ {x}) /\ Cardinality(U \ {x}) = n - 1 /\ n \in Nat
  BY <1>2, <1>3, <1>4, <1>5, FS_Subset, FS_RemoveElement
<1>7. CASE U \ {x} = {}
  BY <1>4, <1>5, <1>7
<1>8. CASE HasLast(U \ {x})
  <2>1. PICK m \in U \ {x} : \A r \in U \ {x} : r.at <= m.at
    BY <1>8
  <2>2. x.at \in Nat /\ \A r \in U : r.at \in Nat
    BY <1>4, <1>5
  <2>3. CASE x.at <= m.at
    BY <1>4, <2>1, <2>3
  <2>4. CASE m.at <= x.at
    <3>1. \A r \in U : r.at <= x.at
      BY <2>1, <2>2, <2>4
    <3> QED
      BY <1>4, <1>5, <3>1
  <2> QED
    BY <2>1, <2>2, <2>3, <2>4
<1>9. CASE U \ {x} # {} /\ ~HasLast(U \ {x})
  <2>1. n - 1 \in Sizes
    BY <1>4, <1>6, <1>9
  <2> HIDE DEF Sizes
  <2>2. n - 1 \in Nat /\ n - 1 < n
    BY <1>2, <1>6, <2>1
  <2> QED
    BY <1>3, <1>6, <2>1, <2>2 DEF OpToRel
<1> QED
  BY <1>7, <1>8, <1>9

\* No two stored rows for the same thing have the same key.
Told(rows) ==
  \A s, t \in Stored(rows) :
    LogicalKey(s) = LogicalKey(t) /\ WinnerKey(s) = WinnerKey(t) => s = t

\* A row beats another for what it is, not for its place, unless the other is a copy.
LEMMA BeatenAsStored ==
  ASSUME NEW rows, \A r \in rows : IsRow(r), Told(rows), NEW r \in rows, NEW q \in rows,
         LogicalKey(r) = LogicalKey(q), Shelved(r) # Shelved(q)
  PROVE  Beats(r, q) <=> Beats(Shelved(r), Shelved(q))
<1> DEFINE a == WinnerKey(q)
           b == WinnerKey(r)
           x == WinnerKey(Shelved(q))
           y == WinnerKey(Shelved(r))
<1>1. /\ \A i \in 1..6 : x[i] = a[i] /\ y[i] = b[i]
      /\ x[7] = 0 /\ y[7] = 0
  BY WinnerKeys
<1>2. x # y
  BY ShelvedIsAlike DEF Told, Stored
<1>3. \E i \in 1..7 : x[i] # y[i]
  <2>1. IsRow(Shelved(q))
    BY ShelvedIsAlike
  <2> QED
    BY <1>2, <2>1, WinnerKeys
<1>4. Beats(r, q) <=> \E i \in 1..7 : a[i] < b[i] /\ \A j \in 1..(i - 1) : a[j] = b[j]
  BY Zenon DEF Beats
<1>5. Beats(Shelved(r), Shelved(q))
        <=> \E i \in 1..7 : x[i] < y[i] /\ \A j \in 1..(i - 1) : x[j] = y[j]
  BY Zenon DEF Beats
<1> HIDE DEF a, b, x, y
<1>6. ASSUME NEW i \in 1..7, a[i] < b[i], \A j \in 1..(i - 1) : a[j] = b[j]
      PROVE  x[i] < y[i] /\ \A j \in 1..(i - 1) : x[j] = y[j]
  <2>1. i \in 1..6
    <3>1. CASE i = 7
      BY <1>1, <1>3, <1>6, <3>1
    <3> QED
      BY <3>1
  <2> QED
    BY <1>1, <1>6, <2>1
<1>7. ASSUME NEW i \in 1..7, x[i] < y[i], \A j \in 1..(i - 1) : x[j] = y[j]
      PROVE  a[i] < b[i] /\ \A j \in 1..(i - 1) : a[j] = b[j]
  <2>1. i \in 1..6
    BY <1>1, <1>7
  <2> QED
    BY <1>1, <1>7, <2>1
<1> QED
  BY <1>4, <1>5, <1>6, <1>7

\* Of copies the last one of the list wins.
LEMMA LastCopyWins ==
  ASSUME NEW r, NEW q, IsRow(r), IsRow(q), Shelved(r) = Shelved(q), r # q, q.at <= r.at
  PROVE  Beats(r, q)
<1>1. r.at # q.at
  <2>1. \A f \in RowFields \ {"at"} : r[f] = q[f]
    <3> SUFFICES ASSUME NEW f \in RowFields \ {"at"} PROVE r[f] = q[f]
      OBVIOUS
    <3>1. Shelved(r)[f] = r[f] /\ Shelved(q)[f] = q[f]
      BY DEF Shelved, IsRow
    <3> QED
      BY <3>1
  <2> QED
    BY <2>1 DEF IsRow
<1>2. q.at < r.at
  BY <1>1 DEF IsRow
<1>3. \A i \in 1..6 : WinnerKey(q)[i] = WinnerKey(r)[i]
  BY WinnerKeys
<1>4. WinnerKey(q)[7] < WinnerKey(r)[7]
  BY <1>2, WinnerKeys
<1> DEFINE a == WinnerKey(q)
           b == WinnerKey(r)
<1>5. Beats(r, q) <=> \E i \in 1..7 : a[i] < b[i] /\ \A j \in 1..(i - 1) : a[j] = b[j]
  BY Zenon DEF Beats
<1>6. 7 \in 1..7 /\ \A j \in 1..(7 - 1) : a[j] = b[j]
  BY <1>3
<1> QED
  BY <1>4, <1>5, <1>6

\* What is accepted depends on the set of stored rows.
LEMMA AcceptedOfStored ==
  ASSUME NEW rows, NEW d, NEW c, IsFiniteSet(rows), \A r \in rows : IsRow(r), Told(rows)
  PROVE  Accepted(rows, d, c) = Winners(Timely(Stored(rows), d, c))
<1> DEFINE known == Timely(rows, d, c)
           stored == Timely(Stored(rows), d, c)
<1>1. known \subseteq rows
  BY DEF Timely
<1>2. \A r \in rows : r \in known <=> Shelved(r) \in stored
  BY ShelvedIsAlike DEF Timely, Stored
<1>3. \A s \in stored : \E r \in known : s = Shelved(r)
  BY <1>2 DEF Timely, Stored
<1>4. ASSUME NEW s \in Accepted(rows, d, c)
      PROVE  s \in Winners(stored)
  <2>1. PICK r \in Winners(known) : s = Shelved(r)
    BY DEF Accepted, Stored
  <2>2. r \in known /\ \A q \in known \ {r} : LogicalKey(q) = LogicalKey(r) => Beats(r, q)
    BY <2>1 DEF Winners
  <2> SUFFICES ASSUME NEW t \in stored \ {s}, LogicalKey(t) = LogicalKey(s)
               PROVE  Beats(s, t)
    BY <1>1, <1>2, <2>1, <2>2 DEF Winners
  <2>3. PICK q \in known : t = Shelved(q)
    BY <1>3
  <2>4. LogicalKey(q) = LogicalKey(r) /\ q # r
    BY <1>1, <2>1, <2>2, <2>3, ShelvedIsAlike
  <2> QED
    BY <1>1, <2>1, <2>2, <2>3, <2>4, BeatenAsStored
<1>5. ASSUME NEW s \in Winners(stored)
      PROVE  s \in Accepted(rows, d, c)
  <2>1. s \in stored /\ \A t \in stored \ {s} : LogicalKey(t) = LogicalKey(s) => Beats(s, t)
    BY DEF Winners
  <2> DEFINE copies == {r \in known : Shelved(r) = s}
  <2>2. copies # {} /\ IsFiniteSet(copies) /\ \A r \in copies : IsRow(r)
    BY <1>1, <1>3, <2>1, FS_Subset
  <2>3. PICK r \in copies : \A q \in copies : q.at <= r.at
    <3>1. \A q \in copies : q.at \in Nat
      BY <2>2 DEF IsRow
    <3> HIDE DEF copies
    <3> QED
      BY <2>2, <3>1, SomeRowIsLast
  <2>4. ASSUME NEW q \in known \ {r}, LogicalKey(q) = LogicalKey(r)
        PROVE  Beats(r, q)
    <3>1. CASE Shelved(q) = s
      BY <1>1, <2>2, <2>3, <2>4, <3>1, LastCopyWins
    <3>2. CASE Shelved(q) # s
      <4>1. Shelved(q) \in stored \ {s} /\ LogicalKey(Shelved(q)) = LogicalKey(s) /\ Shelved(r) = s
        BY <1>1, <1>2, <2>3, <2>4, <3>2, ShelvedIsAlike
      <4>2. Beats(Shelved(r), Shelved(q))
        BY <2>1, <4>1
      <4> QED
        BY <1>1, <2>3, <2>4, <4>1, <4>2, BeatenAsStored
    <3> QED
      BY <3>1, <3>2
  <2>5. r \in Winners(known) /\ Shelved(r) = s
    BY <2>3, <2>4 DEF Winners
  <2> QED
    BY <2>5 DEF Accepted, Stored
<1> QED
  BY <1>4, <1>5

\* What is refused: the rows that are not accepted, and further copies of those that are.
LEMMA RejectedOfStored ==
  ASSUME NEW rows, NEW d, NEW c, IsFiniteSet(rows), \A r \in rows : IsRow(r), NEW s \in Stored(rows)
  PROVE  s \in Rejected(rows, d, c)
           <=> s \notin Accepted(rows, d, c) \/ Cardinality(Copies(rows, s)) # 1
<1> DEFINE won == Winners(Timely(rows, d, c))
<1>1. won \subseteq rows
  BY DEF Winners, Timely
<1>2. Copies(rows, s) # {} /\ IsFiniteSet(Copies(rows, s)) /\ Copies(rows, s) \subseteq rows
  BY FS_Subset DEF Stored, Copies
<1>3. s \in Accepted(rows, d, c) <=> \E r \in won : r \in Copies(rows, s)
  BY <1>1 DEF Accepted, Stored, Copies
<1>4. s \in Rejected(rows, d, c) <=> \E r \in Copies(rows, s) : r \notin won
  BY DEF Rejected, Stored, Copies
<1>5. \A r, q \in won : r \in Copies(rows, s) /\ q \in Copies(rows, s) => r = q
  <2>1. \A r \in Timely(rows, d, c) : IsRow(r)
    BY DEF Timely
  <2>2. \A r \in Copies(rows, s) : LogicalKey(r) = LogicalKey(s)
    BY ShelvedIsAlike DEF Copies
  <2> QED
    BY <2>1, <2>2, WinnersDiffer
<1>6. Cardinality(Copies(rows, s)) = 1 <=> \E r : Copies(rows, s) = {r}
  BY <1>2, FS_Singleton
<1> HIDE DEF won
<1> QED
  BY <1>2, <1>3, <1>4, <1>5, <1>6

\* So two lists of the same rows, each as often, give the same.
LEMMA FilteredInAnyOrder ==
  ASSUME NEW rows, NEW other, NEW d, NEW c, IsFiniteSet(rows), IsFiniteSet(other),
         \A r \in rows \union other : IsRow(r), Told(rows), Reordered(rows, other)
  PROVE  /\ Accepted(rows, d, c) = Accepted(other, d, c)
         /\ Rejected(rows, d, c) = Rejected(other, d, c)
<1>1. \A s : /\ IsFiniteSet(Copies(rows, s)) /\ (s \in Stored(rows) <=> Copies(rows, s) # {})
             /\ IsFiniteSet(Copies(other, s)) /\ (s \in Stored(other) <=> Copies(other, s) # {})
  BY FS_Subset DEF Copies, Stored
<1>2. Stored(rows) = Stored(other)
  BY <1>1, FS_EmptySet DEF Reordered
<1>3. Told(other)
  BY <1>2 DEF Told
<1>4. Accepted(rows, d, c) = Accepted(other, d, c)
  BY <1>2, <1>3, AcceptedOfStored
<1>5. Rejected(rows, d, c) \subseteq Stored(rows) /\ Rejected(other, d, c) \subseteq Stored(other)
  BY DEF Rejected, Stored
<1>6. \A s \in Stored(rows) : s \in Rejected(rows, d, c) <=> s \in Rejected(other, d, c)
  BY <1>2, <1>4, RejectedOfStored DEF Reordered
<1> QED
  BY <1>2, <1>4, <1>5, <1>6

\* The order of an input's rows does not decide whether it is the frozen one,
\* where the winner key tells the rows apart, for any inputs
\* (normalize_point_in_time_records, filter_source_status_at, write_once).
THEOREM OrderDecidesNothing == Spec => []OrderIrrelevant
<1>1. ASSUME NEW in \in Input, NEW other \in Input, SameRows(in, other),
             Unambiguous(Stored(rowsOf[in]))
      PROVE  Same(Day, in, other)
  <2> DEFINE d == DecisionTime(contractOf[in])
             c == ContractOr(contractOf[in], d)
  <2>1. /\ \A r \in rowsOf[in] \union rowsOf[other] : IsRow(r) /\ r.type # "source_status"
        /\ \A r \in statusOf[in] \union statusOf[other] : IsRow(r)
        /\ IsFiniteSet(rowsOf[in]) /\ IsFiniteSet(rowsOf[other])
        /\ IsFiniteSet(statusOf[in]) /\ IsFiniteSet(statusOf[other])
    BY RowAssumption
  <2>2. Told(statusOf[in])
    <3> SUFFICES ASSUME NEW s \in Stored(statusOf[in]), NEW t \in Stored(statusOf[in]),
                        WinnerKey(s) = WinnerKey(t)
                 PROVE  s = t
      BY DEF Told
    <3>1. s.type = "source_status" /\ t.type = "source_status"
      BY RowAssumption DEF Stored, Shelved, IsRow, RowFields
    <3>2. \A f \in HashedFields : s[f] = t[f]
      BY <3>1 DEF WinnerKey, HashedFields
    <3> QED
      BY <3>2, RowAssumption
  <2>3. Told(rowsOf[in])
    <3> SUFFICES ASSUME NEW s \in Stored(rowsOf[in]), NEW t \in Stored(rowsOf[in]),
                        LogicalKey(s) = LogicalKey(t), WinnerKey(s) = WinnerKey(t)
                 PROVE  s = t
      BY DEF Told
    <3>1. s.type # "source_status" /\ t.type # "source_status"
      BY <2>1 DEF Stored, Shelved, IsRow, RowFields
    <3>2. Telling(s) = Telling(t)
      BY <3>1 DEF WinnerKey, Telling
    <3> QED
      BY <1>1, <3>2 DEF Unambiguous
  <2>4. contractOf[other] = contractOf[in] /\ Reordered(rowsOf[in], rowsOf[other])
        /\ Reordered(statusOf[in], statusOf[other])
    BY <1>1 DEF SameRows
  <2>5. /\ Accepted(rowsOf[in], d, c) = Accepted(rowsOf[other], d, c)
        /\ Rejected(rowsOf[in], d, c) = Rejected(rowsOf[other], d, c)
        /\ Accepted(statusOf[in], d, c) = Accepted(statusOf[other], d, c)
    BY <2>1, <2>2, <2>3, <2>4, FilteredInAnyOrder
  <2> HIDE DEF d, c
  <2>6. \A rows, stat : Snapshot(in, d, c, rows, stat) = Snapshot(other, d, c, rows, stat)
    BY <2>4, <2>5 DEF Snapshot
  <2>7. Frozen[in] = Frozen[other]
    BY <2>4, <2>5, <2>6 DEF Frozen, d, c
  <2> QED
    BY <2>7, SnapshotStoreAssumption DEF Same
<1>2. ASSUME NEW in \in Input, NEW other \in Input, SameRows(other, in),
             Unambiguous(Stored(rowsOf[in]))
      PROVE  Same(Day, other, in)
  <2>1. SameRows(in, other)
    BY <1>2 DEF SameRows, Reordered
  <2>2. Same(Day, in, other)
    BY <1>1, <1>2, <2>1
  <2> QED
    BY <2>2, SnapshotStoreAssumption DEF Same
<1>3. TypeOK => OrderIrrelevant
  <2> SUFFICES ASSUME TypeOK PROVE OrderIrrelevant
    OBVIOUS
  <2>1. \A i \in DOMAIN published : published[i] \in Input \union {Torn}
    BY DEF TypeOK
  <2>2. \A p \in Process : input[p] \in Input \union {Nobody}
    BY DEF TypeOK
  <2> QED
    BY <1>2, <2>1, <2>2 DEF OrderIrrelevant
<1> QED
  BY <1>3, TypeCorrect, PTL

(* ---------------------------- the daily freeze -------------------------- *)

\* A controller that has not yet made its directory, and one that has; whose
\* directory, or processes, are at stake.
Searching(c) == at[c] \in {"guard", "lock", "mkdir"}
Working == Body \ {"guard", "lock", "mkdir"}
Made(c) == at[c] \in Working
Touched(c) == Made(c) \/ step[c] # "none"

SentOf(d) == {i \in 1..N : sent[d][i] > 0}
Untouched(d) == /\ receipts[d] = [i \in 1..N |-> "none"]
                /\ sent[d] = [i \in 1..N |-> 0]
                /\ ~Has(d, "final-outcome")
Published(d) == Has(d, "final-outcome") /\ files[d]["final-outcome"] = "ok"

\* What lives was started under the lock, and the lock stays with it.
LockOf(c) ==
  /\ owned[c] => lock = c /\ at[c] \in Working \union {"mkdir", "except", "finally"}
  /\ at[c] \in (Working \ {"final", "last"}) \union {"mkdir"} => owned[c]
  /\ alive[c] # {} => lock = c /\ (owned[c] => ~cleaned[c]) /\ step[c] # "none"
  /\ at[c] \in {"idle", "guard", "lock", "mkdir", "intent", "dispatch"} => step[c] = "none"
  /\ attempted[c] \/ status[c] # "none" => at[c] \in Body \union {"except", "finally"}
LockInv == \A c \in Controller : LockOf(c)

\* A directory is made, and worked on, by one controller.
TouchInv ==
  /\ \A c \in Controller : Touched(c) => dir[c] \in dirs
  /\ \A b, c \in Controller : Touched(b) /\ Touched(c) /\ dir[b] = dir[c] => b = c
  /\ \A d \in Directory \ dirs : Untouched(d)
  /\ \A c \in Controller :
       /\ at[c] \in {"intent", "dispatch"} => Untouched(dir[c])
       /\ at[c] \in Working \ {"last"} => ~Has(dir[c], "final-outcome")

\* The requests go out one after the other, each after the answer to the last.
CountOf(c) ==
    /\ step[c] = "budget" => \E k \in 0..(N - 1) : Received(dir[c]) = 1..k /\ SentOf(dir[c]) = 1..k
    /\ step[c] = "sent" => \E k \in 0..(N - 1) : Received(dir[c]) = 1..k /\ SentOf(dir[c]) = 1..(k + 1)
    /\ step[c] \in {"outputs", "answered"} => SentOf(dir[c]) = 1..N
    /\ status[c] = "EXECUTION_COMPLETE" =>
         /\ SentOf(dir[c]) = 1..N /\ alive[c] = {} /\ step[c] # "none"
         /\ at[c] \notin {"dispatch", "wait"}
    /\ Published(dir[c]) => alive[c] = {}
CountInv == \A c \in Controller : CountOf(c)

\* Controllers that did not meet leave a directory to one of them.
RaceInv ==
  \A b, c \in Controller : b # c /\ dir[b] = dir[c] /\ dir[c] \notin raced =>
    /\ ~(Searching(b) /\ Searching(c))
    /\ Touched(c) => ~Searching(b) /\ ~owned[b]

\* What a complete execution has left.
Good(d) == /\ MaterialWhole(d, TRUE)
           /\ Has(d, "execution") /\ files[d]["execution"] = "ok"
           /\ Has(d, "capture-complete") /\ files[d]["capture-complete"] = "ok"

IsAnchors(a) == a = [contents |-> a.contents, source |-> a.source, final |-> a.final,
                     finished |-> a.finished]

\* A controller on its way to a success, its end, and what it returned.
Succeeding(c) ==
  at[c] \in {"release", "final", "last"} /\ status[c] = "EXECUTION_COMPLETE" =>
    Good(dir[c]) /\ anchors[c].source
Concluding(c) ==
  /\ at[c] = "last" => /\ Has(dir[c], "final-outcome")
                       /\ Published(dir[c]) <=> status[c] = "EXECUTION_COMPLETE"
  /\ at[c] \in {"observation", "again", "verify", "release", "final", "last"} => IsAnchors(anchors[c])
Concluded(c) ==
  /\ anchors[c] # NoAnchors /\ anchors[c].final =>
       /\ at[c] \in {"finally", "returned"}
       /\ \/ report[c] = "success"
          \/ anchors[c].finished \in {"at the limit", "late"}
          \/ Has(dir[c], "final-outcome") /\ ~Published(dir[c])
  /\ report[c] # "none" => at[c] \in {"finally", "returned"}
Succeeded(c) ==
  report[c] = "success" =>
    /\ step[c] # "none" /\ alive[c] = {}
    /\ dir[c] \notin raced => Verifies(dir[c], anchors[c], TRUE)
OutcomeInv == \A c \in Controller : Succeeding(c) /\ Concluding(c) /\ Concluded(c) /\ Succeeded(c)

Controls(c) ==
  \/ CheckInputs(c) \/ CheckGuard(c) \/ TakeLock(c) \/ MakeDirectory(c) \/ WriteIntent(c)
  \/ Dispatch(c) \/ WorkerReturns(c) \/ WriteExecution(c) \/ Anchor(c) \/ WriteObservation(c)
  \/ AnchorAgain(c) \/ VerifyAgain(c) \/ Release(c) \/ WriteFinal(c) \/ LastAnchors(c)
  \/ Raise(c) \/ Except(c) \/ Finally(c) \/ ControllerDies(c) \/ Pass(c)
Coordinates(c) ==
  \/ SendRequest(c) \/ Seal(c) \/ Receive(c) \/ WriteOutput(c) \/ CoordinatorRaises(c)
  \/ WriteFailure(c) \/ Ends(c)

\* What a write leaves of the files.
LEMMA PutIs ==
  ASSUME DOMAIN files = Directory, NEW d \in Directory, NEW name, NEW value, Put(d, name, value)
  PROVE  /\ UNCHANGED <<raws, receipts>> /\ ~Has(d, name)
         /\ DOMAIN files' = Directory
         /\ DOMAIN files'[d] = DOMAIN files[d] \union {name}
         /\ \A e \in Directory : \A n : Has(e, n)' <=> Has(e, n) \/ (e = d /\ n = name)
         /\ \A e \in Directory : \A n : Has(e, n) => files'[e][n] = files[e][n]
         /\ files'[d][name] = value
         /\ \A e \in Directory : e # d => files'[e] = files[e]
<1>1. /\ ~Has(d, name) /\ UNCHANGED <<raws, receipts>>
      /\ files' = [files EXCEPT ![d] = [n \in DOMAIN files[d] \union {name} |->
                                          IF n = name THEN value ELSE files[d][n]]]
  BY DEF Put
<1> QED
  BY <1>1 DEF Has

\* The names of the files, one by one.
LEMMA NamesAre ==
  Names = {"intent", "failure", "execution", "observation", "final-outcome", "controller-failure",
           "source", "manifest", "input-validation", "capture-complete"}
<1>1. Outputs[1] = "source" /\ Outputs[2] = "manifest" /\ Outputs[3] = "input-validation"
      /\ Outputs[4] = "capture-complete"
  BY DEF Outputs
<1>2. {Outputs[i] : i \in 1..4} = {Outputs[1], Outputs[2], Outputs[3], Outputs[4]}
  <2>1. 1..4 = {1, 2, 3, 4}
    OBVIOUS
  <2> QED
    BY <2>1
<1> QED
  BY <1>1, <1>2 DEF Names, Reports

ControllerPlaces == Body \union {"idle", "except", "finally", "returned", "dead"}
Statuses == {"none", "EXECUTION_COMPLETE", "EXECUTION_FAILED", "FINAL_VERIFICATION_FAILED"}
Answers == {"none", "success", "late", "rejected", "controller-failed", "request-rejected"}
Steps == {"none", "budget", "sent", "outputs", "answered", "failing", "failed"}

\* Every step keeps the types.
LEMMA FreezeTypeStep ==
  ASSUME FreezeTypeOK, FreezeNext \/ UNCHANGED freezeVars
  PROVE  FreezeTypeOK'
<1> USE FreezeAssumption DEF FreezeTypeOK, shared, locals, workers, past, Move, Return, Fault, Forget
<1>p. ASSUME NEW d \in Directory, NEW name \in Names, NEW value, Put(d, name, value)
      PROVE  /\ UNCHANGED <<raws, receipts>> /\ DOMAIN files' = Directory
             /\ \A e \in Directory : DOMAIN files'[e] \subseteq Names
  <2>1. /\ UNCHANGED <<raws, receipts>> /\ DOMAIN files' = Directory
        /\ DOMAIN files'[d] = DOMAIN files[d] \union {name}
        /\ \A e \in Directory : e # d => files'[e] = files[e]
    BY <1>p, PutIs
  <2>2. \A e \in Directory : DOMAIN files[e] \subseteq Names
    OBVIOUS
  <2> QED
    BY <2>1, <2>2
<1>n. "intent" \in Names /\ "execution" \in Names /\ "observation" \in Names
      /\ "final-outcome" \in Names /\ "controller-failure" \in Names /\ "failure" \in Names
      /\ \A k \in 1..4 : Outputs[k] \in Names
  BY NamesAre DEF Names
<1>b. Body = {"guard", "lock", "mkdir", "intent", "dispatch", "wait", "execution", "anchor",
              "observation", "again", "verify", "release", "final", "last"}
  BY DEF Body
<1>tat. at \in [Controller -> ControllerPlaces]
  BY DEF ControllerPlaces, Statuses, Answers, Steps
<1>towned. owned \in [Controller -> BOOLEAN]
  BY DEF ControllerPlaces, Statuses, Answers, Steps
<1>tcleaned. cleaned \in [Controller -> BOOLEAN]
  BY DEF ControllerPlaces, Statuses, Answers, Steps
<1>tattempted. attempted \in [Controller -> BOOLEAN]
  BY DEF ControllerPlaces, Statuses, Answers, Steps
<1>tstatus. status \in [Controller -> Statuses]
  BY DEF ControllerPlaces, Statuses, Answers, Steps
<1>treport. report \in [Controller -> Answers]
  BY DEF ControllerPlaces, Statuses, Answers, Steps
<1>tstep. step \in [Controller -> Steps]
  BY DEF ControllerPlaces, Statuses, Answers, Steps
<1>talive. alive \in [Controller -> SUBSET {"coordinator", "request"}]
  BY DEF ControllerPlaces, Statuses, Answers, Steps
<1>treceipts. receipts \in [Directory -> [1..N -> {"none", "ok", "failed"}]]
  BY DEF ControllerPlaces, Statuses, Answers, Steps
<1>tsent. sent \in [Directory -> [1..N -> Nat]]
  BY DEF ControllerPlaces, Statuses, Answers, Steps
<1>ttime. time \in [Controller -> Times]
  BY DEF ControllerPlaces, Statuses, Answers, Steps
<1>1. ASSUME NEW c \in Controller, CheckInputs(c) PROVE FreezeTypeOK'
  <2>1. /\ \E place \in {"except", "guard"} : at' = [at EXCEPT ![c] = place]
        /\ raced' \subseteq Directory
        /\ UNCHANGED <<shared, locals, workers, faults>>
    BY <1>1 DEF CheckInputs
  <2>10. at' \in [Controller -> ControllerPlaces]
    BY ONLY <2>1, <1>tat DEF ControllerPlaces, Body
  <2> QED
    BY ONLY FreezeTypeOK, <2>1, <2>10
       DEF FreezeTypeOK, shared, locals, workers, past, ControllerPlaces, Statuses, Answers, Steps
<1>2. ASSUME NEW c \in Controller, CheckGuard(c) PROVE FreezeTypeOK'
  BY <1>2, <1>b DEF CheckGuard
<1>3. ASSUME NEW c \in Controller, TakeLock(c) PROVE FreezeTypeOK'
  <2>1. /\ \E place \in {"except", "mkdir"} : at' = [at EXCEPT ![c] = place]
        /\ lock' \in Controller \union {NoController}
        /\ owned' = owned \/ owned' = [owned EXCEPT ![c] = TRUE]
        /\ faults' \in 0..MaxFaults
        /\ UNCHANGED <<dirs, files, raws, receipts, guard, dir, time, cleaned, attempted, status, anchors,
                       report, workers, raced>>
    BY <1>3 DEF TakeLock
  <2>10. at' \in [Controller -> ControllerPlaces]
    BY ONLY <2>1, <1>tat DEF ControllerPlaces, Body
  <2>11. owned' \in [Controller -> BOOLEAN]
    BY ONLY <2>1, <1>towned
  <2> QED
    BY ONLY FreezeTypeOK, <2>1, <2>10, <2>11
       DEF FreezeTypeOK, shared, locals, workers, past, ControllerPlaces, Statuses, Answers, Steps
<1>4. ASSUME NEW c \in Controller, MakeDirectory(c) PROVE FreezeTypeOK'
  BY <1>4, <1>b DEF MakeDirectory
<1>5. ASSUME NEW c \in Controller, WriteIntent(c) PROVE FreezeTypeOK'
  BY <1>5, <1>b, <1>p, <1>n DEF WriteIntent
<1>6. ASSUME NEW c \in Controller, Dispatch(c) PROVE FreezeTypeOK'
  <2>1. /\ at' = [at EXCEPT ![c] = "wait"]
        /\ cleaned' = [cleaned EXCEPT ![c] = FALSE] /\ attempted' = [attempted EXCEPT ![c] = TRUE]
        /\ step' = step \/ step' = [step EXCEPT ![c] = "budget"]
        /\ alive' = alive \/ alive' = [alive EXCEPT ![c] = {"coordinator"}]
        /\ faults' \in 0..MaxFaults
        /\ UNCHANGED <<shared, dir, time, owned, status, anchors, report, sent, raced>>
    BY <1>6 DEF Dispatch
  <2>10. at' \in [Controller -> ControllerPlaces]
    BY ONLY <2>1, <1>tat DEF ControllerPlaces, Body
  <2>11. cleaned' \in [Controller -> BOOLEAN]
    BY ONLY <2>1, <1>tcleaned
  <2>12. attempted' \in [Controller -> BOOLEAN]
    BY ONLY <2>1, <1>tattempted
  <2>13. step' \in [Controller -> Steps]
    BY ONLY <2>1, <1>tstep DEF Steps
  <2>14. alive' \in [Controller -> SUBSET {"coordinator", "request"}]
    BY ONLY <2>1, <1>talive
  <2> QED
    BY ONLY FreezeTypeOK, <2>1, <2>10, <2>11, <2>12, <2>13, <2>14
       DEF FreezeTypeOK, shared, locals, workers, past, ControllerPlaces, Statuses, Answers, Steps
<1>7. ASSUME NEW c \in Controller, WorkerReturns(c) PROVE FreezeTypeOK'
  <2>1. /\ \E place \in {"execution", "except"} : at' = [at EXCEPT ![c] = place]
        /\ \E how \in {"EXECUTION_COMPLETE", "EXECUTION_FAILED"} : status' = [status EXCEPT ![c] = how]
        /\ cleaned' = cleaned \/ cleaned' = [cleaned EXCEPT ![c] = TRUE]
        /\ alive' = alive \/ alive' = [alive EXCEPT ![c] = {}]
        /\ faults' \in 0..MaxFaults /\ guard' \in BOOLEAN
        /\ UNCHANGED <<dirs, files, raws, receipts, lock, dir, time, owned, attempted, anchors, report,
                       step, sent, raced>>
    <3>1. /\ \E place \in {"execution", "except"} : at' = [at EXCEPT ![c] = place]
          /\ \E how \in {"EXECUTION_COMPLETE", "EXECUTION_FAILED"} : status' = [status EXCEPT ![c] = how]
      BY <1>7 DEF WorkerReturns
    <3>2. cleaned' = cleaned \/ cleaned' = [cleaned EXCEPT ![c] = TRUE]
      BY <1>7 DEF WorkerReturns
    <3>3. alive' = alive \/ alive' = [alive EXCEPT ![c] = {}]
      BY <1>7 DEF WorkerReturns
    <3>4. faults' \in 0..MaxFaults
      BY <1>7 DEF WorkerReturns
    <3>5. guard' \in BOOLEAN
      BY <1>7 DEF WorkerReturns
    <3>6. UNCHANGED <<dirs, files, raws, receipts, lock, dir, time, owned, attempted, anchors, report,
                      step, sent, raced>>
      BY <1>7 DEF WorkerReturns
    <3> QED
      BY ONLY <3>1, <3>2, <3>3, <3>4, <3>5, <3>6
  <2>10. at' \in [Controller -> ControllerPlaces]
    BY ONLY <2>1, <1>tat DEF ControllerPlaces, Body
  <2>11. status' \in [Controller -> Statuses]
    BY ONLY <2>1, <1>tstatus DEF Statuses
  <2>12. cleaned' \in [Controller -> BOOLEAN]
    BY ONLY <2>1, <1>tcleaned
  <2>13. alive' \in [Controller -> SUBSET {"coordinator", "request"}]
    BY ONLY <2>1, <1>talive
  <2> QED
    BY ONLY FreezeTypeOK, <2>1, <2>10, <2>11, <2>12, <2>13
       DEF FreezeTypeOK, shared, locals, workers, past, ControllerPlaces, Statuses, Answers, Steps
<1>8. ASSUME NEW c \in Controller, WriteExecution(c) PROVE FreezeTypeOK'
  BY <1>8, <1>b, <1>p, <1>n DEF WriteExecution
<1>9. ASSUME NEW c \in Controller, Anchor(c) PROVE FreezeTypeOK'
  <2>1. /\ \E a : anchors' = [anchors EXCEPT ![c] = a]
        /\ \E place \in {"finally", "verify", "observation"} : at' = [at EXCEPT ![c] = place]
        /\ report' = report \/ \E how \in {"late", "rejected"} : report' = [report EXCEPT ![c] = how]
        /\ UNCHANGED <<shared, dir, time, owned, cleaned, attempted, status, workers, past>>
    BY <1>9 DEF Anchor
  <2>10. at' \in [Controller -> ControllerPlaces]
    BY ONLY <2>1, <1>tat DEF ControllerPlaces, Body
  <2>11. report' \in [Controller -> Answers]
    BY ONLY <2>1, <1>treport DEF Answers
  <2> QED
    BY ONLY FreezeTypeOK, <2>1, <2>10, <2>11
       DEF FreezeTypeOK, shared, locals, workers, past, ControllerPlaces, Statuses, Answers, Steps
<1>10. ASSUME NEW c \in Controller, WriteObservation(c) PROVE FreezeTypeOK'
  BY <1>10, <1>b, <1>p, <1>n DEF WriteObservation
<1>11. ASSUME NEW c \in Controller, AnchorAgain(c) PROVE FreezeTypeOK'
  <2>1. /\ \E a : anchors' = [anchors EXCEPT ![c] = a]
        /\ \E place \in {"finally", "verify"} : at' = [at EXCEPT ![c] = place]
        /\ report' = report \/ report' = [report EXCEPT ![c] = "late"]
        /\ UNCHANGED <<shared, dir, time, owned, cleaned, attempted, status, workers, past>>
    BY <1>11 DEF AnchorAgain
  <2>10. at' \in [Controller -> ControllerPlaces]
    BY ONLY <2>1, <1>tat DEF ControllerPlaces, Body
  <2>11. report' \in [Controller -> Answers]
    BY ONLY <2>1, <1>treport DEF Answers
  <2> QED
    BY ONLY FreezeTypeOK, <2>1, <2>10, <2>11
       DEF FreezeTypeOK, shared, locals, workers, past, ControllerPlaces, Statuses, Answers, Steps
<1>12. ASSUME NEW c \in Controller, VerifyAgain(c) PROVE FreezeTypeOK'
  BY <1>12, <1>b DEF VerifyAgain
<1>13. ASSUME NEW c \in Controller, Release(c) PROVE FreezeTypeOK'
  BY <1>13, <1>b DEF Release
<1>14. ASSUME NEW c \in Controller, WriteFinal(c) PROVE FreezeTypeOK'
  BY <1>14, <1>b, <1>p, <1>n DEF WriteFinal
<1>15. ASSUME NEW c \in Controller, LastAnchors(c) PROVE FreezeTypeOK'
  BY <1>15, <1>b DEF LastAnchors
<1>16. ASSUME NEW c \in Controller, Raise(c) PROVE FreezeTypeOK'
  BY <1>16, <1>b DEF Raise
<1>17. ASSUME NEW c \in Controller, Except(c) PROVE FreezeTypeOK'
  BY <1>17, <1>b, <1>p, <1>n DEF Except
<1>18. ASSUME NEW c \in Controller, Finally(c) PROVE FreezeTypeOK'
  BY <1>18, <1>b DEF Finally
<1>19. ASSUME NEW c \in Controller, ControllerDies(c) PROVE FreezeTypeOK'
  <2>1. /\ at' = [at EXCEPT ![c] = "dead"] /\ faults' \in 0..MaxFaults
        /\ report' = [report EXCEPT ![c] = "none"] /\ anchors' = [anchors EXCEPT ![c] = NoAnchors]
        /\ owned' = [owned EXCEPT ![c] = FALSE] /\ cleaned' = [cleaned EXCEPT ![c] = TRUE]
        /\ attempted' = [attempted EXCEPT ![c] = FALSE] /\ status' = [status EXCEPT ![c] = "none"]
        /\ alive' = alive \/ alive' = [alive EXCEPT ![c] = {}]
        /\ UNCHANGED <<shared, dir, time, step, sent, raced>>
    BY <1>19 DEF ControllerDies
  <2>10. at' \in [Controller -> ControllerPlaces]
    BY ONLY <2>1, <1>tat DEF ControllerPlaces, Body
  <2>11. report' \in [Controller -> Answers]
    BY ONLY <2>1, <1>treport DEF Answers
  <2>12. owned' \in [Controller -> BOOLEAN]
    BY ONLY <2>1, <1>towned
  <2>13. cleaned' \in [Controller -> BOOLEAN]
    BY ONLY <2>1, <1>tcleaned
  <2>14. attempted' \in [Controller -> BOOLEAN]
    BY ONLY <2>1, <1>tattempted
  <2>15. status' \in [Controller -> Statuses]
    BY ONLY <2>1, <1>tstatus DEF Statuses
  <2>16. alive' \in [Controller -> SUBSET {"coordinator", "request"}]
    BY ONLY <2>1, <1>talive
  <2> QED
    BY ONLY FreezeTypeOK, <2>1, <2>10, <2>11, <2>12, <2>13, <2>14, <2>15, <2>16
       DEF FreezeTypeOK, shared, locals, workers, past, ControllerPlaces, Statuses, Answers, Steps
<1>20. ASSUME NEW c \in Controller, Pass(c) PROVE FreezeTypeOK'
  <2>1. /\ time[c] \in Times /\ time[c] < 2 /\ time' = [time EXCEPT ![c] = time[c] + 1]
        /\ faults' \in 0..MaxFaults
        /\ UNCHANGED <<shared, at, dir, owned, cleaned, attempted, status, anchors, report, workers, raced>>
    BY <1>20 DEF Pass
  <2>2. time[c] + 1 \in Times
    BY <2>1 DEF Times
  <2> HIDE DEF Times
  <2> QED
    BY <2>1, <2>2
<1>21. ASSUME NEW c \in Controller, SendRequest(c) PROVE FreezeTypeOK'
  <2>1. /\ \E place \in {"sent", "failing"} : step' = [step EXCEPT ![c] = place]
        /\ alive' = alive \/ alive' = [alive EXCEPT ![c] = alive[c] \union {"request"}]
        /\ \/ sent' = sent
           \/ sent' = [sent EXCEPT ![dir[c]][Current(dir[c])] = @ + 1]
        /\ UNCHANGED <<shared, at, locals, past>>
    BY <1>21 DEF SendRequest, Advance
  <2>10. step' \in [Controller -> Steps]
    BY ONLY <2>1, <1>tstep DEF Steps
  <2>11. alive' \in [Controller -> SUBSET {"coordinator", "request"}]
    BY ONLY <2>1, <1>talive
  <2>12. sent' \in [Directory -> [1..N -> Nat]]
    <3> DEFINE d == dir[c]
               k == Current(d)
               row == [sent[d] EXCEPT ![k] = @ + 1]
    <3>1. d \in Directory /\ sent[d] \in [1..N -> Nat]
      BY ONLY FreezeTypeOK, c \in Controller, <1>tsent DEF FreezeTypeOK
    <3>2. row \in [1..N -> Nat]
      <4> DEFINE old == sent[d]
                 more == sent[d][k] + 1
      <4>1. old \in [1..N -> Nat] /\ (k \in 1..N => more \in Nat)
        <5>1. \A f \in [1..N -> Nat], i \in 1..N : f[i] + 1 \in Nat
          OBVIOUS
        <5> QED
          BY ONLY <3>1, <5>1 DEF old, more
      <4>2. row = [old EXCEPT ![k] = more]
        OBVIOUS
      <4> HIDE DEF old, more, row, k
      <4> QED
        BY ONLY <4>1, <4>2
    <3>3. sent' = sent \/ sent' = [sent EXCEPT ![d] = row]
      BY ONLY <2>1
    <3> HIDE DEF row, d
    <3> QED
      BY ONLY <3>1, <3>2, <3>3, <1>tsent
  <2> QED
    BY ONLY FreezeTypeOK, <2>1, <2>10, <2>11, <2>12
       DEF FreezeTypeOK, shared, locals, workers, past, ControllerPlaces, Statuses, Answers, Steps
<1>22. ASSUME NEW c \in Controller, Seal(c) PROVE FreezeTypeOK'
  BY <1>22, <1>b DEF Seal
<1>23. ASSUME NEW c \in Controller, Receive(c) PROVE FreezeTypeOK'
  <2>1. /\ \E place \in {"outputs", "budget", "failing"} : step' = [step EXCEPT ![c] = place]
        /\ alive' = alive \/ alive' = [alive EXCEPT ![c] = alive[c] \ {"request"}]
        /\ \E how \in {"ok", "failed"} : receipts' = [receipts EXCEPT ![dir[c]][Current(dir[c])] = how]
        /\ guard' \in BOOLEAN /\ faults' \in 0..MaxFaults
        /\ UNCHANGED <<dirs, files, raws, lock, at, locals, sent, raced>>
    <3>1. \E place \in {"outputs", "budget", "failing"} : step' = [step EXCEPT ![c] = place]
      BY <1>23 DEF Receive, Advance
    <3>2. alive' = alive \/ alive' = [alive EXCEPT ![c] = alive[c] \ {"request"}]
      BY <1>23 DEF Receive
    <3>3. \E how \in {"ok", "failed"} : receipts' = [receipts EXCEPT ![dir[c]][Current(dir[c])] = how]
      BY <1>23 DEF Receive, Keep
    <3>4. guard' \in BOOLEAN /\ faults' \in 0..MaxFaults
      <4>1. guard' = guard \/ guard' = TRUE
        BY ONLY <1>23 DEF Receive
      <4>2. faults' = faults \/ (faults < MaxFaults /\ faults' = faults + 1)
        BY ONLY <1>23 DEF Receive, Fault
      <4>3. guard \in BOOLEAN /\ faults \in 0..MaxFaults
        BY ONLY FreezeTypeOK DEF FreezeTypeOK
      <4>4. guard' \in BOOLEAN
        BY ONLY <4>1, <4>3, Zenon
      <4>5. faults' \in 0..MaxFaults
        BY ONLY <4>2, <4>3, FreezeAssumption
      <4> QED
        BY ONLY <4>4, <4>5
    <3>5. UNCHANGED <<dirs, files, raws, lock, at, locals, sent, raced>>
      BY <1>23 DEF Receive
    <3> QED
      BY ONLY <3>1, <3>2, <3>3, <3>4, <3>5
  <2>10. step' \in [Controller -> Steps]
    BY ONLY <2>1, <1>tstep DEF Steps
  <2>11. alive' \in [Controller -> SUBSET {"coordinator", "request"}]
    BY ONLY <2>1, <1>talive
  <2>12. receipts' \in [Directory -> [1..N -> {"none", "ok", "failed"}]]
    <3> DEFINE d == dir[c]
               k == Current(d)
    <3>1. d \in Directory /\ receipts[d] \in [1..N -> {"none", "ok", "failed"}]
      BY ONLY FreezeTypeOK, c \in Controller, <1>treceipts DEF FreezeTypeOK
    <3>2. PICK how \in {"ok", "failed"} : receipts' = [receipts EXCEPT ![d] = [receipts[d] EXCEPT ![k] = how]]
      BY ONLY <2>1
    <3> HIDE DEF k, d
    <3>3. [receipts[d] EXCEPT ![k] = how] \in [1..N -> {"none", "ok", "failed"}]
      BY ONLY <3>1
    <3> DEFINE row == [receipts[d] EXCEPT ![k] = how]
    <3> HIDE DEF row
    <3>4. receipts' = [receipts EXCEPT ![d] = row]
      BY ONLY <3>2 DEF row
    <3> QED
      BY ONLY <3>1, <3>3, <3>4, <1>treceipts DEF row
  <2> QED
    BY ONLY FreezeTypeOK, <2>1, <2>10, <2>11, <2>12
       DEF FreezeTypeOK, shared, locals, workers, past, ControllerPlaces, Statuses, Answers, Steps
<1>24. ASSUME NEW c \in Controller, WriteOutput(c) PROVE FreezeTypeOK'
  <2>1. PICK k \in 1..4 : \E how : Put(dir[c], Outputs[k], how)
    BY <1>24 DEF WriteOutput
  <2>2. /\ UNCHANGED <<raws, receipts>> /\ DOMAIN files' = Directory
        /\ \A e \in Directory : DOMAIN files'[e] \subseteq Names
    BY <1>p, <1>n, <2>1
  <2>3. /\ time' = time \/ time' = [time EXCEPT ![c] = 1]
        /\ step' = step \/ step' = [step EXCEPT ![c] = "answered"]
        /\ faults' \in 0..MaxFaults
        /\ UNCHANGED <<dirs, lock, guard, at, dir, owned, cleaned, attempted, status, anchors,
                       report, alive, sent, raced>>
    BY <1>24 DEF WriteOutput, Advance
  <2>10. time' \in [Controller -> Times]
    BY ONLY <2>3, <1>ttime DEF Times
  <2>11. step' \in [Controller -> Steps]
    BY ONLY <2>3, <1>tstep DEF Steps
  <2> QED
    BY ONLY FreezeTypeOK, <2>3, <2>10, <2>11, <2>2
       DEF FreezeTypeOK, shared, locals, workers, past, ControllerPlaces, Statuses, Answers, Steps
<1>25. ASSUME NEW c \in Controller, CoordinatorRaises(c) PROVE FreezeTypeOK'
  BY <1>25, <1>b DEF CoordinatorRaises, Advance
<1>26. ASSUME NEW c \in Controller, WriteFailure(c) PROVE FreezeTypeOK'
  BY <1>26, <1>b, <1>p, <1>n DEF WriteFailure, Advance
<1>27. ASSUME NEW c \in Controller, Ends(c) PROVE FreezeTypeOK'
  BY <1>27, <1>b DEF Ends
<1>28. CASE UNCHANGED freezeVars
  BY <1>28 DEF freezeVars
<1> QED
  BY <1>1, <1>2, <1>3, <1>4, <1>5, <1>6, <1>7, <1>8, <1>9, <1>10, <1>11, <1>12, <1>13, <1>14,
     <1>15, <1>16, <1>17, <1>18, <1>19, <1>20, <1>21, <1>22, <1>23, <1>24, <1>25, <1>26, <1>27, <1>28
     DEF FreezeNext

\* What the first verification leaves.
LEMMA AnchorIs ==
  ASSUME NEW b \in Controller, Anchor(b)
  PROVE  /\ at[b] = "anchor"
         /\ \E a : IsAnchors(a) /\ ~a.final /\ anchors' = [anchors EXCEPT ![b] = a]
         /\ \/ /\ \E place \in {"verify", "observation"} : at' = [at EXCEPT ![b] = place]
               /\ report' = report
            \/ /\ at' = [at EXCEPT ![b] = "finally"]
               /\ \E how \in {"late", "rejected"} : report' = [report EXCEPT ![b] = how]
         /\ UNCHANGED <<shared, dir, time, owned, cleaned, attempted, status, workers, past>>
<1>1. PICK finished : LET a == AnchorsOf(b, FALSE, finished) IN
        /\ at[b] = "anchor"
        /\ anchors' = [anchors EXCEPT ![b] = a]
        /\ IF status[b] # "EXECUTION_COMPLETE"
           THEN IF Over(b) THEN Return(b, "late") ELSE Move(b, "verify") /\ UNCHANGED report
           ELSE IF Verifies(dir[b], a, FALSE) THEN Move(b, "observation") /\ UNCHANGED report
                ELSE Return(b, "rejected")
        /\ UNCHANGED <<shared, dir, time, owned, cleaned, attempted, status, workers, past>>
  BY DEF Anchor
<1> DEFINE a == AnchorsOf(b, FALSE, finished)
<1>2. IsAnchors(a) /\ ~a.final
  BY DEF AnchorsOf, IsAnchors
<1> HIDE DEF a
<1>3. anchors' = [anchors EXCEPT ![b] = a]
  BY <1>1 DEF a
<1>4. \/ Return(b, "late") \/ Return(b, "rejected")
      \/ Move(b, "verify") /\ UNCHANGED report
      \/ Move(b, "observation") /\ UNCHANGED report
  BY <1>1
<1> QED
  BY <1>1, <1>2, <1>3, <1>4 DEF Move, Return

\* A step is of one controller, or of its processes.
LEMMA OthersRest ==
  ASSUME FreezeTypeOK, NEW b \in Controller, Controls(b) \/ Coordinates(b),
         NEW x \in Controller, x # b
  PROVE  /\ UNCHANGED <<at[x], owned[x], cleaned[x], attempted[x], status[x], anchors[x], report[x],
                        step[x], alive[x]>>
         /\ dir' = dir
<1> USE DEF FreezeTypeOK, shared, locals, workers, past, Move, Return
<1>1. CASE CheckInputs(b)
  BY <1>1 DEF CheckInputs
<1>2. CASE CheckGuard(b)
  BY <1>2 DEF CheckGuard
<1>3. CASE TakeLock(b)
  BY <1>3 DEF TakeLock
<1>4. CASE MakeDirectory(b)
  BY <1>4 DEF MakeDirectory
<1>5. CASE WriteIntent(b)
  BY <1>5 DEF WriteIntent
<1>6. CASE Dispatch(b)
  BY <1>6 DEF Dispatch
<1>7. CASE WorkerReturns(b)
  BY <1>7 DEF WorkerReturns
<1>8. CASE WriteExecution(b)
  BY <1>8 DEF WriteExecution
<1>9. CASE Anchor(b)
  <2>1. /\ \E a : anchors' = [anchors EXCEPT ![b] = a]
        /\ \E place : at' = [at EXCEPT ![b] = place]
        /\ report' = report \/ \E how : report' = [report EXCEPT ![b] = how]
        /\ UNCHANGED <<dir, owned, cleaned, attempted, status, step, alive>>
    BY <1>9, AnchorIs
  <2> QED
    BY <2>1
<1>10. CASE WriteObservation(b)
  BY <1>10 DEF WriteObservation
<1>11. CASE AnchorAgain(b)
  BY <1>11 DEF AnchorAgain
<1>12. CASE VerifyAgain(b)
  BY <1>12 DEF VerifyAgain
<1>13. CASE Release(b)
  BY <1>13 DEF Release
<1>14. CASE WriteFinal(b)
  BY <1>14 DEF WriteFinal
<1>15. CASE LastAnchors(b)
  BY <1>15 DEF LastAnchors
<1>16. CASE Raise(b)
  BY <1>16 DEF Raise
<1>17. CASE Except(b)
  BY <1>17 DEF Except
<1>18. CASE Finally(b)
  BY <1>18 DEF Finally, Forget
<1>19. CASE ControllerDies(b)
  BY <1>19 DEF ControllerDies, Forget
<1>20. CASE Pass(b)
  BY <1>20 DEF Pass
<1>21. CASE SendRequest(b)
  BY <1>21 DEF SendRequest, Advance, Runs
<1>22. CASE Seal(b)
  BY <1>22 DEF Seal
<1>23. CASE Receive(b)
  BY <1>23 DEF Receive, Advance, Keep, Runs
<1>24. CASE WriteOutput(b)
  BY <1>24 DEF WriteOutput, Advance, Runs
<1>25. CASE CoordinatorRaises(b)
  BY <1>25 DEF CoordinatorRaises, Advance, Runs
<1>26. CASE WriteFailure(b)
  BY <1>26 DEF WriteFailure, Advance, Runs
<1>27. CASE Ends(b)
  BY <1>27 DEF Ends
<1> QED
  BY <1>1, <1>2, <1>3, <1>4, <1>5, <1>6, <1>7, <1>8, <1>9, <1>10, <1>11, <1>12, <1>13, <1>14, <1>15, <1>16, <1>17, <1>18, <1>19, <1>20, <1>21, <1>22, <1>23, <1>24, <1>25, <1>26, <1>27 DEF Controls, Coordinates

\* The lock: a step keeps what holds of its own controller, and takes the lock
\* of no other that needs it.
LEMMA OwnLock ==
  ASSUME FreezeTypeOK, LockInv, NEW b \in Controller, Controls(b) \/ Coordinates(b)
  PROVE  /\ LockOf(b)'
         /\ \A x \in Controller : x # b /\ lock = x /\ (owned[x] \/ alive[x] # {}) => lock' = x
<1> USE FreezeAssumption DEF FreezeTypeOK, shared, locals, workers, past, Move, Return, LockOf, Working, Body
<1>0. /\ LockOf(b) /\ NoController \notin Controller
      /\ \A x \in Controller : x # b => (owned[x] => lock = x)
  BY DEF LockInv
<1>1. CASE CheckInputs(b)
  BY <1>0, <1>1 DEF CheckInputs
<1>2. CASE CheckGuard(b)
  BY <1>0, <1>2 DEF CheckGuard
<1>3. CASE TakeLock(b)
  BY <1>0, <1>3 DEF TakeLock
<1>4. CASE MakeDirectory(b)
  BY <1>0, <1>4 DEF MakeDirectory
<1>5. CASE WriteIntent(b)
  BY <1>0, <1>5 DEF WriteIntent
<1>6. CASE Dispatch(b)
  BY <1>0, <1>6 DEF Dispatch
<1>7. CASE WorkerReturns(b)
  BY <1>0, <1>7 DEF WorkerReturns
<1>8. CASE WriteExecution(b)
  BY <1>0, <1>8 DEF WriteExecution
<1>9. CASE Anchor(b)
  BY <1>0, <1>9, AnchorIs
<1>10. CASE WriteObservation(b)
  BY <1>0, <1>10 DEF WriteObservation
<1>11. CASE AnchorAgain(b)
  BY <1>0, <1>11 DEF AnchorAgain
<1>12. CASE VerifyAgain(b)
  BY <1>0, <1>12 DEF VerifyAgain
<1>13. CASE Release(b)
  BY <1>0, <1>13 DEF Release
<1>14. CASE WriteFinal(b)
  BY <1>0, <1>14 DEF WriteFinal
<1>15. CASE LastAnchors(b)
  BY <1>0, <1>15 DEF LastAnchors
<1>16. CASE Raise(b)
  BY <1>0, <1>16 DEF Raise
<1>17. CASE Except(b)
  BY <1>0, <1>17 DEF Except
<1>18. CASE Finally(b)
  BY <1>0, <1>18 DEF Finally, Forget
<1>19. CASE ControllerDies(b)
  BY <1>0, <1>19 DEF ControllerDies, Forget
<1>20. CASE Pass(b)
  BY <1>0, <1>20 DEF Pass
<1>21. CASE SendRequest(b)
  BY <1>0, <1>21 DEF SendRequest, Advance, Runs
<1>22. CASE Seal(b)
  BY <1>0, <1>22 DEF Seal
<1>23. CASE Receive(b)
  BY <1>0, <1>23 DEF Receive, Advance, Keep, Runs
<1>24. CASE WriteOutput(b)
  BY <1>0, <1>24 DEF WriteOutput, Advance, Runs
<1>25. CASE CoordinatorRaises(b)
  BY <1>0, <1>25 DEF CoordinatorRaises, Advance, Runs
<1>26. CASE WriteFailure(b)
  BY <1>0, <1>26 DEF WriteFailure, Advance, Runs
<1>27. CASE Ends(b)
  BY <1>0, <1>27 DEF Ends
<1> QED
  BY <1>1, <1>2, <1>3, <1>4, <1>5, <1>6, <1>7, <1>8, <1>9, <1>10, <1>11, <1>12, <1>13, <1>14, <1>15, <1>16, <1>17, <1>18, <1>19, <1>20, <1>21, <1>22, <1>23, <1>24, <1>25, <1>26, <1>27 DEF Controls, Coordinates

\* Directories are made by those that look for them, and stay.
LEMMA DirectoriesGrow ==
  ASSUME FreezeTypeOK, NEW b \in Controller, Controls(b) \/ Coordinates(b)
  PROVE  /\ dirs \subseteq dirs' /\ raced \subseteq raced'
         /\ dirs' # dirs => dirs' = dirs \union {dir[b]}
         /\ Touched(b)' => \/ Touched(b)
                           \/ at[b] = "mkdir" /\ dir[b] \notin dirs /\ dir[b] \in dirs'
         /\ at'[b] \in {"intent", "dispatch"} => at[b] \in {"mkdir", "intent", "dispatch"}
         /\ at'[b] \in Working \ {"last"} =>
              \/ at[b] \in Working \ {"final", "last"}
              \/ at[b] = at'[b]
              \/ at[b] = "mkdir" /\ dir[b] \notin dirs
         /\ at[b] = "mkdir" /\ Touched(b)' => at'[b] = "intent" \/ step[b] # "none"
<1> USE DEF FreezeTypeOK, shared, locals, workers, past, Move, Return, Touched, Made, Working, Body
<1>1. CASE CheckInputs(b)
  BY <1>1 DEF CheckInputs
<1>2. CASE CheckGuard(b)
  BY <1>2 DEF CheckGuard
<1>3. CASE TakeLock(b)
  BY <1>3 DEF TakeLock
<1>4. CASE MakeDirectory(b)
  BY <1>4 DEF MakeDirectory
<1>5. CASE WriteIntent(b)
  BY <1>5 DEF WriteIntent
<1>6. CASE Dispatch(b)
  BY <1>6 DEF Dispatch
<1>7. CASE WorkerReturns(b)
  BY <1>7 DEF WorkerReturns
<1>8. CASE WriteExecution(b)
  BY <1>8 DEF WriteExecution
<1>9. CASE Anchor(b)
  BY <1>9, AnchorIs
<1>10. CASE WriteObservation(b)
  BY <1>10 DEF WriteObservation
<1>11. CASE AnchorAgain(b)
  BY <1>11 DEF AnchorAgain
<1>12. CASE VerifyAgain(b)
  BY <1>12 DEF VerifyAgain
<1>13. CASE Release(b)
  BY <1>13 DEF Release
<1>14. CASE WriteFinal(b)
  BY <1>14 DEF WriteFinal
<1>15. CASE LastAnchors(b)
  BY <1>15 DEF LastAnchors
<1>16. CASE Raise(b)
  BY <1>16 DEF Raise
<1>17. CASE Except(b)
  BY <1>17 DEF Except
<1>18. CASE Finally(b)
  BY <1>18 DEF Finally, Forget
<1>19. CASE ControllerDies(b)
  BY <1>19 DEF ControllerDies, Forget
<1>20. CASE Pass(b)
  BY <1>20 DEF Pass
<1>21. CASE SendRequest(b)
  BY <1>21 DEF SendRequest, Advance, Runs
<1>22. CASE Seal(b)
  BY <1>22 DEF Seal
<1>23. CASE Receive(b)
  BY <1>23 DEF Receive, Advance, Keep, Runs
<1>24. CASE WriteOutput(b)
  BY <1>24 DEF WriteOutput, Advance, Runs
<1>25. CASE CoordinatorRaises(b)
  BY <1>25 DEF CoordinatorRaises, Advance, Runs
<1>26. CASE WriteFailure(b)
  BY <1>26 DEF WriteFailure, Advance, Runs
<1>27. CASE Ends(b)
  BY <1>27 DEF Ends
<1> QED
  BY <1>1, <1>2, <1>3, <1>4, <1>5, <1>6, <1>7, <1>8, <1>9, <1>10, <1>11, <1>12, <1>13, <1>14, <1>15, <1>16, <1>17, <1>18, <1>19, <1>20, <1>21, <1>22, <1>23, <1>24, <1>25, <1>26, <1>27 DEF Controls, Coordinates

\* Receipts, answers and requests are the work of processes that live.
LEMMA LivingWork ==
  ASSUME FreezeTypeOK, NEW b \in Controller, Controls(b) \/ Coordinates(b), NEW d \in Directory,
         d # dir[b] \/ alive[b] = {}
  PROVE  receipts'[d] = receipts[d] /\ sent'[d] = sent[d] /\ raws'[d] = raws[d]
<1> USE PutIs DEF FreezeTypeOK, shared, locals, workers, past, Move, Return
<1>1. CASE CheckInputs(b)
  BY <1>1 DEF CheckInputs
<1>2. CASE CheckGuard(b)
  BY <1>2 DEF CheckGuard
<1>3. CASE TakeLock(b)
  BY <1>3 DEF TakeLock
<1>4. CASE MakeDirectory(b)
  BY <1>4 DEF MakeDirectory
<1>5. CASE WriteIntent(b)
  BY <1>5 DEF WriteIntent
<1>6. CASE Dispatch(b)
  BY <1>6 DEF Dispatch
<1>7. CASE WorkerReturns(b)
  BY <1>7 DEF WorkerReturns
<1>8. CASE WriteExecution(b)
  BY <1>8 DEF WriteExecution
<1>9. CASE Anchor(b)
  BY <1>9, AnchorIs
<1>10. CASE WriteObservation(b)
  BY <1>10 DEF WriteObservation
<1>11. CASE AnchorAgain(b)
  BY <1>11 DEF AnchorAgain
<1>12. CASE VerifyAgain(b)
  BY <1>12 DEF VerifyAgain
<1>13. CASE Release(b)
  BY <1>13 DEF Release
<1>14. CASE WriteFinal(b)
  BY <1>14 DEF WriteFinal
<1>15. CASE LastAnchors(b)
  BY <1>15 DEF LastAnchors
<1>16. CASE Raise(b)
  BY <1>16 DEF Raise
<1>17. CASE Except(b)
  BY <1>17 DEF Except
<1>18. CASE Finally(b)
  BY <1>18 DEF Finally, Forget
<1>19. CASE ControllerDies(b)
  BY <1>19 DEF ControllerDies, Forget
<1>20. CASE Pass(b)
  BY <1>20 DEF Pass
<1>21. CASE SendRequest(b)
  BY <1>21 DEF SendRequest, Advance, Runs
<1>22. CASE Seal(b)
  BY <1>22 DEF Seal
<1>23. CASE Receive(b)
  BY <1>23 DEF Receive, Advance, Keep, Runs
<1>24. CASE WriteOutput(b)
  BY <1>24 DEF WriteOutput, Advance, Runs
<1>25. CASE CoordinatorRaises(b)
  BY <1>25 DEF CoordinatorRaises, Advance, Runs
<1>26. CASE WriteFailure(b)
  BY <1>26 DEF WriteFailure, Advance, Runs
<1>27. CASE Ends(b)
  BY <1>27 DEF Ends
<1> QED
  BY <1>1, <1>2, <1>3, <1>4, <1>5, <1>6, <1>7, <1>8, <1>9, <1>10, <1>11, <1>12, <1>13, <1>14, <1>15, <1>16, <1>17, <1>18, <1>19, <1>20, <1>21, <1>22, <1>23, <1>24, <1>25, <1>26, <1>27 DEF Controls, Coordinates

\* Files are written by a controller in its directory, by its living processes,
\* or by one that has the lock and has failed; and the outcome last.
LEMMA WhoWrites ==
  ASSUME FreezeTypeOK, NEW b \in Controller, Controls(b) \/ Coordinates(b)
  PROVE  \/ UNCHANGED files
         \/ \E name, value :
              /\ Put(dir[b], name, value)
              /\ Made(b) \/ alive[b] # {} \/ (at[b] = "except" /\ owned[b])
              /\ name = "final-outcome" =>
                   /\ at[b] = "final" /\ at'[b] = "last" /\ report'[b] = report[b]
                   /\ UNCHANGED <<dirs, owned, status, anchors, workers, raced>>
                   /\ value = IF status[b] = "EXECUTION_COMPLETE" THEN "ok" ELSE "failed"
<1> USE DEF FreezeTypeOK, shared, locals, workers, past, Move, Return, Made, Working, Body
<1>1. CASE CheckInputs(b)
  BY <1>1 DEF CheckInputs
<1>2. CASE CheckGuard(b)
  BY <1>2 DEF CheckGuard
<1>3. CASE TakeLock(b)
  BY <1>3 DEF TakeLock
<1>4. CASE MakeDirectory(b)
  BY <1>4 DEF MakeDirectory
<1>5. CASE WriteIntent(b)
  BY <1>5 DEF WriteIntent
<1>6. CASE Dispatch(b)
  BY <1>6 DEF Dispatch
<1>7. CASE WorkerReturns(b)
  BY <1>7 DEF WorkerReturns
<1>8. CASE WriteExecution(b)
  BY <1>8 DEF WriteExecution
<1>9. CASE Anchor(b)
  BY <1>9, AnchorIs
<1>10. CASE WriteObservation(b)
  BY <1>10 DEF WriteObservation
<1>11. CASE AnchorAgain(b)
  BY <1>11 DEF AnchorAgain
<1>12. CASE VerifyAgain(b)
  BY <1>12 DEF VerifyAgain
<1>13. CASE Release(b)
  BY <1>13 DEF Release
<1>14. CASE WriteFinal(b)
  <2>1. CASE Over(b)
    BY <1>14, <2>1 DEF WriteFinal
  <2>2. CASE ~Over(b)
    <3> DEFINE value == IF status[b] = "EXECUTION_COMPLETE" THEN "ok" ELSE "failed"
    <3>1. /\ Put(dir[b], "final-outcome", value) /\ at[b] = "final" /\ at'[b] = "last"
          /\ report'[b] = report[b] /\ UNCHANGED <<dirs, owned, status, anchors, workers, raced>>
      BY <1>14, <2>2 DEF WriteFinal
    <3>2. Made(b)
      BY <3>1
    <3> QED
      BY ONLY <3>1, <3>2
  <2> QED
    BY <2>1, <2>2
<1>15. CASE LastAnchors(b)
  BY <1>15 DEF LastAnchors
<1>16. CASE Raise(b)
  BY <1>16 DEF Raise
<1>17. CASE Except(b)
  BY <1>17 DEF Except
<1>18. CASE Finally(b)
  BY <1>18 DEF Finally, Forget
<1>19. CASE ControllerDies(b)
  BY <1>19 DEF ControllerDies, Forget
<1>20. CASE Pass(b)
  BY <1>20 DEF Pass
<1>21. CASE SendRequest(b)
  BY <1>21 DEF SendRequest, Advance, Runs
<1>22. CASE Seal(b)
  BY <1>22 DEF Seal
<1>23. CASE Receive(b)
  BY <1>23 DEF Receive, Advance, Keep, Runs
<1>24. CASE WriteOutput(b)
  <2>1. PICK k \in 1..4 : \E how : Put(dir[b], Outputs[k], how)
    BY <1>24 DEF WriteOutput
  <2>2. alive[b] # {}
    BY <1>24 DEF WriteOutput, Runs
  <2>3. Outputs[k] # "final-outcome"
    <3>1. k = 1 \/ k = 2 \/ k = 3 \/ k = 4
      OBVIOUS
    <3> QED
      BY ONLY <3>1 DEF Outputs
  <2> QED
    BY ONLY <2>1, <2>2, <2>3
<1>25. CASE CoordinatorRaises(b)
  BY <1>25 DEF CoordinatorRaises, Advance, Runs
<1>26. CASE WriteFailure(b)
  BY <1>26 DEF WriteFailure, Advance, Runs
<1>27. CASE Ends(b)
  BY <1>27 DEF Ends
<1> QED
  BY <1>1, <1>2, <1>3, <1>4, <1>5, <1>6, <1>7, <1>8, <1>9, <1>10, <1>11, <1>12, <1>13, <1>14, <1>15, <1>16, <1>17, <1>18, <1>19, <1>20, <1>21, <1>22, <1>23, <1>24, <1>25, <1>26, <1>27 DEF Controls, Coordinates

\* A controller keeps its directory.
LEMMA DirIs ==
  ASSUME FreezeTypeOK, NEW b \in Controller, Controls(b) \/ Coordinates(b)
  PROVE  dir' = dir
BY DEF Controls, Coordinates, CheckInputs, CheckGuard, TakeLock, MakeDirectory, WriteIntent,
       Dispatch, WorkerReturns, WriteExecution, Anchor, WriteObservation, AnchorAgain, VerifyAgain, Release,
       WriteFinal, LastAnchors, Raise, Except, Finally, ControllerDies, Pass, SendRequest, Seal, Receive,
       WriteOutput, CoordinatorRaises, WriteFailure, Ends, locals

\* What lives was started under the lock, and the lock stays with it.
LEMMA LockStep ==
  ASSUME FreezeTypeOK, LockInv, NEW b \in Controller, Controls(b) \/ Coordinates(b)
  PROVE  LockInv'
<1> SUFFICES ASSUME NEW x \in Controller PROVE LockOf(x)'
  BY DEF LockInv
<1>1. CASE x = b
  BY <1>1, OwnLock
<1>2. CASE x # b
  <2>1. UNCHANGED <<at[x], owned[x], cleaned[x], attempted[x], status[x], step[x], alive[x]>>
    BY <1>2, OthersRest
  <2>2. LockOf(x)
    BY DEF LockInv
  <2>3. lock = x /\ (owned[x] \/ alive[x] # {}) => lock' = x
    BY <1>2, OwnLock
  <2> QED
    BY ONLY <2>1, <2>2, <2>3 DEF LockOf
<1> QED
  BY <1>1, <1>2

\* An untouched directory is left so by all but the one that has made it.
LEMMA StaysUntouched ==
  ASSUME FreezeTypeOK, NEW b \in Controller, Controls(b) \/ Coordinates(b), NEW d \in Directory,
         Untouched(d), d # dir[b] \/ (alive[b] = {} /\ at[b] # "final")
  PROVE  Untouched(d)'
<1>1. receipts'[d] = receipts[d] /\ sent'[d] = sent[d]
  BY LivingWork
<1>2. ~Has(d, "final-outcome")'
  <2>1. CASE UNCHANGED files
    BY <2>1 DEF Untouched, Has
  <2>2. ASSUME NEW name, NEW value, Put(dir[b], name, value), name = "final-outcome" => at[b] = "final"
        PROVE  ~Has(d, "final-outcome")'
    <3>1. dir[b] \in Directory /\ DOMAIN files = Directory
      BY DEF FreezeTypeOK
    <3>2. \A e \in Directory : \A n : Has(e, n)' <=> Has(e, n) \/ (e = dir[b] /\ n = name)
      BY ONLY <2>2, <3>1, PutIs
    <3> QED
      BY <2>2, <3>2, WhoWrites DEF Untouched
  <2> QED
    BY <2>1, <2>2, WhoWrites
<1> QED
  BY <1>1, <1>2 DEF Untouched

\* The outcome is written by a controller at its end, and stays.
LEMMA OutcomeWritten ==
  ASSUME FreezeTypeOK, NEW b \in Controller, Controls(b) \/ Coordinates(b), NEW d \in Directory
  PROVE  /\ Has(d, "final-outcome") =>
              /\ Has(d, "final-outcome")' /\ files'[d]["final-outcome"] = files[d]["final-outcome"]
         /\ Has(d, "final-outcome")' =>
              \/ Has(d, "final-outcome")
              \/ /\ d = dir[b] /\ at[b] = "final" /\ at'[b] = "last"
                 /\ Published(d)' <=> status[b] = "EXECUTION_COMPLETE"
                 /\ report'[b] = report[b] /\ UNCHANGED <<dirs, owned, status, anchors, workers, raced>>
<1>1. CASE UNCHANGED files
  BY <1>1 DEF Has
<1>2. ASSUME NEW name, NEW value, Put(dir[b], name, value),
             name = "final-outcome" =>
                   /\ at[b] = "final" /\ at'[b] = "last" /\ report'[b] = report[b]
                   /\ UNCHANGED <<dirs, owned, status, anchors, workers, raced>>
                   /\ value = IF status[b] = "EXECUTION_COMPLETE" THEN "ok" ELSE "failed"
      PROVE  /\ Has(d, "final-outcome") =>
                  /\ Has(d, "final-outcome")' /\ files'[d]["final-outcome"] = files[d]["final-outcome"]
             /\ Has(d, "final-outcome")' =>
                  \/ Has(d, "final-outcome")
                  \/ /\ d = dir[b] /\ at[b] = "final" /\ at'[b] = "last"
                     /\ Published(d)' <=> status[b] = "EXECUTION_COMPLETE"
                     /\ report'[b] = report[b] /\ UNCHANGED <<dirs, owned, status, anchors, workers, raced>>
  <2>1. dir[b] \in Directory /\ DOMAIN files = Directory
    BY DEF FreezeTypeOK
  <2>2. /\ \A n : Has(d, n)' <=> Has(d, n) \/ (d = dir[b] /\ n = name)
        /\ \A n : Has(d, n) => files'[d][n] = files[d][n]
        /\ files'[dir[b]][name] = value
    BY ONLY <1>2, <2>1, d \in Directory, PutIs
  <2> QED
    BY ONLY <1>2, <2>2, "ok" # "failed" DEF Published
<1> QED
  BY <1>1, <1>2, WhoWrites

\* A directory stays with the controller that made it.
LEMMA TouchStep ==
  ASSUME FreezeTypeOK, LockInv, TouchInv, NEW b \in Controller, Controls(b) \/ Coordinates(b)
  PROVE  TouchInv'
<1>t. /\ \A x \in Controller : dir[x] \in Directory /\ dir'[x] = dir[x]
      /\ \A x \in Controller : x # b => at'[x] = at[x] /\ (Touched(x)' <=> Touched(x))
      /\ \A x \in Controller : step[x] = "none" => alive[x] = {}
      /\ \A x \in Controller : ~Touched(x) => alive[x] = {} /\ at[x] # "final"
  <2>1. \A x \in Controller : dir[x] \in Directory
    BY DEF FreezeTypeOK
  <2>2. dir' = dir
    BY DirIs
  <2>3. \A x \in Controller : x # b => at'[x] = at[x] /\ step'[x] = step[x]
    BY OthersRest
  <2>4. \A x \in Controller : step[x] = "none" => alive[x] = {}
    BY DEF LockInv, LockOf
  <2> QED
    BY ONLY <2>1, <2>2, <2>3, <2>4 DEF Touched, Made, Working, Body
<1>d. /\ dirs \subseteq dirs'
      /\ dirs' # dirs => dirs' = dirs \union {dir[b]}
  BY DirectoriesGrow
<1>r. Touched(b)' => Touched(b) \/ (at[b] = "mkdir" /\ dir[b] \notin dirs /\ dir[b] \in dirs')
  BY DirectoriesGrow
<1>v. at'[b] \in {"intent", "dispatch"} => at[b] \in {"mkdir", "intent", "dispatch"}
  BY DirectoriesGrow
<1>w. at'[b] \in Working \ {"last"} =>
        \/ at[b] \in Working \ {"last"}
        \/ at[b] = "mkdir" /\ dir[b] \notin dirs
  BY DirectoriesGrow
<1>f. ASSUME NEW d \in Directory
      PROVE  Has(d, "final-outcome")' =>
                Has(d, "final-outcome") \/ (d = dir[b] /\ at[b] = "final" /\ at'[b] = "last")
  BY OutcomeWritten
<1>u. ASSUME NEW d \in Directory, Untouched(d), d # dir[b] \/ (alive[b] = {} /\ at[b] # "final")
      PROVE  Untouched(d)'
  BY <1>u, StaysUntouched
<1>1. ASSUME NEW c \in Controller, Touched(c)' PROVE dir[c] \in dirs'
  <2>1. Touched(c) => dir[c] \in dirs
    BY DEF TouchInv
  <2>2. CASE c = b
    BY <1>1, <2>1, <2>2, <1>d, <1>r
  <2>3. CASE c # b
    BY ONLY <1>1, <2>1, <2>3, <1>t, <1>d, c \in Controller
  <2> QED
    BY <2>2, <2>3
<1>2. ASSUME NEW x \in Controller, NEW y \in Controller, Touched(x)', Touched(y)', dir[x] = dir[y] PROVE x = y
  <2>1. Touched(x) /\ Touched(y) => x = y
    BY <1>2 DEF TouchInv
  <2>2. (Touched(x) => dir[x] \in dirs) /\ (Touched(y) => dir[y] \in dirs)
    BY DEF TouchInv
  <2>3. \A z \in Controller : z # b => (Touched(z)' <=> Touched(z))
    BY ONLY <1>t
  <2>4. CASE x = b /\ y # b
    <3>1. Touched(y) /\ Touched(b)'
      BY ONLY <2>4, <2>3, <1>2, y \in Controller
    <3> QED
      BY ONLY <3>1, <2>1, <2>2, <2>4, <1>r, dir[x] = dir[y]
  <2>5. CASE y = b /\ x # b
    <3>1. Touched(x) /\ Touched(b)'
      BY ONLY <2>5, <2>3, <1>2, x \in Controller
    <3> QED
      BY ONLY <3>1, <2>1, <2>2, <2>5, <1>r, dir[x] = dir[y]
  <2>6. CASE x # b /\ y # b
    BY ONLY <2>6, <2>3, <2>1, <1>2, x \in Controller, y \in Controller
  <2> QED
    BY <2>4, <2>5, <2>6
<1>3. ASSUME NEW d \in Directory \ dirs' PROVE Untouched(d)'
  <2>1. d \notin dirs /\ Untouched(d) /\ (Touched(b) => dir[b] \in dirs)
    <3>1. d \in Directory \ dirs
      BY <1>d
    <3> QED
      BY ONLY <3>1, TouchInv, b \in Controller DEF TouchInv
  <2> QED
    BY ONLY <2>1, <1>u, <1>t, d \in Directory, b \in Controller
<1>4. ASSUME NEW c \in Controller, at'[c] \in {"intent", "dispatch"} PROVE Untouched(dir[c])'
  <2>1. /\ at[c] \in {"intent", "dispatch"} => Untouched(dir[c])
        /\ dir[c] \notin dirs => Untouched(dir[c])
        /\ Touched(c) /\ Touched(b) /\ dir[c] = dir[b] => b = c
        /\ at[c] \in {"intent", "dispatch", "mkdir"} => step[c] = "none"
    <3>1. dir[c] \in Directory
      BY <1>t
    <3> QED
      BY <3>1 DEF TouchInv, LockInv, LockOf
  <2>2. CASE c = b
    <3>1. at[b] \in {"intent", "dispatch"} \/ (at[b] = "mkdir" /\ dir[b] \notin dirs)
      <4>1. at'[b] \in Working \ {"last"}
        BY ONLY <1>4, <2>2 DEF Working, Body
      <4> QED
        BY ONLY <1>4, <1>v, <1>w, <2>2, <4>1 DEF Working, Body
    <3> QED
      BY ONLY <3>1, <2>1, <2>2, <1>t, <1>u, b \in Controller
  <2>3. CASE c # b
    <3>1. at[c] \in {"intent", "dispatch"} /\ Touched(c)
      BY ONLY <2>3, <1>4, <1>t DEF Touched, Made, Working, Body
    <3> QED
      BY ONLY <3>1, <2>1, <2>3, <1>t, <1>u, b \in Controller, c \in Controller
  <2> QED
    BY <2>2, <2>3
<1>5. ASSUME NEW c \in Controller, at'[c] \in Working \ {"last"} PROVE ~Has(dir[c], "final-outcome")'
  <2>1. /\ at[c] \in Working \ {"last"} => ~Has(dir[c], "final-outcome")
        /\ dir[c] \notin dirs => ~Has(dir[c], "final-outcome")
        /\ Touched(c) /\ Touched(b) /\ dir[c] = dir[b] => b = c
    <3>1. dir[c] \in Directory
      BY <1>t
    <3> QED
      BY <3>1 DEF TouchInv, Untouched
  <2>2. CASE c = b
    <3>1. ~Has(dir[b], "final-outcome")
      BY ONLY <1>5, <2>1, <2>2, <1>w
    <3> QED
      BY ONLY <3>1, <1>5, <2>2, <1>f, <1>t, b \in Controller
  <2>3. CASE c # b
    <3>1. at[c] \in Working \ {"last"} /\ Touched(c)
      BY ONLY <2>3, <1>5, <1>t, c \in Controller DEF Touched, Made
    <3>2. at[b] = "final" => Touched(b)
      BY DEF Touched, Made, Working, Body
    <3> QED
      BY ONLY <3>1, <3>2, <2>1, <2>3, <1>f, <1>t, b \in Controller, c \in Controller
  <2> QED
    BY <2>2, <2>3
<1> QED
  BY <1>1, <1>2, <1>3, <1>4, <1>5, <1>t DEF TouchInv

\* Requests and receipts are added by the coordinator alone.
LEMMA WhoCounts ==
  ASSUME FreezeTypeOK, NEW b \in Controller, Controls(b) \/ Coordinates(b)
  PROVE  \/ /\ UNCHANGED <<sent, receipts>>
            /\ alive'[b] \subseteq alive[b]
            /\ \/ step'[b] = step[b] \/ step'[b] \in {"failing", "failed"}
               \/ step[b] = "outputs" /\ step'[b] = "answered"
            /\ status'[b] = "EXECUTION_COMPLETE" =>
                 \/ status[b] = "EXECUTION_COMPLETE"
                 \/ /\ step[b] = "answered" /\ step'[b] = "answered" /\ alive'[b] = {}
                    /\ at'[b] = "execution"
            /\ at'[b] \in {"dispatch", "wait"} => at[b] \in {"intent", "dispatch", "wait"}
         \/ /\ Dispatch(b) /\ step'[b] = "budget" /\ UNCHANGED <<files, sent, receipts, status>>
            /\ at[b] = "dispatch" /\ at'[b] = "wait"
         \/ /\ SendRequest(b) /\ step'[b] = "sent" /\ step[b] = "budget" /\ alive[b] # {}
            /\ UNCHANGED <<files, receipts, status, at>>
            /\ sent' = [sent EXCEPT ![dir[b]][Current(dir[b])] = @ + 1]
         \/ /\ Receive(b) /\ step[b] = "sent" /\ alive[b] # {} /\ UNCHANGED <<files, sent, status, at>>
            /\ alive'[b] \subseteq alive[b]
            /\ \E how \in {"ok", "failed"} : receipts' = [receipts EXCEPT ![dir[b]][Current(dir[b])] = how]
            /\ step'[b] = "failing" \/ step'[b] = IF Current(dir[b]) = N THEN "outputs" ELSE "budget"
<1> USE DEF FreezeTypeOK, shared, locals, workers, past, Move, Return
<1>p. \A d, n, v : Put(d, n, v) => UNCHANGED <<raws, receipts>>
  BY DEF Put
<1>1. CASE CheckInputs(b)
  BY <1>p, <1>1 DEF CheckInputs
<1>2. CASE CheckGuard(b)
  BY <1>p, <1>2 DEF CheckGuard
<1>3. CASE TakeLock(b)
  BY <1>p, <1>3 DEF TakeLock
<1>4. CASE MakeDirectory(b)
  BY <1>p, <1>4 DEF MakeDirectory
<1>5. CASE WriteIntent(b)
  BY <1>p, <1>5 DEF WriteIntent
<1>6. CASE Dispatch(b)
  BY <1>p, <1>6 DEF Dispatch
<1>7. CASE WorkerReturns(b)
  BY <1>p, <1>7 DEF WorkerReturns
<1>8. CASE WriteExecution(b)
  BY <1>p, <1>8 DEF WriteExecution
<1>9. CASE Anchor(b)
  <2>1. /\ UNCHANGED <<sent, receipts, alive, step, status>>
        /\ at'[b] \in {"verify", "observation", "finally"}
    BY <1>9, AnchorIs
  <2> QED
    BY ONLY <2>1
<1>10. CASE WriteObservation(b)
  BY <1>p, <1>10 DEF WriteObservation
<1>11. CASE AnchorAgain(b)
  BY <1>p, <1>11 DEF AnchorAgain
<1>12. CASE VerifyAgain(b)
  BY <1>p, <1>12 DEF VerifyAgain
<1>13. CASE Release(b)
  BY <1>p, <1>13 DEF Release
<1>14. CASE WriteFinal(b)
  BY <1>p, <1>14 DEF WriteFinal
<1>15. CASE LastAnchors(b)
  BY <1>p, <1>15 DEF LastAnchors
<1>16. CASE Raise(b)
  BY <1>p, <1>16 DEF Raise
<1>17. CASE Except(b)
  BY <1>p, <1>17 DEF Except
<1>18. CASE Finally(b)
  BY <1>p, <1>18 DEF Finally, Forget
<1>19. CASE ControllerDies(b)
  BY <1>p, <1>19 DEF ControllerDies, Forget
<1>20. CASE Pass(b)
  BY <1>p, <1>20 DEF Pass
<1>21. CASE SendRequest(b)
  BY <1>p, <1>21 DEF SendRequest, Advance, Runs
<1>22. CASE Seal(b)
  BY <1>p, <1>22 DEF Seal
<1>23. CASE Receive(b)
  BY <1>p, <1>23 DEF Receive, Advance, Keep, Runs
<1>24. CASE WriteOutput(b)
  <2>1. UNCHANGED <<sent, receipts, alive, at, status>>
    BY <1>p, <1>24 DEF WriteOutput
  <2>2. step' = step \/ (step[b] = "outputs" /\ step'[b] = "answered")
    BY <1>24 DEF WriteOutput, Advance, Runs
  <2> QED
    BY ONLY <2>1, <2>2
<1>25. CASE CoordinatorRaises(b)
  BY <1>p, <1>25 DEF CoordinatorRaises, Advance, Runs
<1>26. CASE WriteFailure(b)
  <2>1. /\ UNCHANGED <<sent, receipts, alive, at, status>> /\ step'[b] = "failed"
    BY <1>p, <1>26 DEF WriteFailure, Advance
  <2> QED
    BY ONLY <2>1
<1>27. CASE Ends(b)
  BY <1>p, <1>27 DEF Ends
<1> QED
  BY <1>1, <1>2, <1>3, <1>4, <1>5, <1>6, <1>7, <1>8, <1>9, <1>10, <1>11, <1>12, <1>13, <1>14, <1>15, <1>16, <1>17, <1>18, <1>19, <1>20, <1>21, <1>22, <1>23, <1>24, <1>25, <1>26, <1>27 DEF Controls, Coordinates

\* After the answers to 1..k, the current request is k + 1.
LEMMA CurrentIs ==
  ASSUME NEW d, NEW k \in Nat, Received(d) = 1..k
  PROVE  Current(d) = k + 1
<1>1. Cardinality(1..k) = k
  BY FS_Interval
<1> QED
  BY <1>1 DEF Current

\* One request more is the next one, and so is one receipt.
LEMMA OneMoreSent ==
  ASSUME FreezeTypeOK, NEW d \in Directory, NEW k \in 0..(N - 1), SentOf(d) = 1..k,
         sent' = [sent EXCEPT ![d][k + 1] = @ + 1]
  PROVE  SentOf(d)' = 1..(k + 1)
<1>1. k + 1 \in 1..N /\ sent[d] \in [1..N -> Nat] /\ sent \in [Directory -> [1..N -> Nat]]
  BY FreezeAssumption DEF FreezeTypeOK
<1>2. sent'[d] = [sent[d] EXCEPT ![k + 1] = @ + 1]
  BY <1>1
<1>3. ASSUME NEW i \in 1..N PROVE sent'[d][i] > 0 <=> (sent[d][i] > 0 \/ i = k + 1)
  BY ONLY <1>1, <1>2, i \in 1..N
<1>4. \A i \in 1..N : i \in 1..k <=> sent[d][i] > 0
  BY DEF SentOf
<1>5. \A i : i \in 1..(k + 1) <=> i \in 1..N /\ (i \in 1..k \/ i = k + 1)
  BY <1>1, FreezeAssumption
<1> QED
  BY ONLY <1>3, <1>4, <1>5 DEF SentOf

\* The same of the receipts.
LEMMA OneMoreReceived ==
  ASSUME FreezeTypeOK, NEW d \in Directory, NEW k \in 0..(N - 1), Received(d) = 1..k,
         NEW how \in {"ok", "failed"}, receipts' = [receipts EXCEPT ![d][k + 1] = how]
  PROVE  Received(d)' = 1..(k + 1)
<1>1. k + 1 \in 1..N /\ receipts[d] \in [1..N -> {"none", "ok", "failed"}]
      /\ receipts \in [Directory -> [1..N -> {"none", "ok", "failed"}]]
  BY FreezeAssumption DEF FreezeTypeOK
<1>2. receipts'[d] = [receipts[d] EXCEPT ![k + 1] = how]
  BY <1>1
<1>3. ASSUME NEW i \in 1..N PROVE receipts'[d][i] # "none" <=> (receipts[d][i] # "none" \/ i = k + 1)
  BY ONLY <1>1, <1>2, i \in 1..N, how \in {"ok", "failed"}
<1>4. \A i \in 1..N : i \in 1..k <=> receipts[d][i] # "none"
  BY DEF Received
<1>5. \A i : i \in 1..(k + 1) <=> i \in 1..N /\ (i \in 1..k \/ i = k + 1)
  BY <1>1, FreezeAssumption
<1> QED
  BY ONLY <1>3, <1>4, <1>5 DEF Received

\* The requests keep their order, each after the answer to the last.
LEMMA CountStep ==
  ASSUME FreezeTypeOK, LockInv, TouchInv, CountInv, NEW b \in Controller, Controls(b) \/ Coordinates(b)
  PROVE  CountInv'
<1>t. /\ \A x \in Controller : dir[x] \in Directory /\ dir'[x] = dir[x]
      /\ \A x \in Controller : step[x] = "none" => alive[x] = {}
      /\ \A x \in Controller : ~Touched(x) => alive[x] = {} /\ at[x] # "final"
  <2>1. \A x \in Controller : dir[x] \in Directory
    BY DEF FreezeTypeOK
  <2>2. dir' = dir
    BY DirIs
  <2>4. \A x \in Controller : step[x] = "none" => alive[x] = {}
    BY DEF LockInv, LockOf
  <2> QED
    BY ONLY <2>1, <2>2, <2>4 DEF Touched, Made, Working, Body
<1>f. ASSUME NEW d \in Directory
      PROVE  Published(d)' => Published(d) \/ (/\ d = dir[b] /\ at[b] = "final" /\ status[b] = "EXECUTION_COMPLETE"
                                               /\ alive' = alive)
  BY OutcomeWritten DEF Published, workers
<1>s. ASSUME NEW d \in Directory, receipts'[d] = receipts[d], sent'[d] = sent[d]
      PROVE  Received(d)' = Received(d) /\ SentOf(d)' = SentOf(d)
  BY <1>s DEF Received, SentOf
<1>1. ASSUME NEW c \in Controller, c # b PROVE CountOf(c)'
  <2>1. UNCHANGED <<at[c], status[c], step[c], alive[c], dir[c]>> /\ CountOf(c) /\ dir[c] \in Directory
    BY <1>1, <1>t, OthersRest DEF CountInv
  <2>2. CASE step[c] = "none"
    BY ONLY <2>1, <2>2, <1>t, c \in Controller DEF CountOf
  <2>3. CASE step[c] # "none"
    <3>1. dir[c] # dir[b] \/ ~Touched(b)
      BY <1>1, <2>3 DEF TouchInv, Touched
    <3>2. receipts'[dir[c]] = receipts[dir[c]] /\ sent'[dir[c]] = sent[dir[c]]
      <4>1. dir[c] # dir[b] \/ alive[b] = {}
        BY <3>1, <1>t
      <4> QED
        BY <4>1, <2>1, LivingWork
    <3>3. Published(dir[c])' => Published(dir[c])
      BY ONLY <3>1, <1>f, <1>t, <2>1, b \in Controller
    <3>4. Received(dir[c])' = Received(dir[c]) /\ SentOf(dir[c])' = SentOf(dir[c])
      BY <3>2, <2>1, <1>s
    <3> QED
      BY ONLY <2>1, <3>3, <3>4 DEF CountOf
  <2> QED
    BY <2>2, <2>3
<1>2. CountOf(b)'
  <2>d. PICK d \in Directory : d = dir[b] /\ d = dir'[b]
    BY <1>t
  <2>0. CountOf(b) /\ d \in Directory /\ d = dir[b] /\ d = dir'[b]
    BY <2>d DEF CountInv
  <2>i. N \in Nat \ {0}
    BY FreezeAssumption
  <2>1. CASE /\ UNCHANGED <<sent, receipts>>
             /\ alive'[b] \subseteq alive[b]
             /\ \/ step'[b] = step[b] \/ step'[b] \in {"failing", "failed"}
                \/ step[b] = "outputs" /\ step'[b] = "answered"
             /\ status'[b] = "EXECUTION_COMPLETE" =>
                  \/ status[b] = "EXECUTION_COMPLETE"
                  \/ /\ step[b] = "answered" /\ step'[b] = "answered" /\ alive'[b] = {}
                     /\ at'[b] = "execution"
             /\ at'[b] \in {"dispatch", "wait"} => at[b] \in {"intent", "dispatch", "wait"}
    <3>1. Received(d)' = Received(d) /\ SentOf(d)' = SentOf(d)
      BY <2>1, <2>0, <1>s
    <3>2. Published(d)' => Published(d) \/ (status[b] = "EXECUTION_COMPLETE" /\ alive' = alive)
      BY <2>0, <1>f
    <3>3. at[b] \in {"intent", "dispatch"} => step[b] = "none"
      BY DEF LockInv, LockOf
    <3> QED
      BY ONLY <2>0, <2>1, <3>1, <3>2, <3>3 DEF CountOf
  <2>2. CASE /\ Dispatch(b) /\ step'[b] = "budget" /\ UNCHANGED <<files, sent, receipts, status>>
             /\ at[b] = "dispatch" /\ at'[b] = "wait"
    <3>1. Untouched(d)
      <4>1. Untouched(dir[b])
        BY <2>2 DEF TouchInv
      <4> QED
        BY ONLY <4>1, <2>0
    <3>2. Received(d) = 1..0 /\ SentOf(d) = 1..0 /\ ~Published(d)
      <4>1. receipts[d] = [i \in 1..N |-> "none"] /\ sent[d] = [i \in 1..N |-> 0] /\ ~Published(d)
        BY <3>1 DEF Untouched, Published
      <4>2. 1..0 = {}
        OBVIOUS
      <4>3. \A i \in 1..N : receipts[d][i] = "none" /\ ~(sent[d][i] > 0)
        BY ONLY <4>1
      <4> QED
        BY ONLY <4>1, <4>2, <4>3 DEF Received, SentOf
    <3>3. Received(d)' = 1..0 /\ SentOf(d)' = 1..0 /\ ~Published(d)'
      BY <3>2, <2>2, <2>0, <1>s, <1>f
    <3>4. step[b] = "none"
      BY <2>2 DEF LockInv, LockOf
    <3>5. status'[b] # "EXECUTION_COMPLETE"
      BY <3>4, <2>0, <2>2 DEF CountOf
    <3>6. 0 \in 0..(N - 1)
      BY <2>i
    <3> QED
      BY ONLY <2>0, <2>2, <3>3, <3>5, <3>6 DEF CountOf
  <2>3. CASE /\ SendRequest(b) /\ step'[b] = "sent" /\ step[b] = "budget" /\ alive[b] # {}
             /\ UNCHANGED <<files, receipts, status, at>>
             /\ sent' = [sent EXCEPT ![dir[b]][Current(dir[b])] = @ + 1]
    <3>1. PICK k \in 0..(N - 1) : Received(d) = 1..k /\ SentOf(d) = 1..k
      BY <2>0, <2>3 DEF CountOf
    <3>2. Current(d) = k + 1
      BY <3>1, CurrentIs
    <3>3. SentOf(d)' = 1..(k + 1)
      BY <3>1, <3>2, <2>3, <2>0, OneMoreSent
    <3>4. Received(d)' = 1..k
      BY <2>3, <3>1 DEF Received
    <3>5. status'[b] # "EXECUTION_COMPLETE" /\ ~Published(d)'
      BY <2>3, <2>0, <1>f DEF CountOf
    <3> QED
      BY ONLY <2>0, <2>3, <3>3, <3>4, <3>5, k \in 0..(N - 1) DEF CountOf
  <2>4. CASE /\ Receive(b) /\ step[b] = "sent" /\ alive[b] # {} /\ UNCHANGED <<files, sent, status, at>>
             /\ alive'[b] \subseteq alive[b]
             /\ \E how \in {"ok", "failed"} : receipts' = [receipts EXCEPT ![dir[b]][Current(dir[b])] = how]
             /\ step'[b] = "failing" \/ step'[b] = IF Current(dir[b]) = N THEN "outputs" ELSE "budget"
    <3>1. PICK k \in 0..(N - 1) : Received(d) = 1..k /\ SentOf(d) = 1..(k + 1)
      BY <2>0, <2>4 DEF CountOf
    <3>2. Current(d) = k + 1
      BY <3>1, CurrentIs
    <3>3. SentOf(d)' = 1..(k + 1)
      BY <3>1, <2>4 DEF SentOf
    <3>4. Received(d)' = 1..(k + 1)
      BY <3>1, <3>2, <2>4, <2>0, OneMoreReceived
    <3>5. status'[b] # "EXECUTION_COMPLETE" /\ ~Published(d)'
      BY <2>4, <2>0, <1>f DEF CountOf
    <3>6. CASE k + 1 = N
      BY ONLY <2>0, <2>4, <3>2, <3>3, <3>5, <3>6 DEF CountOf
    <3>7. CASE k + 1 # N
      <4>1. k + 1 \in 0..(N - 1)
        BY <3>7, <2>i
      <4> QED
        BY ONLY <2>0, <2>4, <3>2, <3>3, <3>4, <3>5, <3>7, <4>1 DEF CountOf
    <3> QED
      BY <3>6, <3>7
  <2> QED
    BY <2>1, <2>2, <2>3, <2>4, WhoCounts
<1> QED
  BY <1>1, <1>2 DEF CountInv

\* A search begins where nothing was made, and is raced if another goes on.
LEMMA WhoSearches ==
  ASSUME FreezeTypeOK, NEW b \in Controller, Controls(b) \/ Coordinates(b)
  PROVE  /\ Searching(b)' =>
              \/ Searching(b)
              \/ /\ dir[b] \notin dirs
                 /\ \A x \in Controller : x # b /\ dir[x] = dir[b] /\ Searching(x) => dir[b] \in raced'
         /\ owned'[b] => owned[b] \/ at[b] = "lock"
<1> USE DEF FreezeTypeOK, shared, locals, workers, past, Move, Return, Searching
<1>1. CASE CheckInputs(b)
  BY <1>1 DEF CheckInputs
<1>2. CASE CheckGuard(b)
  BY <1>2 DEF CheckGuard
<1>3. CASE TakeLock(b)
  BY <1>3 DEF TakeLock
<1>4. CASE MakeDirectory(b)
  BY <1>4 DEF MakeDirectory
<1>5. CASE WriteIntent(b)
  BY <1>5 DEF WriteIntent
<1>6. CASE Dispatch(b)
  BY <1>6 DEF Dispatch
<1>7. CASE WorkerReturns(b)
  BY <1>7 DEF WorkerReturns
<1>8. CASE WriteExecution(b)
  BY <1>8 DEF WriteExecution
<1>9. CASE Anchor(b)
  BY <1>9, AnchorIs
<1>10. CASE WriteObservation(b)
  BY <1>10 DEF WriteObservation
<1>11. CASE AnchorAgain(b)
  BY <1>11 DEF AnchorAgain
<1>12. CASE VerifyAgain(b)
  BY <1>12 DEF VerifyAgain
<1>13. CASE Release(b)
  BY <1>13 DEF Release
<1>14. CASE WriteFinal(b)
  BY <1>14 DEF WriteFinal
<1>15. CASE LastAnchors(b)
  BY <1>15 DEF LastAnchors
<1>16. CASE Raise(b)
  BY <1>16 DEF Raise
<1>17. CASE Except(b)
  BY <1>17 DEF Except
<1>18. CASE Finally(b)
  BY <1>18 DEF Finally, Forget
<1>19. CASE ControllerDies(b)
  BY <1>19 DEF ControllerDies, Forget
<1>20. CASE Pass(b)
  BY <1>20 DEF Pass
<1>21. CASE SendRequest(b)
  BY <1>21 DEF SendRequest, Advance, Runs
<1>22. CASE Seal(b)
  BY <1>22 DEF Seal
<1>23. CASE Receive(b)
  BY <1>23 DEF Receive, Advance, Keep, Runs
<1>24. CASE WriteOutput(b)
  BY <1>24 DEF WriteOutput, Advance, Runs
<1>25. CASE CoordinatorRaises(b)
  BY <1>25 DEF CoordinatorRaises, Advance, Runs
<1>26. CASE WriteFailure(b)
  BY <1>26 DEF WriteFailure, Advance, Runs
<1>27. CASE Ends(b)
  BY <1>27 DEF Ends
<1> QED
  BY <1>1, <1>2, <1>3, <1>4, <1>5, <1>6, <1>7, <1>8, <1>9, <1>10, <1>11, <1>12, <1>13, <1>14, <1>15, <1>16, <1>17, <1>18, <1>19, <1>20, <1>21, <1>22, <1>23, <1>24, <1>25, <1>26, <1>27 DEF Controls, Coordinates

\* Controllers that did not meet leave a directory to one of them.
LEMMA RaceStep ==
  ASSUME FreezeTypeOK, LockInv, TouchInv, RaceInv, NEW b \in Controller, Controls(b) \/ Coordinates(b)
  PROVE  RaceInv'
<1> SUFFICES ASSUME NEW x \in Controller, NEW y \in Controller, x # y, dir'[x] = dir'[y], dir'[y] \notin raced'
             PROVE  /\ ~(Searching(x)' /\ Searching(y)')
                    /\ Touched(y)' => ~Searching(x)' /\ ~owned'[x]
  BY DEF RaceInv
<1>1. dir[x] = dir[y] /\ dir[y] \notin raced /\ dir[y] \notin raced'
  BY DirIs, DirectoriesGrow
<1>2. /\ ~(Searching(x) /\ Searching(y))
      /\ Touched(y) => ~Searching(x) /\ ~owned[x]
      /\ Touched(x) => ~Searching(y) /\ ~owned[y]
  BY <1>1 DEF RaceInv
<1>3. (Touched(x) => dir[x] \in dirs) /\ (Touched(y) => dir[y] \in dirs)
  BY DEF TouchInv
<1>4. /\ Searching(b)' =>
           \/ Searching(b)
           \/ /\ dir[b] \notin dirs
              /\ \A z \in Controller : z # b /\ dir[z] = dir[b] /\ Searching(z) => dir[b] \in raced'
      /\ owned'[b] => owned[b] \/ Searching(b)
      /\ Touched(b)' => Touched(b) \/ (Searching(b) /\ at[b] = "mkdir")
  BY WhoSearches, DirectoriesGrow DEF Searching
<1>5. ASSUME NEW z \in Controller, z # b
      PROVE  (Searching(z)' <=> Searching(z)) /\ owned'[z] = owned[z] /\ (Touched(z)' <=> Touched(z))
  BY <1>5, OthersRest DEF Searching, Touched, Made
<1>6. at[b] = "mkdir" => owned[b] /\ lock = b
  BY DEF LockInv, LockOf
<1>7. \A z \in Controller : owned[z] => lock = z
  BY DEF LockInv, LockOf
<1>8. CASE x = b
  <2>1. (Searching(y)' <=> Searching(y)) /\ owned'[y] = owned[y] /\ (Touched(y)' <=> Touched(y))
    BY <1>8, <1>5
  <2> QED
    BY ONLY <2>1, <1>1, <1>2, <1>3, <1>4, <1>8, x # y, y \in Controller
<1>9. CASE y = b
  <2>1. (Searching(x)' <=> Searching(x)) /\ owned'[x] = owned[x] /\ (Touched(x)' <=> Touched(x))
    BY <1>9, <1>5
  <2> QED
    BY ONLY <2>1, <1>1, <1>2, <1>3, <1>4, <1>6, <1>7, <1>9, x # y, x \in Controller
<1>10. CASE x # b /\ y # b
  <2>1. (Searching(x)' <=> Searching(x)) /\ owned'[x] = owned[x] /\ (Touched(x)' <=> Touched(x))
    BY <1>10, <1>5
  <2>2. (Searching(y)' <=> Searching(y)) /\ (Touched(y)' <=> Touched(y))
    BY <1>10, <1>5
  <2> QED
    BY ONLY <2>1, <2>2, <1>2
<1> QED
  BY <1>8, <1>9, <1>10

Later == {"observation", "again", "verify", "release", "final", "last"}
Ending == {"finally", "returned"}

\* How the outcome of a controller comes about.
LEMMA WhoDecides ==
  ASSUME FreezeTypeOK, NEW b \in Controller, Controls(b) \/ Coordinates(b)
  PROVE  /\ at'[b] \in {"release", "final", "last"} /\ status'[b] = "EXECUTION_COMPLETE" =>
              /\ status[b] = "EXECUTION_COMPLETE" /\ anchors'[b] = anchors[b]
              /\ at[b] \in {"release", "final", "last"} \/ Verifies(dir[b], anchors[b], FALSE)
         /\ at'[b] = "last" => \/ at[b] = "last" /\ status'[b] = status[b]
                               \/ at[b] = "final" /\ Has(dir[b], "final-outcome")'
         /\ at'[b] \in Later => (at[b] \in Later /\ anchors'[b] = anchors[b]) \/ IsAnchors(anchors'[b])
<1> USE DEF FreezeTypeOK, shared, locals, workers, past, Move, Return, Body, Later
<1>p. \A d \in Directory : \A n, v : Put(d, n, v) => Has(d, n)'
  BY PutIs
<1>1. CASE CheckInputs(b)
  BY <1>1 DEF CheckInputs
<1>2. CASE CheckGuard(b)
  BY <1>2 DEF CheckGuard
<1>3. CASE TakeLock(b)
  BY <1>3 DEF TakeLock
<1>4. CASE MakeDirectory(b)
  BY <1>4 DEF MakeDirectory
<1>5. CASE WriteIntent(b)
  BY <1>5 DEF WriteIntent
<1>6. CASE Dispatch(b)
  BY <1>6 DEF Dispatch
<1>7. CASE WorkerReturns(b)
  BY <1>7 DEF WorkerReturns
<1>8. CASE WriteExecution(b)
  <2>1. at'[b] \in {"anchor", "finally"}
    BY <1>8 DEF WriteExecution
  <2> QED
    BY ONLY <2>1 DEF Later
<1>9. CASE Anchor(b)
  <2>1. PICK a : IsAnchors(a) /\ anchors' = [anchors EXCEPT ![b] = a]
    BY <1>9, AnchorIs
  <2>2. IsAnchors(anchors'[b])
    BY <2>1
  <2>3. at'[b] \in {"verify", "observation", "finally"}
    BY <1>9, AnchorIs
  <2> QED
    BY ONLY <2>2, <2>3
<1>10. CASE WriteObservation(b)
  BY <1>10 DEF WriteObservation
<1>11. CASE AnchorAgain(b)
  <2>1. PICK finished \in Finishes(b) : anchors' = [anchors EXCEPT ![b] = AnchorsOf(b, FALSE, finished)]
    BY <1>11 DEF AnchorAgain
  <2>2. IsAnchors(anchors'[b])
    BY <2>1 DEF IsAnchors, AnchorsOf
  <2>3. at'[b] \in {"verify", "finally"}
    BY <1>11 DEF AnchorAgain
  <2> QED
    BY ONLY <2>2, <2>3
<1>12. CASE VerifyAgain(b)
  BY <1>12 DEF VerifyAgain
<1>13. CASE Release(b)
  BY <1>13 DEF Release
<1>14. CASE WriteFinal(b)
  <2>1. CASE Over(b)
    <3>1. at'[b] = "finally"
      BY <1>14, <2>1 DEF WriteFinal
    <3> QED
      BY ONLY <3>1 DEF Later
  <2>2. CASE ~Over(b)
    <3>1. at[b] = "final" /\ at'[b] = "last" /\ UNCHANGED <<anchors, status>>
      BY <1>14, <2>2 DEF WriteFinal
    <3>2. Has(dir[b], "final-outcome")'
      BY <1>14, <2>2, <1>p DEF WriteFinal
    <3> QED
      BY ONLY <3>1, <3>2 DEF Later
  <2> QED
    BY <2>1, <2>2
<1>15. CASE LastAnchors(b)
  BY <1>15 DEF LastAnchors
<1>16. CASE Raise(b)
  BY <1>16 DEF Raise
<1>17. CASE Except(b)
  BY <1>17 DEF Except
<1>18. CASE Finally(b)
  BY <1>18 DEF Finally, Forget
<1>19. CASE ControllerDies(b)
  BY <1>19 DEF ControllerDies, Forget
<1>20. CASE Pass(b)
  BY <1>20 DEF Pass
<1>21. CASE SendRequest(b)
  BY <1>21 DEF SendRequest, Advance, Runs
<1>22. CASE Seal(b)
  BY <1>22 DEF Seal
<1>23. CASE Receive(b)
  BY <1>23 DEF Receive, Advance, Keep, Runs
<1>24. CASE WriteOutput(b)
  BY <1>24 DEF WriteOutput, Advance, Runs
<1>25. CASE CoordinatorRaises(b)
  BY <1>25 DEF CoordinatorRaises, Advance, Runs
<1>26. CASE WriteFailure(b)
  BY <1>26 DEF WriteFailure, Advance, Runs
<1>27. CASE Ends(b)
  BY <1>27 DEF Ends
<1> QED
  BY <1>1, <1>2, <1>3, <1>4, <1>5, <1>6, <1>7, <1>8, <1>9, <1>10, <1>11, <1>12, <1>13, <1>14, <1>15, <1>16, <1>17, <1>18, <1>19, <1>20, <1>21, <1>22, <1>23, <1>24, <1>25, <1>26, <1>27 DEF Controls, Coordinates

\* How a controller comes to report.
LEMMA WhoReports ==
  ASSUME FreezeTypeOK, NEW b \in Controller, Controls(b) \/ Coordinates(b)
  PROVE  \/ /\ anchors'[b] = anchors[b] /\ report'[b] = report[b]
            /\ at[b] \in Ending => at'[b] \in Ending
         \/ anchors'[b] = NoAnchors /\ report'[b] = "none"
         \/ /\ ~anchors'[b].final /\ at[b] \notin Ending
            /\ report'[b] = report[b] \/ (at'[b] = "finally" /\ report'[b] # "success")
         \/ /\ at[b] = "final" /\ at'[b] = "finally" /\ report'[b] = "rejected"
            /\ IsAnchors(anchors[b]) => anchors'[b].finished \in {"at the limit", "late"}
         \/ LastAnchors(b)
         \/ /\ anchors'[b] = anchors[b] /\ at[b] \notin Ending /\ at'[b] = "finally"
            /\ report'[b] # "success"
<1> USE DEF FreezeTypeOK, shared, locals, workers, past, Move, Return, Body, Ending
<1>1. CASE CheckInputs(b)
  BY <1>1 DEF CheckInputs
<1>2. CASE CheckGuard(b)
  BY <1>2 DEF CheckGuard
<1>3. CASE TakeLock(b)
  BY <1>3 DEF TakeLock
<1>4. CASE MakeDirectory(b)
  BY <1>4 DEF MakeDirectory
<1>5. CASE WriteIntent(b)
  BY <1>5 DEF WriteIntent
<1>6. CASE Dispatch(b)
  BY <1>6 DEF Dispatch
<1>7. CASE WorkerReturns(b)
  BY <1>7 DEF WorkerReturns
<1>8. CASE WriteExecution(b)
  BY <1>8 DEF WriteExecution
<1>9. CASE Anchor(b)
  <2>1. /\ at[b] = "anchor"
        /\ \E a : IsAnchors(a) /\ ~a.final /\ anchors' = [anchors EXCEPT ![b] = a]
        /\ \/ report' = report
           \/ /\ at' = [at EXCEPT ![b] = "finally"]
              /\ \E how \in {"late", "rejected"} : report' = [report EXCEPT ![b] = how]
    BY <1>9, AnchorIs
  <2>2. ~anchors'[b].final
    BY <2>1
  <2>3. report'[b] = report[b] \/ (at'[b] = "finally" /\ report'[b] # "success")
    BY <2>1
  <2> QED
    BY ONLY <2>1, <2>2, <2>3 DEF Ending
<1>10. CASE WriteObservation(b)
  BY <1>10 DEF WriteObservation
<1>11. CASE AnchorAgain(b)
  <2>1. PICK finished \in Finishes(b) : anchors' = [anchors EXCEPT ![b] = AnchorsOf(b, FALSE, finished)]
    BY <1>11 DEF AnchorAgain
  <2>2. ~anchors'[b].final
    BY <2>1 DEF AnchorsOf
  <2>3. at[b] = "again" /\ (report'[b] = report[b] \/ (at'[b] = "finally" /\ report'[b] # "success"))
    BY <1>11 DEF AnchorAgain
  <2> QED
    BY ONLY <2>2, <2>3 DEF Ending
<1>12. CASE VerifyAgain(b)
  BY <1>12 DEF VerifyAgain
<1>13. CASE Release(b)
  BY <1>13 DEF Release
<1>14. CASE WriteFinal(b)
  <2>1. CASE Over(b)
    <3>1. at[b] = "final" /\ at'[b] = "finally" /\ report'[b] = "rejected"
      BY <1>14, <2>1 DEF WriteFinal
    <3>2. PICK finished \in {"at the limit", "late"} : anchors' = [anchors EXCEPT ![b].finished = finished]
      BY <1>14, <2>1 DEF WriteFinal, Finishes
    <3>3. IsAnchors(anchors[b]) => anchors'[b].finished = finished
      BY <3>2 DEF IsAnchors
    <3> QED
      BY ONLY <3>1, <3>2, <3>3
  <2>2. CASE ~Over(b)
    <3>1. at[b] = "final" /\ UNCHANGED <<anchors, report>>
      BY <1>14, <2>2 DEF WriteFinal
    <3> QED
      BY ONLY <3>1 DEF Ending
  <2> QED
    BY <2>1, <2>2
<1>15. CASE LastAnchors(b)
  BY <1>15 DEF LastAnchors
<1>16. CASE Raise(b)
  BY <1>16 DEF Raise
<1>17. CASE Except(b)
  BY <1>17 DEF Except
<1>18. CASE Finally(b)
  BY <1>18 DEF Finally, Forget
<1>19. CASE ControllerDies(b)
  BY <1>19 DEF ControllerDies, Forget
<1>20. CASE Pass(b)
  BY <1>20 DEF Pass
<1>21. CASE SendRequest(b)
  BY <1>21 DEF SendRequest, Advance, Runs
<1>22. CASE Seal(b)
  BY <1>22 DEF Seal
<1>23. CASE Receive(b)
  BY <1>23 DEF Receive, Advance, Keep, Runs
<1>24. CASE WriteOutput(b)
  BY <1>24 DEF WriteOutput, Advance, Runs
<1>25. CASE CoordinatorRaises(b)
  BY <1>25 DEF CoordinatorRaises, Advance, Runs
<1>26. CASE WriteFailure(b)
  BY <1>26 DEF WriteFailure, Advance, Runs
<1>27. CASE Ends(b)
  BY <1>27 DEF Ends
<1> QED
  BY <1>1, <1>2, <1>3, <1>4, <1>5, <1>6, <1>7, <1>8, <1>9, <1>10, <1>11, <1>12, <1>13, <1>14, <1>15, <1>16, <1>17, <1>18, <1>19, <1>20, <1>21, <1>22, <1>23, <1>24, <1>25, <1>26, <1>27 DEF Controls, Coordinates

\* What is in a directory stays, and nothing is added but by its processes, its
\* controller, and one that fails with the lock.
LEMMA FilesStay ==
  ASSUME FreezeTypeOK, NEW b \in Controller, Controls(b) \/ Coordinates(b), NEW d \in Directory
  PROVE  /\ \A n : Has(d, n) => Has(d, n)' /\ files'[d][n] = files[d][n]
         /\ d = dir[b] => Made(b) \/ alive[b] # {} \/ (at[b] = "except" /\ owned[b])
            \/ files'[d] = files[d]
         /\ d # dir[b] => files'[d] = files[d]
<1>1. CASE UNCHANGED files
  BY <1>1 DEF Has
<1>2. ASSUME NEW name, NEW value, Put(dir[b], name, value),
             Made(b) \/ alive[b] # {} \/ (at[b] = "except" /\ owned[b])
      PROVE  /\ \A n : Has(d, n) => Has(d, n)' /\ files'[d][n] = files[d][n]
             /\ d # dir[b] => files'[d] = files[d]
  <2>1. dir[b] \in Directory /\ DOMAIN files = Directory
    BY DEF FreezeTypeOK
  <2> QED
    BY ONLY <1>2, <2>1, d \in Directory, PutIs
<1> QED
  BY <1>1, <1>2, WhoWrites

\* What a complete execution has left stays so when its processes are gone.
LEMMA GoodStays ==
  ASSUME FreezeTypeOK, NEW b \in Controller, Controls(b) \/ Coordinates(b), NEW d \in Directory, Good(d),
         d # dir[b] \/ alive[b] = {}
  PROVE  Good(d)'
<1>1. receipts'[d] = receipts[d] /\ raws'[d] = raws[d]
  BY LivingWork
<1>2. \A n : Has(d, n) => Has(d, n)' /\ files'[d][n] = files[d][n]
  BY FilesStay
<1> QED
  BY ONLY <1>1, <1>2, Good(d) DEF Good, MaterialWhole

\* A directory nobody works on stays as it is.
LEMMA ContentsStay ==
  ASSUME FreezeTypeOK, NEW b \in Controller, Controls(b) \/ Coordinates(b), NEW d \in Directory,
         d # dir[b] \/ (alive[b] = {} /\ ~Made(b) /\ ~(at[b] = "except" /\ owned[b]))
  PROVE  files'[d] = files[d] /\ receipts'[d] = receipts[d] /\ raws'[d] = raws[d]
BY LivingWork, FilesStay

\* A verification reads the directory, and nothing else.
LEMMA SameVerdict ==
  ASSUME NEW d, NEW a, NEW final, Verifies(d, a, final),
         files'[d] = files[d], receipts'[d] = receipts[d], raws'[d] = raws[d]
  PROVE  Verifies(d, a, final)'
BY DEF Verifies, MaterialWhole, InBudget, Has, Contents

\* The outcome of a controller that rests: others leave its directory to it.
LEMMA OthersOutcome ==
  ASSUME FreezeTypeOK, LockInv, TouchInv, CountInv, RaceInv, OutcomeInv,
         NEW b \in Controller, Controls(b) \/ Coordinates(b), NEW c \in Controller, c # b
  PROVE  Succeeding(c)' /\ Concluding(c)' /\ Concluded(c)' /\ Succeeded(c)'
<1>0. PICK d \in Directory : d = dir[c] /\ d = dir'[c]
  BY DirIs DEF FreezeTypeOK
<1>1. UNCHANGED <<at[c], status[c], step[c], alive[c], anchors[c], report[c]>>
  BY OthersRest
<1>2. Succeeding(c) /\ Concluding(c) /\ Concluded(c) /\ Succeeded(c)
  BY DEF OutcomeInv
<1>3. Touched(c) => d # dir[b] \/ ~Touched(b)
  BY <1>0 DEF TouchInv
<1>4. ~Touched(b) => alive[b] = {} /\ at[b] # "final" /\ ~Made(b)
  BY DEF LockInv, LockOf, Touched, Made, Working, Body
<1>a. PICK a : a = anchors[c] /\ a = anchors'[c]
  BY ONLY <1>1
<1>5. at[c] \in {"release", "final", "last"} /\ status[c] = "EXECUTION_COMPLETE" => Good(d)' /\ a.source
  <2> HAVE at[c] \in {"release", "final", "last"} /\ status[c] = "EXECUTION_COMPLETE"
  <2>2. Good(d) /\ a.source
    BY ONLY at[c] \in {"release", "final", "last"} /\ status[c] = "EXECUTION_COMPLETE", <1>2, <1>0, <1>a
       DEF Succeeding
  <2>3. Touched(c)
    BY DEF Touched, Made, Working, Body
  <2>4. d # dir[b] \/ alive[b] = {}
    BY ONLY <2>3, <1>3, <1>4
  <2> QED
    BY <2>2, <2>4, GoodStays
<1>6. at[c] = "last" => ~(d = dir[b] /\ at[b] = "final")
  <2>1. at[c] = "last" => Touched(c)
    BY DEF Touched, Made, Working, Body
  <2> QED
    BY ONLY <2>1, <1>3, <1>4
<1>7. /\ Has(d, "final-outcome") =>
           /\ Has(d, "final-outcome")' /\ files'[d]["final-outcome"] = files[d]["final-outcome"]
      /\ Has(d, "final-outcome") => (Published(d)' <=> Published(d))
  BY OutcomeWritten DEF Published
<1>8. Concluding(c)'
  BY ONLY <1>0, <1>1, <1>2, <1>7 DEF Concluding, IsAnchors
<1>9. Concluded(c)'
  BY ONLY <1>0, <1>1, <1>2, <1>7 DEF Concluded
<1>10. report[c] = "success" /\ d \notin raced' => Verifies(d, a, TRUE)'
  <2>1. HAVE report[c] = "success" /\ d \notin raced'
  <2>2. d \notin raced /\ step[c] # "none"
    BY <2>1, <1>2, DirectoriesGrow DEF Succeeded
  <2>3. Verifies(d, a, TRUE) /\ Touched(c)
    BY ONLY <2>1, <2>2, <1>0, <1>2, <1>a DEF Succeeded, Touched
  <2>4. d # dir[b] \/ (alive[b] = {} /\ ~Made(b) /\ ~owned[b])
    <3>1. d = dir[b] => ~owned[b]
      BY <2>2, <2>3, <1>0 DEF RaceInv
    <3> QED
      BY ONLY <3>1, <2>3, <1>3, <1>4
  <2>5. files'[d] = files[d] /\ receipts'[d] = receipts[d] /\ raws'[d] = raws[d]
    BY <2>4, ContentsStay
  <2> QED
    BY <2>3, <2>5, SameVerdict
<1>11. Succeeding(c)'
  BY ONLY <1>0, <1>1, <1>a, <1>5 DEF Succeeding
<1>12. Succeeded(c)'
  <2>1. report[c] = "success" => step[c] # "none" /\ alive[c] = {}
    BY ONLY <1>2 DEF Succeeded
  <2> QED
    BY ONLY <1>0, <1>1, <1>a, <1>10, <2>1 DEF Succeeded
<1> QED
  BY <1>8, <1>9, <1>11, <1>12

\* The outcome of the controller that takes the step.
LEMMA OwnOutcome ==
  ASSUME FreezeTypeOK, LockInv, TouchInv, CountInv, OutcomeInv,
         NEW b \in Controller, Controls(b) \/ Coordinates(b)
  PROVE  Succeeding(b)' /\ Concluding(b)' /\ Concluded(b)' /\ Succeeded(b)'
<1>0. PICK d \in Directory : d = dir[b] /\ d = dir'[b]
  BY DirIs DEF FreezeTypeOK
<1>1. Succeeding(b) /\ Concluding(b) /\ Concluded(b) /\ Succeeded(b) /\ CountOf(b)
  BY DEF OutcomeInv, CountInv
<1>2. /\ at'[b] \in {"release", "final", "last"} /\ status'[b] = "EXECUTION_COMPLETE" =>
              /\ status[b] = "EXECUTION_COMPLETE" /\ anchors'[b] = anchors[b]
              /\ at[b] \in {"release", "final", "last"} \/ Verifies(d, anchors[b], FALSE)
      /\ at'[b] = "last" => \/ at[b] = "last" /\ status'[b] = status[b]
                            \/ at[b] = "final" /\ Has(d, "final-outcome")'
      /\ at'[b] \in Later => (at[b] \in Later /\ anchors'[b] = anchors[b]) \/ IsAnchors(anchors'[b])
  <2>1. Has(dir[b], "final-outcome")' <=> Has(d, "final-outcome")'
    BY ONLY <1>0 DEF Has
  <2> QED
    BY <1>0, <2>1, WhoDecides
<1>7. /\ Has(d, "final-outcome") =>
           /\ Has(d, "final-outcome")' /\ files'[d]["final-outcome"] = files[d]["final-outcome"]
      /\ Has(d, "final-outcome") => (Published(d)' <=> Published(d))
  BY OutcomeWritten DEF Published
<1>8. Concluding(b)'
  <2>1. at'[b] = "last" => Has(d, "final-outcome")' /\ (Published(d)' <=> status'[b] = "EXECUTION_COMPLETE")
    <3>1. CASE at[b] = "last" /\ status'[b] = status[b]
      BY ONLY <3>1, <1>0, <1>1, <1>7 DEF Concluding
    <3>2. CASE at[b] = "final" /\ Has(d, "final-outcome")'
      <4>1. ~Has(d, "final-outcome")
        BY <3>2, <1>0 DEF TouchInv, Working, Body
      <4> QED
        BY <4>1, <3>2, OutcomeWritten
    <3> QED
      BY <3>1, <3>2, <1>2
  <2>2. at'[b] \in Later => IsAnchors(anchors'[b])
    BY ONLY <1>1, <1>2 DEF Concluding, Later
  <2>3. IsAnchors(anchors[b])' <=> IsAnchors(anchors'[b])
    BY DEF IsAnchors
  <2> QED
    BY ONLY <1>0, <2>1, <2>2, <2>3 DEF Concluding, Later
<1>3. status[b] = "EXECUTION_COMPLETE" => alive[b] = {} /\ step[b] # "none"
  BY ONLY <1>1 DEF CountOf
<1>5. Succeeding(b)'
  <2>1. at'[b] \in {"release", "final", "last"} /\ status'[b] = "EXECUTION_COMPLETE"
        => Good(d)' /\ anchors[b].source /\ anchors'[b] = anchors[b]
    <3> HAVE at'[b] \in {"release", "final", "last"} /\ status'[b] = "EXECUTION_COMPLETE"
    <3>1. /\ status[b] = "EXECUTION_COMPLETE" /\ anchors'[b] = anchors[b]
          /\ at[b] \in {"release", "final", "last"} \/ Verifies(d, anchors[b], FALSE)
      BY <1>2
    <3>2. Good(d) /\ anchors[b].source
      <4>1. CASE at[b] \in {"release", "final", "last"}
        BY ONLY <4>1, <3>1, <1>0, <1>1 DEF Succeeding
      <4>2. CASE Verifies(d, anchors[b], FALSE)
        BY ONLY <4>2 DEF Verifies, Good, MaterialWhole, InBudget
      <4> QED
        BY <4>1, <4>2, <3>1
    <3>3. Good(d)'
      BY <3>1, <3>2, <1>3, GoodStays
    <3> QED
      BY <3>1, <3>2, <3>3
  <2>2. PICK a : a = anchors[b]
    OBVIOUS
  <2> QED
    BY ONLY <1>0, <2>1, <2>2 DEF Succeeding
<1>l. CASE LastAnchors(b)
  <2>1. PICK finished \in Finishes(b) :
          /\ anchors' = [anchors EXCEPT ![b] =
               [@ EXCEPT !.contents = Contents(dir[b]), !.final = TRUE, !.finished = finished]]
          /\ at[b] = "last" /\ at' = [at EXCEPT ![b] = "finally"]
          /\ report' = [report EXCEPT ![b] =
               IF Over(b) \/ status[b] # "EXECUTION_COMPLETE" THEN "rejected" ELSE "success"]
          /\ UNCHANGED <<shared, dir, time, owned, cleaned, attempted, status, workers, past>>
    BY <1>l DEF LastAnchors, Return, Move
  <2>2. IsAnchors(anchors[b]) /\ Has(d, "final-outcome")
        /\ (Published(d) <=> status[b] = "EXECUTION_COMPLETE")
    BY ONLY <2>1, <1>0, <1>1 DEF Concluding
  <2> DEFINE a == anchors'[b]
  <2>3. a.contents = Contents(d) /\ a.final = TRUE /\ a.finished = finished /\ a.source = anchors[b].source
    <3>1. b \in DOMAIN anchors
      BY DEF FreezeTypeOK
    <3> QED
      BY ONLY <3>1, <2>1, <2>2, <1>0 DEF IsAnchors
  <2>4. at'[b] = "finally" /\ report'[b] =
               IF Over(b) \/ status[b] # "EXECUTION_COMPLETE" THEN "rejected" ELSE "success"
    BY ONLY <2>1, FreezeTypeOK, b \in Controller DEF FreezeTypeOK
  <2>5. finished = IF Over(b) THEN finished ELSE "in time"
    BY ONLY <2>1 DEF Finishes
  <2>6. Over(b) => finished \in {"at the limit", "late"}
    BY ONLY <2>1 DEF Finishes
  <2>7. ~Over(b) /\ status[b] = "EXECUTION_COMPLETE" => Verifies(d, a, TRUE)
    <3> HAVE ~Over(b) /\ status[b] = "EXECUTION_COMPLETE"
    <3>1. Good(d) /\ anchors[b].source
      BY ONLY <1>0, <1>1, <2>1, status[b] = "EXECUTION_COMPLETE" DEF Succeeding
    <3>2. a.finished # "late" /\ a.source
      BY <2>3, <2>5, <3>1
    <3>3. files[d]["final-outcome"] = "ok"
      BY <2>2 DEF Published
    <3> HIDE DEF a
    <3> QED
      BY ONLY <2>3, <3>1, <3>2, <3>3 DEF Verifies, Good, MaterialWhole, InBudget
  <2>8. Concluded(b)'
    <3>1. ~Over(b) /\ status[b] # "EXECUTION_COMPLETE" => Has(d, "final-outcome")' /\ ~Published(d)'
      BY ONLY <2>2, <1>7
    <3> QED
      BY ONLY <1>0, <2>3, <2>4, <2>6, <3>1 DEF Concluded
  <2>9. Succeeded(b)'
    <3>1. PICK x : x = anchors'[b]
      OBVIOUS
    <3>2. ~Over(b) /\ status[b] = "EXECUTION_COMPLETE" => Verifies(d, x, TRUE)'
      <4>1. files'[d] = files[d] /\ receipts'[d] = receipts[d] /\ raws'[d] = raws[d]
        BY ONLY <2>1 DEF shared
      <4> QED
        BY <4>1, <3>1, <2>7, SameVerdict
    <3>3. step' = step /\ alive' = alive
      BY ONLY <2>1 DEF workers
    <3> QED
      BY ONLY <1>0, <1>3, <2>4, <3>1, <3>2, <3>3 DEF Succeeded
  <2> QED
    BY <1>5, <1>8, <2>8, <2>9
<1>o. CASE \/ /\ anchors'[b] = anchors[b] /\ report'[b] = report[b]
              /\ at[b] \in Ending => at'[b] \in Ending
           \/ anchors'[b] = NoAnchors /\ report'[b] = "none"
           \/ /\ ~anchors'[b].final /\ at[b] \notin Ending
              /\ report'[b] = report[b] \/ (at'[b] = "finally" /\ report'[b] # "success")
           \/ /\ at[b] = "final" /\ at'[b] = "finally" /\ report'[b] = "rejected"
              /\ IsAnchors(anchors[b]) => anchors'[b].finished \in {"at the limit", "late"}
           \/ /\ anchors'[b] = anchors[b] /\ at[b] \notin Ending /\ at'[b] = "finally"
              /\ report'[b] # "success"
  <2>1. Concluded(b)'
    BY ONLY <1>o, <1>0, <1>1, <1>7 DEF Concluded, Concluding, Ending
  <2>2. report'[b] = "success" => report[b] = "success" /\ at[b] \in Ending /\ anchors'[b] = anchors[b]
    BY ONLY <1>o, <1>1 DEF Concluded, Ending
  <2>3. report[b] = "success" /\ at[b] \in Ending => step'[b] # "none" /\ alive'[b] = {}
    <3> HAVE report[b] = "success" /\ at[b] \in Ending
    <3>1. step[b] # "none" /\ alive[b] = {}
      BY <1>1 DEF Succeeded
    <3> QED
      BY <3>1, WhoCounts DEF Ending
  <2>4. report[b] = "success" /\ at[b] \in Ending =>
          /\ files'[d] = files[d] /\ receipts'[d] = receipts[d] /\ raws'[d] = raws[d]
          /\ raced \subseteq raced'
    <3> HAVE report[b] = "success" /\ at[b] \in Ending
    <3>1. alive[b] = {}
      BY <1>1 DEF Succeeded
    <3>2. ~Made(b) /\ at[b] # "except"
      BY DEF Ending, Made, Working, Body
    <3> QED
      BY <3>1, <3>2, ContentsStay, DirectoriesGrow
  <2>5. PICK a : a = anchors[b]
    OBVIOUS
  <2>6. report'[b] = "success" /\ d \notin raced' => Verifies(d, a, TRUE)'
    <3> HAVE report'[b] = "success" /\ d \notin raced'
    <3>1. d \notin raced
      BY <2>2, <2>4
    <3>2. Verifies(d, a, TRUE)
      BY ONLY <3>1, <2>2, <2>5, <1>0, <1>1, report'[b] = "success" DEF Succeeded
    <3> QED
      BY <3>2, <2>2, <2>4, SameVerdict
  <2>7. Succeeded(b)'
    BY ONLY <1>0, <2>2, <2>3, <2>5, <2>6 DEF Succeeded
  <2> QED
    BY <1>5, <1>8, <2>1, <2>7
<1> QED
  BY <1>l, <1>o, WhoReports

FreezeInv == FreezeTypeOK /\ LockInv /\ TouchInv /\ CountInv /\ RaceInv /\ OutcomeInv

\* The inductive invariant, its beginning and its steps.
LEMMA FreezeInitially == FreezeInit => FreezeInv
<1> SUFFICES ASSUME FreezeInit PROVE FreezeInv
  OBVIOUS
<1>1. FreezeTypeOK
  <2>1. dirs \subseteq Directory /\ DOMAIN files = Directory /\ \A d \in Directory : DOMAIN files[d] \subseteq Names
    BY DEF FreezeInit
  <2>2. /\ raws \in [Directory -> SUBSET (1..N)]
        /\ receipts \in [Directory -> [1..N -> {"none", "ok", "failed"}]]
        /\ sent \in [Directory -> [1..N -> Nat]]
    BY DEF FreezeInit
  <2>3. lock \in Controller \union {NoController} /\ faults \in 0..MaxFaults /\ raced \subseteq Directory
    <3>1. lock = NoController /\ faults = 0 /\ raced = {} /\ MaxFaults \in Nat
      BY FreezeAssumption DEF FreezeInit
    <3> QED
      BY ONLY <3>1
  <2>6. guard \in BOOLEAN
    BY Zenon DEF FreezeInit
  <2>4. /\ at \in [Controller -> Body \union {"idle", "except", "finally", "returned", "dead"}]
        /\ dir \in [Controller -> Directory] /\ time \in [Controller -> Times]
        /\ owned \in [Controller -> BOOLEAN] /\ cleaned \in [Controller -> BOOLEAN]
        /\ attempted \in [Controller -> BOOLEAN]
    BY DEF FreezeInit, Times
  <2>5. /\ status \in [Controller -> {"none", "EXECUTION_COMPLETE", "EXECUTION_FAILED",
                                       "FINAL_VERIFICATION_FAILED"}]
        /\ DOMAIN anchors = Controller
        /\ report \in [Controller -> {"none", "success", "late", "rejected", "controller-failed",
                                       "request-rejected"}]
        /\ step \in [Controller -> {"none", "budget", "sent", "outputs", "answered", "failing", "failed"}]
        /\ alive \in [Controller -> SUBSET {"coordinator", "request"}]
    BY DEF FreezeInit
  <2> QED
    BY ONLY <2>1, <2>2, <2>3, <2>4, <2>5, <2>6 DEF FreezeTypeOK
<1>2. \A c \in Controller :
        /\ at[c] = "idle" /\ step[c] = "none" /\ status[c] = "none" /\ report[c] = "none"
        /\ alive[c] = {} /\ ~owned[c] /\ ~attempted[c] /\ anchors[c] = NoAnchors /\ dir[c] \in Directory
  BY DEF FreezeInit
<1>3. \A d \in Directory : Untouched(d) /\ ~Published(d)
  BY DEF FreezeInit, Untouched, Published, Has
<1>4. LockInv
  BY ONLY <1>2 DEF LockInv, LockOf, Working, Body
<1>5. TouchInv
  BY ONLY <1>2, <1>3 DEF TouchInv, Touched, Made, Working, Body
<1>6. CountInv
  BY ONLY <1>2, <1>3 DEF CountInv, CountOf
<1>7. RaceInv
  BY ONLY <1>2 DEF RaceInv, Searching, Touched, Made, Working, Body
<1>8. OutcomeInv
  BY ONLY <1>2 DEF OutcomeInv, Succeeding, Concluding, Concluded, Succeeded
<1> QED
  BY <1>1, <1>4, <1>5, <1>6, <1>7, <1>8 DEF FreezeInv

\* Every step keeps the whole invariant.
LEMMA FreezeStep ==
  ASSUME FreezeInv, FreezeNext \/ UNCHANGED freezeVars
  PROVE  FreezeInv'
<1>1. CASE FreezeNext
  <2>1. PICK b \in Controller : Controls(b) \/ Coordinates(b)
    BY <1>1 DEF FreezeNext, Controls, Coordinates
  <2>2. FreezeTypeOK' /\ LockInv' /\ TouchInv' /\ CountInv' /\ RaceInv'
    BY <2>1, <1>1, FreezeTypeStep, LockStep, TouchStep, CountStep, RaceStep DEF FreezeInv
  <2>3. OutcomeInv'
    <3>1. ASSUME NEW c \in Controller PROVE Succeeding(c)' /\ Concluding(c)' /\ Concluded(c)' /\ Succeeded(c)'
      <4>1. CASE c = b
        BY <4>1, <2>1, OwnOutcome DEF FreezeInv
      <4>2. CASE c # b
        BY <4>2, <2>1, OthersOutcome DEF FreezeInv
      <4> QED
        BY <4>1, <4>2
    <3> QED
      BY <3>1 DEF OutcomeInv
  <2> QED
    BY <2>2, <2>3 DEF FreezeInv
<1>2. CASE UNCHANGED freezeVars
  <2> USE <1>2 DEF FreezeInv, freezeVars, shared, locals, workers, past
  <2>1. FreezeTypeOK'
    BY FreezeTypeStep
  <2>2. LockInv'
    BY DEF LockInv, LockOf
  <2>3. TouchInv'
    BY DEF TouchInv, Touched, Made, Untouched, Has
  <2>4. CountInv'
    BY DEF CountInv, CountOf, Received, SentOf, Published, Has
  <2>5. RaceInv'
    BY DEF RaceInv, Searching, Touched, Made
  <2>6. OutcomeInv'
    <3>1. \A c \in Controller : Succeeding(c)'
      BY DEF OutcomeInv, Succeeding, Good, MaterialWhole, Has
    <3>2. \A c \in Controller : Concluding(c)'
      BY DEF OutcomeInv, Concluding, Has, Published, IsAnchors
    <3>3. \A c \in Controller : Concluded(c)'
      BY DEF OutcomeInv, Concluded, Has, Published
    <3>4. \A c \in Controller : Succeeded(c)'
      BY DEF OutcomeInv, Succeeded, Verifies, MaterialWhole, InBudget, Has, Contents
    <3> QED
      BY ONLY <3>1, <3>2, <3>3, <3>4 DEF OutcomeInv
  <2> QED
    BY <2>1, <2>2, <2>3, <2>4, <2>5, <2>6
<1> QED
  BY <1>1, <1>2

\* The invariant holds of capture, whatever controllers, directories, number of
\* requests and faults there are.
THEOREM FreezeInvariance == FreezeSpec => []FreezeInv
<1>1. FreezeInit => FreezeInv
  BY FreezeInitially
<1>2. FreezeInv /\ [FreezeNext]_freezeVars => FreezeInv'
  BY FreezeStep
<1> QED
  BY <1>1, <1>2, PTL DEF FreezeSpec

\* Every variable of the daily freeze keeps its type.
THEOREM FreezeTypeCorrect == FreezeSpec => []FreezeTypeOK
<1>1. FreezeInv => FreezeTypeOK
  BY DEF FreezeInv
<1> QED
  BY <1>1, FreezeInvariance, PTL

\* A success that capture reported verifies from then on, whatever others do,
\* unless two controllers found the directory free at one time.
THEOREM SuccessStands == FreezeSpec => []SuccessVerifies
<1>1. FreezeInv => SuccessVerifies
  BY DEF FreezeInv, OutcomeInv, Succeeded, SuccessVerifies
<1> QED
  BY <1>1, FreezeInvariance, PTL

\* What capture did not report as a success never verifies, but at the very
\* instant of the limit.
THEOREM RejectionStands == FreezeSpec => []RejectedStaysRejected
<1>1. FreezeInv => RejectedStaysRejected
  <2> SUFFICES ASSUME FreezeInv, NEW c \in Controller, at[c] = "returned", report[c] # "success",
                      anchors[c] # NoAnchors, anchors[c].finished # "at the limit",
                      Verifies(dir[c], anchors[c], TRUE)
               PROVE  FALSE
    BY DEF RejectedStaysRejected
  <2>1. anchors[c].final /\ files[dir[c]]["final-outcome"] = "ok" /\ anchors[c].finished # "late"
    BY DEF Verifies, InBudget
  <2>2. Has(dir[c], "final-outcome") /\ ~Published(dir[c])
    BY <2>1 DEF FreezeInv, OutcomeInv, Concluded
  <2> QED
    BY <2>1, <2>2 DEF Published
<1> QED
  BY <1>1, FreezeInvariance, PTL

\* What of a step the promise sees, but for the outcome.
LEMMA WhoServes ==
  ASSUME FreezeTypeOK, NEW b \in Controller, Controls(b) \/ Coordinates(b)
  PROVE  \/ dirs' = dirs /\ sent' = sent /\ alive'[b] \subseteq alive[b]
         \/ /\ dir[b] \notin dirs /\ dirs' = dirs \union {dir[b]}
            /\ UNCHANGED <<files, alive, sent>>
         \/ /\ at[b] = "dispatch" /\ alive'[b] = {"coordinator"}
            /\ UNCHANGED <<dirs, files, sent>>
         \/ /\ step[b] = "budget" /\ alive[b] # {} /\ alive'[b] = alive[b] \union {"request"}
            /\ sent' = [sent EXCEPT ![dir[b]][Current(dir[b])] = @ + 1]
            /\ UNCHANGED <<dirs, files>>
<1> USE DEF FreezeTypeOK, shared, locals, workers, past, Move, Return
<1>1. CASE CheckInputs(b)
  BY <1>1 DEF CheckInputs
<1>2. CASE CheckGuard(b)
  BY <1>2 DEF CheckGuard
<1>3. CASE TakeLock(b)
  BY <1>3 DEF TakeLock
<1>4. CASE MakeDirectory(b)
  BY <1>4 DEF MakeDirectory
<1>5. CASE WriteIntent(b)
  BY <1>5 DEF WriteIntent
<1>6. CASE Dispatch(b)
  BY <1>6 DEF Dispatch
<1>7. CASE WorkerReturns(b)
  BY <1>7 DEF WorkerReturns
<1>8. CASE WriteExecution(b)
  BY <1>8 DEF WriteExecution
<1>9. CASE Anchor(b)
  <2>1. UNCHANGED <<dirs, sent, alive>>
    BY <1>9, AnchorIs
  <2> QED
    BY ONLY <2>1
<1>10. CASE WriteObservation(b)
  BY <1>10 DEF WriteObservation
<1>11. CASE AnchorAgain(b)
  BY <1>11 DEF AnchorAgain
<1>12. CASE VerifyAgain(b)
  BY <1>12 DEF VerifyAgain
<1>13. CASE Release(b)
  BY <1>13 DEF Release
<1>14. CASE WriteFinal(b)
  BY <1>14 DEF WriteFinal
<1>15. CASE LastAnchors(b)
  BY <1>15 DEF LastAnchors
<1>16. CASE Raise(b)
  BY <1>16 DEF Raise
<1>17. CASE Except(b)
  BY <1>17 DEF Except
<1>18. CASE Finally(b)
  BY <1>18 DEF Finally, Forget
<1>19. CASE ControllerDies(b)
  BY <1>19 DEF ControllerDies, Forget
<1>20. CASE Pass(b)
  BY <1>20 DEF Pass
<1>21. CASE SendRequest(b)
  BY <1>21 DEF SendRequest, Advance, Runs
<1>22. CASE Seal(b)
  BY <1>22 DEF Seal
<1>23. CASE Receive(b)
  BY <1>23 DEF Receive, Advance, Keep, Runs
<1>24. CASE WriteOutput(b)
  BY <1>24 DEF WriteOutput, Advance, Runs
<1>25. CASE CoordinatorRaises(b)
  BY <1>25 DEF CoordinatorRaises, Advance, Runs
<1>26. CASE WriteFailure(b)
  BY <1>26 DEF WriteFailure, Advance, Runs
<1>27. CASE Ends(b)
  BY <1>27 DEF Ends
<1> QED
  BY <1>1, <1>2, <1>3, <1>4, <1>5, <1>6, <1>7, <1>8, <1>9, <1>10, <1>11, <1>12, <1>13, <1>14, <1>15, <1>16, <1>17, <1>18, <1>19, <1>20, <1>21, <1>22, <1>23, <1>24, <1>25, <1>26, <1>27 DEF Controls, Coordinates

Busy == {dir[c] : c \in {b \in Controller : alive[b] # {}}}
Requested == [d \in Directory |-> Cardinality(SentOf(d))]
Publications == {d \in Directory : Published(d)}

\* The state of the promise, by name.
LEMMA PromiseVars ==
  /\ Promise!vars = <<dirs, Busy, Requested, Publications>>
  /\ Promise!vars' = <<dirs', Busy', Requested', Publications'>>
BY DEF Promise!vars, Busy, Requested, Publications, SentOf, Published

\* The steps of the promise, in the terms of the freeze.
LEMMA PromiseActions ==
  /\ Promise!Next <=>
       \/ \E a \in Directory :
            \/ a \notin dirs /\ dirs' = dirs \union {a} /\ Busy' = Busy /\ Requested' = Requested
               /\ Publications' = Publications
            \/ a \in dirs \ Publications /\ Busy = {} /\ Busy' = {a} /\ dirs' = dirs /\ Requested' = Requested
               /\ Publications' = Publications
            \/ a \in Busy \ Publications /\ Requested[a] < N
               /\ Requested' = [Requested EXCEPT ![a] = @ + 1]
               /\ dirs' = dirs /\ Busy' = Busy /\ Publications' = Publications
            \/ Requested[a] = N /\ a \notin Busy /\ Publications' = Publications \union {a}
               /\ dirs' = dirs /\ Busy' = Busy /\ Requested' = Requested
       \/ Busy' = {} /\ dirs' = dirs /\ Requested' = Requested /\ Publications' = Publications
BY DEF Promise!Next, Promise!Use, Promise!Start, Promise!Request, Promise!Publish, Promise!Stop,
       Busy, Requested, Publications, SentOf, Published

\* Processes live in one directory at a time.
LEMMA BusyIs ==
  ASSUME LockInv, NEW b \in Controller, alive[b] # {}
  PROVE  Busy = {dir[b]}
<1>1. \A c \in Controller : alive[c] # {} => c = b
  BY DEF LockInv, LockOf
<1> QED
  BY <1>1 DEF Busy

\* Every step of the freeze is one of the promise, or none.
LEMMA PromiseStep ==
  ASSUME FreezeInv, FreezeInv', NEW b \in Controller, Controls(b) \/ Coordinates(b)
  PROVE  Promise!Next \/ UNCHANGED Promise!vars
<1> USE DEF FreezeInv
<1>0. PICK d \in Directory : d = dir[b] /\ d = dir'[b]
  BY DirIs DEF FreezeTypeOK
<1>d. dir' = dir /\ \A c \in Controller : c # b => alive'[c] = alive[c]
  BY DirIs, OthersRest
<1>p. files' = files => Publications' = Publications
  BY DEF Publications, Published, Has
<1>s. sent' = sent => Requested' = Requested
  BY DEF Requested, SentOf
<1>a. alive'[b] = alive[b] => Busy' = Busy
  <2>1. alive'[b] = alive[b] => \A c \in Controller : alive'[c] = alive[c]
    BY <1>d
  <2> QED
    BY ONLY <2>1, <1>d DEF Busy
<1>b. /\ alive[b] # {} => Busy = {d}
      /\ alive'[b] # {} => Busy' = {d}
  <2>1. alive'[b] # {} => Busy' = {dir'[b]}
    <3> HAVE alive'[b] # {}
    <3>1. \A c \in Controller : alive'[c] # {} => c = b
      BY DEF LockInv, LockOf
    <3> QED
      BY <3>1 DEF Busy
  <2> QED
    BY <2>1, BusyIs, <1>0
<1>e. alive[b] # {} /\ alive'[b] = {} => Busy' = {}
  <2> HAVE alive[b] # {} /\ alive'[b] = {}
  <2>1. \A c \in Controller : alive[c] # {} => c = b
    BY DEF LockInv, LockOf
  <2>2. \A c \in Controller : alive'[c] = {}
    BY <2>1, <1>d
  <2> QED
    BY ONLY <2>2 DEF Busy
<1>1. CASE dirs' = dirs /\ sent' = sent /\ alive'[b] \subseteq alive[b]
  <2>1. CASE Publications' = Publications
    <3>1. Busy' = Busy \/ Busy' = {}
      BY ONLY <1>1, <1>a, <1>b, <1>e
    <3> QED
      BY ONLY <1>1, <2>1, <3>1, <1>s, PromiseVars, PromiseActions
  <2>2. CASE Publications' # Publications
    <3>1. \A e \in Directory : Published(e) => Published(e)'
      BY OutcomeWritten DEF Published
    <3>2. PICK e \in Directory : Published(e)' /\ ~Published(e)
      BY ONLY <2>2, <3>1 DEF Publications
    <3>3. /\ e = dir[b] /\ at[b] = "final" /\ at'[b] = "last" /\ status[b] = "EXECUTION_COMPLETE"
          /\ alive' = alive
      BY <3>1, <3>2, OutcomeWritten DEF Published, workers
    <3>4. \A f \in Directory : Published(f)' => Published(f) \/ f = e
      BY <3>3, OutcomeWritten DEF Published
    <3>5. Publications' = Publications \union {e}
      BY ONLY <3>1, <3>2, <3>4 DEF Publications
    <3>6. SentOf(e) = 1..N /\ alive[b] = {}
      BY <3>3 DEF CountInv, CountOf
    <3>7. Requested[e] = N
      <4>1. Cardinality(1..N) = N
        BY FS_Interval, FreezeAssumption
      <4> QED
        BY <4>1, <3>6 DEF Requested
    <3>8. e \notin Busy
      <4>1. SUFFICES ASSUME NEW c \in Controller, alive[c] # {}, dir[c] = e PROVE FALSE
        BY DEF Busy
      <4>2. Touched(c) /\ Touched(b)
        BY <3>3, <4>1 DEF LockInv, LockOf, Touched, Made, Working, Body
      <4> QED
        BY <4>1, <4>2, <3>3, <3>6 DEF TouchInv
    <3>9. Busy' = Busy /\ dirs' = dirs /\ Requested' = Requested
      BY <3>3, <1>1, <1>a, <1>s
    <3> QED
      BY ONLY <3>5, <3>7, <3>8, <3>9, e \in Directory, PromiseActions
  <2> QED
    BY <2>1, <2>2
<1>2. CASE /\ dir[b] \notin dirs /\ dirs' = dirs \union {dir[b]}
           /\ UNCHANGED <<files, alive, sent>>
  <2>1. Busy' = Busy /\ Requested' = Requested /\ Publications' = Publications
    BY <1>2, <1>a, <1>s, <1>p
  <2> QED
    BY ONLY <1>2, <1>0, <2>1, PromiseActions
<1>3. CASE /\ at[b] = "dispatch" /\ alive'[b] = {"coordinator"}
           /\ UNCHANGED <<dirs, files, sent>>
  <2>1. Untouched(dir[b]) /\ dir[b] \in dirs
    BY <1>3 DEF TouchInv, Touched, Made, Working, Body
  <2>2. d \in dirs \ Publications
    BY ONLY <2>1, <1>0 DEF Untouched, Publications, Published
  <2>3. owned[b] /\ lock = b /\ step[b] = "none"
    BY <1>3 DEF LockInv, LockOf, Working, Body
  <2>4. Busy = {}
    <3>1. \A c \in Controller : alive[c] = {}
      BY <2>3 DEF LockInv, LockOf
    <3> QED
      BY ONLY <3>1 DEF Busy
  <2>5. Busy' = {d} /\ dirs' = dirs /\ Requested' = Requested /\ Publications' = Publications
    BY <1>3, <1>b, <1>s, <1>p
  <2> QED
    BY ONLY <2>2, <2>4, <2>5, <1>0, PromiseActions
<1>4. CASE /\ step[b] = "budget" /\ alive[b] # {} /\ alive'[b] = alive[b] \union {"request"}
           /\ sent' = [sent EXCEPT ![dir[b]][Current(dir[b])] = @ + 1]
           /\ UNCHANGED <<dirs, files>>
  <2>1. PICK k \in 0..(N - 1) : Received(d) = 1..k /\ SentOf(d) = 1..k
    <3>1. CountOf(b)
      BY DEF CountInv
    <3> QED
      BY ONLY <3>1, <1>4, <1>0 DEF CountOf
  <2>2. SentOf(d)' = 1..(k + 1)
    <3>1. Current(d) = k + 1
      BY <2>1, CurrentIs
    <3> QED
      BY <3>1, <2>1, <1>4, <1>0, OneMoreSent
  <2>3. N \in Nat /\ k \in Nat /\ Cardinality(1..k) = k /\ Cardinality(1..(k + 1)) = k + 1
    BY FS_Interval, FreezeAssumption
  <2>4. Requested[d] = k /\ Requested'[d] = k + 1
    BY <2>1, <2>2, <2>3 DEF Requested
  <2>5. \A e \in Directory : e # d => Requested'[e] = Requested[e]
    <3>1. \A e \in Directory : e # d => sent'[e] = sent[e]
      BY <1>4, <1>0 DEF FreezeTypeOK
    <3> QED
      BY ONLY <3>1 DEF Requested, SentOf
  <2>6. Requested' = [Requested EXCEPT ![d] = @ + 1]
    BY ONLY <2>4, <2>5 DEF Requested
  <2>7. d \in Busy \ Publications
    <3>1. ~Published(d)
      BY <1>4, <1>0 DEF CountInv, CountOf
    <3> QED
      BY <3>1, <1>4, <1>b DEF Publications
  <2>8. Busy' = Busy /\ dirs' = dirs /\ Publications' = Publications
    BY <1>4, <1>b, <1>p
  <2>9. Requested[d] < N
    BY <2>1, <2>3, <2>4
  <2> QED
    BY ONLY <2>6, <2>7, <2>8, <2>9, <1>0, PromiseActions
<1> QED
  BY <1>1, <1>2, <1>3, <1>4, WhoServes

\* The lock, the directory and the receipts of capture and coordinate keep the
\* promise: an authorization is used once, one at a time, with its requests in
\* the plan, and published for good after the last.
THEOREM FreezeImplementsSingleUse == FreezeSpec => ImplementsSingleUse
<1>1. FreezeInit => Promise!Init
  <2> SUFFICES ASSUME FreezeInit PROVE Promise!Init
    OBVIOUS
  <2>1. dirs = {} /\ \A c \in Controller : alive[c] = {}
    BY DEF FreezeInit
  <2>2. \A d \in Directory : {i \in 1..N : sent[d][i] > 0} = {} /\ ~Has(d, "final-outcome")
    BY DEF FreezeInit, Has
  <2>3. Cardinality({}) = 0
    BY FS_EmptySet
  <2> QED
    BY ONLY <2>1, <2>2, <2>3 DEF Promise!Init
<1>2. FreezeInv /\ FreezeInv' /\ [FreezeNext]_freezeVars => [Promise!Next]_Promise!vars
  <2> SUFFICES ASSUME FreezeInv, FreezeInv', [FreezeNext]_freezeVars PROVE [Promise!Next]_Promise!vars
    OBVIOUS
  <2>1. CASE FreezeNext
    <3>1. PICK b \in Controller : Controls(b) \/ Coordinates(b)
      BY <2>1 DEF FreezeNext, Controls, Coordinates
    <3> QED
      BY <3>1, PromiseStep
  <2>2. CASE UNCHANGED freezeVars
    BY <2>2 DEF freezeVars, shared, workers, locals, Promise!vars, Has
  <2> QED
    BY <2>1, <2>2
<1> QED
  BY <1>1, <1>2, FreezeInvariance, PTL DEF FreezeSpec, ImplementsSingleUse, Promise!Spec
=============================================================================
