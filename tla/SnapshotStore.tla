--------------------------- MODULE SnapshotStore ---------------------------
(* The frozen snapshot of a day: CloseWindowCollector.freeze and           *)
(* ImmutableSnapshotStore of data/snapshot_store.py, run by several        *)
(* processes (run_close_snapshot_collector.py --freeze) on one store, and  *)
(* run_close_confirmation.py that loads the file and decides.              *)
(*                                                                         *)
(* A file is a name that leads to an inode: a process that has opened the  *)
(* temporary file writes to its inode, whatever became of the name, and    *)
(* replace makes the target lead to it (POSIX).  Any process may die at    *)
(* any step.  What a file holds is known by the input that it was made of. *)
(* The audit of refused source statuses is a second file, named by its     *)
(* content; directories and the encoding of a file are left out.           *)
EXTENDS PointInTime, Sequences

CONSTANTS Process,
          Input,    \* the input files that processes are started with
          rowsOf, statusOf, contractOf,  \* what is in them
          MaxRuns,  \* bound on the freezes
          Torn,     \* an empty or a half written file; it is not JSON
          Nobody    \* no input, no inode

ASSUME SnapshotStoreAssumption ==
  /\ MaxRuns \in Nat
  /\ Torn # Nobody /\ {Torn, Nobody} \intersect Input = {} /\ Nobody \notin Nat
  /\ \A in \in Input : contractOf[in] = NoValue => SingleCutoff(0) # NoValue

ASSUME ContractAssumption ==
  \A in \in Input :
    contractOf[in] # NoValue => {contractOf[in].feature, contractOf[in].deadline} \subseteq Int

\* A row's own contract is one of the day's (build_close_time_contract).
DayContracts ==
  {TimeContract(semantics, verified) :
     semantics \in {"minute_end", "minute_start", "unverified"}, verified \in BOOLEAN}

RowFields ==
  {"type", "code", "event", "observed", "available", "cutoff", "published", "source", "raw",
   "body", "key", "grade", "final", "contract", "at"}
IsRow(r) ==
  /\ DOMAIN r = RowFields /\ r = [f \in RowFields |-> r[f]]
  /\ {r.event, r.observed, r.available, r.cutoff, r.source, r.raw, r.body} \subseteq Int
  /\ r.published \in Int \union {NoValue} /\ r.at \in Nat
  /\ r.contract \in DayContracts \union {NoValue}

\* The key of a status ends with a hash of all of it: two that agree in what
\* the key is made of are one.
HashedFields == {"event", "available", "body", "raw", "observed", "cutoff"}
ASSUME RowAssumption ==
  \A in \in Input :
    /\ IsFiniteSet(rowsOf[in]) /\ IsFiniteSet(statusOf[in])
    /\ \A r \in rowsOf[in] : IsRow(r) /\ r.type # "source_status"
    /\ \A r \in statusOf[in] : IsRow(r) /\ r.type = "source_status"
    /\ \A r, q \in Stored(statusOf[in]) : (\A f \in HashedFields : r[f] = q[f]) => r = q

VARIABLES
  disk,      \* the inode that each file of the store leads to
  content,   \* what is in an inode
  pc,        \* where a freezing process is
  input,     \* the input it read
  writing,   \* the file it is writing
  handle,    \* the inode of its open temporary file
  result,    \* how its last run ended
  runs,      \* freezes begun
  overlap,   \* files that two processes were past the check of at one time
  published, \* what the file of the day was, in order
  decided    \* what the runs of the strategy decided on

processVars == <<pc, input, writing, handle, result, runs>>
historyVars == <<overlap, published, decided>>
vars == <<disk, content, processVars, historyVars>>

Places == {"idle", "exists", "open", "write", "replace", "written"}
Results == {"none", "empty", "frozen", "failed", "crashed"}

(* ------------------------------- a snapshot ----------------------------- *)

DecisionTime(contract) == IF contract = NoValue THEN 0 ELSE contract.decision

\* The hash is a hash of all this.
SnapshotHash(d, contract, rows, status) ==
  <<d, ContractOr(contract, d), Accepted(rows, d, contract), Accepted(status, d, contract)>>

\* freeze holds every row to the contract c of the snapshot, a single cutoff
\* when the input names none, and hashes it under the contract as it came.
Snapshot(in, d, c, rows, status) ==
  [decision |-> d, contract |-> contractOf[in], records |-> rows, status |-> status,
   rejected |-> Rejected(rowsOf[in], d, c),
   ready |-> DataReady(rows, status, c), eligible |-> Eligible(rows, c),
   hash |-> SnapshotHash(d, contractOf[in], rows, status)]

Frozen == [in \in Input |->
  LET d == DecisionTime(contractOf[in])
      c == ContractOr(contractOf[in], d)
  IN Snapshot(in, d, c, Accepted(rowsOf[in], d, c), Accepted(statusOf[in], d, c))]

Refused == [in \in Input |->
  LET d == DecisionTime(contractOf[in])
  IN Rejected(statusOf[in], d, ContractOr(contractOf[in], d))]

\* load_frozen_snapshot filters the rows again and compares the hash.
Reloaded(hash, d, contract, rows, status) ==
  [whole |-> hash = SnapshotHash(d, contract, rows, status), records |-> rows, status |-> status]

ReloadedUnder(f, contract) ==
  Reloaded(f.hash, f.decision, contract,
           Accepted(f.records, f.decision, contract), Accepted(f.status, f.decision, contract))

\* LoadedWithoutContract: the file is held to the decision alone.
LoadedWithoutContract == [in \in Input |-> ReloadedUnder(Frozen[in], NoValue)]

Loaded == [in \in Input |-> ReloadedUnder(Frozen[in], contractOf[in])]

\* snapshot_at and evaluate_snapshot filter them once more and decide.
Evaluation(rows, status, c) ==
  [records |-> rows, ready |-> DataReady(rows, status, c), eligible |-> Eligible(rows, c)]

DecisionOn(loaded, d, c) ==
  Evaluation(Accepted(loaded.records, d, c), Accepted(loaded.status, d, c), c)

Decision == [in \in Input |->
  LET d == DecisionTime(contractOf[in])
  IN DecisionOn(Loaded[in], d, ContractOr(contractOf[in], d))]

(* --------------------------------- files -------------------------------- *)

\* An audit is named by the statuses it lists; the file of the day lists none.
Day == {}
Files == {Day} \union {Refused[in] : in \in Input}
Target(file) == <<file, "json">>
\* TemporaryInPlace: the file is written where it will be.
TemporaryInPlace(file) == Target(file)

Temporary(file) == <<file, "tmp">>

\* The same text: the snapshots are equal, or the audits are.
Same(file, in, other) ==
  /\ other # Torn
  /\ IF file = Day THEN Frozen[in] = Frozen[other] ELSE Refused[other] = file

Init ==
  /\ disk = [n \in {} |-> Nobody]
  /\ content = [i \in {} |-> Torn]
  /\ pc = [p \in Process |-> "idle"]
  /\ input = [p \in Process |-> Nobody]
  /\ writing = [p \in Process |-> Day]
  /\ handle = [p \in Process |-> Nobody]
  /\ result = [p \in Process |-> "none"]
  /\ runs = 0
  /\ overlap = {}
  /\ published = <<>>
  /\ decided = {}

Exists(name) == name \in DOMAIN disk
ContentOf(name) == content[disk[name]]

Goto(p, place) == pc' = [pc EXCEPT ![p] = place] /\ UNCHANGED result
Stop(p, how) == pc' = [pc EXCEPT ![p] = "idle"] /\ result' = [result EXCEPT ![p] = how]

(* ------------------------------- freezing ------------------------------- *)

Freeze(p) ==
  /\ pc[p] = "idle" /\ runs < MaxRuns
  /\ runs' = runs + 1
  /\ \E in \in Input :
       /\ input' = [input EXCEPT ![p] = in]
       /\ IF Frozen[in].records = {} THEN Stop(p, "empty")
          ELSE /\ pc' = [pc EXCEPT ![p] = "exists"]
               /\ result' = [result EXCEPT ![p] = "none"]
  /\ writing' = [writing EXCEPT ![p] = Day]
  /\ UNCHANGED <<disk, content, handle, historyVars>>

\* Past the check, the process replaces the file whatever happens.
Unchecked(p, file) == pc[p] \in {"open", "write", "replace"} /\ writing[p] = file

\* CheckExistsReturns: what is already there needs no audit.
CheckExistsReturns(p) ==
  LET target == Target(writing[p])
  IN /\ pc[p] = "exists"
     /\ IF Exists(target) THEN Stop(p, IF Same(writing[p], input[p], ContentOf(target))
                                       THEN "frozen" ELSE "failed")
        ELSE Goto(p, "open")
     /\ UNCHANGED <<disk, content, input, writing, handle, runs, historyVars>>

CheckExists(p) ==
  LET target == Target(writing[p])
  IN /\ pc[p] = "exists"
     /\ \/ /\ Exists(target) /\ Same(writing[p], input[p], ContentOf(target))
           /\ Goto(p, "written") /\ UNCHANGED overlap
        \/ /\ Exists(target) /\ ~Same(writing[p], input[p], ContentOf(target))
           /\ Stop(p, "failed") /\ UNCHANGED overlap
        \/ /\ ~Exists(target)
           /\ Goto(p, "open")
           /\ overlap' = IF \E q \in Process \ {p} : Unchecked(q, writing[p])
                         THEN overlap \union {writing[p]} ELSE overlap
     /\ UNCHANGED <<disk, content, input, writing, handle, runs, published, decided>>

\* write_text opens the file, which empties it, and then writes it.
OpenTemporary(p) ==
  LET name == Temporary(writing[p])
      inode == IF Exists(name) THEN disk[name] ELSE Cardinality(DOMAIN content)
  IN /\ pc[p] = "open" /\ Goto(p, "write")
     /\ disk' = [n \in DOMAIN disk \union {name} |-> IF n = name THEN inode ELSE disk[n]]
     /\ content' = [i \in DOMAIN content \union {inode} |-> IF i = inode THEN Torn ELSE content[i]]
     /\ handle' = [handle EXCEPT ![p] = inode]
     /\ UNCHANGED <<input, writing, runs, historyVars>>

\* On top of what another process wrote, a shorter text leaves its end behind.
WriteTemporary(p) ==
  /\ pc[p] = "write" /\ Goto(p, "replace")
  /\ \/ content' = [content EXCEPT ![handle[p]] = input[p]]
     \/ /\ content[handle[p]] # Torn
        /\ ~Same(writing[p], input[p], content[handle[p]])
        /\ content' = [content EXCEPT ![handle[p]] = Torn]
  /\ UNCHANGED <<disk, input, writing, handle, runs, historyVars>>

\* The temporary file may be gone: another process has moved it away.
Replace(p) ==
  LET tmp == Temporary(writing[p])
      target == Target(writing[p])
  IN /\ pc[p] = "replace"
     /\ \/ /\ Exists(tmp)
           /\ disk' = [n \in (DOMAIN disk \ {tmp}) \union {target} |->
                         IF n = target THEN disk[tmp] ELSE disk[n]]
           /\ published' = IF writing[p] = Day
                           THEN Append(published, ContentOf(tmp)) ELSE published
           /\ Goto(p, "written")
        \/ /\ ~Exists(tmp)
           /\ Stop(p, "failed")
           /\ UNCHANGED <<disk, published>>
     /\ handle' = [handle EXCEPT ![p] = Nobody]
     /\ UNCHANGED <<content, input, writing, runs, overlap, decided>>

\* The file is there; what was refused is written next, if anything was.
Written(p) ==
  /\ pc[p] = "written"
  /\ IF writing[p] = Day /\ Refused[input[p]] # {}
     THEN writing' = [writing EXCEPT ![p] = Refused[input[p]]] /\ Goto(p, "exists")
     ELSE Stop(p, "frozen") /\ UNCHANGED writing
  /\ UNCHANGED <<disk, content, input, handle, runs, historyVars>>

\* A process that dies while it writes leaves what it had written.
Crash(p) ==
  /\ pc[p] # "idle"
  /\ Stop(p, "crashed")
  /\ \/ UNCHANGED content
     \/ /\ pc[p] = "write"
        /\ content' = [content EXCEPT ![handle[p]] = Torn]
  /\ handle' = [handle EXCEPT ![p] = Nobody]
  /\ UNCHANGED <<disk, input, writing, runs, historyVars>>

\* run_close_confirmation: a file that is not whole decides nothing.
Decide ==
  /\ Exists(Target(Day))
  /\ ContentOf(Target(Day)) # Torn
  /\ Loaded[ContentOf(Target(Day))].whole
  /\ decided' = decided \union {ContentOf(Target(Day))}
  /\ UNCHANGED <<disk, content, processVars, overlap, published>>

Next ==
  \/ \E p \in Process : \/ Freeze(p) \/ CheckExists(p) \/ OpenTemporary(p)
                        \/ WriteTemporary(p) \/ Replace(p) \/ Written(p) \/ Crash(p)
  \/ Decide

Spec == Init /\ [][Next]_vars

(* ------------------------------ properties ------------------------------ *)

\* Every name leads to a file, and a process that writes has it open.
TypeOK ==
  /\ \E n \in Nat : DOMAIN content = 0..(n - 1)
  /\ content \in [DOMAIN content -> Input \union {Torn}]
  /\ disk \in [DOMAIN disk -> DOMAIN content]
  /\ pc \in [Process -> Places]
  /\ input \in [Process -> Input \union {Nobody}]
  /\ writing \in [Process -> Files]
  /\ handle \in [Process -> DOMAIN content \union {Nobody}]
  /\ result \in [Process -> Results]
  /\ runs \in 0..MaxRuns
  /\ published \in Seq(Input \union {Torn})
  /\ decided \subseteq Input
  /\ \A p \in Process : pc[p] # "idle" => input[p] \in Input
  /\ \A p \in Process : pc[p] \in {"write", "replace"} => handle[p] \in DOMAIN content

AsFrozen(decision, f) ==
  \A part \in {"records", "ready", "eligible"} : decision[part] = f[part]

\* What happened or was published after the feature cutoff, a source status
\* after the collection deadline, and what was in hand only after the deadline.
AfterTheFact(r, c) ==
  \/ r.event > IF r.type = "source_status" THEN c.deadline ELSE c.feature
  \/ r.type = "news" /\ r.published # NoValue /\ r.published > c.feature
  \/ r.observed > c.deadline \/ r.available > c.deadline
Past(rows, c) == {r \in rows : ~AfterTheFact(r, c)}

\* The snapshot of an input from which the future is cut off.
FrozenOfPast(in) ==
  LET d == DecisionTime(contractOf[in])
      c == ContractOr(contractOf[in], d)
  IN Snapshot(in, d, c, Accepted(Past(rowsOf[in], c), d, c), Accepted(Past(statusOf[in], c), d, c))

\* A decision is the one that would have been made had nothing come after the
\* cutoffs: through freeze, load_frozen_snapshot and snapshot_at a row of the
\* future is neither used nor does it displace a row for the same thing that
\* was known in time (records_available_at before the choice of a winner,
\* close_confirmation_readiness.py l. 219-250).
FutureDecidesNothing ==
  \A in \in decided : AsFrozen(Decision[in], FrozenOfPast(in))

\* As long as no two freezes are past the check of write_once at one time,
\* the first snapshot of a day stands: crashes, repeats and other inputs
\* never replace it, and it is whole.
FirstFreezeStands ==
  Day \notin overlap =>
    /\ Len(published) <= 1
    /\ Exists(Target(Day)) => ContentOf(Target(Day)) \in {published[i] : i \in DOMAIN published}
    /\ \A i \in DOMAIN published : published[i] # Torn
    /\ \A in \in decided : in \in {published[i] : i \in DOMAIN published}

\* Whatever is loaded decides as it was frozen: the filterings agree on the
\* rows, on data_ready and on the stocks, and no whole file is refused.
DecidesAsFrozen ==
  /\ \A in \in decided : AsFrozen(Decision[in], Frozen[in])
  /\ \A in \in {published[i] : i \in DOMAIN published} \ {Torn} : Loaded[in].whole

\* A freeze that reports success has left the audit of every source status
\* it refused, also when an earlier freeze died between the two files.
AuditKept ==
  \A p \in Process :
    LET audit == Refused[input[p]]
    IN result[p] = "frozen" /\ audit # {} /\ audit \notin overlap
       => Exists(Target(audit)) /\ Same(audit, input[p], ContentOf(Target(audit)))

\* Two rows for the same thing differ in more than when they were observed.
Telling(r) == <<r.event, r.available, r.source, r.raw, r.body>>
Unambiguous(rows) ==
  \A r, q \in rows : LogicalKey(r) = LogicalKey(q) => r = q \/ Telling(r) # Telling(q)

\* The same rows, each as often: a row that comes twice is refused once.
Copies(rows, s) == {r \in rows : Shelved(r) = s}
Reordered(rows, other) ==
  \A s \in Stored(rows) \union Stored(other) :
    Cardinality(Copies(rows, s)) = Cardinality(Copies(other, s))
SameRows(in, other) ==
  /\ Reordered(rowsOf[in], rowsOf[other])
  /\ Reordered(statusOf[in], statusOf[other])
  /\ contractOf[in] = contractOf[other]

\* The order of an input's rows does not decide whether it is the frozen one,
\* where the winner key tells the rows apart.
OrderIrrelevant ==
  \A p \in Process : \A in \in {published[i] : i \in DOMAIN published} \ {Torn} :
    input[p] # Nobody /\ SameRows(input[p], in) /\ Unambiguous(Stored(rowsOf[in]))
    => Same(Day, input[p], in)
=============================================================================
