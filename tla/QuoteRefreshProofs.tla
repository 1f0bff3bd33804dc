------------------------- MODULE QuoteRefreshProofs -------------------------
EXTENDS QuoteRefresh, TLAPS

(* A monotonic clock reads a natural number: boots lie in the past.        *)
LEMMA MonotonicType ==
  ASSUME TypeOK
  PROVE  Monotonic \in Nat
<1>1. time \in Nat /\ boot \in 0..time
  BY DEF TypeOK
<1>2. QED
  BY <1>1 DEF Monotonic

(* Every step keeps the types.                                             *)
LEMMA TypeStep ==
  ASSUME TypeOK, [Next]_vars
  PROVE  TypeOK'
<1> USE ClickAssumption, TimeAssumption DEF ClickAssumption, TimeAssumption, TypeOK, Goto, Raises, BodyFails, control, store, locals, Labels, Statuses, Ended, Monotonic, Elapsed, None
<1>1. ASSUME NEW b \in Click, Enter(b) PROVE TypeOK'
  BY <1>1 DEF Enter
<1>2. ASSUME NEW b \in Click, Guard(b) PROVE TypeOK'
  BY <1>2 DEF Guard
<1>3. ASSUME NEW b \in Click, Acquire(b) PROVE TypeOK'
  BY <1>3 DEF Acquire
<1>4. ASSUME NEW b \in Click, CheckPending(b) PROVE TypeOK'
  BY <1>4 DEF CheckPending
<1>5. ASSUME NEW b \in Click, Cooldown(b) PROVE TypeOK'
  <2>1. Monotonic \in Nat
    BY MonotonicType
  <2>2. stamps' \in {stamps, stamps \union {Monotonic}}
    BY <1>5 DEF Cooldown
  <2>3. /\ status' \in [Click -> Statuses]
        /\ pc' \in [Click -> Labels]
        /\ target' \in [Click -> BOOLEAN]
    BY <1>5 DEF Cooldown
  <2>4. stamps' \subseteq Nat
    BY <2>1, <2>2, Zenon
  <2>5. QED
    BY <1>5, <2>3, <2>4 DEF Cooldown
<1>6. ASSUME NEW b \in Click, Dispatch(b) PROVE TypeOK'
  BY <1>6 DEF Dispatch
<1>7. ASSUME NEW b \in Click, DispatchTooLate(b) PROVE TypeOK'
  BY <1>7 DEF DispatchTooLate
<1>8. ASSUME NEW b \in Click, WorkerCleaned(b) PROVE TypeOK'
  BY <1>8 DEF WorkerCleaned
<1>9. ASSUME NEW b \in Click, WorkerUnclean(b) PROVE TypeOK'
  BY <1>9 DEF WorkerUnclean
<1>10. ASSUME NEW b \in Click, SaveSnapshot(b) PROVE TypeOK'
  BY <1>10 DEF SaveSnapshot
<1>11. ASSUME NEW b \in Click, Candidate(b) PROVE TypeOK'
  BY <1>11 DEF Candidate
<1>12. ASSUME NEW b \in Click, WriteReceipt(b) PROVE TypeOK'
  BY <1>12 DEF WriteReceipt
<1>13. ASSUME NEW b \in Click, WriteRelease(b) PROVE TypeOK'
  BY <1>13 DEF WriteRelease
<1>14. ASSUME NEW b \in Click, MarkPending(b) PROVE TypeOK'
  BY <1>14 DEF MarkPending
<1>15. ASSUME NEW b \in Click, Unlock(b) PROVE TypeOK'
  BY <1>15 DEF Unlock
<1>16. ASSUME NEW b \in Click, Unlocked(b) PROVE TypeOK'
  BY <1>16 DEF Unlocked
<1>17. ASSUME NEW b \in Click, SettleFailure(b) PROVE TypeOK'
  BY <1>17 DEF SettleFailure
<1>18. ASSUME NEW b \in Click, FinalResult(b) PROVE TypeOK'
  BY <1>18 DEF FinalResult
<1>19. ASSUME NEW b \in Click, FinalCommit(b) PROVE TypeOK'
  BY <1>19 DEF FinalCommit
<1>20. ASSUME NEW b \in Click, ObserveCompletion(b) PROVE TypeOK'
  BY <1>20 DEF ObserveCompletion
<1>21. ASSUME NEW b \in Click, FinalConfirmation(b) PROVE TypeOK'
  BY <1>21 DEF FinalConfirmation
<1>22. ASSUME NEW b \in Click, ReturnSuccess(b) PROVE TypeOK'
  BY <1>22 DEF ReturnSuccess, ReadOutcome, Outcome
<1>23. ASSUME NEW b \in Click, HandlerConfirmed(b) PROVE TypeOK'
  BY <1>23 DEF HandlerConfirmed
<1>24. ASSUME NEW b \in Click, HandlerFails(b) PROVE TypeOK'
  BY <1>24 DEF HandlerFails
<1>25. ASSUME NEW b \in Click, WorkerExits(b) PROVE TypeOK'
  BY <1>25 DEF WorkerExits
<1>26. ASSUME NEW b \in Click, Crash(b) PROVE TypeOK'
  BY <1>26 DEF Crash
<1>27. CASE Tick
  BY <1>27 DEF Tick
<1>28. CASE Reboot
  BY <1>28 DEF Reboot
<1>29. CASE UNCHANGED vars
  BY <1>29 DEF vars
<1>30. QED
  BY <1>1, <1>2, <1>3, <1>4, <1>5, <1>6, <1>7, <1>8, <1>9, <1>10, <1>11, <1>12, <1>13, <1>14, <1>15, <1>16, <1>17, <1>18, <1>19, <1>20, <1>21, <1>22, <1>23, <1>24, <1>25, <1>26, <1>27, <1>28, <1>29 DEF Next, Step

(* Every step keeps LockInv.                                               *)
LEMMA LockStep ==
  ASSUME TypeOK, LockInv, [Next]_vars
  PROVE  LockInv'
<1> USE ClickAssumption DEF ClickAssumption, TypeOK, LockInv, HeldLabels, Goto, Raises, BodyFails, control, store, locals, Labels, Ended
<1>1. ASSUME NEW b \in Click, Enter(b) PROVE LockInv'
  BY <1>1 DEF Enter
<1>2. ASSUME NEW b \in Click, Guard(b) PROVE LockInv'
  BY <1>2 DEF Guard
<1>3. ASSUME NEW b \in Click, Acquire(b) PROVE LockInv'
  BY <1>3 DEF Acquire
<1>4. ASSUME NEW b \in Click, CheckPending(b) PROVE LockInv'
  BY <1>4 DEF CheckPending
<1>5. ASSUME NEW b \in Click, Cooldown(b) PROVE LockInv'
  BY <1>5 DEF Cooldown
<1>6. ASSUME NEW b \in Click, Dispatch(b) PROVE LockInv'
  BY <1>6 DEF Dispatch
<1>7. ASSUME NEW b \in Click, DispatchTooLate(b) PROVE LockInv'
  BY <1>7 DEF DispatchTooLate
<1>8. ASSUME NEW b \in Click, WorkerCleaned(b) PROVE LockInv'
  BY <1>8 DEF WorkerCleaned
<1>9. ASSUME NEW b \in Click, WorkerUnclean(b) PROVE LockInv'
  BY <1>9 DEF WorkerUnclean
<1>10. ASSUME NEW b \in Click, SaveSnapshot(b) PROVE LockInv'
  BY <1>10 DEF SaveSnapshot
<1>11. ASSUME NEW b \in Click, Candidate(b) PROVE LockInv'
  BY <1>11 DEF Candidate
<1>12. ASSUME NEW b \in Click, WriteReceipt(b) PROVE LockInv'
  BY <1>12 DEF WriteReceipt
<1>13. ASSUME NEW b \in Click, WriteRelease(b) PROVE LockInv'
  BY <1>13 DEF WriteRelease, MayUnlock
<1>14. ASSUME NEW b \in Click, MarkPending(b) PROVE LockInv'
  BY <1>14 DEF MarkPending
<1>15. ASSUME NEW b \in Click, Unlock(b) PROVE LockInv'
  BY <1>15 DEF Unlock
<1>16. ASSUME NEW b \in Click, Unlocked(b) PROVE LockInv'
  BY <1>16 DEF Unlocked
<1>17. ASSUME NEW b \in Click, SettleFailure(b) PROVE LockInv'
  BY <1>17 DEF SettleFailure
<1>18. ASSUME NEW b \in Click, FinalResult(b) PROVE LockInv'
  BY <1>18 DEF FinalResult
<1>19. ASSUME NEW b \in Click, FinalCommit(b) PROVE LockInv'
  BY <1>19 DEF FinalCommit
<1>20. ASSUME NEW b \in Click, ObserveCompletion(b) PROVE LockInv'
  BY <1>20 DEF ObserveCompletion
<1>21. ASSUME NEW b \in Click, FinalConfirmation(b) PROVE LockInv'
  BY <1>21 DEF FinalConfirmation
<1>22. ASSUME NEW b \in Click, ReturnSuccess(b) PROVE LockInv'
  BY <1>22 DEF ReturnSuccess
<1>23. ASSUME NEW b \in Click, HandlerConfirmed(b) PROVE LockInv'
  BY <1>23 DEF HandlerConfirmed
<1>24. ASSUME NEW b \in Click, HandlerFails(b) PROVE LockInv'
  BY <1>24 DEF HandlerFails
<1>25. ASSUME NEW b \in Click, WorkerExits(b) PROVE LockInv'
  BY <1>25 DEF WorkerExits
<1>26. ASSUME NEW b \in Click, Crash(b) PROVE LockInv'
  BY <1>26 DEF Crash
<1>27. CASE Tick
  BY <1>27 DEF Tick
<1>28. CASE Reboot
  BY <1>28 DEF Reboot
<1>29. CASE UNCHANGED vars
  BY <1>29 DEF vars
<1>30. QED
  BY <1>1, <1>2, <1>3, <1>4, <1>5, <1>6, <1>7, <1>8, <1>9, <1>10, <1>11, <1>12, <1>13, <1>14, <1>15, <1>16, <1>17, <1>18, <1>19, <1>20, <1>21, <1>22, <1>23, <1>24, <1>25, <1>26, <1>27, <1>28, <1>29 DEF Next, Step

(* Every step keeps PublishInv.                                            *)
LEMMA PublishStep ==
  ASSUME TypeOK, LockInv, PublishInv, [Next]_vars
  PROVE  PublishInv'
<1> USE ClickAssumption, TimeAssumption DEF ClickAssumption, TimeAssumption, TypeOK, LockInv, PublishInv, HeldLabels, Goto, Raises, BodyFails, control, store, locals, Labels, Ended, IsCandidate, Confirmed, CandidateValid, None, Statuses
<1>1. ASSUME NEW b \in Click, Enter(b) PROVE PublishInv'
  BY <1>1 DEF Enter
<1>2. ASSUME NEW b \in Click, Guard(b) PROVE PublishInv'
  BY <1>2 DEF Guard
<1>3. ASSUME NEW b \in Click, Acquire(b) PROVE PublishInv'
  BY <1>3 DEF Acquire
<1>4. ASSUME NEW b \in Click, CheckPending(b) PROVE PublishInv'
  BY <1>4 DEF CheckPending, PendingSettled
<1>5. ASSUME NEW b \in Click, Cooldown(b) PROVE PublishInv'
  BY <1>5 DEF Cooldown
<1>6. ASSUME NEW b \in Click, Dispatch(b) PROVE PublishInv'
  BY <1>6 DEF Dispatch
<1>7. ASSUME NEW b \in Click, DispatchTooLate(b) PROVE PublishInv'
  BY <1>7 DEF DispatchTooLate
<1>8. ASSUME NEW b \in Click, WorkerCleaned(b) PROVE PublishInv'
  BY <1>8 DEF WorkerCleaned
<1>9. ASSUME NEW b \in Click, WorkerUnclean(b) PROVE PublishInv'
  BY <1>9 DEF WorkerUnclean
<1>10. ASSUME NEW b \in Click, SaveSnapshot(b) PROVE PublishInv'
  BY <1>10 DEF SaveSnapshot
<1>11. ASSUME NEW b \in Click, Candidate(b) PROVE PublishInv'
  BY <1>11 DEF Candidate
<1>12. ASSUME NEW b \in Click, WriteReceipt(b) PROVE PublishInv'
  BY <1>12 DEF WriteReceipt
<1>13. ASSUME NEW b \in Click, WriteRelease(b) PROVE PublishInv'
  BY <1>13 DEF WriteRelease, MayUnlock
<1>14. ASSUME NEW b \in Click, MarkPending(b) PROVE PublishInv'
  BY <1>14 DEF MarkPending
<1>15. ASSUME NEW b \in Click, Unlock(b) PROVE PublishInv'
  BY <1>15 DEF Unlock
<1>16. ASSUME NEW b \in Click, Unlocked(b) PROVE PublishInv'
  BY <1>16 DEF Unlocked
<1>17. ASSUME NEW b \in Click, SettleFailure(b) PROVE PublishInv'
  BY <1>17 DEF SettleFailure
<1>18. ASSUME NEW b \in Click, FinalResult(b) PROVE PublishInv'
  BY <1>18 DEF FinalResult
<1>19. ASSUME NEW b \in Click, FinalCommit(b) PROVE PublishInv'
  BY <1>19 DEF FinalCommit
<1>20. ASSUME NEW b \in Click, ObserveCompletion(b) PROVE PublishInv'
  BY <1>20 DEF ObserveCompletion
<1>21. ASSUME NEW b \in Click, FinalConfirmation(b) PROVE PublishInv'
  BY <1>21 DEF FinalConfirmation
<1>22. ASSUME NEW b \in Click, ReturnSuccess(b) PROVE PublishInv'
  BY <1>22 DEF ReturnSuccess
<1>23. ASSUME NEW b \in Click, HandlerConfirmed(b) PROVE PublishInv'
  BY <1>23 DEF HandlerConfirmed
<1>24. ASSUME NEW b \in Click, HandlerFails(b) PROVE PublishInv'
  BY <1>24 DEF HandlerFails
<1>25. ASSUME NEW b \in Click, WorkerExits(b) PROVE PublishInv'
  BY <1>25 DEF WorkerExits
<1>26. ASSUME NEW b \in Click, Crash(b) PROVE PublishInv'
  BY <1>26 DEF Crash
<1>27. CASE Tick
  BY <1>27 DEF Tick
<1>28. CASE Reboot
  BY <1>28 DEF Reboot
<1>29. CASE UNCHANGED vars
  BY <1>29 DEF vars
<1>30. QED
  BY <1>1, <1>2, <1>3, <1>4, <1>5, <1>6, <1>7, <1>8, <1>9, <1>10, <1>11, <1>12, <1>13, <1>14, <1>15, <1>16, <1>17, <1>18, <1>19, <1>20, <1>21, <1>22, <1>23, <1>24, <1>25, <1>26, <1>27, <1>28, <1>29 DEF Next, Step

(* Every step keeps CooldownInv.                                           *)
LEMMA CooldownStep ==
  ASSUME TypeOK, LockInv, CooldownInv, [Next]_vars
  PROVE  CooldownInv'
<1> USE ClickAssumption, TimeAssumption DEF ClickAssumption, TimeAssumption, TypeOK, LockInv, CooldownInv, HeldLabels, Goto, Raises, BodyFails, control, store, locals, Labels, Ended
<1>1. ASSUME NEW b \in Click, Enter(b) PROVE CooldownInv'
  BY <1>1 DEF Enter
<1>2. ASSUME NEW b \in Click, Guard(b) PROVE CooldownInv'
  BY <1>2 DEF Guard
<1>3. ASSUME NEW b \in Click, Acquire(b) PROVE CooldownInv'
  BY <1>3 DEF Acquire
<1>4. ASSUME NEW b \in Click, CheckPending(b) PROVE CooldownInv'
  BY <1>4 DEF CheckPending
<1>5. ASSUME NEW b \in Click, Cooldown(b) PROVE CooldownInv'
  BY <1>5 DEF Cooldown, CooldownOver, Monotonic
<1>6. ASSUME NEW b \in Click, Dispatch(b) PROVE CooldownInv'
  BY <1>6 DEF Dispatch
<1>7. ASSUME NEW b \in Click, DispatchTooLate(b) PROVE CooldownInv'
  BY <1>7 DEF DispatchTooLate
<1>8. ASSUME NEW b \in Click, WorkerCleaned(b) PROVE CooldownInv'
  BY <1>8 DEF WorkerCleaned
<1>9. ASSUME NEW b \in Click, WorkerUnclean(b) PROVE CooldownInv'
  BY <1>9 DEF WorkerUnclean
<1>10. ASSUME NEW b \in Click, SaveSnapshot(b) PROVE CooldownInv'
  BY <1>10 DEF SaveSnapshot
<1>11. ASSUME NEW b \in Click, Candidate(b) PROVE CooldownInv'
  BY <1>11 DEF Candidate
<1>12. ASSUME NEW b \in Click, WriteReceipt(b) PROVE CooldownInv'
  BY <1>12 DEF WriteReceipt
<1>13. ASSUME NEW b \in Click, WriteRelease(b) PROVE CooldownInv'
  <2>1. CASE ~(MayUnlock(b) /\ dispatched[b] /\ pc'[b] = "mark")
    BY <1>13, <2>1 DEF WriteRelease, MayUnlock
  <2>2. CASE MayUnlock(b) /\ dispatched[b] /\ pc'[b] = "mark"
    <3>1. Monotonic = time - boot /\ stamps' = stamps \union {Monotonic}
      BY <1>13, <2>2 DEF WriteRelease, Monotonic
    <3>2. UNCHANGED <<time, boot, lock, dispatched, cleaned, exitedAt>>
      BY <1>13 DEF WriteRelease
    <3>3. \E s \in stamps' : s >= exitedAt'[b] - boot'
      BY <2>2, <3>1, <3>2 DEF MayUnlock
    <3>4. QED
      BY <1>13, <3>1, <3>2, <3>3 DEF WriteRelease
  <2>3. QED
    BY <2>1, <2>2
<1>14. ASSUME NEW b \in Click, MarkPending(b) PROVE CooldownInv'
  BY <1>14 DEF MarkPending
<1>15. ASSUME NEW b \in Click, Unlock(b) PROVE CooldownInv'
  BY <1>15 DEF Unlock
<1>16. ASSUME NEW b \in Click, Unlocked(b) PROVE CooldownInv'
  BY <1>16 DEF Unlocked
<1>17. ASSUME NEW b \in Click, SettleFailure(b) PROVE CooldownInv'
  BY <1>17 DEF SettleFailure
<1>18. ASSUME NEW b \in Click, FinalResult(b) PROVE CooldownInv'
  BY <1>18 DEF FinalResult
<1>19. ASSUME NEW b \in Click, FinalCommit(b) PROVE CooldownInv'
  BY <1>19 DEF FinalCommit
<1>20. ASSUME NEW b \in Click, ObserveCompletion(b) PROVE CooldownInv'
  BY <1>20 DEF ObserveCompletion
<1>21. ASSUME NEW b \in Click, FinalConfirmation(b) PROVE CooldownInv'
  BY <1>21 DEF FinalConfirmation
<1>22. ASSUME NEW b \in Click, ReturnSuccess(b) PROVE CooldownInv'
  BY <1>22 DEF ReturnSuccess
<1>23. ASSUME NEW b \in Click, HandlerConfirmed(b) PROVE CooldownInv'
  BY <1>23 DEF HandlerConfirmed
<1>24. ASSUME NEW b \in Click, HandlerFails(b) PROVE CooldownInv'
  BY <1>24 DEF HandlerFails
<1>25. ASSUME NEW b \in Click, WorkerExits(b) PROVE CooldownInv'
  BY <1>25 DEF WorkerExits
<1>26. ASSUME NEW b \in Click, Crash(b) PROVE CooldownInv'
  BY <1>26 DEF Crash
<1>27. CASE Tick
  BY <1>27 DEF Tick
<1>28. CASE Reboot
  BY <1>28 DEF Reboot
<1>29. CASE UNCHANGED vars
  BY <1>29 DEF vars
<1>30. QED
  BY <1>1, <1>2, <1>3, <1>4, <1>5, <1>6, <1>7, <1>8, <1>9, <1>10, <1>11, <1>12, <1>13, <1>14, <1>15, <1>16, <1>17, <1>18, <1>19, <1>20, <1>21, <1>22, <1>23, <1>24, <1>25, <1>26, <1>27, <1>28, <1>29 DEF Next, Step

(* Every step keeps EvidenceInv.                                           *)
LEMMA EvidenceStep ==
  ASSUME TypeOK, LockInv, PublishInv, EvidenceInv, [Next]_vars
  PROVE  EvidenceInv'
<1> USE ClickAssumption, TimeAssumption DEF ClickAssumption, TimeAssumption, TypeOK, LockInv, PublishInv, EvidenceInv, HeldLabels, Goto, Raises, BodyFails, control, store, locals, Labels, Ended, IsCandidate, Elapsed, Monotonic, Late
<1>1. ASSUME NEW b \in Click, Enter(b) PROVE EvidenceInv'
  BY <1>1 DEF Enter
<1>2. ASSUME NEW b \in Click, Guard(b) PROVE EvidenceInv'
  BY <1>2 DEF Guard
<1>3. ASSUME NEW b \in Click, Acquire(b) PROVE EvidenceInv'
  BY <1>3 DEF Acquire
<1>4. ASSUME NEW b \in Click, CheckPending(b) PROVE EvidenceInv'
  BY <1>4 DEF CheckPending
<1>5. ASSUME NEW b \in Click, Cooldown(b) PROVE EvidenceInv'
  BY <1>5 DEF Cooldown
<1>6. ASSUME NEW b \in Click, Dispatch(b) PROVE EvidenceInv'
  BY <1>6 DEF Dispatch
<1>7. ASSUME NEW b \in Click, DispatchTooLate(b) PROVE EvidenceInv'
  BY <1>7 DEF DispatchTooLate
<1>8. ASSUME NEW b \in Click, WorkerCleaned(b) PROVE EvidenceInv'
  BY <1>8 DEF WorkerCleaned
<1>9. ASSUME NEW b \in Click, WorkerUnclean(b) PROVE EvidenceInv'
  BY <1>9 DEF WorkerUnclean
<1>10. ASSUME NEW b \in Click, SaveSnapshot(b) PROVE EvidenceInv'
  BY <1>10 DEF SaveSnapshot
<1>11. ASSUME NEW b \in Click, Candidate(b) PROVE EvidenceInv'
  BY <1>11 DEF Candidate
<1>12. ASSUME NEW b \in Click, WriteReceipt(b) PROVE EvidenceInv'
  BY <1>12 DEF WriteReceipt
<1>13. ASSUME NEW b \in Click, WriteRelease(b) PROVE EvidenceInv'
  BY <1>13 DEF WriteRelease
<1>14. ASSUME NEW b \in Click, MarkPending(b) PROVE EvidenceInv'
  BY <1>14 DEF MarkPending
<1>15. ASSUME NEW b \in Click, Unlock(b) PROVE EvidenceInv'
  BY <1>15 DEF Unlock
<1>16. ASSUME NEW b \in Click, Unlocked(b) PROVE EvidenceInv'
  BY <1>16 DEF Unlocked
<1>17. ASSUME NEW b \in Click, SettleFailure(b) PROVE EvidenceInv'
  BY <1>17 DEF SettleFailure
<1>18. ASSUME NEW b \in Click, FinalResult(b) PROVE EvidenceInv'
  BY <1>18 DEF FinalResult
<1>19. ASSUME NEW b \in Click, FinalCommit(b) PROVE EvidenceInv'
  BY <1>19 DEF FinalCommit
<1>20. ASSUME NEW b \in Click, ObserveCompletion(b) PROVE EvidenceInv'
  BY <1>20 DEF ObserveCompletion
<1>21. ASSUME NEW b \in Click, FinalConfirmation(b) PROVE EvidenceInv'
  BY <1>21 DEF FinalConfirmation
<1>22. ASSUME NEW b \in Click, ReturnSuccess(b) PROVE EvidenceInv'
  BY <1>22 DEF ReturnSuccess
<1>23. ASSUME NEW b \in Click, HandlerConfirmed(b) PROVE EvidenceInv'
  BY <1>23 DEF HandlerConfirmed
<1>24. ASSUME NEW b \in Click, HandlerFails(b) PROVE EvidenceInv'
  BY <1>24 DEF HandlerFails
<1>25. ASSUME NEW b \in Click, WorkerExits(b) PROVE EvidenceInv'
  BY <1>25 DEF WorkerExits
<1>26. ASSUME NEW b \in Click, Crash(b) PROVE EvidenceInv'
  BY <1>26 DEF Crash
<1>27. CASE Tick
  BY <1>27 DEF Tick
<1>28. CASE Reboot
  BY <1>28 DEF Reboot
<1>29. CASE UNCHANGED vars
  BY <1>29 DEF vars
<1>30. QED
  BY <1>1, <1>2, <1>3, <1>4, <1>5, <1>6, <1>7, <1>8, <1>9, <1>10, <1>11, <1>12, <1>13, <1>14, <1>15, <1>16, <1>17, <1>18, <1>19, <1>20, <1>21, <1>22, <1>23, <1>24, <1>25, <1>26, <1>27, <1>28, <1>29 DEF Next, Step

(* Every step keeps AnswerInv and the truth of what callers were told.     *)
LEMMA AnswerStep ==
  ASSUME TypeOK, PublishInv, EvidenceInv, AnswerInv, CallerToldTruth, [Next]_vars
  PROVE  (AnswerInv /\ CallerToldTruth)'
<1> USE ClickAssumption, TimeAssumption DEF ClickAssumption, TimeAssumption, TypeOK, PublishInv, EvidenceInv, AnswerInv, CallerToldTruth, Goto, Raises, BodyFails, control, store, locals, Labels, Statuses, Ended, IsCandidate, Confirmed, CandidateValid, None
<1>1. ASSUME NEW b \in Click, Enter(b) PROVE (AnswerInv /\ CallerToldTruth)'
  BY <1>1 DEF Enter
<1>2. ASSUME NEW b \in Click, Guard(b) PROVE (AnswerInv /\ CallerToldTruth)'
  BY <1>2 DEF Guard
<1>3. ASSUME NEW b \in Click, Acquire(b) PROVE (AnswerInv /\ CallerToldTruth)'
  BY <1>3 DEF Acquire
<1>4. ASSUME NEW b \in Click, CheckPending(b) PROVE (AnswerInv /\ CallerToldTruth)'
  BY <1>4 DEF CheckPending
<1>5. ASSUME NEW b \in Click, Cooldown(b) PROVE (AnswerInv /\ CallerToldTruth)'
  BY <1>5 DEF Cooldown
<1>6. ASSUME NEW b \in Click, Dispatch(b) PROVE (AnswerInv /\ CallerToldTruth)'
  BY <1>6 DEF Dispatch
<1>7. ASSUME NEW b \in Click, DispatchTooLate(b) PROVE (AnswerInv /\ CallerToldTruth)'
  BY <1>7 DEF DispatchTooLate
<1>8. ASSUME NEW b \in Click, WorkerCleaned(b) PROVE (AnswerInv /\ CallerToldTruth)'
  BY <1>8 DEF WorkerCleaned
<1>9. ASSUME NEW b \in Click, WorkerUnclean(b) PROVE (AnswerInv /\ CallerToldTruth)'
  BY <1>9 DEF WorkerUnclean
<1>10. ASSUME NEW b \in Click, SaveSnapshot(b) PROVE (AnswerInv /\ CallerToldTruth)'
  BY <1>10 DEF SaveSnapshot
<1>11. ASSUME NEW b \in Click, Candidate(b) PROVE (AnswerInv /\ CallerToldTruth)'
  BY <1>11 DEF Candidate
<1>12. ASSUME NEW b \in Click, WriteReceipt(b) PROVE (AnswerInv /\ CallerToldTruth)'
  BY <1>12 DEF WriteReceipt
<1>13. ASSUME NEW b \in Click, WriteRelease(b) PROVE (AnswerInv /\ CallerToldTruth)'
  BY <1>13 DEF WriteRelease
<1>14. ASSUME NEW b \in Click, MarkPending(b) PROVE (AnswerInv /\ CallerToldTruth)'
  BY <1>14 DEF MarkPending
<1>15. ASSUME NEW b \in Click, Unlock(b) PROVE (AnswerInv /\ CallerToldTruth)'
  BY <1>15 DEF Unlock
<1>16. ASSUME NEW b \in Click, Unlocked(b) PROVE (AnswerInv /\ CallerToldTruth)'
  BY <1>16 DEF Unlocked
<1>17. ASSUME NEW b \in Click, SettleFailure(b) PROVE (AnswerInv /\ CallerToldTruth)'
  BY <1>17 DEF SettleFailure
<1>18. ASSUME NEW b \in Click, FinalResult(b) PROVE (AnswerInv /\ CallerToldTruth)'
  BY <1>18 DEF FinalResult
<1>19. ASSUME NEW b \in Click, FinalCommit(b) PROVE (AnswerInv /\ CallerToldTruth)'
  BY <1>19 DEF FinalCommit
<1>20. ASSUME NEW b \in Click, ObserveCompletion(b) PROVE (AnswerInv /\ CallerToldTruth)'
  BY <1>20 DEF ObserveCompletion
<1>21. ASSUME NEW b \in Click, FinalConfirmation(b) PROVE (AnswerInv /\ CallerToldTruth)'
  BY <1>21 DEF FinalConfirmation
<1>22. ASSUME NEW b \in Click, ReturnSuccess(b) PROVE (AnswerInv /\ CallerToldTruth)'
  BY <1>22 DEF ReturnSuccess, ReadOutcome, Outcome
<1>23. ASSUME NEW b \in Click, HandlerConfirmed(b) PROVE (AnswerInv /\ CallerToldTruth)'
  BY <1>23 DEF HandlerConfirmed, ReadOutcome, Outcome
<1>24. ASSUME NEW b \in Click, HandlerFails(b) PROVE (AnswerInv /\ CallerToldTruth)'
  BY <1>24 DEF HandlerFails
<1>25. ASSUME NEW b \in Click, WorkerExits(b) PROVE (AnswerInv /\ CallerToldTruth)'
  BY <1>25 DEF WorkerExits
<1>26. ASSUME NEW b \in Click, Crash(b) PROVE (AnswerInv /\ CallerToldTruth)'
  BY <1>26 DEF Crash
<1>27. CASE Tick
  BY <1>27 DEF Tick
<1>28. CASE Reboot
  BY <1>28 DEF Reboot
<1>29. CASE UNCHANGED vars
  BY <1>29 DEF vars
<1>30. QED
  BY <1>1, <1>2, <1>3, <1>4, <1>5, <1>6, <1>7, <1>8, <1>9, <1>10, <1>11, <1>12, <1>13, <1>14, <1>15, <1>16, <1>17, <1>18, <1>19, <1>20, <1>21, <1>22, <1>23, <1>24, <1>25, <1>26, <1>27, <1>28, <1>29 DEF Next, Step

(* The inductive invariant holds initially.                                *)
LEMMA InitIInv == Init => IInv
<1> SUFFICES ASSUME Init
             PROVE  IInv
  OBVIOUS
<1> USE ClickAssumption, TimeAssumption DEF ClickAssumption, TimeAssumption, Init
<1>1. TypeOK
  <2>1. time \in Nat /\ boot \in 0..time /\ stamps \subseteq Nat
    OBVIOUS
  <2>2. /\ receipt \in [Click -> Statuses \union {None}]
        /\ failure \in [Click -> Statuses \union {None}]
        /\ status \in [Click -> Statuses]
    BY DEF Statuses
  <2>3. pc \in [Click -> Labels]
    BY DEF Labels
  <2>4. QED
    BY <2>1, <2>2, <2>3 DEF TypeOK
<1>2. LockInv
  BY DEF LockInv, HeldLabels
<1>3. PublishInv
  BY DEF PublishInv, Ended, IsCandidate
<1>4. CooldownInv
  BY DEF CooldownInv
<1>5. EvidenceInv
  BY DEF EvidenceInv
<1>6. AnswerInv /\ CallerToldTruth
  BY DEF AnswerInv, CallerToldTruth, IsCandidate, None
<1>7. QED
  BY <1>1, <1>2, <1>3, <1>4, <1>5, <1>6 DEF IInv

(* The inductive invariant is kept by every step.                          *)
LEMMA StepIInv == IInv /\ [Next]_vars => IInv'
<1> SUFFICES ASSUME IInv, [Next]_vars
             PROVE  IInv'
  OBVIOUS
<1>1. TypeOK'
  BY TypeStep DEF IInv
<1>2. LockInv'
  BY LockStep DEF IInv
<1>3. PublishInv'
  BY PublishStep DEF IInv
<1>4. CooldownInv'
  BY CooldownStep DEF IInv
<1>5. EvidenceInv'
  BY EvidenceStep DEF IInv
<1>6. (AnswerInv /\ CallerToldTruth)'
  BY AnswerStep DEF IInv
<1>7. QED
  BY <1>1, <1>2, <1>3, <1>4, <1>5, <1>6 DEF IInv

(* The inductive invariant holds in every reachable state.                 *)
THEOREM Invariance == Spec => []IInv
<1>1. QED
  BY InitIInv, StepIInv, PTL DEF Spec

(* Every variable keeps its type, whatever the number of clicks and the    *)
(* budgets.                                                                *)
THEOREM TypeCorrect == Spec => []TypeOK
<1>1. IInv => TypeOK
  BY DEF IInv
<1>2. QED
  BY Invariance, <1>1, PTL

(* No two workers are ever alive: a live worker's call holds the lock.     *)
THEOREM SingleWorker == Spec => []AtMostOneWorker
<1>1. IInv => AtMostOneWorker
  BY DEF IInv, TypeOK, LockInv, AtMostOneWorker
<1>2. QED
  BY Invariance, <1>1, PTL

(* No caller is told success of an unconfirmed batch, or failure of a      *)
(* confirmed one.                                                          *)
THEOREM Truthful == Spec => []CallerToldTruth
<1>1. IInv => CallerToldTruth
  BY DEF IInv
<1>2. QED
  BY Invariance, <1>1, PTL

(* Readers' success rests on a reaped worker, stored data and a completion *)
(* observed in the budget.                                                 *)
THEOREM Evidence == Spec => []ConfirmedHasEvidence
<1>1. IInv => ConfirmedHasEvidence
  BY DEF IInv, TypeOK, LockInv, EvidenceInv, ConfirmedHasEvidence, Confirmed, CandidateValid
<1>2. QED
  BY Invariance, <1>1, PTL

-----------------------------------------------------------------------------
(* Only Dispatch sends a request.                                          *)
LEMMA OnlyDispatch ==
  ASSUME TypeOK, [Next]_vars, NEW b \in Click, Dispatches(b)
  PROVE  Dispatch(b)
<1>1. ASSUME NEW a \in Click, Dispatch(a), a # b
      PROVE  FALSE
  BY <1>1 DEF Dispatch, Dispatches, TypeOK
<1>2. CASE dispatched' = dispatched
  BY <1>2 DEF Dispatches
<1>3. CASE \A a \in Click : ~Dispatch(a)
  <2>1. dispatched' = dispatched
    BY <1>3 DEF Next, Step, vars, locals, Enter, Guard, Acquire, CheckPending, Cooldown,
       DispatchTooLate, WorkerCleaned, WorkerUnclean, SaveSnapshot, Candidate,
       WriteReceipt, WriteRelease, MarkPending, Unlock, Unlocked, SettleFailure,
       FinalResult, FinalCommit, ObserveCompletion, FinalConfirmation, ReturnSuccess,
       HandlerConfirmed, HandlerFails, Tick, WorkerExits, Crash, Reboot
  <2>2. QED
    BY <2>1, <1>2
<1>4. QED
  BY <1>1, <1>3

(* Every dispatch comes a full interval after the previous worker was seen *)
(* gone.                                                                   *)
THEOREM CooldownKept == Spec => CooldownRespected
<1>1. ASSUME IInv, [Next]_vars
      PROVE  \A b \in Click : Dispatches(b) =>
               \A a \in Click : dispatched[a] =>
                 exitedAt[a] # NoTime /\ time - exitedAt[a] >= Interval
  BY <1>1, OnlyDispatch DEF IInv, CooldownInv, Dispatch, Goto
<1>2. QED
  BY <1>1, Invariance, PTL DEF Spec, CooldownRespected

(* Whoever passed the pending check did so with every published batch      *)
(* confirmed.                                                              *)
THEOREM UnconfirmedBlocks == Spec => NoDispatchOverUnconfirmed
<1>1. ASSUME IInv, [Next]_vars
      PROVE  \A b \in Click : Dispatches(b) => \A p \in Click : published[p] => Confirmed(p)
  <2>1. SUFFICES ASSUME NEW b \in Click, Dispatch(b), NEW p \in Click, published[p]
                 PROVE  Confirmed(p)
    BY <1>1, OnlyDispatch DEF IInv
  <2>2. pc[b] = "dispatch" /\ lock = b /\ ~published[b]
    BY <1>1, <2>1 DEF Dispatch, Goto, IInv, LockInv, PublishInv, HeldLabels
  <2>3. QED
    BY <1>1, <2>1, <2>2 DEF IInv, PublishInv
<1>2. QED
  BY <1>1, Invariance, PTL DEF Spec, NoDispatchOverUnconfirmed

(* What readers make of a batch with a confirmation never changes again.   *)
LEMMA ConfirmedStable ==
  ASSUME IInv, [Next]_vars, NEW b \in Click, confirmation[b] # NoTime
  PROVE  confirmation'[b] = confirmation[b] /\ (Confirmed(b)' <=> Confirmed(b))
<1> DEFINE files == <<receipt, commit, confirmation, snapshots>>
<1> DEFINE goal == confirmation'[b] = confirmation[b] /\ (Confirmed(b)' <=> Confirmed(b))
<1>1. pc[b] \in {"confirmed", "handler"} \union Ended
  BY DEF IInv, PublishInv
<1>2. ASSUME NEW a \in Click, WriteReceipt(a)
      PROVE  goal
  BY <1>1, <1>2 DEF WriteReceipt, IInv, TypeOK, Confirmed, CandidateValid, Ended
<1>3. ASSUME NEW a \in Click, FinalCommit(a)
      PROVE  goal
  BY <1>1, <1>3 DEF FinalCommit, IInv, TypeOK, Confirmed, CandidateValid, Ended
<1>4. ASSUME NEW a \in Click, FinalConfirmation(a)
      PROVE  goal
  BY <1>1, <1>4 DEF FinalConfirmation, IInv, TypeOK, Confirmed, CandidateValid, Ended
<1>5. ASSUME NEW a \in Click, SaveSnapshot(a)
      PROVE  goal
  BY <1>1, <1>5 DEF SaveSnapshot, Confirmed, CandidateValid, Ended
<1>6. CASE UNCHANGED files
  BY <1>6 DEF Confirmed, CandidateValid
<1>7. CASE \A a \in Click : /\ ~WriteReceipt(a) /\ ~FinalCommit(a)
                            /\ ~FinalConfirmation(a) /\ ~SaveSnapshot(a)
  <2>1. UNCHANGED files
    BY <1>7 DEF Next, Step, vars, store, Enter, Guard, Acquire, CheckPending, Cooldown,
       Dispatch, DispatchTooLate, WorkerCleaned, WorkerUnclean, Candidate, WriteRelease,
       MarkPending, Unlock, Unlocked, SettleFailure, FinalResult, ObserveCompletion,
       ReturnSuccess, HandlerConfirmed, HandlerFails, Tick, WorkerExits, Crash, Reboot
  <2>2. QED
    BY <2>1, <1>6
<1>8. QED
  BY <1>2, <1>3, <1>4, <1>5, <1>7

(* Once readers treat a batch as successful they do so for ever.           *)
THEOREM ConfirmedForever == Spec => ConfirmedIsFinal
<1>1. IInv /\ [Next]_vars => \A b \in Click : Confirmed(b) => Confirmed(b)'
  BY ConfirmedStable DEF Confirmed
<1>2. QED
  BY <1>1, Invariance, PTL DEF Spec, ConfirmedIsFinal


-----------------------------------------------------------------------------
(* A step that adds no confirmation confirms nothing.                      *)
LEMMA SameConfirmed ==
  ASSUME IInv, [Next]_vars, UNCHANGED confirmation
  PROVE  {b \in Click : Confirmed(b)}' = {b \in Click : Confirmed(b)}
<1>1. ASSUME NEW b \in Click
      PROVE  Confirmed(b)' <=> Confirmed(b)
  BY ConfirmedStable DEF Confirmed
<1>2. QED
  BY <1>1

(* Each step is a step of the single-flight specification or invisible.    *)
LEMMA FlightStep ==
  ASSUME IInv, [Next]_vars
  PROVE  [Flight!Next]_Flight!sfVars
<1> USE DEF Flight!sfVars
<1>1. ASSUME NEW b \in Click, Dispatch(b)
      PROVE  Flight!Begin(b)
  <2>1. dispatched' = [dispatched EXCEPT ![b] = TRUE] /\ UNCHANGED <<published, confirmation>>
    BY <1>1 DEF Dispatch, store
  <2>2. cleaned' = [cleaned EXCEPT ![b] = FALSE]
    BY <1>1 DEF Dispatch
  <2>3. \A a \in Click : cleaned[a]
    BY <1>1 DEF Dispatch, Goto, IInv, TypeOK, LockInv, HeldLabels
  <2>4. ~dispatched[b]
    BY <1>1 DEF Dispatch, Goto, IInv, LockInv
  <2>5. \A p \in Click : published[p] => Confirmed(p)
    <3>1. pc[b] = "dispatch" /\ lock = b /\ ~published[b]
      BY <1>1 DEF Dispatch, Goto, IInv, LockInv, PublishInv, HeldLabels
    <3>2. QED
      BY <3>1 DEF IInv, PublishInv
  <2>6. QED
    BY <2>1, <2>2, <2>3, <2>4, <2>5, SameConfirmed DEF Flight!Begin, IInv, TypeOK
<1>2. ASSUME NEW b \in Click, WorkerCleaned(b)
      PROVE  Flight!Land(b)
  <2>1. pc[b] = "worker" /\ ~cleaned[b]
    BY <1>2 DEF WorkerCleaned, IInv, LockInv
  <2>2. QED
    BY <1>2, <2>1, SameConfirmed DEF WorkerCleaned, store, Flight!Land, IInv, TypeOK
<1>3. ASSUME NEW b \in Click, SaveSnapshot(b)
      PROVE  [Flight!Next]_Flight!sfVars
  <2>1. CASE UNCHANGED published
    BY <1>3, <2>1, SameConfirmed DEF SaveSnapshot
  <2>2. CASE published' = [published EXCEPT ![b] = TRUE]
    <3>1. pc[b] = "response" /\ dispatched[b] /\ \A a \in Click : cleaned[a]
      BY <1>3 DEF SaveSnapshot, IInv, LockInv, TypeOK, HeldLabels
    <3>2. UNCHANGED <<dispatched, cleaned, confirmation>>
      BY <1>3 DEF SaveSnapshot
    <3>3. Flight!Seal(b)
      BY <2>2, <3>1, <3>2, SameConfirmed DEF Flight!Seal, IInv, TypeOK
    <3>4. QED
      BY <3>3 DEF Flight!Next
  <2>3. QED
    BY <1>3, <2>1, <2>2 DEF SaveSnapshot
<1>4. ASSUME NEW b \in Click, FinalConfirmation(b)
      PROVE  [Flight!Next]_Flight!sfVars
  <2>1. published[b]
    BY <1>4 DEF FinalConfirmation, Goto, Raises, IInv, PublishInv
  <2>2. UNCHANGED <<dispatched, cleaned, published>>
    BY <1>4 DEF FinalConfirmation
  <2>3. ASSUME NEW a \in Click, a # b
        PROVE  Confirmed(a)' <=> Confirmed(a)
    BY <1>4, <2>3 DEF FinalConfirmation, Confirmed, CandidateValid, IInv, TypeOK
  <2>4. CASE Confirmed(b)' <=> Confirmed(b)
    BY <2>2, <2>3, <2>4
  <2>5. CASE ~(Confirmed(b)' <=> Confirmed(b))
    <3>1. Confirmed(b)' /\ ~Confirmed(b)
      BY <2>5, ConfirmedStable DEF Confirmed
    <3>2. {a \in Click : Confirmed(a)}' = {a \in Click : Confirmed(a)} \union {b}
      BY <2>3, <3>1
    <3>3. Flight!Confirm(b)
      BY <2>1, <2>2, <3>2 DEF Flight!Confirm
    <3>4. QED
      BY <3>3 DEF Flight!Next
  <2>6. QED
    BY <2>4, <2>5
<1>5. CASE \A a \in Click : /\ ~Dispatch(a) /\ ~WorkerCleaned(a)
                            /\ ~SaveSnapshot(a) /\ ~FinalConfirmation(a)
  <2>1. UNCHANGED <<dispatched, cleaned, published, confirmation>>
    BY <1>5 DEF Next, Step, vars, locals, store, Enter, Guard, Acquire, CheckPending,
       Cooldown, DispatchTooLate, WorkerUnclean, Candidate, WriteReceipt, WriteRelease,
       MarkPending, Unlock, Unlocked, SettleFailure, FinalResult, FinalCommit,
       ObserveCompletion, ReturnSuccess, HandlerConfirmed, HandlerFails, Tick,
       WorkerExits, Crash, Reboot
  <2>2. QED
    BY <2>1, SameConfirmed
<1>6. QED
  BY <1>1, <1>2, <1>3, <1>4, <1>5 DEF Flight!Next

(* The refresh, with its files, crashes and races, implements the          *)
(* single-flight specification.                                            *)
THEOREM Refinement == Spec => ImplementsSingleFlight
<1>1. Init => Flight!Init
  BY ClickAssumption DEF Init, Flight!Init, Confirmed
<1>2. IInv /\ [Next]_vars => [Flight!Next]_Flight!sfVars
  BY FlightStep
<1>3. QED
  BY <1>1, <1>2, Invariance, PTL DEF Spec, ImplementsSingleFlight, Flight!Spec
=============================================================================
