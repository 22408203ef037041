--------------------------- MODULE JobQueueProofs ---------------------------
(***************************************************************************)
(* Safety of the job queue for any number of jobs, workers and retries:    *)
(* crashes, lost confirmations and failures in every order.                *)
(***************************************************************************)
EXTENDS JobQueue, FiniteSetTheorems, TLAPS

(* What the step a worker has reached says about the row of its job.       *)
InHand(w) ==
    LET j == worker[w].job
        pc == worker[w].pc
    IN  /\ pc # "idle" => j \in Jobs
        /\ pc = "claimed" => queue[j].status = "pending"
        /\ pc \in {"working", "acted", "skipped"} => queue[j].status = "processing"
        /\ pc = "failing" => queue[j].status \in {"processing", "done"}
        /\ pc \in {"working", "skipped"} => sent[j] <= queue[j].attempts
        /\ pc = "acted" => sent[j] > 0
        /\ pc = "skipped" => j \in skipped

(* A job that has not been given up has an attempt left.                   *)
AttemptLeft(j) ==
    /\ queue[j].status # "failed" => queue[j].attempts < MaxRetries
    /\ sent[j] <= IF queue[j].status \in {"processing", "done"}
                  THEN queue[j].attempts + 1 ELSE queue[j].attempts

Safe ==
    /\ TypeOK
    /\ OneWorkerPerJob
    /\ ProcessingIsHeld
    /\ DeadLetterOnce
    /\ RecordedMeansSent
    /\ \A w \in Workers : InHand(w)
    /\ \A j \in Jobs : AttemptLeft(j)

(* 2 ^ n counts the subsets of 1 .. n, so it is a natural number and a wait *)
(* stays within the cap.                                                   *)
LEMMA BackoffType ==
    ASSUME NEW n \in Nat
    PROVE  Backoff(n) \in 0 .. BackoffCap
<1>1. 2 ^ n \in Nat
  <2>1. IsFiniteSet(1 .. n) /\ Cardinality(1 .. n) = n BY FS_Interval
  <2>2. 2 ^ n = Cardinality(SUBSET (1 .. n)) /\ IsFiniteSet(SUBSET (1 .. n))
    BY <2>1, FS_SUBSET
  <2>3. QED BY <2>2, FS_CardinalityType
<1>2. QED BY <1>1, QueueAssumption DEF Backoff

LEMMA InitSafe == Init => Safe
  BY QueueAssumption
  DEF Init, Safe, TypeOK, OneWorkerPerJob, ProcessingIsHeld, DeadLetterOnce,
      RecordedMeansSent, InHand, AttemptLeft, Holds, Idle, QueuedJob

LEMMA EnqueueSafe ==
    ASSUME Safe, NEW batch \in SUBSET Jobs, Enqueue(batch)
    PROVE  Safe'
  BY QueueAssumption
  DEF Enqueue, Safe, TypeOK, OneWorkerPerJob, ProcessingIsHeld, DeadLetterOnce,
      RecordedMeansSent, InHand, AttemptLeft, Holds, QueuedJob

LEMMA TickSafe == ASSUME Safe, Tick PROVE Safe'
  BY QueueAssumption
  DEF Tick, Safe, TypeOK, OneWorkerPerJob, ProcessingIsHeld, DeadLetterOnce,
      RecordedMeansSent, InHand, AttemptLeft, Holds, QueuedJob

LEMMA ClaimSafe ==
    ASSUME Safe, NEW w \in Workers, NEW j \in Jobs, Claim(w, j)
    PROVE  Safe'
  BY QueueAssumption
  DEF Claim, Eligible, Locked, Safe, TypeOK, OneWorkerPerJob, ProcessingIsHeld, DeadLetterOnce,
      RecordedMeansSent, InHand, AttemptLeft, Holds, QueuedJob

(* The three ways in which a step changes a worker or the row of a job.    *)
LEMMA WorkerMoves ==
    ASSUME TypeOK, NEW w \in Workers,
           NEW pc \in {"idle", "claimed", "working", "acted", "skipped", "failing"},
           worker' = [worker EXCEPT ![w].pc = pc]
    PROVE  /\ worker' \in [Workers -> [pc : {"idle", "claimed", "working", "acted",
                                             "skipped", "failing"},
                                       job : Jobs \cup {NoJob}]]
           /\ worker'[w].pc = pc
           /\ worker'[w].job = worker[w].job
           /\ \A v \in Workers \ {w} : worker'[v] = worker[v]
  BY DEF TypeOK

LEMMA WorkerRests ==
    ASSUME TypeOK, NEW w \in Workers, worker' = [worker EXCEPT ![w] = Idle]
    PROVE  /\ worker' \in [Workers -> [pc : {"idle", "claimed", "working", "acted",
                                             "skipped", "failing"},
                                       job : Jobs \cup {NoJob}]]
           /\ worker'[w].pc = "idle"
           /\ \A v \in Workers \ {w} : worker'[v] = worker[v]
  BY DEF TypeOK, Idle

LEMMA StatusChanges ==
    ASSUME TypeOK, NEW j \in Jobs,
           NEW status \in {"none", "pending", "processing", "done", "failed"},
           queue' = [queue EXCEPT ![j].status = status]
    PROVE  /\ queue' \in [Jobs -> QueuedJob]
           /\ queue'[j].status = status
           /\ queue'[j].attempts = queue[j].attempts
           /\ \A o \in Jobs \ {j} : queue'[o] = queue[o]
<1>1. queue[j] \in QueuedJob /\ queue \in [Jobs -> QueuedJob] BY DEF TypeOK
<1>2. [queue[j] EXCEPT !.status = status] \in QueuedJob BY <1>1 DEF QueuedJob
<1>3. queue'[j] = [queue[j] EXCEPT !.status = status] BY <1>1
<1>4. queue'[j].status = status /\ queue'[j].attempts = queue[j].attempts
  BY <1>1, <1>3 DEF QueuedJob
<1>5. QED BY <1>1, <1>2, <1>3, <1>4

LEMMA ActSafe == ASSUME Safe, NEW w \in Workers, Act(w) PROVE Safe'
<1> DEFINE j == worker[w].job
<1>1. j \in Jobs /\ worker[w].pc = "working" BY DEF Act, Safe, InHand
<1>2. TypeOK BY DEF Safe
<1>3. worker' = [worker EXCEPT ![w].pc = "acted"] /\ sent' = [sent EXCEPT ![j] = @ + 1]
  BY DEF Act
<1>4. UNCHANGED <<queue, deadLetters, recorded, skipped, dropped>> BY DEF Act
<1> HIDE DEF j
<1>5. TypeOK'
  BY <1>1, <1>2, <1>3, <1>4, WorkerMoves DEF Safe, TypeOK
<1>6. OneWorkerPerJob'
  BY <1>1, <1>2, <1>3, <1>4, WorkerMoves DEF j, Safe, OneWorkerPerJob, Holds
<1>7. ProcessingIsHeld'
  BY <1>1, <1>2, <1>3, <1>4, WorkerMoves DEF j, Safe, ProcessingIsHeld, Holds
<1>8. DeadLetterOnce'
  BY <1>1, <1>2, <1>3, <1>4, WorkerMoves DEF Safe, DeadLetterOnce
<1>9. RecordedMeansSent'
  BY <1>1, <1>2, <1>3, <1>4, WorkerMoves DEF Safe, RecordedMeansSent, TypeOK
<1>10. (\A v \in Workers : InHand(v))'
  BY <1>1, <1>2, <1>3, <1>4, WorkerMoves DEF j, Safe, InHand, OneWorkerPerJob, Holds, TypeOK, QueuedJob
<1>11. (\A o \in Jobs : AttemptLeft(o))'
  BY <1>1, <1>2, <1>3, <1>4, WorkerMoves DEF j, Safe, AttemptLeft, InHand, TypeOK, QueuedJob
<1>12. QED BY <1>5, <1>6, <1>7, <1>8, <1>9, <1>10, <1>11 DEF Safe

LEMMA SkipSafe == ASSUME Safe, NEW w \in Workers, Skip(w) PROVE Safe'
<1> DEFINE j == worker[w].job
<1>1. j \in Jobs /\ worker[w].pc = "working" BY DEF Skip, Safe, InHand
<1>2. TypeOK BY DEF Safe
<1>3. worker' = [worker EXCEPT ![w].pc = "skipped"] /\ skipped' = skipped \cup {j}
  BY DEF Skip
<1>4. UNCHANGED <<queue, deadLetters, recorded, sent, dropped>> BY DEF Skip
<1> HIDE DEF j
<1>5. QED
  BY <1>1, <1>2, <1>3, <1>4, WorkerMoves
  DEF j, Safe, TypeOK, OneWorkerPerJob, ProcessingIsHeld, DeadLetterOnce,
      RecordedMeansSent, InHand, AttemptLeft, Holds, QueuedJob

LEMMA FailSafe == ASSUME Safe, NEW w \in Workers, Fail(w) PROVE Safe'
<1>1. worker[w].pc \in {"working", "acted", "skipped"} /\ TypeOK BY DEF Fail, Safe
<1>2. worker' = [worker EXCEPT ![w].pc = "failing"] BY DEF Fail
<1>3. UNCHANGED <<queue, deadLetters, recorded, sent, skipped, dropped>> BY DEF Fail
<1>4. QED
  BY <1>1, <1>2, <1>3, WorkerMoves
  DEF Safe, TypeOK, OneWorkerPerJob, ProcessingIsHeld, DeadLetterOnce,
      RecordedMeansSent, InHand, AttemptLeft, Holds, QueuedJob

LEMMA DropSafe == ASSUME Safe, NEW w \in Workers, Drop(w) PROVE Safe'
<1> DEFINE j == worker[w].job
<1>1. j \in Jobs /\ TypeOK /\ worker[w].pc # "idle" BY DEF Drop, Safe, InHand
<1>2. /\ worker' \in [Workers -> [pc : {"idle", "claimed", "working", "acted",
                                        "skipped", "failing"},
                                  job : Jobs \cup {NoJob}]]
      /\ worker'[w].pc = "idle"
      /\ \A v \in Workers \ {w} : worker'[v] = worker[v]
  <2>1. worker' = [worker EXCEPT ![w] = Idle] BY DEF Drop
  <2>2. QED BY <1>1, <2>1, WorkerRests
<1>3. /\ dropped' = IF worker[w].pc = "claimed" THEN dropped ELSE dropped \cup {j}
      /\ UNCHANGED <<queue, deadLetters, recorded, sent, skipped>>
  BY DEF Drop
<1>4. worker[w].pc = "claimed" => queue[j].status = "pending" BY DEF Safe, InHand
<1>5. worker[w].job = j OBVIOUS
<1> HIDE DEF j
<1>6. TypeOK'
  BY <1>1, <1>2, <1>3, <1>4, <1>5 DEF Safe, TypeOK
<1>7. OneWorkerPerJob'
  BY <1>1, <1>2, <1>3, <1>4, <1>5 DEF Safe, OneWorkerPerJob, Holds
<1>8. ProcessingIsHeld'
  BY <1>1, <1>2, <1>3, <1>4, <1>5 DEF Safe, ProcessingIsHeld, Holds
<1>9. DeadLetterOnce'
  BY <1>1, <1>2, <1>3, <1>4, <1>5 DEF Safe, DeadLetterOnce
<1>10. RecordedMeansSent'
  BY <1>1, <1>2, <1>3, <1>4, <1>5 DEF Safe, RecordedMeansSent, InHand
<1>11. (\A v \in Workers : InHand(v))'
  BY <1>1, <1>2, <1>3, <1>4, <1>5 DEF Safe, InHand
<1>12. (\A o \in Jobs : AttemptLeft(o))'
  BY <1>1, <1>2, <1>3, <1>4, <1>5 DEF Safe, AttemptLeft, TypeOK
<1>13. QED
  BY <1>6, <1>7, <1>8, <1>9, <1>10, <1>11, <1>12 DEF Safe

LEMMA FinishSafe ==
    ASSUME Safe, NEW w \in Workers, Finish(w),
           NEW pc \in {"idle", "failing"},
           \/ pc = "idle" /\ worker' = [worker EXCEPT ![w] = Idle]
           \/ pc = "failing" /\ worker' = [worker EXCEPT ![w].pc = pc]
    PROVE  Safe'
<1> DEFINE j == worker[w].job
<1>1. /\ j \in Jobs
      /\ worker[w].pc \in {"acted", "skipped"}
      /\ TypeOK
      /\ queue[j].status = "processing"
      /\ worker[w].pc = "acted" => sent[j] > 0
      /\ worker[w].pc = "skipped" => j \in skipped
  BY DEF Finish, Safe, InHand
<1>2. /\ recorded' = IF worker[w].pc = "acted" THEN recorded \cup {j} ELSE recorded
      /\ UNCHANGED <<deadLetters, sent, skipped, dropped>>
  BY DEF Finish
<1>3. /\ worker'[w].pc = pc
      /\ pc = "failing" => worker'[w].job = j
      /\ \A v \in Workers \ {w} : worker'[v] = worker[v]
      /\ worker' \in [Workers -> [pc : {"idle", "claimed", "working", "acted",
                                        "skipped", "failing"},
                                  job : Jobs \cup {NoJob}]]
  BY <1>1, WorkerMoves, WorkerRests
<1>4. /\ queue' \in [Jobs -> QueuedJob]
      /\ queue'[j].status = "done"
      /\ queue'[j].attempts = queue[j].attempts
      /\ \A o \in Jobs \ {j} : queue'[o] = queue[o]
  <2>1. queue' = [queue EXCEPT ![j].status = "done"] BY DEF Finish
  <2>2. QED BY <1>1, <2>1, StatusChanges
<1>5. \A v \in Workers \ {w} : worker[v].pc # "idle" => worker[v].job # j
  BY <1>1 DEF Safe, OneWorkerPerJob, Holds
<1>6. worker[w].job = j OBVIOUS
<1> HIDE DEF j
<1>7. TypeOK'
  BY <1>1, <1>2, <1>3, <1>4, <1>5, <1>6 DEF Safe, TypeOK
<1>8. OneWorkerPerJob'
  BY <1>1, <1>2, <1>3, <1>4, <1>5, <1>6 DEF Safe, OneWorkerPerJob, Holds
<1>9. ProcessingIsHeld'
  BY <1>1, <1>2, <1>3, <1>4, <1>5, <1>6 DEF Safe, ProcessingIsHeld, Holds
<1>10. DeadLetterOnce'
  BY <1>1, <1>2, <1>3, <1>4, <1>5, <1>6 DEF Safe, DeadLetterOnce
<1>11. RecordedMeansSent'
  BY <1>1, <1>2, <1>3, <1>4, <1>5, <1>6 DEF Safe, RecordedMeansSent, InHand
<1>12. (\A v \in Workers : InHand(v))'
  BY <1>1, <1>2, <1>3, <1>4, <1>5, <1>6 DEF Safe, InHand
<1>13. (\A o \in Jobs : AttemptLeft(o))'
  BY <1>1, <1>2, <1>3, <1>4, <1>5, <1>6 DEF Safe, AttemptLeft, TypeOK
<1>14. QED
  BY <1>7, <1>8, <1>9, <1>10, <1>11, <1>12, <1>13 DEF Safe

LEMMA FailJobSafe == ASSUME Safe, NEW w \in Workers, FailJob(w) PROVE Safe'
<1> DEFINE j == worker[w].job
           n == queue[j].attempts + 1
<1>1. j \in Jobs /\ worker[w].pc = "failing" /\ TypeOK BY DEF FailJob, Safe, InHand
<1>2. queue[j] \in QueuedJob /\ queue[j].status \in {"processing", "done"}
  BY <1>1 DEF TypeOK, Safe, InHand
<1>3. n \in 1 .. MaxRetries /\ sent[j] <= n /\ sent[j] \in Nat
  BY <1>1, <1>2, QueueAssumption DEF Safe, AttemptLeft, QueuedJob, TypeOK
<1>4. AfterFailure(queue[j]) \in QueuedJob
  <2>1. Backoff(n) \in 0 .. BackoffCap BY <1>3, BackoffType
  <2>2. n \in 0 .. MaxRetries BY <1>3
  <2>3. [queue[j] EXCEPT !.attempts = n, !.status = "failed"] \in QueuedJob
    BY <1>2, <2>2 DEF QueuedJob
  <2>4. [queue[j] EXCEPT !.attempts = n, !.status = "pending", !.wait = Backoff(n)]
            \in QueuedJob
    BY <1>2, <2>1, <2>2 DEF QueuedJob
  <2>5. QED BY <2>3, <2>4 DEF AfterFailure
<1>5. /\ AfterFailure(queue[j]).attempts = n
      /\ AfterFailure(queue[j]).status = IF Exhausted(n) THEN "failed" ELSE "pending"
  BY <1>2, <1>3 DEF AfterFailure, QueuedJob
<1>6. /\ queue' \in [Jobs -> QueuedJob]
      /\ queue'[j] = AfterFailure(queue[j])
      /\ \A o \in Jobs \ {j} : queue'[o] = queue[o]
  <2>1. queue' = [queue EXCEPT ![j] = AfterFailure(@)] BY DEF FailJob
  <2>2. QED BY <1>1, <1>4, <2>1 DEF TypeOK
<1>7. /\ deadLetters' = [deadLetters EXCEPT ![j] = IF Exhausted(n) THEN @ + 1 ELSE @]
      /\ UNCHANGED <<recorded, sent, skipped, dropped>>
  BY DEF FailJob
<1>8. /\ worker' \in [Workers -> [pc : {"idle", "claimed", "working", "acted",
                                        "skipped", "failing"},
                                  job : Jobs \cup {NoJob}]]
      /\ worker'[w].pc = "idle"
      /\ \A v \in Workers \ {w} : worker'[v] = worker[v]
  <2>1. worker' = [worker EXCEPT ![w] = Idle] BY DEF FailJob
  <2>2. QED BY <1>1, <2>1, WorkerRests
<1>9. Exhausted(n) <=> n >= MaxRetries BY DEF Exhausted
<1>10. \A v \in Workers \ {w} : worker[v].pc # "idle" => worker[v].job # j
  BY <1>1 DEF Safe, OneWorkerPerJob, Holds
<1>11. worker[w].job = j OBVIOUS
<1>12. queue'[j].attempts = n /\ queue'[j].status = IF Exhausted(n) THEN "failed" ELSE "pending"
  BY <1>5, <1>6
<1>13. MaxRetries \in Nat BY QueueAssumption
<1> HIDE DEF j, n
<1>14. TypeOK'
  BY <1>1, <1>2, <1>3, <1>6, <1>7, <1>8, <1>9, <1>10, <1>11, <1>12, <1>13 DEF Safe, TypeOK
<1>15. OneWorkerPerJob'
  BY <1>1, <1>2, <1>3, <1>6, <1>7, <1>8, <1>9, <1>10, <1>11, <1>12, <1>13 DEF Safe, OneWorkerPerJob, Holds
<1>16. ProcessingIsHeld'
  BY <1>1, <1>2, <1>3, <1>6, <1>7, <1>8, <1>9, <1>10, <1>11, <1>12, <1>13 DEF Safe, ProcessingIsHeld, Holds
<1>17. DeadLetterOnce'
  <2>1. deadLetters[j] = 0 BY <1>1, <1>2 DEF Safe, DeadLetterOnce
  <2>2. /\ deadLetters'[j] = IF Exhausted(n) THEN 1 ELSE 0
        /\ \A o \in Jobs \ {j} : deadLetters'[o] = deadLetters[o]
    BY <1>1, <1>7, <2>1 DEF TypeOK
  <2>3. QED BY <1>6, <1>12, <2>2 DEF Safe, DeadLetterOnce
<1>18. RecordedMeansSent'
  BY <1>1, <1>2, <1>3, <1>6, <1>7, <1>8, <1>9, <1>10, <1>11, <1>12, <1>13 DEF Safe, RecordedMeansSent, InHand
<1>19. (\A v \in Workers : InHand(v))'
  BY <1>1, <1>2, <1>3, <1>6, <1>7, <1>8, <1>9, <1>10, <1>11, <1>12, <1>13 DEF Safe, InHand
<1>20. (\A o \in Jobs : AttemptLeft(o))'
  BY <1>1, <1>2, <1>3, <1>6, <1>7, <1>8, <1>9, <1>10, <1>11, <1>12, <1>13 DEF Safe, AttemptLeft, TypeOK
<1>21. QED
  BY <1>14, <1>15, <1>16, <1>17, <1>18, <1>19, <1>20 DEF Safe

LEMMA ClaimCommitSafe == ASSUME Safe, NEW w \in Workers, ClaimCommit(w) PROVE Safe'
<1> DEFINE j == worker[w].job
<1>1. /\ j \in Jobs
      /\ worker[w].pc = "claimed"
      /\ TypeOK
      /\ queue[j].status = "pending"
      /\ sent[j] <= queue[j].attempts
  BY DEF ClaimCommit, Safe, InHand, AttemptLeft
<1>2. UNCHANGED <<deadLetters, recorded, sent, skipped, dropped>> BY DEF ClaimCommit
<1>3. /\ worker' \in [Workers -> [pc : {"idle", "claimed", "working", "acted",
                                        "skipped", "failing"},
                                  job : Jobs \cup {NoJob}]]
      /\ worker'[w].pc = "working"
      /\ worker'[w].job = j
      /\ \A v \in Workers \ {w} : worker'[v] = worker[v]
  <2>1. worker' = [worker EXCEPT ![w].pc = "working"] BY DEF ClaimCommit
  <2>2. QED BY <1>1, <2>1, WorkerMoves
<1>4. /\ queue' \in [Jobs -> QueuedJob]
      /\ queue'[j].status = "processing"
      /\ queue'[j].attempts = queue[j].attempts
      /\ \A o \in Jobs \ {j} : queue'[o] = queue[o]
  <2>1. queue' = [queue EXCEPT ![j].status = "processing"] BY DEF ClaimCommit
  <2>2. QED BY <1>1, <2>1, StatusChanges
<1>5. \A v \in Workers \ {w} : worker[v].pc # "idle" => worker[v].job # j
  BY <1>1 DEF Safe, OneWorkerPerJob, Holds
<1>6. worker[w].job = j OBVIOUS
<1>7. queue[j].attempts \in Nat /\ sent[j] \in Nat BY <1>1 DEF TypeOK, QueuedJob
<1> HIDE DEF j
<1>8. TypeOK'
  BY <1>1, <1>2, <1>3, <1>4, <1>5, <1>6, <1>7 DEF Safe, TypeOK
<1>9. OneWorkerPerJob'
  BY <1>1, <1>2, <1>3, <1>4, <1>5, <1>6, <1>7 DEF Safe, OneWorkerPerJob, Holds
<1>10. ProcessingIsHeld'
  BY <1>1, <1>2, <1>3, <1>4, <1>5, <1>6, <1>7 DEF Safe, ProcessingIsHeld, Holds
<1>11. DeadLetterOnce'
  BY <1>1, <1>2, <1>3, <1>4, <1>5, <1>6, <1>7 DEF Safe, DeadLetterOnce
<1>12. RecordedMeansSent'
  BY <1>1, <1>2, <1>3, <1>4, <1>5, <1>6, <1>7 DEF Safe, RecordedMeansSent, InHand
<1>13. (\A v \in Workers : InHand(v))'
  BY <1>1, <1>2, <1>3, <1>4, <1>5, <1>6, <1>7 DEF Safe, InHand
<1>14. (\A o \in Jobs : AttemptLeft(o))'
  BY <1>1, <1>2, <1>3, <1>4, <1>5, <1>6, <1>7 DEF Safe, AttemptLeft, TypeOK
<1>15. QED
  BY <1>8, <1>9, <1>10, <1>11, <1>12, <1>13, <1>14 DEF Safe

LEMMA StepSafe == Safe /\ [Next]_vars => Safe'
<1> SUFFICES ASSUME Safe, [Next]_vars PROVE Safe'
  OBVIOUS
<1>1. CASE UNCHANGED vars
  BY <1>1
  DEF vars, Safe, TypeOK, OneWorkerPerJob, ProcessingIsHeld, DeadLetterOnce,
      RecordedMeansSent, InHand, AttemptLeft, Holds
<1>2. CASE \E batch \in SUBSET Jobs : Enqueue(batch)
  BY <1>2, EnqueueSafe
<1>3. CASE Tick
  BY <1>3, TickSafe
<1>4. ASSUME NEW w \in Workers, Work(w) PROVE Safe'
  <2>1. Complete(w) => Safe' BY FinishSafe DEF Complete
  <2>2. QED
    BY <1>4, <2>1, ClaimSafe, ClaimCommitSafe, ActSafe, SkipSafe, FailSafe, FailJobSafe
    DEF Work
<1>5. ASSUME NEW w \in Workers, CompleteUnheard(w) PROVE Safe'
  BY <1>5, FinishSafe DEF CompleteUnheard
<1>6. ASSUME NEW w \in Workers, Drop(w) PROVE Safe'
  BY <1>6, DropSafe
<1>7. ASSUME NEW w \in Workers, Poll(w) PROVE Safe'
  BY <1>1, <1>7 DEF Poll
<1>8. QED
  BY <1>1, <1>2, <1>3, <1>4, <1>5, <1>6, <1>7 DEF Next

LEMMA SafeAlways == Spec => []Safe
  BY InitSafe, StepSafe, PTL DEF Spec

(* Every reachable state is well typed, with attempts and waits in range.  *)
THEOREM TypeCorrect == Spec => []TypeOK
<1>1. Safe => TypeOK BY DEF Safe
<1>2. QED BY <1>1, SafeAlways, PTL

(* No two workers ever work on the same job.                               *)
THEOREM OneWorkerAlways == Spec => []OneWorkerPerJob
<1>1. Safe => OneWorkerPerJob BY DEF Safe
<1>2. QED BY <1>1, SafeAlways, PTL

(* Only the loss of a worker leaves a job in 'processing' by itself.       *)
THEOREM ProcessingHeldAlways == Spec => []ProcessingIsHeld
<1>1. Safe => ProcessingIsHeld BY DEF Safe
<1>2. QED BY <1>1, SafeAlways, PTL

(* A job has a row in the dead letters exactly when it was given up.       *)
THEOREM DeadLetterAlways == Spec => []DeadLetterOnce
<1>1. Safe => DeadLetterOnce BY DEF Safe
<1>2. QED BY <1>1, SafeAlways, PTL

(* No job has more external effects than attempts.                         *)
THEOREM BudgetAlways == Spec => []SentWithinBudget
<1>1. Safe => SentWithinBudget
  BY QueueAssumption DEF Safe, SentWithinBudget, AttemptLeft, TypeOK, QueuedJob
<1>2. QED BY <1>1, SafeAlways, PTL

(* What is recorded as sent was sent, and 'done' is never set before.      *)
THEOREM RecordedAlways == Spec => []RecordedMeansSent
<1>1. Safe => RecordedMeansSent BY DEF Safe
<1>2. QED BY <1>1, SafeAlways, PTL

(* A worker fails a job that is done only after an unheard commit.         *)
OnlyUnheard ==
    \A w \in Workers :
        worker[w].pc = "failing" /\ queue[worker[w].job].status = "done" => w \in Unheard

(* What a step of a worker does to the workers and to its job's row.       *)
LEMMA RowsChange ==
    ASSUME Safe, NEW w \in Workers, Work(w) \/ CompleteUnheard(w) \/ Drop(w)
    PROVE  /\ \A v \in Workers : v # w => worker'[v] = worker[v]
           /\ \A j \in Jobs : j # worker[w].job => queue'[j] = queue[j]
<1> USE DEF Safe, TypeOK
<1>1. ASSUME NEW j \in Jobs, Claim(w, j)
      PROVE  /\ \A v \in Workers : v # w => worker'[v] = worker[v]
             /\ UNCHANGED queue
  BY <1>1 DEF Claim
<1>2. CASE ClaimCommit(w)
  BY <1>2 DEF ClaimCommit
<1>3. CASE Act(w) \/ Skip(w) \/ Fail(w) \/ Drop(w)
  BY <1>3 DEF Act, Skip, Fail, Drop
<1>4. CASE Complete(w) \/ CompleteUnheard(w)
  BY <1>4 DEF Complete, CompleteUnheard, Finish
<1>5. CASE FailJob(w)
  BY <1>5 DEF FailJob
<1>6. QED
  BY <1>1, <1>2, <1>3, <1>4, <1>5 DEF Work

(* Other workers hold other jobs, so only the worker that moves matters.   *)
LEMMA OnlyUnheardOthers ==
    ASSUME Safe, OnlyUnheard, NEW w \in Workers,
           Work(w) \/ CompleteUnheard(w) \/ Drop(w),
           worker'[w].pc = "failing" /\ queue'[worker'[w].job].status = "done" => w \in Unheard
    PROVE  OnlyUnheard'
<1> SUFFICES ASSUME NEW v \in Workers, worker'[v].pc = "failing",
                    queue'[worker'[v].job].status = "done"
             PROVE  v \in Unheard
  BY DEF OnlyUnheard
<1>1. CASE v = w
  BY <1>1
<1>2. CASE v # w
  <2>1. worker'[v] = worker[v]
    BY <1>2, RowsChange
  <2>2. worker[v].job \in Jobs
    BY <2>1 DEF Safe, InHand
  <2>3. CASE worker[w].pc = "idle"
    <3>1. UNCHANGED queue
      BY <2>3 DEF Work, Claim, ClaimCommit, Act, Skip, Complete, CompleteUnheard, Finish, Fail,
                  FailJob, Drop
    <3>2. QED BY <2>1, <3>1 DEF OnlyUnheard
  <2>4. CASE worker[w].pc # "idle"
    <3>1. worker[v].job # worker[w].job
      BY <1>2, <2>1, <2>2, <2>4 DEF Safe, OneWorkerPerJob, Holds
    <3>2. queue'[worker[v].job] = queue[worker[v].job]
      BY <2>2, <3>1, RowsChange
    <3>3. QED BY <2>1, <3>2 DEF OnlyUnheard
  <2>5. QED BY <2>3, <2>4
<1>3. QED BY <1>1, <1>2

LEMMA OnlyUnheardStep == Safe /\ OnlyUnheard /\ [Next]_vars => OnlyUnheard'
<1> SUFFICES ASSUME Safe, OnlyUnheard, [Next]_vars PROVE OnlyUnheard'
  OBVIOUS
<1>1. ASSUME UNCHANGED worker,
             \A j \in Jobs : queue'[j].status = "done" => queue[j].status = "done"
      PROVE  OnlyUnheard'
  BY <1>1 DEF Safe, InHand, OnlyUnheard
<1>2. CASE UNCHANGED vars
  BY <1>1, <1>2 DEF vars
<1>3. CASE \E batch \in SUBSET Jobs : Enqueue(batch)
  BY <1>1, <1>3 DEF Enqueue, Safe, TypeOK, QueuedJob
<1>4. CASE Tick
  BY <1>1, <1>4 DEF Tick, Safe, TypeOK, QueuedJob
<1>5. ASSUME NEW w \in Workers, Poll(w) PROVE OnlyUnheard'
  BY <1>2, <1>5 DEF Poll
<1>6. ASSUME NEW w \in Workers, Work(w) \/ CompleteUnheard(w) \/ Drop(w)
      PROVE  OnlyUnheard'
  <2>1. SUFFICES ASSUME worker'[w].pc = "failing", queue'[worker'[w].job].status = "done"
                 PROVE  w \in Unheard
    BY <1>6, OnlyUnheardOthers
  <2> USE DEF Safe, TypeOK
  <2>2. ASSUME NEW j \in Jobs PROVE ~ Claim(w, j)
    BY <2>1 DEF Claim
  <2>3. ~ ClaimCommit(w) /\ ~ Act(w) /\ ~ Skip(w)
    BY <2>1 DEF ClaimCommit, Act, Skip
  <2>4. ~ Complete(w) /\ ~ FailJob(w) /\ ~ Drop(w)
    BY <2>1 DEF Complete, FailJob, Drop, Idle
  <2>5. ~ Fail(w)
    <3>1. SUFFICES ASSUME Fail(w) PROVE FALSE
      OBVIOUS
    <3>2. queue[worker[w].job].status = "processing"
      BY <3>1 DEF Fail, InHand
    <3>3. worker'[w].job = worker[w].job /\ UNCHANGED queue
      BY <3>1 DEF Fail
    <3>4. QED BY <2>1, <3>2, <3>3
  <2>6. QED
    BY <1>6, <2>2, <2>3, <2>4, <2>5 DEF Work, CompleteUnheard
<1>7. QED
  BY <1>2, <1>3, <1>4, <1>5, <1>6 DEF Next

LEMMA OnlyUnheardAlways == Spec => []OnlyUnheard
<1>1. Init => OnlyUnheard
  BY DEF Init, OnlyUnheard, Idle
<1>2. QED BY <1>1, SafeAlways, OnlyUnheardStep, PTL DEF Spec

(* Which row a step takes out of 'done' or 'failed', and whose step it is. *)
LEMMA Resettled ==
    ASSUME Safe, OnlyUnheard, [Next]_vars, NEW j \in Jobs,
           queue[j].status \in {"done", "failed"}, queue'[j].status # queue[j].status
    PROVE  \E w \in Unheard : worker[w] = [pc |-> "failing", job |-> j]
<1> USE DEF Safe
<1>1. ~ UNCHANGED vars
  BY DEF vars
<1>2. ASSUME NEW batch \in SUBSET Jobs PROVE ~ Enqueue(batch)
  BY DEF Enqueue
<1>3. ~ Tick
  BY DEF Tick, TypeOK, QueuedJob
<1>4. PICK w \in Workers : Work(w) \/ CompleteUnheard(w) \/ Drop(w)
  BY <1>1, <1>2, <1>3 DEF Next, Poll
<1>5. j = worker[w].job
  BY <1>4, RowsChange
<1>6. ASSUME NEW o \in Jobs PROVE ~ Claim(w, o)
  BY DEF Claim
<1>7. ~ ClaimCommit(w)
  BY <1>5 DEF ClaimCommit, InHand
<1>8. ~ Act(w) /\ ~ Skip(w) /\ ~ Fail(w) /\ ~ Drop(w)
  BY DEF Act, Skip, Fail, Drop
<1>9. ~ Finish(w)
  BY <1>5 DEF Finish, InHand
<1>10. FailJob(w)
  BY <1>4, <1>6, <1>7, <1>8, <1>9 DEF Work, Complete, CompleteUnheard
<1>11. worker[w].pc = "failing" /\ queue[j].status = "done"
  BY <1>5, <1>10 DEF FailJob, InHand
<1>12. w \in Unheard
  BY <1>5, <1>11 DEF OnlyUnheard
<1>13. worker[w] = [pc |-> "failing", job |-> j]
  BY <1>5, <1>11 DEF TypeOK
<1>14. QED BY <1>12, <1>13

(* A job that is done or failed is only ever taken up again by a worker    *)
(* that did not hear of the commit that completed it.                      *)
THEOREM SettledAlways == Spec => SettledForGood
<1>1. Safe /\ OnlyUnheard /\ [Next]_vars =>
        [\A j \in Jobs :
           queue[j].status \in {"done", "failed"} /\ queue'[j].status # queue[j].status =>
             \E w \in Unheard : worker[w] = [pc |-> "failing", job |-> j]]_vars
  BY Resettled
<1>2. QED BY <1>1, SafeAlways, OnlyUnheardAlways, PTL DEF Spec, SettledForGood
=============================================================================
