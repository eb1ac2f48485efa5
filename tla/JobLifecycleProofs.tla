------------------------- MODULE JobLifecycleProofs -------------------------
(***************************************************************************)
(* What a job's row says, and when two runs may overlap, for any number of *)
(* requests, slots and killed workers.                                     *)
(***************************************************************************)
EXTENDS JobLifecycle, TLAPS

\* A job is written by its own request, and handed over and run after that.
WrittenFirst ==
    \A j \in Requests :
        /\ request[j].at \in {"idle", "clear"} => job[j].status = "none"
        /\ request[j].at = "written" => job[j].status # "none"
        /\ job[j].status = "none" => j \notin queue /\ thread[j] = "none"

\* A job that was written waits, runs, or has been reported over.
LiveOrReported ==
    \A j \in Requests : job[j].status = "none" \/ Live(j) \/ j \in reported

\* A request past the guard knows every job but those reported over, unless
\* another wrote its own behind its back.
GuardHolds ==
    \A r, j \in Requests :
        request[r].at = "clear" /\ j # r /\ job[j].status # "none"
            => overlap \/ j \in reported

\* Of two jobs written, one was reported over before the other was.
OneWrittenAtATime ==
    \A j, k \in Requests :
        j # k /\ job[j].status # "none" /\ job[k].status # "none"
            => overlap \/ j \in reported \/ k \in reported

IInv ==
    /\ TypeOK
    /\ WrittenFirst
    /\ SuccessHasItsResult
    /\ FailureIsTold
    /\ LiveOrReported
    /\ GuardHolds
    /\ OneWrittenAtATime

-----------------------------------------------------------------------------
\* The first state satisfies the invariant.
LEMMA InitIInv == Init => IInv
<1> SUFFICES ASSUME Init PROVE IInv
  OBVIOUS
<1> USE JobsAssumption DEF Init
<1>1. TypeOK
  <2>1. request \in [Requests -> RequestRows]
    BY DEF RequestRows
  <2>2. job \in [Requests -> JobRows]
    BY DEF JobRows, Statuses, FailureCodes
  <2>3. thread \in [Requests -> Threads]
    BY DEF Threads
  <2>4. kills \in 0 .. MaxKills
    OBVIOUS
  <2>5. overlap \in BOOLEAN /\ queue \subseteq Requests /\ slot \subseteq queue
        /\ reported \subseteq Requests
    OBVIOUS
  <2> QED
    BY <2>1, <2>2, <2>3, <2>4, <2>5 DEF TypeOK
<1>2. WrittenFirst /\ SuccessHasItsResult /\ FailureIsTold
  BY DEF WrittenFirst, SuccessHasItsResult, FailureIsTold
<1>3. LiveOrReported /\ GuardHolds /\ OneWrittenAtATime
  BY DEF LiveOrReported, GuardHolds, OneWrittenAtATime
<1> QED
  BY <1>1, <1>2, <1>3 DEF IInv

\* Steps that change no status and clear no request keep what is said of the
\* jobs.
LEMMA QuietStep ==
    ASSUME IInv, TypeOK', UNCHANGED <<reported, overlap>>,
           \A j \in Requests : job'[j] = job[j],
           \A r \in Requests : request'[r].at \in {"idle", "clear", "written"}
                                => request[r].at = request'[r].at,
           \A j \in Requests : j \in queue' => j \in queue \/ job[j].status # "none",
           \A j \in Requests : thread'[j] # "none" => thread[j] # "none"
    PROVE  IInv'
<1> USE DEF IInv
<1>1. WrittenFirst'
  BY DEF WrittenFirst, TypeOK
<1>2. SuccessHasItsResult' /\ FailureIsTold'
  BY DEF SuccessHasItsResult, FailureIsTold
<1>3. LiveOrReported' /\ GuardHolds' /\ OneWrittenAtATime'
  BY DEF LiveOrReported, Live, GuardHolds, OneWrittenAtATime
<1> QED
  BY <1>1, <1>2, <1>3

\* Steps that write an end on a row already written, and report it.
LEMMA EndingStep ==
    ASSUME IInv, TypeOK', NEW j \in Requests, NEW row \in JobRows,
           job[j].status # "none", row.status \in Ended,
           row.status = "succeeded" => row.proposal,
           row.status = "failed" => row.error # "none",
           job' = [job EXCEPT ![j] = row],
           reported' = reported \union {j}, UNCHANGED overlap,
           \A r \in Requests : request'[r].at \in {"idle", "clear", "written"}
                                => request[r].at = request'[r].at,
           UNCHANGED queue,
           \A k \in Requests : thread'[k] # "none" => thread[k] # "none"
    PROVE  IInv'
<1> USE DEF IInv
<1>0. job \in [Requests -> JobRows] /\ job'[j] = row /\ \A k \in Requests \ {j} : job'[k] = job[k]
  BY DEF TypeOK
<1>a. row.status # "none" /\ row.status \notin {"none", "queued", "running"}
  BY DEF Ended
<1>1. WrittenFirst'
  BY <1>0, <1>a DEF WrittenFirst
<1>2. SuccessHasItsResult'
  BY <1>0 DEF SuccessHasItsResult
<1>3. FailureIsTold'
  BY <1>0, <1>a DEF FailureIsTold
<1>4. LiveOrReported' /\ GuardHolds' /\ OneWrittenAtATime'
  BY <1>0 DEF LiveOrReported, Live, GuardHolds, OneWrittenAtATime
<1> QED
  BY <1>1, <1>2, <1>3, <1>4

-----------------------------------------------------------------------------
\* A request's steps preserve the invariant.
LEMMA RequestIInv ==
    ASSUME IInv, NEW r \in Requests, Handle(r) \/ PushedUnseen(r) \/ Dies(r)
    PROVE  IInv'
<1> USE DEF IInv
<1>0. /\ request \in [Requests -> RequestRows] /\ job \in [Requests -> JobRows]
      /\ slot \subseteq queue /\ queue \subseteq Requests
  BY DEF TypeOK
<1>1. CASE JoinRunning(r)
  <2> PICK j \in InFlight(r) :
           request' = [request EXCEPT ![r] = [at |-> "answered", job |-> j]]
    BY <1>1 DEF JoinRunning
  <2>1. [at |-> "answered", job |-> j] \in RequestRows
    BY DEF RequestRows, InFlight
  <2>2. TypeOK'
    BY <1>0, <1>1, <2>1 DEF JoinRunning, TypeOK
  <2> QED
    BY <1>0, <1>1, <2>2, QuietStep DEF JoinRunning
<1>2. CASE FindNone(r)
  <2>1. TypeOK'
    BY <1>0, <1>2 DEF FindNone, TypeOK, RequestRows
  <2>2. /\ \A q \in Requests \ {r} : request'[q] = request[q]
        /\ request[r].at = "idle" /\ request'[r].at = "clear"
        /\ UNCHANGED <<job, queue, thread, reported, overlap>>
    BY <1>0, <1>2 DEF FindNone, RequestRows
  <2>3. \A j \in Requests \ {r} : ~Live(j)
    BY <1>2 DEF FindNone, InFlight
  <2>4. WrittenFirst'
    BY <1>0, <2>2 DEF WrittenFirst
  <2>5. GuardHolds'
    BY <2>2, <2>3 DEF GuardHolds, LiveOrReported
  <2>6. SuccessHasItsResult' /\ FailureIsTold' /\ LiveOrReported' /\ OneWrittenAtATime'
    BY <2>2 DEF SuccessHasItsResult, FailureIsTold, LiveOrReported, Live, OneWrittenAtATime
  <2> QED
    BY <2>1, <2>4, <2>5, <2>6
<1>3. CASE WriteJob(r)
  <2>1. TypeOK'
    BY <1>0, <1>3 DEF WriteJob, TypeOK, RequestRows, JobRows, Statuses
  <2>2. /\ request[r].at = "clear" /\ request'[r].at = "written"
        /\ \A q \in Requests \ {r} : request'[q] = request[q] /\ job'[q] = job[q]
        /\ job[r].status = "none" /\ job'[r].status = "queued"
        /\ job'[r].error = job[r].error
        /\ UNCHANGED <<queue, thread, reported>>
    BY <1>0, <1>3 DEF WriteJob, WrittenFirst, JobRows, RequestRows
  <2>3. overlap' = (overlap \/ \E q \in Requests \ {r} : request[q].at = "clear")
    BY <1>3 DEF WriteJob
  <2>4. WrittenFirst'
    BY <2>2 DEF WrittenFirst
  <2>5. SuccessHasItsResult' /\ FailureIsTold'
    BY <2>2 DEF SuccessHasItsResult, FailureIsTold
  <2>6. LiveOrReported'
    BY <2>2 DEF LiveOrReported, Live
  <2>7. GuardHolds'
    BY <2>2, <2>3 DEF GuardHolds
  <2>8. OneWrittenAtATime'
    BY <2>2, <2>3 DEF OneWrittenAtATime, GuardHolds
  <2> QED
    BY <2>1, <2>4, <2>5, <2>6, <2>7, <2>8
<1>4. CASE Push(r) \/ PushedUnseen(r) \/ Dies(r)
  <2>1. CASE PushedUnseen(r)
    <3>1. TypeOK'
      BY <1>0, <2>1 DEF PushedUnseen, TypeOK
    <3> QED
      BY <1>0, <2>1, <3>1, QuietStep DEF PushedUnseen
  <2>2. CASE Dies(r)
    <3>1. TypeOK'
      BY <1>0, <2>2 DEF Dies, TypeOK, RequestRows
    <3> QED
      BY <1>0, <2>2, <3>1, QuietStep DEF Dies, RequestRows
  <2>3. CASE Push(r)
    <3>1. TypeOK'
      BY <1>0, <2>3 DEF Push, TypeOK, RequestRows
    <3>2. job[r].status # "none"
      BY <2>3 DEF Push, WrittenFirst
    <3> QED
      BY <1>0, <2>3, <3>1, <3>2, QuietStep DEF Push, RequestRows
  <2> QED
    BY <1>4, <2>1, <2>2, <2>3
<1>5. CASE PushFails(r)
  <2> DEFINE row == [job[r] EXCEPT !.status = "failed", !.error = "queue_unavailable"]
  <2>1. row \in JobRows /\ row.status = "failed" /\ row.error = "queue_unavailable"
    BY <1>0 DEF JobRows, Statuses, Ended, FailureCodes
  <2>2. job' = [job EXCEPT ![r] = row]
    BY <1>0, <1>5 DEF PushFails
  <2>3. job[r].status # "none"
    BY <1>5 DEF PushFails, WrittenFirst
  <2>4. TypeOK'
    BY <1>0, <1>5, <2>1, <2>2 DEF PushFails, TypeOK, RequestRows
  <2> HIDE DEF row
  <2> QED
    BY <1>0, <1>5, <2>1, <2>2, <2>3, <2>4, EndingStep DEF PushFails, Ended, RequestRows
<1> QED
  BY <1>1, <1>2, <1>3, <1>4, <1>5 DEF Handle

\* The worker's and the reaper's steps preserve the invariant.
LEMMA WorkerIInv ==
    ASSUME IInv, NEW j \in Requests, Work(j) \/ TimeOut(j) \/ Reap(j)
    PROVE  IInv'
<1> USE DEF IInv
<1>0. /\ job \in [Requests -> JobRows] /\ thread \in [Requests -> Threads]
      /\ slot \subseteq queue /\ queue \subseteq Requests
  BY DEF TypeOK
<1>1. CASE Start(j)
  <2> DEFINE row == [job[j] EXCEPT !.status = "running", !.error = "none"]
  <2>1. job[j].status # "none"
    BY <1>1 DEF Start, Deliverable, WrittenFirst
  <2>2. /\ row \in JobRows /\ row.status = "running" /\ row.error = "none"
        /\ row.proposal = job[j].proposal
    BY <1>0 DEF JobRows, Statuses, FailureCodes
  <2>3. /\ job' = [job EXCEPT ![j] = row]
        /\ thread' = [thread EXCEPT ![j] = "running"] /\ slot' = slot \union {j}
        /\ UNCHANGED <<request, queue, kills, reported, overlap>> /\ j \in queue
    BY <1>1 DEF Start, Begun, Deliverable
  <2> HIDE DEF row
  <2>4. job'[j] = row /\ \A k \in Requests \ {j} : job'[k] = job[k] /\ thread'[k] = thread[k]
    BY <1>0, <2>3
  <2>5. TypeOK'
    BY <1>0, <2>2, <2>3 DEF TypeOK, Threads
  <2>6. WrittenFirst'
    BY <2>1, <2>2, <2>3, <2>4 DEF WrittenFirst
  <2>7. SuccessHasItsResult' /\ FailureIsTold'
    BY <2>2, <2>4 DEF SuccessHasItsResult, FailureIsTold
  <2>8. LiveOrReported' /\ GuardHolds' /\ OneWrittenAtATime'
    BY <2>1, <2>2, <2>3, <2>4 DEF LiveOrReported, Live, GuardHolds, OneWrittenAtATime
  <2> QED
    BY <2>5, <2>6, <2>7, <2>8
<1>2. CASE Succeed(j)
  <2> DEFINE row == [job[j] EXCEPT !.status = "succeeded", !.proposal = TRUE]
  <2>1. row \in JobRows /\ row.status = "succeeded" /\ row.proposal
    BY <1>0 DEF JobRows, Statuses, Ended
  <2>2. job' = [job EXCEPT ![j] = row]
    BY <1>0, <1>2 DEF Succeed
  <2>3. job[j].status # "none" /\ thread[j] # "none"
    BY <1>2 DEF Succeed, WrittenFirst
  <2>4. thread' \in [Requests -> Threads] /\ \A k \in Requests : thread'[k] # "none" => thread[k] # "none"
    BY <1>0, <1>2, <2>3 DEF Succeed, ThreadEnds, Threads
  <2> HIDE DEF row
  <2>5. TypeOK'
    BY <1>0, <1>2, <2>1, <2>2, <2>4 DEF Succeed, TypeOK
  <2> QED
    BY <1>2, <2>1, <2>2, <2>3, <2>4, <2>5, EndingStep DEF Succeed, Ended
<1>3. CASE Raise(j)
  <2> DEFINE row == [job[j] EXCEPT !.status = "failed", !.error = "internal_error"]
  <2>1. row \in JobRows /\ row.status = "failed" /\ row.error = "internal_error"
    BY <1>0 DEF JobRows, Statuses, Ended, FailureCodes
  <2>2. job' = [job EXCEPT ![j] = row]
    BY <1>3 DEF Raise, Broken
  <2>3. job[j].status # "none" /\ thread[j] # "none"
    BY <1>3 DEF Raise, Alive, WrittenFirst
  <2>4. thread' \in [Requests -> Threads] /\ \A k \in Requests : thread'[k] # "none" => thread[k] # "none"
    BY <1>0, <1>3, <2>3 DEF Raise, ThreadEnds, Threads
  <2> HIDE DEF row
  <2>5. TypeOK'
    BY <1>0, <1>3, <2>1, <2>2, <2>4 DEF Raise, TypeOK
  <2> QED
    BY <1>3, <2>1, <2>2, <2>3, <2>4, <2>5, EndingStep DEF Raise, Ended
<1>4. CASE Reap(j)
  <2> DEFINE row == [job[j] EXCEPT !.status = "failed", !.error = "timeout"]
  <2>1. row \in JobRows /\ row.status = "failed" /\ row.error = "timeout"
    BY <1>0 DEF JobRows, Statuses, Ended, FailureCodes
  <2>2. job' = [job EXCEPT ![j] = row]
    BY <1>0, <1>4 DEF Reap
  <2>3. job[j].status # "none"
    BY <1>4 DEF Reap, IsJobStale
  <2> HIDE DEF row
  <2>5. TypeOK'
    BY <1>0, <1>4, <2>1, <2>2 DEF Reap, TypeOK
  <2> QED
    BY <1>4, <2>1, <2>2, <2>3, <2>5, EndingStep DEF Reap, Ended
<1>5. CASE Acknowledge(j)
  <2>1. TypeOK'
    BY <1>0, <1>5 DEF Acknowledge, TypeOK, Threads
  <2> QED
    BY <1>0, <1>5, <2>1, QuietStep DEF Acknowledge
<1>6. CASE TimeOut(j)
  <2>1. TypeOK'
    BY <1>0, <1>6 DEF TimeOut, TypeOK
  <2> QED
    BY <1>0, <1>6, <2>1, QuietStep DEF TimeOut
<1> QED
  BY <1>1, <1>2, <1>3, <1>4, <1>5, <1>6 DEF Work

\* The invariant is inductive.
LEMMA NextIInv == IInv /\ [Next]_vars => IInv'
<1> SUFFICES ASSUME IInv, [Next]_vars PROVE IInv'
  OBVIOUS
<1>1. CASE Kill
  <2>1. TypeOK'
    BY <1>1, JobsAssumption DEF Kill, IInv, TypeOK, Threads
  <2> QED
    BY <1>1, <2>1, QuietStep DEF Kill
<1>2. CASE UNCHANGED vars
  <2>1. TypeOK'
    BY <1>2 DEF vars, IInv, TypeOK
  <2> QED
    BY <1>2, <2>1, QuietStep DEF vars
<1> QED
  BY <1>1, <1>2, RequestIInv, WorkerIInv DEF Next

\* A thread runs a job that was written.
LEMMA IInvIsOneRun == IInv => OneRunAtATime
  BY DEF IInv, OneRunAtATime, Alive, WrittenFirst, OneWrittenAtATime

-----------------------------------------------------------------------------
\* Every row holds values of its columns, and a job that has a slot is in the
\* queue (worker/queue.py, worker/main.py).
THEOREM TypeCorrect == Spec => []TypeOK
<1>1. IInv => TypeOK
  BY DEF IInv
<1> QED
  BY InitIInv, NextIInv, <1>1, PTL DEF Spec

\* A job that says it succeeded has its proposal (worker/tasks.py
\* propose_adaptive), whoever else writes the row.
THEOREM SuccessIsReal == Spec => []SuccessHasItsResult
<1>1. IInv => SuccessHasItsResult
  BY DEF IInv
<1> QED
  BY InitIInv, NextIInv, <1>1, PTL DEF Spec

\* A failure is on the row exactly while the job has failed
\* (worker/tasks.py _run_job, api/deps.py start_job, cli.py reap).
THEOREM FailuresAreTold == Spec => []FailureIsTold
<1>1. IInv => FailureIsTold
  BY DEF IInv
<1> QED
  BY InitIInv, NextIInv, <1>1, PTL DEF Spec

\* Two runs overlap only where two requests did, or where one job had been
\* reported over (api/v1/adaptive.py propose, the in-flight guard).
THEOREM RunsDoNotOverlap == Spec => []OneRunAtATime
  BY InitIInv, NextIInv, IInvIsOneRun, PTL DEF Spec

=============================================================================
