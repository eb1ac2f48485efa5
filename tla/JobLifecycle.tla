---------------------------- MODULE JobLifecycle ----------------------------
(***************************************************************************)
(* A job from the request that asks for it to the row that says how it     *)
(* ended: api/v1/adaptive.py (propose), api/deps.py (start_job),           *)
(* worker/queue.py, worker/tasks.py (_run_job, propose_adaptive), the      *)
(* settings of worker/main.py and the reaper of cli.py.                    *)
(*                                                                         *)
(* Three parties write one row: the request that could not push the job,   *)
(* the thread that runs it, and the reaper.  None of them looks at the     *)
(* status it overwrites.  arq knows nothing of the row: it delivers a job  *)
(* again when its worker died, and forgets one that ran out of time while  *)
(* the thread goes on.  The requests are those of one teacher for one      *)
(* class and branch: the guard never sees the jobs of others.              *)
(***************************************************************************)
EXTENDS Naturals, FiniteSets

CONSTANTS
    Requests,  \* the POSTs; each would write the job of the same name
    MayDie,    \* requests whose process may die on the way
    MaxJobs,   \* WorkerSettings.max_jobs
    MaxKills,  \* bound: workers killed
    Nobody     \* no job

ASSUME JobsAssumption ==
    /\ MayDie \subseteq Requests
    /\ MaxJobs \in Nat \ {0} /\ MaxKills \in Nat
    /\ Nobody \notin Requests

VARIABLES
    request,  \* request[r]: where the handler is, and the job it answered with
    job,      \* job[j]: the row
    queue,    \* the jobs arq holds: handed over and not finished by a worker
    slot,     \* the jobs arq counts as running
    thread,   \* thread[j]: the thread that runs the pipeline of job j
    kills,    \* how many workers were killed
    reported, \* history: the jobs whose row has ever told of an end
    overlap   \* history: a request wrote its job after another's check

vars == <<request, job, queue, slot, thread, kills, reported, overlap>>

-----------------------------------------------------------------------------
(* The rows                                                                *)

Ended == {"succeeded", "failed"}
Statuses == {"none", "queued", "running"} \union Ended

\* The closed set of what a failed job may say.
FailureCodes == {"queue_unavailable", "timeout", "internal_error"}

JobRows == [status : Statuses, error : FailureCodes \union {"none"},
            proposal : BOOLEAN]
RequestRows ==
    [at : {"idle", "clear", "written", "answered", "refused", "dead"},
     job : Requests \union {Nobody}]
Threads == {"none", "running", "over"}

Init ==
    /\ request = [r \in Requests |-> [at |-> "idle", job |-> Nobody]]
    /\ job = [j \in Requests |->
                [status |-> "none", error |-> "none", proposal |-> FALSE]]
    /\ queue = {} /\ slot = {}
    /\ thread = [j \in Requests |-> "none"]
    /\ kills = 0 /\ reported = {} /\ overlap = FALSE

Live(j) == job[j].status \in {"queued", "running"}
Alive(j) == thread[j] = "running"

-----------------------------------------------------------------------------
(* The request                                                             *)

\* Faulty variant: only a job that has started counts as in flight.
StartedOnly(r) ==
    {j \in Requests \ {r} : job[j].status = "running"}

\* The in-flight guard reads the live jobs of this teacher, class and branch.
InFlight(r) == {j \in Requests \ {r} : Live(j)}

JoinRunning(r) ==
    /\ request[r].at = "idle"
    /\ \E j \in InFlight(r) :
         request' = [request EXCEPT ![r] = [at |-> "answered", job |-> j]]
    /\ UNCHANGED <<job, queue, slot, thread, kills, reported, overlap>>

FindNone(r) ==
    /\ request[r].at = "idle"
    /\ InFlight(r) = {}
    /\ request' = [request EXCEPT ![r].at = "clear"]
    /\ UNCHANGED <<job, queue, slot, thread, kills, reported, overlap>>

\* The insert, in its own commit after the guard read.
WriteJob(r) ==
    /\ request[r].at = "clear"
    /\ request' = [request EXCEPT ![r] = [at |-> "written", job |-> r]]
    /\ job' = [job EXCEPT ![r].status = "queued"]
    /\ overlap' = (overlap \/ \E q \in Requests \ {r} :
                                request[q].at = "clear")
    /\ UNCHANGED <<queue, slot, thread, kills, reported>>

Push(r) ==
    /\ request[r].at = "written"
    /\ queue' = queue \union {r}
    /\ request' = [request EXCEPT ![r].at = "answered"]
    /\ UNCHANGED <<job, slot, thread, kills, reported, overlap>>

\* The push timed out or was refused: Redis may hold the job all the same,
\* and by the time the handler writes, a worker may be running it.
PushedUnseen(r) ==
    /\ request[r].at = "written" /\ r \notin queue
    /\ job[r].status = "queued"
    /\ queue' = queue \union {r}
    /\ UNCHANGED <<request, job, slot, thread, kills, reported, overlap>>

PushFails(r) ==
    /\ request[r].at = "written"
    /\ job' = [job EXCEPT ![r].status = "failed",
                          ![r].error = "queue_unavailable"]
    /\ request' = [request EXCEPT ![r].at = "refused"]
    /\ reported' = reported \union {r}
    /\ UNCHANGED <<queue, slot, thread, kills, overlap>>

Dies(r) ==
    /\ r \in MayDie /\ request[r].at \in {"clear", "written"}
    /\ request' = [request EXCEPT ![r].at = "dead"]
    /\ UNCHANGED <<job, queue, slot, thread, kills, reported, overlap>>

-----------------------------------------------------------------------------
(* The worker                                                              *)

\* The row at the start of a run, whatever it said before.
Begun(row) == [row EXCEPT !.status = "running", !.error = "none"]

\* arq hands over any job it holds while it has a slot.
Deliverable(j) == j \in queue \ slot /\ Cardinality(slot) < MaxJobs

Start(j) ==
    /\ Deliverable(j)
    /\ ~Alive(j)
    /\ slot' = slot \union {j}
    /\ thread' = [thread EXCEPT ![j] = "running"]
    /\ job' = [job EXCEPT ![j] = Begun(job[j])]
    /\ UNCHANGED <<request, queue, kills, reported, overlap>>

\* The coroutine waits for the thread of a job that has its slot.
ThreadEnds(j) ==
    [thread EXCEPT ![j] = IF j \in slot THEN "over" ELSE "none"]

\* The proposal row and the status in one commit. The session holds a row
\* whose error is NULL since the start, so it writes none. A job that ran
\* before has its proposal already, and the unique key refuses another.
Succeed(j) ==
    /\ thread[j] = "running" /\ ~job[j].proposal
    /\ job' = [job EXCEPT ![j].status = "succeeded", ![j].proposal = TRUE]
    /\ thread' = ThreadEnds(j)
    /\ reported' = reported \union {j}
    /\ UNCHANGED <<request, queue, slot, kills, overlap>>

\* Faulty variant: the run is over, so the row says that it went well.
Swallowed(row) == [row EXCEPT !.status = "succeeded"]

\* What the row says after an exception.
Broken(row) == [row EXCEPT !.status = "failed", !.error = "internal_error"]

Raise(j) ==
    /\ Alive(j)
    /\ job' = [job EXCEPT ![j] = Broken(job[j])]
    /\ thread' = ThreadEnds(j)
    /\ reported' = reported \union {j}
    /\ UNCHANGED <<request, queue, slot, kills, overlap>>

\* The coroutine returns after its thread: arq is done with the job.
Acknowledge(j) ==
    /\ j \in slot /\ thread[j] = "over"
    /\ slot' = slot \ {j} /\ queue' = queue \ {j}
    /\ thread' = [thread EXCEPT ![j] = "none"]
    /\ UNCHANGED <<request, job, kills, reported, overlap>>

\* Faulty variant: a job may take as long as it likes.
NoCeiling(j) == FALSE

\* A job that has been running for job_timeout.
OutOfTime(j) == j \in slot /\ Alive(j)

\* arq gives the job up and its slot to another. The thread it
\* cannot cancel goes on, and nothing is written on the row.
TimeOut(j) ==
    /\ OutOfTime(j)
    /\ slot' = slot \ {j} /\ queue' = queue \ {j}
    /\ UNCHANGED <<request, job, thread, kills, reported, overlap>>

\* The worker is killed with every thread of it; what it had not
\* acknowledged is delivered again to the next one.
Kill ==
    /\ kills < MaxKills
    /\ kills' = kills + 1
    /\ slot' = {}
    /\ thread' = [j \in Requests |-> "none"]
    /\ UNCHANGED <<request, job, queue, reported, overlap>>

-----------------------------------------------------------------------------
(* The reaper                                                              *)

\* The heartbeat of a running job is older than job_stale_after_s: that is
\* twice job_timeout_s, so the thread is dead or arq has given it up. One
\* that arq gave up may be alive, and silent.
IsJobStale(j) == job[j].status = "running" /\ j \notin slot

Reap(j) ==
    /\ IsJobStale(j)
    /\ job' = [job EXCEPT ![j].status = "failed", ![j].error = "timeout"]
    /\ reported' = reported \union {j}
    /\ UNCHANGED <<request, queue, slot, thread, kills, overlap>>

Handle(r) == \/ JoinRunning(r) \/ FindNone(r) \/ WriteJob(r)
             \/ Push(r) \/ PushFails(r)
Work(j) == Start(j) \/ Succeed(j) \/ Raise(j) \/ Acknowledge(j)

Next ==
    \/ \E r \in Requests : Handle(r) \/ PushedUnseen(r) \/ Dies(r)
    \/ \E j \in Requests : Work(j) \/ TimeOut(j) \/ Reap(j)
    \/ Kill

\* A handler that has begun runs to its end; arq delivers what it holds and
\* enforces its timeout; the reaper is run on a schedule, and finds a job
\* that stays silent. Nothing is assumed of the threads, which may hang.
Fairness ==
    /\ \A r \in Requests : WF_vars(WriteJob(r) \/ Push(r) \/ PushFails(r))
    /\ \A j \in Requests : WF_vars(Start(j)) /\ WF_vars(Acknowledge(j))
                           /\ WF_vars(TimeOut(j)) /\ WF_vars(Reap(j))

Spec == Init /\ [][Next]_vars
FairSpec == Spec /\ Fairness

-----------------------------------------------------------------------------
(* Properties                                                              *)

\* Every row holds values of its columns.
TypeOK ==
    /\ request \in [Requests -> RequestRows]
    /\ job \in [Requests -> JobRows]
    /\ queue \subseteq Requests /\ slot \subseteq queue
    /\ thread \in [Requests -> Threads]
    /\ reported \subseteq Requests
    /\ kills \in 0 .. MaxKills /\ overlap \in BOOLEAN

\* A job that says it succeeded has what it was asked for: a proposal to
\* read back, although the row is written by the request that could not push
\* it, by the reaper and by a thread nobody waits for.
SuccessHasItsResult ==
    \A j \in Requests :
       job[j].status = "succeeded" => job[j].proposal

\* What a job says of its failure is on the row exactly while it has failed:
\* a job that waits or runs, also for the second time, tells of none.
FailureIsTold ==
    \A j \in Requests :
       /\ job[j].status = "failed" => job[j].error # "none"
       /\ job[j].status \in {"none", "queued", "running"} =>
            job[j].error = "none"

\* Two proposals for one class are worked on at once, and so paid for twice,
\* only where two requests overlapped between check and insert, or where one
\* of the two had been reported over while it still was to run. In every
\* other case the in-flight guard holds: through redeliveries, timeouts and
\* threads that outlive their task.
OneRunAtATime ==
    \A j, k \in Requests :
       Alive(j) /\ Alive(k) /\ j # k =>
          overlap \/ j \in reported \/ k \in reported

\* A request that was answered with a job, its own or one in flight, sees it
\* end, through kills, redeliveries, timeouts and threads that hang, unless
\* the process that was to push that job died before it could.
AnsweredJobEnds ==
    \A r \in Requests :
       request[r].at = "answered"
       ~> \E j \in {request[r].job} \ {Nobody} :
             job[j].status \in Ended \/ request[j].at = "dead"
=============================================================================
