---------------------------- MODULE Idempotency ----------------------------
(***************************************************************************)
(* Doing a write once: services/idempotency.py, wrapped around the upload  *)
(* of a pile (api/v1/scans.py) and the hand-over of its job to the worker  *)
(* (api/deps.py, worker/queue.py).                                         *)
(*                                                                         *)
(* A request claims its key in a transaction of its own, does the work in  *)
(* a second, pushes the job to Redis, reads the rows back to build its     *)
(* answer, and stores that in a third. Other requests, an exception and    *)
(* the death of the process fall between any two.                          *)
(***************************************************************************)
EXTENDS FiniteSets

CONSTANTS
    Requests,  \* the POSTs that reach the API, a retry being one of its own
    Keys,      \* the values of the Idempotency-Key header
    NoKey,     \* the header is absent
    KeyOf,     \* KeyOf[r]: the key request r carries, or NoKey
    MayCrash,  \* the requests whose process may die under them
    None

ASSUME KeyAssumption ==
    /\ NoKey \notin Keys
    /\ KeyOf \in [Requests -> Keys \union {NoKey}]
    /\ MayCrash \subseteq Requests
    /\ None \notin Requests

VARIABLES
    row,     \* row[k]: the idempotency_key row, as its state and the request in it
    pc,      \* pc[r]: how far request r has got
    effect,  \* effect[r]: what the work of r committed, and the fate of its job row
    pushed,  \* the requests whose job Redis holds
    answer   \* answer[r]: whose work the 2xx answer given to r describes

vars == <<row, pc, effect, pushed, answer>>

Free == [state |-> "free", by |-> None]
InFlight(r) == [state |-> "inflight", by |-> r]
Answered(r) == [state |-> "answered", by |-> r]

Keyed(r) == KeyOf[r] # NoKey

\* r has taken the claim of its key and not yet given it up.
Owns(r) ==
    Keyed(r) /\ pc[r] \in {"work", "enqueue", "answering", "finish", "release"}

TypeOK ==
    /\ row \in [Keys -> {Free} \union {InFlight(r) : r \in Requests}
                              \union {Answered(r) : r \in Requests}]
    /\ pc \in [Requests -> {"new", "collided", "work", "enqueue", "answering",
                            "finish", "release", "ok", "conflict", "error", "dead"}]
    /\ effect \in [Requests -> {"none", "queued", "failed"}]
    /\ pushed \subseteq {r \in Requests : effect[r] # "none"}
    /\ answer \in [Requests -> Requests \union {None}]

Init ==
    /\ row = [k \in Keys |-> Free]
    /\ pc = [r \in Requests |-> "new"]
    /\ effect = [r \in Requests |-> "none"]
    /\ pushed = {}
    /\ answer = [r \in Requests |-> None]

Goto(r, label) == pc' = [pc EXCEPT ![r] = label]

-----------------------------------------------------------------------------
(* The claim                                                               *)

\* No header: a plain call.
RunUnkeyed(r) ==
    /\ pc[r] = "new"
    /\ ~Keyed(r)
    /\ Goto(r, "work")
    /\ UNCHANGED <<row, effect, pushed, answer>>

\* The insert commits on its own, so the concurrent retry can see it.
Claim(r) ==
    /\ pc[r] = "new"
    /\ Keyed(r)
    /\ row[KeyOf[r]] = Free
    /\ row' = [row EXCEPT ![KeyOf[r]] = InFlight(r)]
    /\ Goto(r, "work")
    /\ UNCHANGED <<effect, pushed, answer>>

\* The unique constraint refuses the insert; the row that is there is read in
\* the next transaction.
Collide(r) ==
    /\ pc[r] = "new"
    /\ Keyed(r)
    /\ row[KeyOf[r]] # Free
    /\ Goto(r, "collided")
    /\ UNCHANGED <<row, effect, pushed, answer>>

\* Faulty variant: the loser's refusal runs through the releasing handler too.
ConflictReleases(r) ==
    /\ pc[r] = "collided"
    /\ LET existing == row[KeyOf[r]] IN
         IF existing.state = "answered"
         THEN answer' = [answer EXCEPT ![r] = existing.by] /\ Goto(r, "ok")
         ELSE Goto(r, "release") /\ UNCHANGED answer
    /\ UNCHANGED <<row, effect, pushed>>

\* Replay what the first attempt answered; 409 while it is in flight; and the
\* IntegrityError itself when the row was released in between.
ReadExisting(r) ==
    /\ pc[r] = "collided"
    /\ LET existing == row[KeyOf[r]] IN
         \/ /\ existing.state = "answered"
            /\ answer' = [answer EXCEPT ![r] = existing.by]
            /\ Goto(r, "ok")
         \/ /\ existing.state = "inflight"
            /\ Goto(r, "conflict")
            /\ UNCHANGED answer
         \/ /\ existing.state = "free"
            /\ Goto(r, "error")
            /\ UNCHANGED answer
    /\ UNCHANGED <<row, effect, pushed>>

-----------------------------------------------------------------------------
(* The work: the rows are committed first, then the job is handed over     *)

WorkCommits(r) ==
    /\ pc[r] = "work"
    /\ effect' = [effect EXCEPT ![r] = "queued"]
    /\ Goto(r, "enqueue")
    /\ UNCHANGED <<row, pushed, answer>>

\* Faulty variant: the claim is not released.
RaisesUnreleased(r) ==
    /\ pc[r] = "work"
    /\ Goto(r, "error")
    /\ UNCHANGED <<row, effect, pushed, answer>>

\* A refusal or a fault before the commit: nothing was written.
WorkRaises(r) ==
    /\ pc[r] = "work"
    /\ Goto(r, IF Keyed(r) THEN "release" ELSE "error")
    /\ UNCHANGED <<row, effect, pushed, answer>>

EnqueueSucceeds(r) ==
    /\ pc[r] = "enqueue"
    /\ pushed' = pushed \union {r}
    /\ Goto(r, "answering")
    /\ UNCHANGED <<row, effect, answer>>

\* Faulty variant: the failure is logged and the request answered all the same.
FailureIsSwallowed(r) ==
    /\ pc[r] = "enqueue"
    /\ Goto(r, "answering")
    /\ UNCHANGED <<row, effect, pushed, answer>>

\* Faulty variant: the row the worker will never read is left at queued.
RowLeftQueued(r) ==
    /\ pc[r] = "enqueue"
    /\ Goto(r, IF Keyed(r) THEN "release" ELSE "error")
    /\ UNCHANGED <<row, effect, pushed, answer>>

\* Redis is unreachable, or the five seconds run out after it took the job:
\* either way the row is marked failed and the handler raises a 503.
EnqueueFails(r) ==
    /\ pc[r] = "enqueue"
    /\ pushed' \in {pushed, pushed \union {r}}
    /\ effect' = [effect EXCEPT ![r] = "failed"]
    /\ Goto(r, IF Keyed(r) THEN "release" ELSE "error")
    /\ UNCHANGED <<row, answer>>

\* The pile is read back and the links to its photographs are signed; a call
\* without a key is answered then.
AnswerIsBuilt(r) ==
    /\ pc[r] = "answering"
    /\ IF Keyed(r)
         THEN Goto(r, "finish") /\ UNCHANGED answer
         ELSE Goto(r, "ok") /\ answer' = [answer EXCEPT ![r] = r]
    /\ UNCHANGED <<row, effect, pushed>>

\* Reading back or signing raises. The work was committed and its job handed
\* over; the handler cannot tell, and lets the claim go as after any failure.
AnswerRaises(r) ==
    /\ pc[r] = "answering"
    /\ Goto(r, IF Keyed(r) THEN "release" ELSE "error")
    /\ UNCHANGED <<row, effect, pushed, answer>>

-----------------------------------------------------------------------------
(* The end of the claim                                                    *)

Finish(r) ==
    /\ pc[r] = "finish"
    /\ row' = [row EXCEPT ![KeyOf[r]] = IF @ = Free THEN Free ELSE Answered(r)]
    /\ answer' = [answer EXCEPT ![r] = r]
    /\ Goto(r, "ok")
    /\ UNCHANGED <<effect, pushed>>

\* Deletes the row by its key, whoever wrote it.
Release(r) ==
    /\ pc[r] = "release"
    /\ row' = [row EXCEPT ![KeyOf[r]] = Free]
    /\ Goto(r, "error")
    /\ UNCHANGED <<effect, pushed, answer>>

\* The process dies between two transactions, or the storing of the answer or
\* the best-effort release fails: whatever was committed stays as it is.
Crash(r) ==
    /\ r \in MayCrash
    /\ pc[r] \in {"collided", "work", "enqueue", "answering", "finish", "release"}
    /\ Goto(r, "dead")
    /\ UNCHANGED <<row, effect, pushed, answer>>

Serve(r) ==
    \/ RunUnkeyed(r) \/ Claim(r) \/ Collide(r) \/ ReadExisting(r)
    \/ WorkCommits(r) \/ WorkRaises(r)
    \/ EnqueueSucceeds(r) \/ EnqueueFails(r)
    \/ AnswerIsBuilt(r) \/ AnswerRaises(r)
    \/ Finish(r) \/ Release(r)

Next == \E r \in Requests : Serve(r) \/ Crash(r)

Spec == Init /\ [][Next]_vars

\* A request that is being served is served to its end: FastAPI runs the
\* handler to its return in a thread of its pool.
FairSpec == Spec /\ \A r \in Requests : WF_vars(Serve(r))

-----------------------------------------------------------------------------
(* What the module promises                                                *)

SameKey(r, s) == Keyed(r) /\ KeyOf[r] = KeyOf[s]

\* Two simultaneous retries never both do the work: "exactly one wins".
OneWorker ==
    \A r, s \in Requests : SameKey(r, s) /\ Owns(r) /\ Owns(s) => r = s

\* While a request works, the claim in the table is its own: nobody's release
\* has deleted it and nobody's answer has replaced it.
ClaimIsMine ==
    \A r \in Requests : Owns(r) => row[KeyOf[r]] = InFlight(r)

\* However many requests carry a key, those answered 2xx are told of the same
\* work, and that work was committed and its job handed to the worker.
OneAnswer ==
    \A r, s \in Requests :
        SameKey(r, s) /\ pc[r] = "ok" /\ pc[s] = "ok" =>
            /\ answer[r] = answer[s]
            /\ effect[answer[r]] = "queued"
            /\ answer[r] \in pushed

\* The request was answered with an error although Redis has its job.
Disowned(r) == pc[r] = "error" /\ r \in pushed

\* Of all the piles a key has written, one at most has a job that still
\* reads as waiting for the worker, whatever crashed and whatever was retried;
\* but for those whose own request failed after it had handed its job over.
OneLiveWrite ==
    \A r, s \in Requests :
        SameKey(r, s) /\ effect[r] = "queued" /\ effect[s] = "queued" =>
            r = s \/ Disowned(r) \/ Disowned(s)

\* A stored answer is never replaced and never forgotten.
AnswerKept ==
    [][\A k \in Keys : row[k].state = "answered" => row'[k] = row[k]]_vars

\* The claim of a request whose process lives ends: the key is answered or it
\* is free again, so the retry the teacher is about to make can run.
ClaimEnds ==
    \A r \in Requests \ MayCrash :
        Keyed(r) => (row[KeyOf[r]] = InFlight(r) ~> row[KeyOf[r]] # InFlight(r))
=============================================================================
