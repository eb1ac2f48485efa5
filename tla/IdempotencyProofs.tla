-------------------------- MODULE IdempotencyProofs --------------------------
(***************************************************************************)
(* The safety of a claimed key, for any number of requests, keys, retries  *)
(* and crashes.                                                            *)
(***************************************************************************)
EXTENDS Idempotency, TLAPS

\* What is written under a key that is not answered yet can still be answered:
\* the claim of a committed, waiting write is never given to another request,
\* unless its own was answered with an error.
LiveWriteIsClaimed ==
    \A r \in Requests :
        Keyed(r) /\ effect[r] = "queued" /\ pc[r] # "error" =>
            row[KeyOf[r]] \in {InFlight(r), Answered(r)}

\* A request that was answered was answered with what the table stores.
AnswerIsStored ==
    \A r \in Requests :
        Keyed(r) /\ pc[r] = "ok" =>
            /\ answer[r] \in Requests
            /\ row[KeyOf[r]] = Answered(answer[r])

\* A stored answer describes a write whose job the worker has.
StoredAnswerIsWork ==
    \A k \in Keys : row[k].state = "answered" =>
        /\ row[k].by \in pushed
        /\ effect[row[k].by] = "queued"
        /\ pc[row[k].by] = "ok"

\* What has been done by the time a request reaches each of its steps.
Progress ==
    \A r \in Requests :
        /\ pc[r] \in {"new", "collided", "work"} => effect[r] = "none"
        /\ pc[r] = "enqueue" => effect[r] = "queued"
        /\ pc[r] \in {"answering", "finish"} => effect[r] = "queued" /\ r \in pushed
        /\ pc[r] \in {"release", "error"} /\ effect[r] = "queued" => r \in pushed
        /\ pc[r] \in {"collided", "finish", "release"} => Keyed(r)

IInv ==
    /\ TypeOK
    /\ ClaimIsMine
    /\ LiveWriteIsClaimed
    /\ AnswerIsStored
    /\ StoredAnswerIsWork
    /\ Progress

\* The initial state satisfies the invariant.
LEMMA InitIInv == Init => IInv
  BY KeyAssumption
     DEF Init, IInv, TypeOK, ClaimIsMine, LiveWriteIsClaimed, AnswerIsStored,
         StoredAnswerIsWork, Progress, Owns, Keyed, Free, InFlight, Answered

\* The three kinds of row are told apart, and each names its request.
LEMMA RowKinds ==
    ASSUME NEW r \in Requests, NEW s \in Requests
    PROVE  /\ Free.state = "free"
           /\ InFlight(r).state = "inflight"
           /\ Answered(r).state = "answered"
           /\ Answered(r).by = r
           /\ Free # InFlight(r)
           /\ Free # Answered(r)
           /\ InFlight(r) # Answered(s)
           /\ InFlight(r) = InFlight(s) => r = s
           /\ Answered(r) = Answered(s) => r = s
  BY DEF Free, InFlight, Answered

\* A keyed request has a key of the table.
LEMMA KeyedHasKey == ASSUME NEW r \in Requests, Keyed(r) PROVE KeyOf[r] \in Keys
  BY KeyAssumption DEF Keyed

\* Every step of a request preserves the invariant.
LEMMA StepIInv == IInv /\ [Next]_vars => IInv'
<1> SUFFICES ASSUME IInv, [Next]_vars PROVE IInv'
  OBVIOUS
<1> USE DEF IInv, Goto
<1>0. CASE UNCHANGED vars
  BY <1>0 DEF vars, TypeOK, ClaimIsMine, LiveWriteIsClaimed, AnswerIsStored,
              StoredAnswerIsWork, Progress, Owns, Keyed
<1>1. ASSUME NEW r \in Requests, RunUnkeyed(r) PROVE IInv'
  BY <1>1, KeyedHasKey, RowKinds
     DEF RunUnkeyed, TypeOK, ClaimIsMine, LiveWriteIsClaimed, AnswerIsStored,
         StoredAnswerIsWork, Progress, Owns, Keyed
<1>2. ASSUME NEW r \in Requests, Claim(r) PROVE IInv'
  <2>1. /\ KeyOf[r] \in Keys
        /\ Keyed(r)
        /\ pc[r] = "new"
        /\ row[KeyOf[r]] = Free
    BY <1>2, KeyedHasKey DEF Claim, ClaimIsMine, Owns, TypeOK, Keyed
  <2>2. row' = [row EXCEPT ![KeyOf[r]] = InFlight(r)]
    BY <1>2, <2>1, RowKinds DEF Claim
  <2>3. TypeOK'
    BY <1>2, <2>1, <2>2, RowKinds, KeyedHasKey
       DEF Claim, TypeOK, ClaimIsMine, LiveWriteIsClaimed, AnswerIsStored, StoredAnswerIsWork, Progress, Owns, Keyed
  <2>4. ClaimIsMine'
    BY <1>2, <2>1, <2>2, RowKinds, KeyedHasKey
       DEF Claim, TypeOK, ClaimIsMine, LiveWriteIsClaimed, AnswerIsStored, StoredAnswerIsWork, Progress, Owns, Keyed
  <2>5. LiveWriteIsClaimed'
    BY <1>2, <2>1, <2>2, RowKinds, KeyedHasKey
       DEF Claim, TypeOK, ClaimIsMine, LiveWriteIsClaimed, AnswerIsStored, StoredAnswerIsWork, Progress, Owns, Keyed
  <2>6. AnswerIsStored'
    BY <1>2, <2>1, <2>2, RowKinds, KeyedHasKey
       DEF Claim, TypeOK, ClaimIsMine, LiveWriteIsClaimed, AnswerIsStored, StoredAnswerIsWork, Progress, Owns, Keyed
  <2>7. StoredAnswerIsWork'
    BY <1>2, <2>1, <2>2, RowKinds, KeyedHasKey
       DEF Claim, TypeOK, ClaimIsMine, LiveWriteIsClaimed, AnswerIsStored, StoredAnswerIsWork, Progress, Owns, Keyed
  <2>8. Progress'
    BY <1>2, <2>1, <2>2, RowKinds, KeyedHasKey
       DEF Claim, TypeOK, ClaimIsMine, LiveWriteIsClaimed, AnswerIsStored, StoredAnswerIsWork, Progress, Owns, Keyed
  <2> QED
    BY <2>3, <2>4, <2>5, <2>6, <2>7, <2>8
<1>3. ASSUME NEW r \in Requests, Collide(r) PROVE IInv'
  BY <1>3, KeyedHasKey, RowKinds
     DEF Collide, TypeOK, ClaimIsMine, LiveWriteIsClaimed, AnswerIsStored,
         StoredAnswerIsWork, Progress, Owns, Keyed
<1>4. ASSUME NEW r \in Requests, ReadExisting(r) PROVE IInv'
  <2>1. /\ KeyOf[r] \in Keys
        /\ Keyed(r)
        /\ pc[r] = "collided"
        /\ UNCHANGED <<row, effect, pushed>>
    BY <1>4, KeyedHasKey DEF ReadExisting, Progress
  <2>2. CASE row[KeyOf[r]].state = "answered"
    <3>1. PICK s \in Requests : row[KeyOf[r]] = Answered(s)
      BY <2>1, <2>2, RowKinds DEF TypeOK, Free, InFlight
    <3>2. /\ answer' = [answer EXCEPT ![r] = s]
          /\ pc' = [pc EXCEPT ![r] = "ok"]
      BY <1>4, <2>2, <3>1, RowKinds DEF ReadExisting
    <3> QED
      BY <2>1, <3>1, <3>2
         DEF TypeOK, ClaimIsMine, LiveWriteIsClaimed, AnswerIsStored,
             StoredAnswerIsWork, Progress, Owns, Keyed
  <2>3. CASE row[KeyOf[r]].state # "answered"
    <3>1. PICK label \in {"conflict", "error"} : pc' = [pc EXCEPT ![r] = label]
      BY <1>4, <2>3 DEF ReadExisting
    <3>2. UNCHANGED answer
      BY <1>4, <2>3 DEF ReadExisting
    <3> QED
      BY <2>1, <3>1, <3>2
         DEF TypeOK, ClaimIsMine, LiveWriteIsClaimed, AnswerIsStored,
             StoredAnswerIsWork, Progress, Owns, Keyed
  <2> QED
    BY <2>2, <2>3
<1>5. ASSUME NEW r \in Requests, WorkCommits(r) PROVE IInv'
  BY <1>5, KeyedHasKey, RowKinds
     DEF WorkCommits, TypeOK, ClaimIsMine, LiveWriteIsClaimed, AnswerIsStored,
         StoredAnswerIsWork, Progress, Owns, Keyed
<1>6. ASSUME NEW r \in Requests, WorkRaises(r) PROVE IInv'
  BY <1>6, KeyedHasKey, RowKinds
     DEF WorkRaises, TypeOK, ClaimIsMine, LiveWriteIsClaimed, AnswerIsStored,
         StoredAnswerIsWork, Progress, Owns, Keyed
<1>7. ASSUME NEW r \in Requests, EnqueueSucceeds(r) PROVE IInv'
  BY <1>7, KeyedHasKey, RowKinds
     DEF EnqueueSucceeds, TypeOK, ClaimIsMine, LiveWriteIsClaimed, AnswerIsStored,
         StoredAnswerIsWork, Progress, Owns, Keyed
<1>8. ASSUME NEW r \in Requests, EnqueueFails(r) PROVE IInv'
  BY <1>8, KeyedHasKey, RowKinds
     DEF EnqueueFails, TypeOK, ClaimIsMine, LiveWriteIsClaimed, AnswerIsStored,
         StoredAnswerIsWork, Progress, Owns, Keyed
<1>81. ASSUME NEW r \in Requests, AnswerIsBuilt(r) PROVE IInv'
  BY <1>81, KeyedHasKey, RowKinds
     DEF AnswerIsBuilt, TypeOK, ClaimIsMine, LiveWriteIsClaimed, AnswerIsStored,
         StoredAnswerIsWork, Progress, Owns, Keyed
<1>82. ASSUME NEW r \in Requests, AnswerRaises(r) PROVE IInv'
  BY <1>82, KeyedHasKey, RowKinds
     DEF AnswerRaises, TypeOK, ClaimIsMine, LiveWriteIsClaimed, AnswerIsStored,
         StoredAnswerIsWork, Progress, Owns, Keyed
<1>9. ASSUME NEW r \in Requests, Finish(r) PROVE IInv'
  <2>1. /\ KeyOf[r] \in Keys
        /\ Keyed(r)
        /\ pc[r] = "finish"
        /\ row[KeyOf[r]] = InFlight(r)
    BY <1>9, KeyedHasKey DEF Finish, ClaimIsMine, Owns, Progress
  <2>2. row' = [row EXCEPT ![KeyOf[r]] = Answered(r)]
    BY <1>9, <2>1, RowKinds DEF Finish
  <2>3. TypeOK'
    BY <1>9, <2>1, <2>2, RowKinds, KeyedHasKey
       DEF Finish, TypeOK, ClaimIsMine, LiveWriteIsClaimed, AnswerIsStored, StoredAnswerIsWork, Progress, Owns, Keyed
  <2>4. ClaimIsMine'
    BY <1>9, <2>1, <2>2, RowKinds, KeyedHasKey
       DEF Finish, TypeOK, ClaimIsMine, LiveWriteIsClaimed, AnswerIsStored, StoredAnswerIsWork, Progress, Owns, Keyed
  <2>5. LiveWriteIsClaimed'
    BY <1>9, <2>1, <2>2, RowKinds, KeyedHasKey
       DEF Finish, TypeOK, ClaimIsMine, LiveWriteIsClaimed, AnswerIsStored, StoredAnswerIsWork, Progress, Owns, Keyed
  <2>6. AnswerIsStored'
    BY <1>9, <2>1, <2>2, RowKinds, KeyedHasKey
       DEF Finish, TypeOK, ClaimIsMine, LiveWriteIsClaimed, AnswerIsStored, StoredAnswerIsWork, Progress, Owns, Keyed
  <2>7. StoredAnswerIsWork'
    BY <1>9, <2>1, <2>2, RowKinds, KeyedHasKey
       DEF Finish, TypeOK, ClaimIsMine, LiveWriteIsClaimed, AnswerIsStored, StoredAnswerIsWork, Progress, Owns, Keyed
  <2>8. Progress'
    BY <1>9, <2>1, <2>2, RowKinds, KeyedHasKey
       DEF Finish, TypeOK, ClaimIsMine, LiveWriteIsClaimed, AnswerIsStored, StoredAnswerIsWork, Progress, Owns, Keyed
  <2> QED
    BY <2>3, <2>4, <2>5, <2>6, <2>7, <2>8
<1>10. ASSUME NEW r \in Requests, Release(r) PROVE IInv'
  <2>1. /\ KeyOf[r] \in Keys
        /\ Keyed(r)
        /\ pc[r] = "release"
        /\ row[KeyOf[r]] = InFlight(r)
    BY <1>10, KeyedHasKey DEF Release, ClaimIsMine, Owns, Progress
  <2>2. row' = [row EXCEPT ![KeyOf[r]] = Free]
    BY <1>10, <2>1, RowKinds DEF Release
  <2>3. TypeOK'
    BY <1>10, <2>1, <2>2, RowKinds, KeyedHasKey
       DEF Release, TypeOK, ClaimIsMine, LiveWriteIsClaimed, AnswerIsStored, StoredAnswerIsWork, Progress, Owns, Keyed
  <2>4. ClaimIsMine'
    BY <1>10, <2>1, <2>2, RowKinds, KeyedHasKey
       DEF Release, TypeOK, ClaimIsMine, LiveWriteIsClaimed, AnswerIsStored, StoredAnswerIsWork, Progress, Owns, Keyed
  <2>5. LiveWriteIsClaimed'
    BY <1>10, <2>1, <2>2, RowKinds, KeyedHasKey
       DEF Release, TypeOK, ClaimIsMine, LiveWriteIsClaimed, AnswerIsStored, StoredAnswerIsWork, Progress, Owns, Keyed
  <2>6. AnswerIsStored'
    BY <1>10, <2>1, <2>2, RowKinds, KeyedHasKey
       DEF Release, TypeOK, ClaimIsMine, LiveWriteIsClaimed, AnswerIsStored, StoredAnswerIsWork, Progress, Owns, Keyed
  <2>7. StoredAnswerIsWork'
    BY <1>10, <2>1, <2>2, RowKinds, KeyedHasKey
       DEF Release, TypeOK, ClaimIsMine, LiveWriteIsClaimed, AnswerIsStored, StoredAnswerIsWork, Progress, Owns, Keyed
  <2>8. Progress'
    BY <1>10, <2>1, <2>2, RowKinds, KeyedHasKey
       DEF Release, TypeOK, ClaimIsMine, LiveWriteIsClaimed, AnswerIsStored, StoredAnswerIsWork, Progress, Owns, Keyed
  <2> QED
    BY <2>3, <2>4, <2>5, <2>6, <2>7, <2>8
<1>11. ASSUME NEW r \in Requests, Crash(r) PROVE IInv'
  BY <1>11, KeyedHasKey, RowKinds
     DEF Crash, TypeOK, ClaimIsMine, LiveWriteIsClaimed, AnswerIsStored,
         StoredAnswerIsWork, Progress, Owns, Keyed
<1> QED
  BY <1>0, <1>1, <1>2, <1>3, <1>4, <1>5, <1>6, <1>7, <1>8, <1>81, <1>82, <1>9, <1>10, <1>11
     DEF Next, Serve

-----------------------------------------------------------------------------
(* The theorems                                                            *)

\* However many requests share keys, and wherever each of them dies, the table
\* of keys, the commits and the jobs in Redis stay related as IInv says.
THEOREM Invariance == Spec => []IInv
<1>1. Init => IInv
  BY InitIInv
<1>2. IInv /\ [Next]_vars => IInv'
  BY StepIInv
<1> QED
  BY <1>1, <1>2, PTL DEF Spec

\* The rows are well formed, and only a committed upload is ever in Redis
\* (the hand-over follows the commit in api/deps.py).
THEOREM TypeCorrect == Spec => []TypeOK
<1>1. IInv => TypeOK
  BY DEF IInv
<1> QED
  BY <1>1, Invariance, PTL

\* The claim in the table is that of the request that is doing the work.
THEOREM ClaimsAreKept == Spec => []ClaimIsMine
<1>1. IInv => ClaimIsMine
  BY DEF IInv
<1> QED
  BY <1>1, Invariance, PTL

\* Of the requests that carry one key, one at most is doing the work: a claim
\* names a single request, and each of the two would have to be its own.
THEOREM Exclusion == Spec => []OneWorker
<1>1. IInv => OneWorker
  <2> SUFFICES ASSUME IInv,
                      NEW r \in Requests, NEW s \in Requests,
                      SameKey(r, s), Owns(r), Owns(s)
               PROVE  r = s
    BY DEF OneWorker
  <2>1. row[KeyOf[r]] = InFlight(r) /\ row[KeyOf[s]] = InFlight(s)
    BY DEF IInv, ClaimIsMine
  <2> QED
    BY <2>1, RowKinds DEF SameKey
<1> QED
  BY <1>1, Invariance, PTL

\* Every 2xx answer under a key describes the one write the table stores, a
\* write whose job the worker was given.
THEOREM OneAnswerPerKey == Spec => []OneAnswer
<1>1. IInv => OneAnswer
  <2> SUFFICES ASSUME IInv,
                      NEW r \in Requests, NEW s \in Requests,
                      SameKey(r, s), pc[r] = "ok", pc[s] = "ok"
               PROVE  /\ answer[r] = answer[s]
                      /\ effect[answer[r]] = "queued"
                      /\ answer[r] \in pushed
    BY DEF OneAnswer
  <2>1. Keyed(r) /\ Keyed(s) /\ KeyOf[r] = KeyOf[s] /\ KeyOf[r] \in Keys
    BY KeyedHasKey DEF SameKey, Keyed
  <2>2. /\ answer[r] \in Requests
        /\ row[KeyOf[r]] = Answered(answer[r])
        /\ answer[s] \in Requests
        /\ row[KeyOf[r]] = Answered(answer[s])
    BY <2>1 DEF IInv, AnswerIsStored
  <2>3. answer[r] = answer[s]
    BY <2>2, RowKinds
  <2>4. row[KeyOf[r]].state = "answered" /\ row[KeyOf[r]].by = answer[r]
    BY <2>2, RowKinds
  <2> QED
    BY <2>1, <2>3, <2>4 DEF IInv, StoredAnswerIsWork
<1> QED
  BY <1>1, Invariance, PTL

\* One at most of the piles written under a key still waits for the worker: a
\* waiting write keeps its key, as a claim or as the stored answer. The writes
\* that gave their key up are those whose request raised after start_job had
\* handed the job over, and no others (scans.py:112-117).
THEOREM OneWaitingWrite == Spec => []OneLiveWrite
<1>1. IInv => OneLiveWrite
  <2> SUFFICES ASSUME IInv,
                      NEW r \in Requests, NEW s \in Requests,
                      SameKey(r, s), effect[r] = "queued", effect[s] = "queued",
                      ~Disowned(r), ~Disowned(s)
               PROVE  r = s
    BY DEF OneLiveWrite
  <2>0. pc[r] # "error" /\ pc[s] # "error"
    BY DEF IInv, Progress, Disowned
  <2>1. /\ row[KeyOf[r]] \in {InFlight(r), Answered(r)}
        /\ row[KeyOf[r]] \in {InFlight(s), Answered(s)}
    BY <2>0 DEF IInv, LiveWriteIsClaimed, SameKey, Keyed
  <2> QED
    BY <2>1, RowKinds
<1> QED
  BY <1>1, Invariance, PTL

\* No step replaces or deletes a stored answer: a claim takes a free row only,
\* and whoever finishes or releases holds the claim, which is not answered.
LEMMA AnswerStep ==
    ASSUME IInv, [Next]_vars, NEW k \in Keys, row[k].state = "answered"
    PROVE  row'[k] = row[k]
<1>1. ASSUME NEW r \in Requests, Owns(r) PROVE KeyOf[r] # k
  BY <1>1, RowKinds DEF IInv, ClaimIsMine
<1>2. ASSUME NEW r \in Requests, Claim(r) PROVE row'[k] = row[k]
  BY <1>2, RowKinds DEF Claim
<1>3. ASSUME NEW r \in Requests, Finish(r) \/ Release(r) PROVE row'[k] = row[k]
  <2>1. Owns(r)
    BY <1>3 DEF Finish, Release, Owns, IInv, Progress
  <2> QED
    BY <1>1, <1>3, <2>1 DEF Finish, Release, IInv, TypeOK
<1>4. CASE UNCHANGED row
  BY <1>4
<1> QED
  BY <1>2, <1>3, <1>4
     DEF Next, Serve, vars, RunUnkeyed, Collide, ReadExisting, WorkCommits,
         WorkRaises, EnqueueSucceeds, EnqueueFails, AnswerIsBuilt,
         AnswerRaises, Crash

\* A replay long after the first answer is still told of the same work.
THEOREM AnswersAreKept == Spec => AnswerKept
<1>1. IInv /\ [Next]_vars
         => [\A k \in Keys : row[k].state = "answered" => row'[k] = row[k]]_vars
  BY AnswerStep
<1> QED
  BY <1>1, Invariance, PTL DEF Spec, AnswerKept
=============================================================================
