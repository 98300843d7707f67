--------------------------- MODULE BatchJobClaim ---------------------------
(***************************************************************************)
(* How the nodes of the ingest back end share out the batch jobs of one    *)
(* tenant.  Jobs are documents of a store that checks ETags; every node    *)
(* runs a pool of workers (ChunkJobProcessor) that claim jobs under a      *)
(* lease (BatchJobAdapter.TryClaimMultipleJobsAsync behind JobClaimService *)
(* .ClaimMultipleJobsAsync), move each claimed job to Processing, run it   *)
(* and mark it Complete or Failed (JobClaimService), while an operator may *)
(* put a job back to Pending (IngestService.ReprocessBatchJob) and nodes   *)
(* crash.  What one run does line by line is module BatchJobRun; here a    *)
(* run is the sequence of writes it makes to its own job document.         *)
(***************************************************************************)
EXTENDS Integers, FiniteSets

CONSTANTS
  Node,          \* node ids (WEBSITE_INSTANCE_ID, replica name, machine name)
  NoNode,        \* a null ClaimedBy
  Worker,        \* the ProcessJobsWorkerAsync loops of all the nodes
  NoWorker,      \* nobody holds a node's _claimLock
  NodeOf,        \* the node a worker runs on
  NumJobs,       \* jobs are numbered in the order of their CreateDate
  ParentJobs,    \* jobs whose file was chunked: RunJobAsync returns at once
  PlainJobs,     \* jobs whose file fits in one chunk; the others are chunks
  TargetCount,   \* jobs a worker claims at a time (5 in the code)
  Slots,         \* size of a node's _concurrencyLimiter
  ClaimTimeout,  \* length of a claim lease (60 s in the code)
  MaxTime,       \* bound: the clock stops here
  MaxSaves,      \* bound: progress writes of one run
  MaxCrashes,    \* bound: crashes of nodes
  MaxLost,       \* bound: store calls that fail or whose reply is lost
  MaxResets      \* bound: times the operator resets one job

ASSUME ClaimAssumption ==
  /\ NoNode \notin Node
  /\ NoWorker \notin Worker
  /\ IsFiniteSet(Worker)
  /\ NodeOf \in [Worker -> Node]
  /\ NumJobs \in Nat
  /\ ParentJobs \subseteq 1 .. NumJobs
  /\ PlainJobs \subseteq (1 .. NumJobs) \ ParentJobs
  /\ TargetCount \in Nat \ {0}
  /\ Slots \in Nat \ {0}
  /\ ClaimTimeout \in Nat
  /\ MaxTime \in Nat
  /\ MaxSaves \in Nat
  /\ MaxCrashes \in Nat
  /\ MaxLost \in Nat
  /\ MaxResets \in Nat

VARIABLES
  store,    \* the job documents
  now,      \* the clock the nodes share
  up,       \* which nodes run
  lock,     \* per node, the worker that holds _claimLock
  claim,    \* per worker, its pass through TryClaimMultipleJobsAsync
  task,     \* per worker and job, its ProcessChunkJobAsync call
  admin,    \* the operator's ReprocessBatchJob call
  resets,   \* how often the operator's write put each job back to Pending
  crashes,  \* crashes so far
  lost      \* failed or unanswered store calls so far

vars == <<store, now, up, lock, claim, task, admin, resets, crashes, lost>>

Job == 1 .. NumJobs

Status == {"Pending", "Claiming", "Processing", "Complete", "Failed"}

Doc == [status: Status, claimedBy: Node \cup {NoNode}, exp: Nat, etag: Nat]

\* A null ETag: the store then writes without comparing.
NoETag == 0

NewDoc == [status |-> "Pending", claimedBy |-> NoNode, exp |-> 0, etag |-> 1]

IdleTask == [pc |-> "none", copy |-> NewDoc, saves |-> 0]

\* Mutated: a waiting task already counts as holding a slot.
InSlotEarly == {"wait", "start", "starting", "run", "complete", "fail", "finishing"}

\* A task of a worker occupies a slot of _concurrencyLimiter in these places.
InSlot == {"start", "starting", "run", "complete", "fail", "finishing"}

\* A task has moved its job to Processing and has not finished with it.
Running == {"run", "complete", "fail", "finishing"}

IdleClaim == [pc |-> "idle", cands |-> {}, now |-> 0, job |-> 0,
              copy |-> NewDoc, got |-> {}]

TaskPC == {"none", "wait"} \cup InSlot

ClaimState == [pc: {"idle", "fetch", "write", "tasks"}, cands: SUBSET Job,
               now: Nat, job: Job \cup {0}, copy: Doc, got: SUBSET Job]

TaskState == [pc: TaskPC, copy: Doc, saves: Nat]

AdminState == [pc: {"idle", "reset", "again"}, job: Job \cup {0}, copy: Doc]

TypeOK ==
  /\ store \in [Job -> Doc]
  /\ now \in Nat
  /\ up \in [Node -> BOOLEAN]
  /\ lock \in [Node -> Worker \cup {NoWorker}]
  /\ claim \in [Worker -> ClaimState]
  /\ task \in [Worker -> [Job -> TaskState]]
  /\ admin \in AdminState
  /\ resets \in [Job -> Nat]
  /\ crashes \in Nat
  /\ lost \in Nat

Init ==
  /\ store = [j \in Job |-> NewDoc]
  /\ now = 0
  /\ up = [n \in Node |-> TRUE]
  /\ lock = [n \in Node |-> NoWorker]
  /\ claim = [w \in Worker |-> IdleClaim]
  /\ task = [w \in Worker |-> [j \in Job |-> IdleTask]]
  /\ admin = [pc |-> "idle", job |-> 0, copy |-> NewDoc]
  /\ resets = [j \in Job |-> 0]
  /\ crashes = 0
  /\ lost = 0

-----------------------------------------------------------------------------
(* The store.                                                              *)

\* The store takes a document whose ETag is null or the stored one ...
Accepts(j, doc) == doc.etag \in {NoETag, store[j].etag}

\* ... and gives the stored document a new ETag.
Stored(j, doc) == [doc EXCEPT !.etag = store[j].etag + 1]

Put(j, doc) == store' = [store EXCEPT ![j] = Stored(j, doc)]

\* An upsert: the document is written, or refused with 412 and left alone.
Upsert(j, doc) == IF Accepts(j, doc) THEN Put(j, doc) ELSE UNCHANGED store

-----------------------------------------------------------------------------
(* Claiming.                                                               *)

\* Mutated: a node no longer recognises the claims it made itself.
UnclaimedCandidate(n, j) ==
  /\ \/ store[j].status = "Pending"
     \/ store[j].status = "Claiming" /\ store[j].exp < now
  /\ store[j].claimedBy = NoNode

\* The candidate query of TryClaimMultipleJobsAsync.
Candidate(n, j) ==
  /\ \/ store[j].status = "Pending"
     \/ store[j].status = "Claiming" /\ store[j].exp < now
  /\ store[j].claimedBy \in {NoNode, n}

\* Mutated: the second look forgets the lease, or the status.
ClaimableWhileLeased(doc, t) == doc.status \in {"Pending", "Claiming"}

ClaimableWhenExpired(doc, t) == doc.status = "Pending" \/ doc.exp < t

\* The second look at the freshly fetched document, with the clock value
\* read at the start of the pass.
Claimable(doc, t) ==
  \/ doc.status = "Pending"
  \/ doc.status = "Claiming" /\ doc.exp < t

ClaimQuery(w) ==
  LET n == NodeOf[w]
      cs == {j \in Job : Candidate(n, j)}
  IN /\ up[n]
     /\ claim[w].pc = "idle"
     /\ lock[n] = NoWorker
     /\ cs # {}
     /\ lock' = [lock EXCEPT ![n] = w]
     /\ claim' = [claim EXCEPT ![w].pc = "fetch", ![w].cands = cs, ![w].now = now]
     /\ UNCHANGED <<store, now, up, task, admin, resets, crashes, lost>>

\* The oldest candidate not yet looked at.
NextCandidate(w, j) ==
  /\ Cardinality(claim[w].got) < TargetCount
  /\ j \in claim[w].cands
  /\ \A k \in claim[w].cands : j <= k

\* Mutated: the timeout is taken off the clock.
ClaimedBackwards(w, doc) ==
  [doc EXCEPT !.status = "Claiming", !.claimedBy = NodeOf[w],
              !.exp = claim[w].now - ClaimTimeout]

\* Mutated: the claim is written without an ETag.
ClaimedUnchecked(w, doc) ==
  [doc EXCEPT !.status = "Claiming", !.claimedBy = NodeOf[w],
              !.exp = claim[w].now + ClaimTimeout, !.etag = NoETag]

Claimed(w, doc) ==
  [doc EXCEPT !.status = "Claiming", !.claimedBy = NodeOf[w],
              !.exp = claim[w].now + ClaimTimeout]

ClaimFetch(w) ==
  \E j \in Job :
    /\ claim[w].pc = "fetch"
    /\ NextCandidate(w, j)
    /\ claim' = IF Claimable(store[j], claim[w].now)
                THEN [claim EXCEPT ![w].pc = "write", ![w].job = j,
                                   ![w].copy = Claimed(w, store[j])]
                ELSE [claim EXCEPT ![w].cands = @ \ {j}]
    /\ UNCHANGED <<store, now, up, lock, task, admin, resets, crashes, lost>>

ClaimWrite(w) ==
  LET j == claim[w].job
      ok == Accepts(j, claim[w].copy)
  IN /\ claim[w].pc = "write"
     /\ Upsert(j, claim[w].copy)
     /\ claim' = [claim EXCEPT ![w].pc = "fetch", ![w].cands = @ \ {j},
                               ![w].got = IF ok THEN @ \cup {j} ELSE @]
     /\ UNCHANGED <<now, up, lock, task, admin, resets, crashes, lost>>

\* A fetch or a write of the pass fails, or its reply is lost: the catch
\* block goes on with the next candidate.
ClaimError(w) ==
  /\ lost < MaxLost
  /\ lost' = lost + 1
  /\ \/ \E j \in Job :
          /\ claim[w].pc = "fetch"
          /\ NextCandidate(w, j)
          /\ claim' = [claim EXCEPT ![w].cands = @ \ {j}]
          /\ UNCHANGED store
     \/ /\ claim[w].pc = "write"
        /\ \/ Upsert(claim[w].job, claim[w].copy)
           \/ UNCHANGED store
        /\ claim' = [claim EXCEPT ![w].pc = "fetch",
                                  ![w].cands = @ \ {claim[w].job}]
  /\ UNCHANGED <<now, up, lock, task, admin, resets, crashes>>

\* The pass is over: the lock is released and every claimed job gets a task.
ClaimEnd(w) ==
  LET got == claim[w].got
  IN /\ claim[w].pc = "fetch"
     /\ claim[w].cands = {} \/ Cardinality(got) >= TargetCount
     /\ lock' = [lock EXCEPT ![NodeOf[w]] = NoWorker]
     /\ claim' = [claim EXCEPT ![w] =
                    [IdleClaim EXCEPT !.pc = IF got = {} THEN "idle" ELSE "tasks"]]
     /\ task' = [task EXCEPT ![w] =
                   [j \in Job |-> IF j \in got THEN [IdleTask EXCEPT !.pc = "wait"]
                                               ELSE @[j]]]
     /\ UNCHANGED <<store, now, up, admin, resets, crashes, lost>>

\* Task.WhenAll over the tasks of the pass has returned.
TasksDone(w) ==
  /\ claim[w].pc = "tasks"
  /\ \A j \in Job : task[w][j].pc = "none"
  /\ claim' = [claim EXCEPT ![w].pc = "idle"]
  /\ UNCHANGED <<store, now, up, lock, task, admin, resets, crashes, lost>>

-----------------------------------------------------------------------------
(* ProcessChunkJobAsync: one claimed job.                                  *)

SlotsUsed(n) ==
  {x \in Worker \X Job : NodeOf[x[1]] = n /\ task[x[1]][x[2]].pc \in InSlot}

AcquireSlot(w, j) ==
  /\ task[w][j].pc = "wait"
  /\ Cardinality(SlotsUsed(NodeOf[w])) < Slots
  /\ task' = [task EXCEPT ![w][j].pc = "start"]
  /\ UNCHANGED <<store, now, up, lock, claim, admin, resets, crashes, lost>>

\* Mutated: whose claim it is is not checked.
StartableByAnyone(n, doc) == doc.status \in {"Claiming", "Pending"}

\* What ProcessJobAsync checks of the document it fetched.
Startable(n, doc) ==
  /\ doc.claimedBy = n
  /\ doc.status \in {"Claiming", "Pending"}

\* JobClaimService.ProcessJobAsync up to its upsert.
StartFetch(w, j) ==
  LET doc == store[j]
  IN /\ task[w][j].pc = "start"
     /\ task' = IF Startable(NodeOf[w], doc)
                THEN [task EXCEPT ![w][j].pc = "starting",
                                  ![w][j].copy = [doc EXCEPT !.status = "Processing"]]
                ELSE [task EXCEPT ![w][j] = IdleTask]
     /\ UNCHANGED <<store, now, up, lock, claim, admin, resets, crashes, lost>>

\* Its upsert; the run works on the document the store returned.
StartWrite(w, j) ==
  LET copy == task[w][j].copy
  IN /\ task[w][j].pc = "starting"
     /\ Upsert(j, copy)
     /\ task' = IF Accepts(j, copy)
                THEN [task EXCEPT ![w][j].pc = "run", ![w][j].copy = Stored(j, copy)]
                ELSE [task EXCEPT ![w][j] = IdleTask]
     /\ UNCHANGED <<now, up, lock, claim, admin, resets, crashes, lost>>

\* ProcessJobAsync swallows a failed or unanswered call and returns null.
StartError(w, j) ==
  /\ task[w][j].pc \in {"start", "starting"}
  /\ lost < MaxLost
  /\ lost' = lost + 1
  /\ \/ UNCHANGED store
     \/ task[w][j].pc = "starting" /\ Upsert(j, task[w][j].copy)
  /\ task' = [task EXCEPT ![w][j] = IdleTask]
  /\ UNCHANGED <<now, up, lock, claim, admin, resets, crashes>>

\* The run saves its progress with the ETag it was started with, which it
\* never refreshes; a conflict ends the run (BatchJobService).
SaveProgress(w, j) ==
  LET copy == task[w][j].copy
  IN /\ task[w][j].pc = "run"
     /\ j \notin ParentJobs
     /\ task[w][j].saves < MaxSaves
     /\ Upsert(j, copy)
     /\ task' = [task EXCEPT ![w][j].pc = IF Accepts(j, copy) THEN "run" ELSE "fail",
                             ![w][j].saves = @ + 1]
     /\ UNCHANGED <<now, up, lock, claim, admin, resets, crashes, lost>>

\* Every WriteFrequency result lines the run drops its ETag and writes the
\* whole document unconditionally (IngestService.RunAsync).
SaveUnconditionally(w, j) ==
  LET copy == [task[w][j].copy EXCEPT !.etag = NoETag]
  IN /\ task[w][j].pc = "run"
     /\ j \notin ParentJobs
     /\ task[w][j].saves < MaxSaves
     /\ Put(j, copy)
     /\ task' = [task EXCEPT ![w][j].copy = copy, ![w][j].saves = @ + 1]
     /\ UNCHANGED <<now, up, lock, claim, admin, resets, crashes, lost>>

\* When the file of a plain job is read to its end the reader already marks
\* the document Complete (ReadGroupAsync); the run's last writes follow.
ReadToEnd(w, j) ==
  LET copy == [task[w][j].copy EXCEPT !.status = "Complete"]
  IN /\ task[w][j].pc = "run"
     /\ j \in PlainJobs
     /\ task[w][j].copy.status = "Processing"
     /\ Upsert(j, copy)
     /\ task' = [task EXCEPT ![w][j].pc = IF Accepts(j, copy) THEN "run" ELSE "fail",
                             ![w][j].copy = copy]
     /\ UNCHANGED <<now, up, lock, claim, admin, resets, crashes, lost>>

\* The last write of RunAsync marks the document Complete.
RunEnds(w, j) ==
  LET copy == [task[w][j].copy EXCEPT !.status = "Complete"]
  IN /\ task[w][j].pc = "run"
     /\ j \notin ParentJobs
     /\ j \in PlainJobs => task[w][j].copy.status = "Complete"
     /\ Upsert(j, copy)
     /\ task' = [task EXCEPT ![w][j].pc = IF Accepts(j, copy) THEN "complete" ELSE "fail",
                             ![w][j].copy = copy]
     /\ UNCHANGED <<now, up, lock, claim, admin, resets, crashes, lost>>

\* RunJobAsync returns at once for a job whose file was chunked.
RunReturns(w, j) ==
  /\ task[w][j].pc = "run"
  /\ j \in ParentJobs
  /\ task' = [task EXCEPT ![w][j].pc = "complete"]
  /\ UNCHANGED <<store, now, up, lock, claim, admin, resets, crashes, lost>>

\* Anything RunJobAsync does throws: reading the file, or a write whose reply
\* is lost although the store made it.
RunError(w, j) ==
  /\ task[w][j].pc = "run"
  /\ lost < MaxLost
  /\ lost' = lost + 1
  /\ \/ UNCHANGED store
     \/ \E s \in {task[w][j].copy.status, "Complete"} :
          /\ j \notin ParentJobs
          /\ Upsert(j, [task[w][j].copy EXCEPT !.status = s])
  /\ task' = [task EXCEPT ![w][j].pc = "fail"]
  /\ UNCHANGED <<now, up, lock, claim, admin, resets, crashes>>

\* CompleteJobAsync and FailJobAsync: fetch, compare ClaimedBy only ...
FinishFetch(w, j) ==
  LET doc == store[j]
      outcome == IF task[w][j].pc = "complete" THEN "Complete" ELSE "Failed"
  IN /\ task[w][j].pc \in {"complete", "fail"}
     /\ task' = IF doc.claimedBy = NodeOf[w]
                THEN [task EXCEPT ![w][j].pc = "finishing",
                                  ![w][j].copy = [doc EXCEPT !.status = outcome,
                                                             !.claimedBy = NoNode]]
                ELSE [task EXCEPT ![w][j] = IdleTask]
     /\ UNCHANGED <<store, now, up, lock, claim, admin, resets, crashes, lost>>

\* ... and write.  Refused or not, the task is over and frees its slot.
FinishWrite(w, j) ==
  /\ task[w][j].pc = "finishing"
  /\ Upsert(j, task[w][j].copy)
  /\ task' = [task EXCEPT ![w][j] = IdleTask]
  /\ UNCHANGED <<now, up, lock, claim, admin, resets, crashes, lost>>

FinishError(w, j) ==
  /\ task[w][j].pc \in {"complete", "fail", "finishing"}
  /\ lost < MaxLost
  /\ lost' = lost + 1
  /\ task' = [task EXCEPT ![w][j] = IdleTask]
  /\ UNCHANGED <<store, now, up, lock, claim, admin, resets, crashes>>

-----------------------------------------------------------------------------
(* The operator, the clock and the crashes.                                *)

\* ReprocessBatchJob fetches the job, whatever its status ...
ResetFetch(j) ==
  /\ admin.pc = "idle"
  /\ resets[j] < MaxResets
  /\ admin' = [pc |-> "reset", job |-> j,
               copy |-> [store[j] EXCEPT !.status = "Pending", !.claimedBy = NoNode]]
  /\ UNCHANGED <<store, now, up, lock, claim, task, resets, crashes, lost>>

\* ... writes it back unclaimed (MarkBatchJobUnclaimedAsync) ...
ResetWrite ==
  LET j == admin.job
      ok == Accepts(j, admin.copy)
  IN /\ admin.pc = "reset"
     /\ Upsert(j, admin.copy)
     /\ resets' = IF ok THEN [resets EXCEPT ![j] = @ + 1] ELSE resets
     /\ admin' = IF ok THEN [admin EXCEPT !.pc = "again", !.copy = Stored(j, @)]
                       ELSE [admin EXCEPT !.pc = "idle"]
     /\ UNCHANGED <<now, up, lock, claim, task, crashes, lost>>

\* ... and writes the returned document once more as Pending.
ResetAgain ==
  /\ admin.pc = "again"
  /\ Upsert(admin.job, admin.copy)
  /\ admin' = [admin EXCEPT !.pc = "idle"]
  /\ UNCHANGED <<now, up, lock, claim, task, resets, crashes, lost>>

Tick ==
  /\ now < MaxTime
  /\ now' = now + 1
  /\ UNCHANGED <<store, up, lock, claim, task, admin, resets, crashes, lost>>

\* A node dies with everything its workers hold in memory.  The bound on the
\* clock leaves every lease in the store time to expire.
Crash(n) ==
  /\ up[n]
  /\ crashes < MaxCrashes
  /\ now + ClaimTimeout < MaxTime
  /\ crashes' = crashes + 1
  /\ up' = [up EXCEPT ![n] = FALSE]
  /\ lock' = [lock EXCEPT ![n] = NoWorker]
  /\ claim' = [w \in Worker |-> IF NodeOf[w] = n THEN IdleClaim ELSE claim[w]]
  /\ task' = [w \in Worker |-> IF NodeOf[w] = n THEN [j \in Job |-> IdleTask]
                                                ELSE task[w]]
  /\ UNCHANGED <<store, now, admin, resets, lost>>

\* It comes back under the same id (machine name, instance id).
Restart(n) ==
  /\ ~up[n]
  /\ up' = [up EXCEPT ![n] = TRUE]
  /\ UNCHANGED <<store, now, lock, claim, task, admin, resets, crashes, lost>>

-----------------------------------------------------------------------------

ClaimStep(w) ==
  ClaimQuery(w) \/ ClaimFetch(w) \/ ClaimWrite(w) \/ ClaimEnd(w) \/ TasksDone(w)

TaskStep(w, j) ==
  \/ AcquireSlot(w, j) \/ StartFetch(w, j) \/ StartWrite(w, j)
  \/ SaveProgress(w, j) \/ SaveUnconditionally(w, j)
  \/ ReadToEnd(w, j) \/ RunEnds(w, j) \/ RunReturns(w, j)
  \/ FinishFetch(w, j) \/ FinishWrite(w, j)

Errors ==
  \E w \in Worker :
    \/ ClaimError(w)
    \/ \E j \in Job : StartError(w, j) \/ RunError(w, j) \/ FinishError(w, j)

Operator == (\E j \in Job : ResetFetch(j)) \/ ResetWrite \/ ResetAgain

Next ==
  \/ \E w \in Worker : ClaimStep(w) \/ \E j \in Job : TaskStep(w, j)
  \/ Errors
  \/ Operator
  \/ Tick
  \/ \E n \in Node : Crash(n) \/ Restart(n)

Spec == Init /\ [][Next]_vars

(***************************************************************************)
(* Fairness: the worker loops and the awaited store calls go on, and the   *)
(* clock runs.  A run always ends: its last write is attempted.  A node    *)
(* that waits for its _claimLock or for a slot gets it in the end, because *)
(* SemaphoreSlim queues its waiters (strong fairness).  Crashes, errors    *)
(* and the operator are under no obligation.                               *)
(***************************************************************************)
Fairness ==
  /\ WF_vars(Tick)
  /\ \A w \in Worker :
       /\ SF_vars(ClaimQuery(w))
       /\ WF_vars(ClaimFetch(w) \/ ClaimWrite(w) \/ ClaimEnd(w) \/ TasksDone(w))
       /\ \A j \in Job :
            /\ SF_vars(AcquireSlot(w, j))
            /\ WF_vars(TaskStep(w, j))

FairSpec == Spec /\ Fairness

\* Also the platform restarts a crashed node under its old id.
RestartSpec == FairSpec /\ \A n \in Node : WF_vars(Restart(n))

-----------------------------------------------------------------------------
(* Properties.                                                             *)

Runners(j) == {w \in Worker : task[w][j].pc \in Running}

(***************************************************************************)
(* A job is run by at most one worker of all the nodes, and by one more    *)
(* for every time the operator put it back to Pending, however leases      *)
(* expire, claims are taken over and calls fail: every start uses up one   *)
(* opening of the job, because ClaimWrite and StartWrite are ETag-checked. *)
(***************************************************************************)
RunnersBounded ==
  \A j \in Job : Cardinality(Runners(j)) <= 1 + resets[j]

(***************************************************************************)
(* The document of a job nobody reset agrees with the worker that runs it: *)
(* it is not up for a claim, and while it says Processing it names the     *)
(* runner's node, so that CompleteJobAsync finds its own claim.            *)
(***************************************************************************)
RunnerOwnsJob ==
  \A j \in Job : \A w \in Runners(j) : resets[j] = 0 =>
    /\ store[j].status \in {"Processing", "Complete", "Failed"}
    /\ store[j].status = "Processing" => store[j].claimedBy = NodeOf[w]

(***************************************************************************)
(* A claim changes hands between nodes only after its lease ran out, and   *)
(* never once the claimant started the job.                                *)
(***************************************************************************)
TakeoverOnlyExpired ==
  [][\A j \in Job :
       LET a == store[j].claimedBy
           b == store'[j].claimedBy
       IN (a # NoNode /\ b # NoNode /\ a # b /\ resets[j] = 0) =>
            store[j].status = "Claiming" /\ store[j].exp < now]_vars

(***************************************************************************)
(* Without a reset no write ever takes a job back in its life cycle: the   *)
(* full-document and unconditional writes of a run never overwrite a later *)
(* state with an earlier one.                                              *)
(***************************************************************************)
Stage(s) ==
  CASE s = "Pending" -> 0 [] s = "Claiming" -> 1 [] s = "Processing" -> 2
    [] s = "Complete" -> 3 [] s = "Failed" -> 4

LifecycleForward ==
  [][\A j \in Job : resets'[j] = 0 =>
       Stage(store[j].status) <= Stage(store'[j].status)]_vars

(***************************************************************************)
(* Without resets the protocol implements JobQueue: the stored Status and  *)
(* ClaimedBy alone tell who runs a job, and no job is started twice.       *)
(***************************************************************************)
Phase(doc) ==
  IF doc.status \in {"Pending", "Claiming"} THEN "open"
  ELSE IF doc.status = "Processing" THEN "running" ELSE "done"

Queue == INSTANCE JobQueue WITH
  Nobody <- NoNode,
  phase <- [j \in Job |-> Phase(store[j])],
  runner <- [j \in Job |-> IF store[j].status = "Processing"
                           THEN store[j].claimedBy ELSE NoNode]

ImplementsJobQueue == Queue!Spec

(***************************************************************************)
(* Jobs are never stranded while nodes and calls do not fail: every job    *)
(* ends Complete or Failed and stays so, also when an operator put it back *)
(* to Pending.                                                             *)
(***************************************************************************)
EveryJobFinishes ==
  [](crashes + lost = 0) =>
    <>[](\A j \in Job : store[j].status \in {"Complete", "Failed"})

(***************************************************************************)
(* A claim left behind by a crash is not lost when the node comes back     *)
(* under its old id: the node claims the job again after the lease.        *)
(***************************************************************************)
NoClaimStuck ==
  \A j \in Job : store[j].status = "Claiming" ~> store[j].status # "Claiming"

=============================================================================
