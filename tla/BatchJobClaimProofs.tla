------------------------ MODULE BatchJobClaimProofs ------------------------
(***************************************************************************)
(* What TLAPS proves of BatchJobClaim for every set of nodes and workers,  *)
(* every number of jobs and every bound.                                   *)
(***************************************************************************)
EXTENDS BatchJobClaim, FiniteSetTheorems, TLAPS

-----------------------------------------------------------------------------
(* Types.                                                                  *)

\* The new document the store keeps is a document.
LEMMA StoredIsDoc ==
  ASSUME store \in [Job -> Doc], NEW j \in Job, NEW doc \in Doc
  PROVE  Stored(j, doc) \in Doc
BY DEF Stored, Doc, Status

\* An upsert, accepted or refused, leaves documents in the store.
LEMMA UpsertType ==
  ASSUME store \in [Job -> Doc], NEW j \in Job, NEW doc \in Doc, Upsert(j, doc)
  PROVE  store' \in [Job -> Doc]
<1>1. Stored(j, doc) \in Doc
  BY StoredIsDoc
<1>2. CASE Accepts(j, doc)
  BY <1>1, <1>2 DEF Upsert, Put
<1>3. CASE ~Accepts(j, doc)
  BY <1>3 DEF Upsert
<1> QED BY <1>2, <1>3

\* The copy of a changed status, holder, lease or ETag is a document.
LEMMA DocUpdate ==
  ASSUME NEW doc \in Doc
  PROVE  /\ \A s \in Status : [doc EXCEPT !.status = s] \in Doc
         /\ \A s \in Status, n \in Node \cup {NoNode} :
              [doc EXCEPT !.status = s, !.claimedBy = n] \in Doc
         /\ \A s \in Status, n \in Node \cup {NoNode}, e \in Nat :
              [doc EXCEPT !.status = s, !.claimedBy = n, !.exp = e] \in Doc
         /\ [doc EXCEPT !.etag = NoETag] \in Doc
BY DEF Doc, NoETag

\* A write in flight is about a job.
InFlight ==
  /\ \A w \in Worker : claim[w].pc = "write" => claim[w].job \in Job
  /\ admin.pc # "idle" => admin.job \in Job

TypeInv == TypeOK /\ InFlight

LEMMA ZeroIsNoJob == 0 \notin Job /\ Job \subseteq Nat
BY ClaimAssumption DEF Job

LEMMA InitTypes == Init => TypeInv
BY ClaimAssumption DEF Init, TypeInv, TypeOK, InFlight, NewDoc, Doc, Status,
     IdleClaim, IdleTask, TaskPC, InSlot, ClaimState, TaskState, AdminState

\* A worker's step through its claim pass keeps the types if the new local
\* state is well formed ...
LEMMA ClaimChange ==
  ASSUME TypeInv, NEW w \in Worker, NEW r \in ClaimState,
         claim' = [claim EXCEPT ![w] = r], r.pc = "write" => r.job \in Job
  PROVE  /\ claim' \in [Worker -> ClaimState]
         /\ \A v \in Worker : claim'[v].pc = "write" => claim'[v].job \in Job
BY DEF TypeInv, TypeOK, InFlight

\* ... and so does a step of a task.
LEMMA TaskChange ==
  ASSUME TypeInv, NEW w \in Worker, NEW j \in Job, NEW t \in TaskState,
         task' = [task EXCEPT ![w][j] = t]
  PROVE  task' \in [Worker -> [Job -> TaskState]]
BY DEF TypeInv, TypeOK

LEMMA ClaimStepTypes ==
  ASSUME TypeInv, NEW w \in Worker, ClaimStep(w) \/ ClaimError(w)
  PROVE  TypeInv'
<1> USE ClaimAssumption
<1> DEFINE c == claim[w]
<1>0. c \in ClaimState /\ NodeOf[w] \in Node /\ now \in Nat
  BY DEF TypeInv, TypeOK
<1> SUFFICES ASSUME NEW r \in ClaimState, claim' = [claim EXCEPT ![w] = r],
                    r.pc = "write" => r.job \in Job,
                    store' \in [Job -> Doc], lock' \in [Node -> Worker \cup {NoWorker}],
                    task' \in [Worker -> [Job -> TaskState]], lost' \in Nat,
                    UNCHANGED <<now, up, admin, resets, crashes>>
             PROVE  TypeInv'
  <2>1. CASE ClaimQuery(w)
    <3> DEFINE r == [c EXCEPT !.pc = "fetch", !.now = now,
                              !.cands = {j \in Job : Candidate(NodeOf[w], j)}]
    <3>1. r \in ClaimState /\ r.pc = "fetch"
      BY <1>0 DEF ClaimState
    <3>2. claim' = [claim EXCEPT ![w] = r]
      BY <1>0, <2>1 DEF ClaimQuery, ClaimState
    <3> QED BY <2>1, <3>1, <3>2 DEF ClaimQuery, TypeInv, TypeOK
  <2>2. CASE ClaimFetch(w)
    <3>1. PICK j \in Job :
           claim' = IF Claimable(store[j], c.now)
                    THEN [claim EXCEPT ![w].pc = "write", ![w].job = j,
                                       ![w].copy = Claimed(w, store[j])]
                    ELSE [claim EXCEPT ![w].cands = @ \ {j}]
      BY <2>2 DEF ClaimFetch
    <3>2. Claimed(w, store[j]) \in Doc
      <4>1. store[j] \in Doc /\ c.now + ClaimTimeout \in Nat
        BY <1>0 DEF TypeInv, TypeOK, ClaimState
      <4> QED BY <1>0, <4>1, DocUpdate DEF Claimed, Status
    <3> DEFINE r1 == [c EXCEPT !.pc = "write", !.job = j, !.copy = Claimed(w, store[j])]
               r2 == [c EXCEPT !.cands = @ \ {j}]
               r == IF Claimable(store[j], c.now) THEN r1 ELSE r2
    <3>3. r1 \in ClaimState /\ r1.job \in Job
      BY <1>0, <3>2 DEF ClaimState
    <3>4. r2 \in ClaimState /\ r2.pc = c.pc /\ r2.job = c.job
      BY <1>0 DEF ClaimState
    <3>5. claim' = [claim EXCEPT ![w] = r]
      BY <1>0, <3>1 DEF ClaimState
    <3> QED BY <2>2, <3>3, <3>4, <3>5 DEF ClaimFetch, TypeInv, TypeOK
  <2>3. CASE ClaimWrite(w)
    <3>1. c.job \in Job /\ c.copy \in Doc
      BY <1>0, <2>3 DEF ClaimWrite, ClaimState, TypeInv, InFlight
    <3>2. store' \in [Job -> Doc]
      BY <2>3, <3>1, UpsertType DEF ClaimWrite, TypeInv, TypeOK
    <3> DEFINE r == [c EXCEPT !.pc = "fetch", !.cands = @ \ {c.job},
                              !.got = IF Accepts(c.job, c.copy) THEN @ \cup {c.job} ELSE @]
    <3>3. r \in ClaimState /\ r.pc = "fetch"
      BY <1>0, <3>1 DEF ClaimState
    <3>4. claim' = [claim EXCEPT ![w] = r]
      BY <1>0, <2>3 DEF ClaimWrite, ClaimState
    <3> QED BY <2>3, <3>2, <3>3, <3>4 DEF ClaimWrite, TypeInv, TypeOK
  <2>4. CASE ClaimEnd(w)
    <3>1. IdleClaim \in ClaimState
      BY DEF IdleClaim, ClaimState, NewDoc, Doc, Status
    <3>2. [IdleTask EXCEPT !.pc = "wait"] \in TaskState
      BY DEF IdleTask, TaskState, TaskPC, NewDoc, Doc, Status
    <3>3. task' \in [Worker -> [Job -> TaskState]]
      BY <2>4, <3>2 DEF ClaimEnd, TypeInv, TypeOK
    <3> DEFINE r == [IdleClaim EXCEPT !.pc = IF c.got = {} THEN "idle" ELSE "tasks"]
    <3>4. r \in ClaimState /\ r.pc # "write"
      BY <3>1 DEF ClaimState
    <3>5. claim' = [claim EXCEPT ![w] = r]
      BY <2>4 DEF ClaimEnd
    <3> QED BY <2>4, <3>3, <3>4, <3>5 DEF ClaimEnd, TypeInv, TypeOK
  <2>5. CASE TasksDone(w)
    <3> DEFINE r == [c EXCEPT !.pc = "idle"]
    <3>1. r \in ClaimState /\ r.pc = "idle"
      BY <1>0 DEF ClaimState
    <3>2. claim' = [claim EXCEPT ![w] = r]
      BY <1>0, <2>5 DEF TasksDone, ClaimState
    <3> QED BY <2>5, <3>1, <3>2 DEF TasksDone, TypeInv, TypeOK
  <2>6. CASE ClaimError(w)
    <3>0. /\ lost' \in Nat
          /\ UNCHANGED <<now, up, lock, task, admin, resets, crashes>>
      BY <2>6 DEF ClaimError, TypeInv, TypeOK
    <3>1. CASE /\ c.pc = "fetch"
               /\ UNCHANGED store
               /\ \E j \in Job : claim' = [claim EXCEPT ![w].cands = @ \ {j}]
      <4> PICK j \in Job : claim' = [claim EXCEPT ![w].cands = @ \ {j}]
        BY <3>1
      <4> DEFINE r == [c EXCEPT !.cands = @ \ {j}]
      <4>1. r \in ClaimState /\ r.pc = "fetch"
        BY <1>0, <3>1 DEF ClaimState
      <4>2. claim' = [claim EXCEPT ![w] = r]
        BY <1>0 DEF ClaimState
      <4> QED BY <3>0, <3>1, <4>1, <4>2 DEF TypeInv, TypeOK
    <3>2. CASE /\ c.pc = "write"
               /\ Upsert(c.job, c.copy) \/ UNCHANGED store
               /\ claim' = [claim EXCEPT ![w].pc = "fetch", ![w].cands = @ \ {c.job}]
      <4>1. c.job \in Job /\ c.copy \in Doc
        BY <1>0, <3>2 DEF ClaimState, TypeInv, InFlight
      <4>2. store' \in [Job -> Doc]
        BY <3>2, <4>1, UpsertType DEF TypeInv, TypeOK
      <4> DEFINE r == [c EXCEPT !.pc = "fetch", !.cands = @ \ {c.job}]
      <4>3. r \in ClaimState /\ r.pc = "fetch"
        BY <1>0 DEF ClaimState
      <4>4. claim' = [claim EXCEPT ![w] = r]
        BY <1>0, <3>2 DEF ClaimState
      <4> QED BY <3>0, <4>2, <4>3, <4>4 DEF TypeInv, TypeOK
    <3> QED BY <2>6, <3>1, <3>2 DEF ClaimError
  <2> QED BY <2>1, <2>2, <2>3, <2>4, <2>5, <2>6 DEF ClaimStep
<1> QED BY ClaimChange DEF TypeInv, TypeOK, InFlight

LEMMA TaskStepTypes ==
  ASSUME TypeInv, NEW w \in Worker, NEW j \in Job,
         TaskStep(w, j) \/ StartError(w, j) \/ RunError(w, j) \/ FinishError(w, j)
  PROVE  TypeInv'
<1> USE ClaimAssumption
<1> DEFINE t == task[w][j]
<1>0. /\ t \in TaskState /\ t.copy \in Doc /\ store[j] \in Doc
      /\ task \in [Worker -> [Job -> TaskState]] /\ store \in [Job -> Doc]
      /\ NodeOf[w] \in Node /\ lost \in Nat /\ t.saves \in Nat
  BY DEF TypeInv, TypeOK, TaskState
<1>1. IdleTask \in TaskState
  BY DEF IdleTask, TaskState, TaskPC, NewDoc, Doc, Status
<1>2. ASSUME NEW p \in TaskPC, NEW d \in Doc, NEW n \in Nat
      PROVE  [t EXCEPT !.pc = p, !.copy = d, !.saves = n] \in TaskState
  BY <1>0 DEF TaskState
<1> SUFFICES ASSUME NEW u \in TaskState, task' = [task EXCEPT ![w][j] = u],
                    store' \in [Job -> Doc], lost' \in Nat,
                    UNCHANGED <<now, up, lock, claim, admin, resets, crashes>>
             PROVE  TypeInv'
  <2>1. CASE AcquireSlot(w, j)
    <3> DEFINE u == [t EXCEPT !.pc = "start"]
    <3>1. u \in TaskState
      BY <1>0 DEF TaskState, TaskPC, InSlot
    <3>2. task' = [task EXCEPT ![w][j] = u]
      BY <1>0, <2>1 DEF AcquireSlot
    <3> QED BY <1>0, <2>1, <3>1, <3>2 DEF AcquireSlot
  <2>2. CASE StartFetch(w, j)
    <3> DEFINE d == [store[j] EXCEPT !.status = "Processing"]
               u == [t EXCEPT !.pc = "starting", !.copy = d]
               mine == /\ store[j].claimedBy = NodeOf[w]
                       /\ store[j].status \in {"Claiming", "Pending"}
    <3>1. u \in TaskState
      BY <1>0, DocUpdate DEF TaskState, TaskPC, InSlot, Status
    <3>2. task' = [task EXCEPT ![w][j] = IF mine THEN u ELSE IdleTask]
      BY <1>0, <2>2 DEF StartFetch, Startable
    <3> QED BY <1>0, <1>1, <2>2, <3>1, <3>2 DEF StartFetch
  <2>3. CASE StartWrite(w, j)
    <3> DEFINE u == [t EXCEPT !.pc = "run", !.copy = Stored(j, t.copy)]
    <3>1. store' \in [Job -> Doc]
      BY <1>0, <2>3, UpsertType DEF StartWrite
    <3>2. u \in TaskState
      BY <1>0, StoredIsDoc DEF TaskState, TaskPC, InSlot
    <3>3. task' = [task EXCEPT ![w][j] = IF Accepts(j, t.copy) THEN u ELSE IdleTask]
      BY <1>0, <2>3 DEF StartWrite
    <3> QED BY <1>0, <1>1, <2>3, <3>1, <3>2, <3>3 DEF StartWrite
  <2>4. CASE SaveProgress(w, j)
    <3> DEFINE u == [t EXCEPT !.pc = IF Accepts(j, t.copy) THEN "run" ELSE "fail",
                              !.saves = @ + 1]
    <3>1. store' \in [Job -> Doc]
      BY <1>0, <2>4, UpsertType DEF SaveProgress
    <3>2. u \in TaskState
      <4>1. t.saves + 1 \in Nat
        BY <1>0
      <4> QED BY <1>0, <4>1 DEF TaskState, TaskPC, InSlot
    <3>3. task' = [task EXCEPT ![w][j] = u]
      BY <1>0, <2>4 DEF SaveProgress
    <3> QED BY <1>0, <2>4, <3>1, <3>2, <3>3 DEF SaveProgress
  <2>5. CASE SaveUnconditionally(w, j)
    <3> DEFINE d == [t.copy EXCEPT !.etag = NoETag]
               u == [t EXCEPT !.copy = d, !.saves = @ + 1]
    <3>1. d \in Doc
      BY <1>0, DocUpdate
    <3>2. store' \in [Job -> Doc]
      BY <1>0, <2>5, <3>1, StoredIsDoc DEF SaveUnconditionally, Put
    <3>3. u \in TaskState
      <4>1. t.saves + 1 \in Nat
        BY <1>0
      <4> QED BY <1>0, <3>1, <4>1 DEF TaskState
    <3>4. task' = [task EXCEPT ![w][j] = u]
      BY <1>0, <2>5 DEF SaveUnconditionally
    <3> QED BY <1>0, <2>5, <3>2, <3>3, <3>4 DEF SaveUnconditionally
  <2>6. CASE RunEnds(w, j)
    <3> DEFINE d == [t.copy EXCEPT !.status = "Complete"]
               u == [t EXCEPT !.pc = IF Accepts(j, d) THEN "complete" ELSE "fail",
                              !.copy = d]
    <3>1. d \in Doc
      BY <1>0, DocUpdate DEF Status
    <3>2. store' \in [Job -> Doc]
      BY <1>0, <2>6, <3>1, UpsertType DEF RunEnds
    <3>3. u \in TaskState
      BY <1>0, <3>1 DEF TaskState, TaskPC, InSlot
    <3>4. task' = [task EXCEPT ![w][j] = u]
      BY <1>0, <2>6 DEF RunEnds
    <3> QED BY <1>0, <2>6, <3>2, <3>3, <3>4 DEF RunEnds
  <2>7. CASE RunReturns(w, j)
    <3> DEFINE u == [t EXCEPT !.pc = "complete"]
    <3>1. u \in TaskState
      BY <1>0 DEF TaskState, TaskPC, InSlot
    <3>2. task' = [task EXCEPT ![w][j] = u]
      BY <1>0, <2>7 DEF RunReturns
    <3> QED BY <1>0, <2>7, <3>1, <3>2 DEF RunReturns
  <2>8. CASE FinishFetch(w, j)
    <3> DEFINE o == IF t.pc = "complete" THEN "Complete" ELSE "Failed"
               d == [store[j] EXCEPT !.status = o, !.claimedBy = NoNode]
               u == [t EXCEPT !.pc = "finishing", !.copy = d]
    <3>1. d \in Doc
      BY <1>0, DocUpdate DEF Status
    <3>2. u \in TaskState
      BY <1>0, <3>1 DEF TaskState, TaskPC, InSlot
    <3>3. task' = [task EXCEPT ![w][j] = IF store[j].claimedBy = NodeOf[w]
                                         THEN u ELSE IdleTask]
      BY <1>0, <2>8 DEF FinishFetch
    <3> QED BY <1>0, <1>1, <2>8, <3>2, <3>3 DEF FinishFetch
  <2>9. CASE FinishWrite(w, j)
    <3>1. store' \in [Job -> Doc]
      BY <1>0, <2>9, UpsertType DEF FinishWrite
    <3> QED BY <1>0, <1>1, <2>9, <3>1 DEF FinishWrite
  <2>10. CASE StartError(w, j)
    <3>1. store' \in [Job -> Doc]
      BY <1>0, <2>10, UpsertType DEF StartError
    <3>2. /\ task' = [task EXCEPT ![w][j] = IdleTask] /\ lost' \in Nat
          /\ UNCHANGED <<now, up, lock, claim, admin, resets, crashes>>
      BY <1>0, <2>10 DEF StartError
    <3> QED BY <1>1, <3>1, <3>2
  <2>11. CASE RunError(w, j)
    <3>1. store' \in [Job -> Doc]
      <4>1. ASSUME NEW s \in Status,
                   Upsert(j, [t.copy EXCEPT !.status = s])
            PROVE  store' \in [Job -> Doc]
        <5>1. [t.copy EXCEPT !.status = s] \in Doc
          BY <1>0, DocUpdate DEF Status
        <5> QED BY <1>0, <4>1, <5>1, UpsertType
      <4>2. t.copy.status \in Status /\ "Complete" \in Status
        BY <1>0 DEF Doc, Status
      <4> QED BY <1>0, <2>11, <4>1, <4>2 DEF RunError
    <3> DEFINE u == [t EXCEPT !.pc = "fail"]
    <3>2. u \in TaskState
      BY <1>0 DEF TaskState, TaskPC, InSlot
    <3>3. /\ task' = [task EXCEPT ![w][j] = u]
          /\ lost' \in Nat
          /\ UNCHANGED <<now, up, lock, claim, admin, resets, crashes>>
      BY <1>0, <2>11 DEF RunError
    <3> HIDE DEF u
    <3> QED BY <3>1, <3>2, <3>3
  <2>13. CASE ReadToEnd(w, j)
    <3> DEFINE d == [t.copy EXCEPT !.status = "Complete"]
               u == [t EXCEPT !.pc = IF Accepts(j, d) THEN "run" ELSE "fail",
                              !.copy = d]
    <3>1. d \in Doc
      BY <1>0, DocUpdate DEF Status
    <3>2. store' \in [Job -> Doc]
      BY <1>0, <2>13, <3>1, UpsertType DEF ReadToEnd
    <3>3. u \in TaskState
      BY <1>0, <3>1 DEF TaskState, TaskPC, InSlot
    <3>4. task' = [task EXCEPT ![w][j] = u]
      BY <1>0, <2>13 DEF ReadToEnd
    <3> QED BY <1>0, <2>13, <3>2, <3>3, <3>4 DEF ReadToEnd
  <2>12. CASE FinishError(w, j)
    <3>1. /\ task' = [task EXCEPT ![w][j] = IdleTask] /\ lost' \in Nat
          /\ UNCHANGED <<store, now, up, lock, claim, admin, resets, crashes>>
      BY <1>0, <2>12 DEF FinishError
    <3> QED BY <1>0, <1>1, <3>1
  <2> QED BY <2>1, <2>2, <2>3, <2>4, <2>5, <2>6, <2>7, <2>8, <2>9, <2>10, <2>11,
             <2>12, <2>13 DEF TaskStep
<1> QED BY TaskChange DEF TypeInv, TypeOK, InFlight

LEMMA OperatorTypes ==
  ASSUME TypeInv, Operator
  PROVE  TypeInv'
<1>0. /\ admin \in AdminState /\ admin.copy \in Doc /\ store \in [Job -> Doc]
      /\ resets \in [Job -> Nat]
  BY DEF TypeInv, TypeOK, AdminState
<1>1. ASSUME NEW j \in Job, ResetFetch(j)
      PROVE  TypeInv'
  <2>1. [store[j] EXCEPT !.status = "Pending", !.claimedBy = NoNode] \in Doc
    BY <1>0, DocUpdate DEF Status
  <2>2. admin' \in AdminState /\ admin'.job \in Job
    BY <1>1, <2>1 DEF ResetFetch, AdminState
  <2> QED BY <1>1, <2>2 DEF ResetFetch, TypeInv, TypeOK, InFlight
<1>2. CASE ResetWrite
  <2>1. admin.job \in Job
    BY <1>2 DEF ResetWrite, TypeInv, InFlight
  <2>2. store' \in [Job -> Doc]
    BY <1>0, <1>2, <2>1, UpsertType DEF ResetWrite
  <2>3. Stored(admin.job, admin.copy) \in Doc
    BY <1>0, <2>1, StoredIsDoc
  <2>4. admin' \in AdminState /\ admin'.job \in Job
    BY <1>0, <1>2, <2>1, <2>3 DEF ResetWrite, AdminState
  <2>5. resets' \in [Job -> Nat]
    BY <1>0, <1>2, <2>1 DEF ResetWrite
  <2> QED BY <1>2, <2>2, <2>4, <2>5 DEF ResetWrite, TypeInv, TypeOK, InFlight
<1>3. CASE ResetAgain
  <2>1. admin.job \in Job
    BY <1>3 DEF ResetAgain, TypeInv, InFlight
  <2>2. store' \in [Job -> Doc]
    BY <1>0, <1>3, <2>1, UpsertType DEF ResetAgain
  <2>3. admin' \in AdminState /\ admin'.job \in Job
    BY <1>0, <1>3, <2>1 DEF ResetAgain, AdminState
  <2> QED BY <1>3, <2>2, <2>3 DEF ResetAgain, TypeInv, TypeOK, InFlight
<1> QED BY <1>1, <1>2, <1>3 DEF Operator

LEMMA EnvironmentTypes ==
  ASSUME TypeInv, Tick \/ \E n \in Node : Crash(n) \/ Restart(n)
  PROVE  TypeInv'
<1>1. IdleTask \in TaskState /\ IdleClaim \in ClaimState /\ IdleClaim.pc = "idle"
  BY DEF IdleTask, IdleClaim, TaskState, ClaimState, TaskPC, NewDoc, Doc, Status
<1>2. CASE Tick
  BY <1>2 DEF Tick, TypeInv, TypeOK, InFlight
<1>3. ASSUME NEW n \in Node, Crash(n)
      PROVE  TypeInv'
  <2>1. claim' \in [Worker -> ClaimState]
    BY <1>1, <1>3 DEF Crash, TypeInv, TypeOK
  <2>2. task' \in [Worker -> [Job -> TaskState]]
    BY <1>1, <1>3 DEF Crash, TypeInv, TypeOK
  <2>3. \A w \in Worker : claim'[w].pc = "write" => claim'[w].job \in Job
    BY <1>1, <1>3 DEF Crash, TypeInv, InFlight
  <2> QED BY <1>3, <2>1, <2>2, <2>3 DEF Crash, TypeInv, TypeOK, InFlight
<1>4. ASSUME NEW n \in Node, Restart(n)
      PROVE  TypeInv'
  BY <1>4 DEF Restart, TypeInv, TypeOK, InFlight
<1> QED BY <1>2, <1>3, <1>4

\* Every step keeps the types.
LEMMA NextTypes == TypeInv /\ [Next]_vars => TypeInv'
<1> SUFFICES ASSUME TypeInv, [Next]_vars PROVE TypeInv'
  OBVIOUS
<1>1. CASE UNCHANGED vars
  BY <1>1 DEF vars, TypeInv, TypeOK, InFlight
<1>2. ASSUME NEW w \in Worker, ClaimStep(w) \/ ClaimError(w)
      PROVE  TypeInv'
  BY <1>2, ClaimStepTypes
<1>3. ASSUME NEW w \in Worker, NEW j \in Job,
             TaskStep(w, j) \/ StartError(w, j) \/ RunError(w, j) \/ FinishError(w, j)
      PROVE  TypeInv'
  BY <1>3, TaskStepTypes
<1>4. CASE Operator
  BY <1>4, OperatorTypes
<1>5. CASE Tick \/ \E n \in Node : Crash(n) \/ Restart(n)
  BY <1>5, EnvironmentTypes
<1> QED BY <1>1, <1>2, <1>3, <1>4, <1>5 DEF Next, Errors

(***************************************************************************)
(* The documents, the workers' local states and the counters are always    *)
(* well formed, whatever fails and whoever crashes.                        *)
(***************************************************************************)
THEOREM TypeCorrect == Spec => []TypeOK
<1>1. TypeInv => TypeOK
  BY DEF TypeInv
<1> QED BY <1>1, InitTypes, NextTypes, PTL DEF Spec

-----------------------------------------------------------------------------
(* Every start uses up one opening of the job.                             *)

\* A job somebody may claim or start.
Open(j) == store[j].status \in {"Pending", "Claiming"}

\* A copy in flight that the store would still accept was read while the job
\* was open: its ETag is not null and not ahead of the stored one.
Fresh(e, doc) ==
  /\ e # NoETag
  /\ e <= doc.etag
  /\ e = doc.etag => doc.status \in {"Pending", "Claiming"}

ClaimCopies ==
  \A w \in Worker :
    claim[w].pc = "write" => Fresh(claim[w].copy.etag, store[claim[w].job])

TaskCopy(t, doc) ==
  /\ t.pc = "starting" => Fresh(t.copy.etag, doc)
  /\ t.pc = "starting" => t.copy.status = "Processing"
  /\ t.pc = "run" => t.copy.status \in {"Processing", "Complete"}
  /\ t.pc = "finishing" => t.copy.status \in {"Complete", "Failed"}

TaskCopies ==
  \A w \in Worker, j \in Job : TaskCopy(task[w][j], store[j])

AdminCopy ==
  /\ admin.pc = "again" => Fresh(admin.copy.etag, store[admin.job])
  /\ admin.pc # "idle" => admin.copy.status = "Pending"

StoreETags == \A j \in Job : store[j].etag # NoETag

\* The runners and the current opening together are paid for.
Openings ==
  \A j \in Job :
    Cardinality(Runners(j)) + (IF Open(j) THEN 1 ELSE 0) <= 1 + resets[j]

IInv == TypeInv /\ StoreETags /\ ClaimCopies /\ TaskCopies /\ AdminCopy /\ Openings

\* A write, whoever makes it, leaves every copy in flight fresh: the copies of
\* its own job fall behind, the others are not touched.
LEMMA WriteKeepsFresh ==
  ASSUME TypeInv, NEW j \in Job, NEW doc \in Doc,
         Upsert(j, doc) \/ UNCHANGED store,
         NEW k \in Job, NEW e \in Nat, Fresh(e, store[k])
  PROVE  Fresh(e, store'[k])
<1>1. CASE UNCHANGED store
  BY <1>1 DEF Fresh
<1>2. CASE Upsert(j, doc) /\ ~Accepts(j, doc)
  BY <1>2 DEF Upsert, Fresh
<1>3. CASE Upsert(j, doc) /\ Accepts(j, doc)
  <2>1. store' = [store EXCEPT ![j] = Stored(j, doc)]
    BY <1>3 DEF Upsert, Put
  <2>2. Stored(j, doc).etag = store[j].etag + 1
    BY DEF Stored, Doc
  <2>3. store[k].etag \in Nat
    BY DEF TypeInv, TypeOK, Doc
  <2>4. CASE k = j
    BY <2>1, <2>2, <2>3, <2>4 DEF Fresh, TypeInv, TypeOK
  <2>5. CASE k # j
    BY <2>1, <2>5 DEF Fresh, TypeInv, TypeOK
  <2> QED BY <2>4, <2>5
<1> QED BY <1>1, <1>2, <1>3

\* Every step makes at most one write.
LEMMA OneWrite ==
  ASSUME TypeInv, Next
  PROVE  UNCHANGED store \/ \E j \in Job, doc \in Doc : Upsert(j, doc)
<1>1. ASSUME NEW w \in Worker, ClaimStep(w) \/ ClaimError(w)
      PROVE  UNCHANGED store \/ \E j \in Job, doc \in Doc : Upsert(j, doc)
  <2>1. claim[w].pc = "write" => claim[w].job \in Job /\ claim[w].copy \in Doc
    BY DEF TypeInv, TypeOK, InFlight, ClaimState
  <2>2. \/ UNCHANGED store
        \/ claim[w].pc = "write" /\ Upsert(claim[w].job, claim[w].copy)
    BY <1>1 DEF ClaimStep, ClaimQuery, ClaimFetch, ClaimWrite, ClaimEnd, TasksDone,
         ClaimError
  <2> QED BY <2>1, <2>2
<1>2. ASSUME NEW w \in Worker, NEW j \in Job,
             TaskStep(w, j) \/ StartError(w, j) \/ RunError(w, j) \/ FinishError(w, j)
      PROVE  UNCHANGED store \/ \E doc \in Doc : Upsert(j, doc)
  <2> DEFINE d == task[w][j].copy
  <2>1. d \in Doc
    BY DEF TypeInv, TypeOK, TaskState
  <2>2. d.status \in Status
    BY <2>1 DEF Doc
  <2>6. /\ \A x \in Status : [d EXCEPT !.status = x] \in Doc
        /\ [d EXCEPT !.etag = NoETag] \in Doc
    BY <2>1, DocUpdate
  <2>3. Put(j, [d EXCEPT !.etag = NoETag]) => Upsert(j, [d EXCEPT !.etag = NoETag])
    BY <2>1 DEF Upsert, Accepts, Doc
  <2>4. \/ UNCHANGED store
        \/ Upsert(j, d) \/ Put(j, [d EXCEPT !.etag = NoETag])
        \/ \E s \in {d.status, "Complete"} : Upsert(j, [d EXCEPT !.status = s])
    BY <1>2 DEF TaskStep, AcquireSlot, StartFetch, StartWrite, SaveProgress,
         SaveUnconditionally, ReadToEnd, RunEnds, RunReturns, FinishFetch, FinishWrite,
         StartError, RunError, FinishError
  <2>5. {d.status, "Complete"} \subseteq Status
    BY <2>2 DEF Status
  <2> QED BY <2>1, <2>3, <2>4, <2>5, <2>6
<1>3. CASE Operator
  <2>1. admin.pc # "idle" => admin.job \in Job /\ admin.copy \in Doc
    BY DEF TypeInv, TypeOK, InFlight, AdminState
  <2>2. UNCHANGED store \/ (admin.pc # "idle" /\ Upsert(admin.job, admin.copy))
    BY <1>3 DEF Operator, ResetFetch, ResetWrite, ResetAgain
  <2> QED BY <2>1, <2>2
<1>4. CASE Tick \/ \E n \in Node : Crash(n) \/ Restart(n)
  BY <1>4 DEF Tick, Crash, Restart
<1> QED BY <1>1, <1>2, <1>3, <1>4 DEF Next, Errors

\* Copies that were fresh stay fresh in every step.
LEMMA StepKeepsFresh ==
  ASSUME TypeInv, Next, NEW k \in Job, NEW e \in Nat, Fresh(e, store[k])
  PROVE  Fresh(e, store'[k])
<1>1. CASE UNCHANGED store
  BY <1>1 DEF Fresh
<1>2. CASE \E j \in Job, doc \in Doc : Upsert(j, doc)
  BY <1>2, WriteKeepsFresh
<1> QED BY <1>1, <1>2, OneWrite

LEMMA StepKeepsETags ==
  ASSUME TypeInv, StoreETags, Next
  PROVE  StoreETags'
<1>1. CASE UNCHANGED store
  BY <1>1 DEF StoreETags
<1>2. ASSUME NEW j \in Job, NEW doc \in Doc, Upsert(j, doc)
      PROVE  StoreETags'
  <2>1. Stored(j, doc).etag = store[j].etag + 1 /\ store[j].etag \in Nat
    BY DEF Stored, Doc, TypeInv, TypeOK
  <2>2. store' = [store EXCEPT ![j] = Stored(j, doc)] \/ store' = store
    BY <1>2 DEF Upsert, Put
  <2> QED BY <2>1, <2>2 DEF StoreETags, TypeInv, TypeOK, NoETag
<1> QED BY <1>1, <1>2, OneWrite

\* The document a claim pass is about to write was fetched while claimable.
LEMMA StepKeepsClaimCopies ==
  ASSUME TypeInv, StoreETags, ClaimCopies, Next
  PROVE  ClaimCopies'
<1>1. ASSUME NEW v \in Worker, claim'[v] = claim[v], claim[v].pc = "write"
      PROVE  Fresh(claim'[v].copy.etag, store'[claim'[v].job])
  <2>1. /\ claim[v].job \in Job /\ claim[v].copy.etag \in Nat
        /\ Fresh(claim[v].copy.etag, store[claim[v].job])
    BY <1>1 DEF TypeInv, TypeOK, InFlight, ClaimState, Doc, ClaimCopies
  <2> QED BY <1>1, <2>1, StepKeepsFresh
<1>2. ASSUME NEW w \in Worker, ClaimFetch(w)
      PROVE  ClaimCopies'
  <2>1. PICK j \in Job :
          claim' = IF Claimable(store[j], claim[w].now)
                   THEN [claim EXCEPT ![w].pc = "write", ![w].job = j,
                                      ![w].copy = Claimed(w, store[j])]
                   ELSE [claim EXCEPT ![w].cands = @ \ {j}]
    BY <1>2 DEF ClaimFetch
  <2>2. \A v \in Worker : v # w => claim'[v] = claim[v]
    BY <2>1 DEF TypeInv, TypeOK
  <2>3. UNCHANGED store /\ claim[w].pc = "fetch"
    BY <1>2 DEF ClaimFetch
  <2>4. CASE Claimable(store[j], claim[w].now)
    <3>1. claim'[w].copy = Claimed(w, store[j]) /\ claim'[w].job = j
      BY <2>1, <2>4 DEF TypeInv, TypeOK, ClaimState
    <3>2. claim'[w].copy.etag = store[j].etag
      BY <3>1 DEF Claimed, TypeInv, TypeOK, Doc
    <3>3. Open(j) /\ store[j].etag \in Nat
      BY <2>4 DEF Claimable, Open, TypeInv, TypeOK, Doc
    <3>4. Fresh(claim'[w].copy.etag, store'[claim'[w].job])
      BY <2>3, <3>1, <3>2, <3>3 DEF Fresh, Open, StoreETags
    <3> QED BY <1>1, <2>2, <3>4 DEF ClaimCopies
  <2>5. CASE ~Claimable(store[j], claim[w].now)
    <3>1. claim'[w].pc = "fetch"
      BY <2>1, <2>3, <2>5 DEF TypeInv, TypeOK, ClaimState
    <3> QED BY <1>1, <2>2, <3>1 DEF ClaimCopies
  <2> QED BY <2>4, <2>5
<1>3. ASSUME NEW w \in Worker,
             ClaimQuery(w) \/ ClaimWrite(w) \/ ClaimEnd(w) \/ TasksDone(w) \/ ClaimError(w)
      PROVE  ClaimCopies'
  <2>1. \A v \in Worker : v # w => claim'[v] = claim[v]
    BY <1>3 DEF ClaimQuery, ClaimWrite, ClaimEnd, TasksDone, ClaimError, TypeInv, TypeOK
  <2>2. claim'[w].pc # "write"
    <3>1. \/ \E p \in {"fetch", "idle", "tasks"} : claim'[w].pc = p
          \/ claim'[w].pc = claim[w].pc /\ claim[w].pc = "fetch"
      <4>0. claim[w] \in ClaimState /\ claim \in [Worker -> ClaimState]
        BY DEF TypeInv, TypeOK
      <4>1. CASE ClaimQuery(w)
        BY <4>0, <4>1 DEF ClaimQuery, ClaimState
      <4>4. CASE ClaimWrite(w)
        BY <4>0, <4>4 DEF ClaimWrite, ClaimState
      <4>5. CASE TasksDone(w)
        BY <4>0, <4>5 DEF TasksDone, ClaimState
      <4>2. CASE ClaimError(w)
        BY <4>2 DEF ClaimError, TypeInv, TypeOK, ClaimState
      <4>3. CASE ClaimEnd(w)
        BY <4>3 DEF ClaimEnd, TypeInv, TypeOK, IdleClaim
      <4> QED BY <1>3, <4>1, <4>2, <4>3, <4>4, <4>5
    <3> QED BY <3>1
  <2> QED BY <1>1, <2>1, <2>2 DEF ClaimCopies
<1>4. ASSUME NEW n \in Node, Crash(n)
      PROVE  ClaimCopies'
  <2>1. \A v \in Worker : claim'[v] = claim[v] \/ claim'[v].pc = "idle"
    BY <1>4 DEF Crash, IdleClaim
  <2> QED BY <1>1, <2>1 DEF ClaimCopies
<1>5. CASE UNCHANGED claim
  BY <1>1, <1>5 DEF ClaimCopies
<1>6. ASSUME NEW w \in Worker, NEW j \in Job,
             TaskStep(w, j) \/ StartError(w, j) \/ RunError(w, j) \/ FinishError(w, j)
      PROVE  UNCHANGED claim
  BY <1>6 DEF TaskStep, AcquireSlot, StartFetch, StartWrite, SaveProgress,
       SaveUnconditionally, ReadToEnd, RunEnds, RunReturns, FinishFetch, FinishWrite,
       StartError, RunError, FinishError
<1>7. ASSUME Operator \/ Tick \/ \E n \in Node : Restart(n)
      PROVE  UNCHANGED claim
  BY <1>7 DEF Operator, ResetFetch, ResetWrite, ResetAgain, Tick, Restart
<1> QED BY <1>2, <1>3, <1>4, <1>5, <1>6, <1>7 DEF Next, Errors, ClaimStep

LEMMA StepKeepsTaskCopies ==
  ASSUME TypeInv, StoreETags, TaskCopies, Next
  PROVE  TaskCopies'
<1>0. /\ \A w \in Worker, j \in Job : TaskCopy(task[w][j], store[j])
      /\ TaskCopies' <=> \A w \in Worker, j \in Job : TaskCopy(task'[w][j], store'[j])
  BY DEF TaskCopies
<1>1. ASSUME NEW v \in Worker, NEW k \in Job, task'[v][k] = task[v][k]
      PROVE  TaskCopy(task'[v][k], store'[k])
  <2>1. task[v][k].copy.etag \in Nat /\ TaskCopy(task[v][k], store[k])
    BY <1>0 DEF TypeInv, TypeOK, TaskState, Doc
  <2>2. task[v][k].pc = "starting" => Fresh(task[v][k].copy.etag, store'[k])
    BY <1>1, <2>1, StepKeepsFresh DEF TaskCopy
  <2> QED BY <1>1, <2>1, <2>2 DEF TaskCopy
<1>2. ASSUME NEW v \in Worker, NEW k \in Job, task'[v][k].pc \in {"none", "wait"}
      PROVE  TaskCopy(task'[v][k], store'[k])
  BY <1>2 DEF TaskCopy
<1>3. ASSUME NEW w \in Worker, NEW j \in Job,
             TaskStep(w, j) \/ StartError(w, j) \/ RunError(w, j) \/ FinishError(w, j)
      PROVE  TaskCopies'
  <2> DEFINE t == task[w][j]
  <2>0. /\ t \in TaskState /\ t.copy \in Doc /\ store[j] \in Doc
        /\ task \in [Worker -> [Job -> TaskState]]
        /\ TaskCopy(t, store[j])
    BY <1>0 DEF TypeInv, TypeOK, TaskState
  <2> SUFFICES ASSUME NEW u \in TaskState, task' = [task EXCEPT ![w][j] = u],
                      TaskCopy(u, store'[j])
               PROVE  TaskCopies'
    <3>1. IdleTask \in TaskState /\ IdleTask.pc = "none"
      BY DEF IdleTask, TaskState, TaskPC, NewDoc, Doc, Status
    <3>2. CASE task' = [task EXCEPT ![w][j] = IdleTask]
      BY <3>1, <3>2 DEF TaskCopy
    <3>3. CASE StartFetch(w, j) /\ task' # [task EXCEPT ![w][j] = IdleTask]
      <4> DEFINE d == [store[j] EXCEPT !.status = "Processing"]
                 u == [t EXCEPT !.pc = "starting", !.copy = d]
      <4>0. d \in Doc
        BY <2>0, DocUpdate DEF Status
      <4>1. d \in Doc /\ d.etag = store[j].etag /\ d.status = "Processing"
        BY <2>0, <4>0 DEF Doc
      <4>2. u \in TaskState /\ u.pc = "starting" /\ u.copy = d
        BY <2>0, <4>1 DEF TaskState, TaskPC, InSlot
      <4>3. task' = [task EXCEPT ![w][j] = u] /\ Open(j) /\ UNCHANGED store
        BY <2>0, <3>3 DEF StartFetch, Startable, Open
      <4>4. store[j].etag \in Nat /\ store[j].etag # NoETag
        BY <2>0 DEF Doc, StoreETags
      <4> HIDE DEF u, d
      <4>5. TaskCopy(u, store'[j])
        BY <4>1, <4>2, <4>3, <4>4 DEF TaskCopy, Fresh, Open
      <4> QED BY <4>2, <4>3, <4>5
    <3>4. CASE StartWrite(w, j) /\ task' # [task EXCEPT ![w][j] = IdleTask]
      <4> DEFINE u == [t EXCEPT !.pc = "run", !.copy = Stored(j, t.copy)]
      <4>1. Stored(j, t.copy) \in Doc /\ Stored(j, t.copy).status = t.copy.status
        BY <2>0, StoredIsDoc DEF Stored, Doc, TypeInv, TypeOK
      <4>2. u \in TaskState /\ u.pc = "run" /\ u.copy = Stored(j, t.copy)
        BY <2>0, <4>1 DEF TaskState, TaskPC, InSlot
      <4>3. task' = [task EXCEPT ![w][j] = u] /\ t.pc = "starting"
        BY <2>0, <3>4 DEF StartWrite
      <4>4. TaskCopy(u, store'[j])
        BY <2>0, <4>1, <4>2, <4>3 DEF TaskCopy
      <4> HIDE DEF u
      <4> QED BY <4>2, <4>3, <4>4
    <3>5. CASE SaveProgress(w, j)
      <4> DEFINE u == [t EXCEPT !.pc = IF Accepts(j, t.copy) THEN "run" ELSE "fail",
                                !.saves = @ + 1]
      <4>1. t.saves + 1 \in Nat
        BY <2>0 DEF TaskState
      <4>2. u \in TaskState /\ u.pc \in {"run", "fail"} /\ u.copy = t.copy
        BY <2>0, <4>1 DEF TaskState, TaskPC, InSlot
      <4>3. task' = [task EXCEPT ![w][j] = u] /\ t.pc = "run"
        BY <2>0, <3>5 DEF SaveProgress
      <4>4. TaskCopy(u, store'[j])
        BY <2>0, <4>2, <4>3 DEF TaskCopy
      <4> HIDE DEF u
      <4> QED BY <4>2, <4>3, <4>4
    <3>6. CASE SaveUnconditionally(w, j)
      <4> DEFINE d == [t.copy EXCEPT !.etag = NoETag]
                 u == [t EXCEPT !.copy = d, !.saves = @ + 1]
      <4>0. t.saves + 1 \in Nat
        BY <2>0 DEF TaskState
      <4>5. d \in Doc
        BY <2>0, DocUpdate
      <4>1. t.saves + 1 \in Nat /\ d \in Doc /\ d.status = t.copy.status
        BY <2>0, <4>0, <4>5 DEF Doc
      <4>2. u \in TaskState /\ u.pc = t.pc /\ u.copy = d
        BY <2>0, <4>1 DEF TaskState
      <4>3. task' = [task EXCEPT ![w][j] = u] /\ t.pc = "run"
        BY <2>0, <3>6 DEF SaveUnconditionally
      <4>4. TaskCopy(u, store'[j])
        BY <2>0, <4>1, <4>2, <4>3 DEF TaskCopy
      <4> HIDE DEF u
      <4> QED BY <4>2, <4>3, <4>4
    <3>7. CASE RunEnds(w, j)
      <4> DEFINE d == [t.copy EXCEPT !.status = "Complete"]
                 u == [t EXCEPT !.pc = IF Accepts(j, d) THEN "complete" ELSE "fail",
                                !.copy = d]
      <4>1. d \in Doc
        BY <2>0, DocUpdate DEF Status
      <4>2. u \in TaskState /\ u.pc \in {"complete", "fail"}
        BY <2>0, <4>1 DEF TaskState, TaskPC, InSlot
      <4>3. task' = [task EXCEPT ![w][j] = u]
        BY <2>0, <3>7 DEF RunEnds
      <4>4. TaskCopy(u, store'[j])
        BY <4>2 DEF TaskCopy
      <4> HIDE DEF u
      <4> QED BY <4>2, <4>3, <4>4
    <3>10. CASE ReadToEnd(w, j)
      <4> DEFINE d == [t.copy EXCEPT !.status = "Complete"]
                 u == [t EXCEPT !.pc = IF Accepts(j, d) THEN "run" ELSE "fail",
                                !.copy = d]
      <4>0. d \in Doc
        BY <2>0, DocUpdate DEF Status
      <4>1. d \in Doc /\ d.status = "Complete"
        BY <2>0, <4>0 DEF Doc
      <4>2. u \in TaskState /\ u.pc \in {"run", "fail"} /\ u.copy = d
        BY <2>0, <4>1 DEF TaskState, TaskPC, InSlot
      <4>3. task' = [task EXCEPT ![w][j] = u]
        BY <2>0, <3>10 DEF ReadToEnd
      <4>4. TaskCopy(u, store'[j])
        BY <4>1, <4>2 DEF TaskCopy
      <4> HIDE DEF u
      <4> QED BY <4>2, <4>3, <4>4
    <3>8. CASE FinishFetch(w, j) /\ task' # [task EXCEPT ![w][j] = IdleTask]
      <4> DEFINE o == IF t.pc = "complete" THEN "Complete" ELSE "Failed"
                 d == [store[j] EXCEPT !.status = o, !.claimedBy = NoNode]
                 u == [t EXCEPT !.pc = "finishing", !.copy = d]
      <4>0. d \in Doc /\ o \in {"Complete", "Failed"}
        BY <2>0, DocUpdate DEF Status
      <4>1. d \in Doc /\ d.status \in {"Complete", "Failed"}
        BY <2>0, <4>0 DEF Doc
      <4>2. u \in TaskState /\ u.pc = "finishing" /\ u.copy = d
        BY <2>0, <4>1 DEF TaskState, TaskPC, InSlot
      <4>3. task' = [task EXCEPT ![w][j] = u]
        BY <2>0, <3>8 DEF FinishFetch
      <4>4. TaskCopy(u, store'[j])
        BY <4>1, <4>2 DEF TaskCopy
      <4> HIDE DEF u
      <4> QED BY <4>2, <4>3, <4>4
    <3>9. CASE AcquireSlot(w, j) \/ RunReturns(w, j) \/ RunError(w, j)
      <4>1. PICK p \in {"start", "complete", "fail"} :
              task' = [task EXCEPT ![w][j].pc = p]
        BY <3>9 DEF AcquireSlot, RunReturns, RunError
      <4> DEFINE u == [t EXCEPT !.pc = p]
      <4>2. u \in TaskState /\ u.pc = p
        BY <2>0 DEF TaskState, TaskPC, InSlot
      <4>3. task' = [task EXCEPT ![w][j] = u]
        BY <2>0, <4>1
      <4>4. TaskCopy(u, store'[j])
        BY <4>2 DEF TaskCopy
      <4> HIDE DEF u
      <4> QED BY <4>2, <4>3, <4>4
    <3> QED BY <1>3, <3>2, <3>3, <3>4, <3>5, <3>6, <3>7, <3>8, <3>9, <3>10
            DEF TaskStep, StartError, FinishError, FinishWrite
  <2>1. task'[w][j] = u
    BY <2>0
  <2>2. \A v \in Worker, k \in Job : <<v, k>> # <<w, j>> => task'[v][k] = task[v][k]
    BY <2>0
  <2> QED BY <1>0, <1>1, <2>1, <2>2
<1>4. ASSUME NEW w \in Worker, ClaimEnd(w)
      PROVE  TaskCopies'
  <2>1. \A v \in Worker, k \in Job : task'[v][k] = task[v][k] \/ task'[v][k].pc = "wait"
    BY <1>4 DEF ClaimEnd, TypeInv, TypeOK, IdleTask
  <2> QED BY <1>0, <1>1, <1>2, <2>1
<1>5. ASSUME NEW n \in Node, Crash(n)
      PROVE  TaskCopies'
  <2>1. \A v \in Worker, k \in Job : task'[v][k] = task[v][k] \/ task'[v][k].pc = "none"
    BY <1>5 DEF Crash, IdleTask
  <2> QED BY <1>0, <1>1, <1>2, <2>1
<1>6. CASE UNCHANGED task
  BY <1>0, <1>1, <1>6
<1>7. ASSUME NEW w \in Worker,
             ClaimQuery(w) \/ ClaimFetch(w) \/ ClaimWrite(w) \/ TasksDone(w) \/ ClaimError(w)
      PROVE  UNCHANGED task
  BY <1>7 DEF ClaimQuery, ClaimFetch, ClaimWrite, TasksDone, ClaimError
<1>8. ASSUME Operator \/ Tick \/ \E n \in Node : Restart(n)
      PROVE  UNCHANGED task
  BY <1>8 DEF Operator, ResetFetch, ResetWrite, ResetAgain, Tick, Restart
<1> QED BY <1>3, <1>4, <1>5, <1>6, <1>7, <1>8 DEF Next, Errors, ClaimStep

\* After the operator's first write its copy is the stored document.
LEMMA StepKeepsAdminCopy ==
  ASSUME TypeInv, StoreETags, AdminCopy, Next
  PROVE  AdminCopy'
<1>1. CASE UNCHANGED admin
  <2>1. admin.pc = "again" => /\ admin.job \in Job /\ admin.copy.etag \in Nat
                             /\ Fresh(admin.copy.etag, store[admin.job])
    BY DEF TypeInv, TypeOK, InFlight, AdminState, Doc, AdminCopy
  <2> QED BY <1>1, <2>1, StepKeepsFresh DEF AdminCopy
<1>2. CASE admin'.pc = "idle"
  BY <1>2 DEF AdminCopy
<1>3. CASE ResetWrite
  <2>1. CASE Accepts(admin.job, admin.copy)
    <3> DEFINE j == admin.job
               d == Stored(admin.job, admin.copy)
    <3>1. j \in Job /\ admin.copy \in Doc /\ admin.copy.status = "Pending"
      BY <1>3 DEF ResetWrite, TypeInv, TypeOK, InFlight, AdminState, AdminCopy
    <3>2. store'[j] = d /\ d \in Doc
      BY <1>3, <2>1, <3>1, StoredIsDoc DEF ResetWrite, Upsert, Put, TypeInv, TypeOK
    <3>3. admin'.copy = d /\ admin'.job = j
      BY <1>3, <2>1 DEF ResetWrite, TypeInv, TypeOK, AdminState
    <3>4. d.etag = store[j].etag + 1 /\ store[j].etag \in Nat /\ d.status = admin.copy.status
      BY <3>1 DEF Stored, Doc, TypeInv, TypeOK
    <3> HIDE DEF d, j
    <3> QED BY <3>1, <3>2, <3>3, <3>4 DEF AdminCopy, Fresh, NoETag
  <2>2. CASE ~Accepts(admin.job, admin.copy)
    BY <1>2, <1>3, <2>2 DEF ResetWrite, TypeInv, TypeOK, AdminState
  <2> QED BY <2>1, <2>2
<1>4. ASSUME NEW w \in Worker, ClaimStep(w) \/ ClaimError(w)
      PROVE  UNCHANGED admin
  BY <1>4 DEF ClaimStep, ClaimQuery, ClaimFetch, ClaimWrite, ClaimEnd, TasksDone, ClaimError
<1>5. ASSUME NEW w \in Worker, NEW j \in Job,
             TaskStep(w, j) \/ StartError(w, j) \/ RunError(w, j) \/ FinishError(w, j)
      PROVE  UNCHANGED admin
  BY <1>5 DEF TaskStep, AcquireSlot, StartFetch, StartWrite, SaveProgress,
       SaveUnconditionally, ReadToEnd, RunEnds, RunReturns, FinishFetch, FinishWrite,
       StartError, RunError, FinishError
<1>6. ASSUME NEW j \in Job, ResetFetch(j)
      PROVE  admin'.pc = "reset" /\ admin'.copy.status = "Pending"
  BY <1>6 DEF ResetFetch, TypeInv, TypeOK, Doc
<1>8. ASSUME ResetAgain
      PROVE  admin'.pc = "idle"
  BY <1>8 DEF ResetAgain, TypeInv, TypeOK, AdminState
<1>9. ASSUME NEW j \in Job, ResetFetch(j)
      PROVE  AdminCopy'
  BY <1>6, <1>9 DEF AdminCopy
<1>7. ASSUME Tick \/ \E n \in Node : Crash(n) \/ Restart(n)
      PROVE  UNCHANGED admin
  BY <1>7 DEF Tick, Crash, Restart
<1> QED BY <1>1, <1>2, <1>3, <1>4, <1>5, <1>7, <1>8, <1>9 DEF Next, Errors, Operator

LEMMA RunnersCount ==
  ASSUME NEW j \in Job
  PROVE  /\ IsFiniteSet(Runners(j)) /\ Cardinality(Runners(j)) \in Nat
         /\ \A S \in SUBSET Runners(j) :
              Cardinality(S) \in Nat /\ Cardinality(S) <= Cardinality(Runners(j))
         /\ \A w \in Worker : \A S \in SUBSET (Runners(j) \cup {w}) :
              Cardinality(S) \in Nat /\ Cardinality(S) <= Cardinality(Runners(j)) + 1
<1>1. IsFiniteSet(Runners(j))
  BY ClaimAssumption, FS_Subset DEF Runners
<1>2. ASSUME NEW S \in SUBSET Runners(j)
      PROVE  Cardinality(S) \in Nat /\ Cardinality(S) <= Cardinality(Runners(j))
  BY <1>1, FS_Subset, FS_CardinalityType
<1>3. ASSUME NEW w \in Worker, NEW S \in SUBSET (Runners(j) \cup {w})
      PROVE  Cardinality(S) \in Nat /\ Cardinality(S) <= Cardinality(Runners(j)) + 1
  <2>0. Cardinality(Runners(j)) \in Nat
    BY <1>1, FS_CardinalityType
  <2>1. /\ IsFiniteSet(Runners(j) \cup {w})
        /\ \/ Cardinality(Runners(j) \cup {w}) = Cardinality(Runners(j))
           \/ Cardinality(Runners(j) \cup {w}) = Cardinality(Runners(j)) + 1
    BY <1>1, FS_AddElement
  <2>2. IsFiniteSet(S) /\ Cardinality(S) <= Cardinality(Runners(j) \cup {w})
    BY <2>1, FS_Subset
  <2>3. Cardinality(S) \in Nat
    BY <2>2, FS_CardinalityType
  <2> QED BY <2>0, <2>1, <2>2, <2>3
<1> QED BY <1>1, <1>2, <1>3, FS_CardinalityType

\* A step that starts no job and opens none keeps the count.
LEMMA NothingStarted ==
  ASSUME TypeInv, Openings, UNCHANGED resets,
         \A k \in Job : Runners(k)' \subseteq Runners(k) /\ (Open(k)' => Open(k))
  PROVE  Openings'
<1> SUFFICES ASSUME NEW k \in Job
             PROVE  Cardinality(Runners(k)') + (IF Open(k)' THEN 1 ELSE 0) <= 1 + resets[k]
  BY DEF Openings
<1>1. Cardinality(Runners(k)) + (IF Open(k) THEN 1 ELSE 0) <= 1 + resets[k]
  BY DEF Openings
<1>2. /\ Cardinality(Runners(k)) \in Nat /\ Cardinality(Runners(k)') \in Nat
      /\ Cardinality(Runners(k)') <= Cardinality(Runners(k))
  BY RunnersCount
<1>3. resets[k] \in Nat
  BY DEF TypeInv, TypeOK
<1> QED BY <1>1, <1>2, <1>3

\* A write opens no job unless it carries an open status past the ETag check.
LEMMA WriteOpensNothing ==
  ASSUME TypeInv, NEW j \in Job, NEW doc \in Doc,
         Upsert(j, doc) \/ UNCHANGED store,
         doc.status \in {"Pending", "Claiming"} => Fresh(doc.etag, store[j]),
         NEW k \in Job, Open(k)'
  PROVE  Open(k)
<1>1. CASE UNCHANGED store
  BY <1>1 DEF Open
<1>2. CASE Upsert(j, doc) /\ ~Accepts(j, doc)
  BY <1>2 DEF Upsert, Open
<1>3. CASE Upsert(j, doc) /\ Accepts(j, doc)
  <2>1. store' = [store EXCEPT ![j] = Stored(j, doc)]
    BY <1>3 DEF Upsert, Put
  <2>2. Stored(j, doc).status = doc.status
    BY DEF Stored, Doc
  <2>3. CASE k = j
    <3>1. doc.status \in {"Pending", "Claiming"}
      BY <2>1, <2>2, <2>3 DEF Open, TypeInv, TypeOK
    <3> QED BY <1>3, <2>3, <3>1 DEF Fresh, Accepts, Open
  <2>4. CASE k # j
    BY <2>1, <2>4 DEF Open, TypeInv, TypeOK
  <2> QED BY <2>3, <2>4
<1> QED BY <1>1, <1>2, <1>3

\* Claiming starts nothing, and what it opens was open.
LEMMA ClaimingKeepsOpenings ==
  ASSUME IInv, NEW w \in Worker, ClaimStep(w) \/ ClaimError(w)
  PROVE  Openings'
<1>1. ASSUME NEW k \in Job
      PROVE  Runners(k)' \subseteq Runners(k)
  <2>1. UNCHANGED task \/ \A v \in Worker : task'[v][k] = task[v][k] \/ task'[v][k].pc = "wait"
    <3>1. CASE ClaimEnd(w)
      <4>1. task \in [Worker -> [Job -> TaskState]]
        BY DEF IInv, TypeInv, TypeOK
      <4> QED BY <3>1, <4>1 DEF ClaimEnd, IdleTask
    <3>2. CASE ~ClaimEnd(w)
      BY <3>2 DEF ClaimStep, ClaimQuery, ClaimFetch, ClaimWrite, TasksDone, ClaimError
    <3> QED BY <3>1, <3>2
  <2> QED BY <2>1 DEF Runners, Running
<1>2. ASSUME NEW k \in Job, Open(k)'
      PROVE  Open(k)
  <2>1. claim[w].pc = "write" =>
          /\ claim[w].job \in Job /\ claim[w].copy \in Doc
          /\ Fresh(claim[w].copy.etag, store[claim[w].job])
    BY DEF IInv, TypeInv, TypeOK, InFlight, ClaimState, ClaimCopies
  <2>2. \/ UNCHANGED store
        \/ claim[w].pc = "write" /\ Upsert(claim[w].job, claim[w].copy)
    BY DEF ClaimStep, ClaimQuery, ClaimFetch, ClaimWrite, ClaimEnd, TasksDone, ClaimError
  <2>3. CASE UNCHANGED store
    BY <1>2, <2>3 DEF Open
  <2>4. CASE claim[w].pc = "write" /\ Upsert(claim[w].job, claim[w].copy)
    BY <1>2, <2>1, <2>4, WriteOpensNothing DEF IInv
  <2> QED BY <2>2, <2>3, <2>4
<1>3. UNCHANGED resets
  BY DEF ClaimStep, ClaimQuery, ClaimFetch, ClaimWrite, ClaimEnd, TasksDone, ClaimError
<1> QED BY <1>1, <1>2, <1>3, NothingStarted DEF IInv

\* The steps of a task other than its start.
LEMMA RunningKeepsOpenings ==
  ASSUME IInv, NEW w \in Worker, NEW j \in Job,
         TaskStep(w, j) \/ StartError(w, j) \/ RunError(w, j) \/ FinishError(w, j),
         ~(StartWrite(w, j) /\ Accepts(j, task[w][j].copy))
  PROVE  Openings'
<1> DEFINE t == task[w][j]
<1>0. /\ t \in TaskState /\ t.copy \in Doc /\ TaskCopy(t, store[j])
      /\ task \in [Worker -> [Job -> TaskState]]
      /\ TypeInv
  BY DEF IInv, TypeInv, TypeOK, TaskState, TaskCopies
<1>1. /\ \A v \in Worker, k \in Job : <<v, k>> # <<w, j>> => task'[v][k] = task[v][k]
      /\ task'[w][j].pc \in Running => t.pc \in Running
  <2>1. CASE AcquireSlot(w, j)
    BY <1>0, <2>1 DEF AcquireSlot, TaskState, Running
  <2>2. CASE StartFetch(w, j)
    BY <1>0, <2>2 DEF StartFetch, TaskState, Running, IdleTask
  <2>3. CASE StartWrite(w, j) /\ ~Accepts(j, t.copy)
    BY <1>0, <2>3 DEF StartWrite, TaskState, Running, IdleTask
  <2>4. CASE SaveProgress(w, j) \/ SaveUnconditionally(w, j) \/ ReadToEnd(w, j)
           \/ RunEnds(w, j) \/ RunReturns(w, j)
    BY <1>0, <2>4 DEF SaveProgress, SaveUnconditionally, ReadToEnd, RunEnds, RunReturns,
         TaskState, Running
  <2>5. CASE FinishFetch(w, j)
    BY <1>0, <2>5 DEF FinishFetch, TaskState, Running, IdleTask
  <2>6. CASE FinishWrite(w, j) \/ FinishError(w, j) \/ StartError(w, j)
    BY <1>0, <2>6 DEF FinishWrite, FinishError, StartError, TaskState, Running, IdleTask
  <2>7. CASE RunError(w, j)
    BY <1>0, <2>7 DEF RunError, TaskState, Running
  <2> QED BY <2>1, <2>2, <2>3, <2>4, <2>5, <2>6, <2>7 DEF TaskStep
<1>2. ASSUME NEW k \in Job
      PROVE  Runners(k)' \subseteq Runners(k)
  BY <1>1 DEF Runners
<1>3. ASSUME NEW k \in Job, Open(k)'
      PROVE  Open(k)
  <2>1. \/ UNCHANGED store
        \/ t.pc \in {"starting", "run", "finishing"} /\ Upsert(j, t.copy)
        \/ t.pc = "run" /\ Put(j, [t.copy EXCEPT !.etag = NoETag])
        \/ t.pc = "run" /\ \E s \in {t.copy.status, "Complete"} :
                             Upsert(j, [t.copy EXCEPT !.status = s])
    BY DEF TaskStep, AcquireSlot, StartFetch, StartWrite, SaveProgress,
         SaveUnconditionally, ReadToEnd, RunEnds, RunReturns, FinishFetch, FinishWrite,
         StartError, RunError, FinishError
  <2>2. t.pc \in {"starting", "run", "finishing"} =>
          t.copy.status \in {"Processing", "Complete", "Failed"}
    BY <1>0 DEF TaskCopy
  <2>3. PICK d \in Doc : /\ d.status \in {"Processing", "Complete", "Failed"}
                         /\ UNCHANGED store \/ Upsert(j, d)
    <3>1. CASE UNCHANGED store
      <4>1. [t.copy EXCEPT !.status = "Complete"] \in Doc
        BY <1>0, DocUpdate DEF Status
      <4>2. [t.copy EXCEPT !.status = "Complete"].status = "Complete"
        BY <1>0 DEF Doc
      <4> QED BY <3>1, <4>1, <4>2
    <3>2. CASE t.pc \in {"starting", "run", "finishing"} /\ Upsert(j, t.copy)
      BY <1>0, <2>2, <3>2
    <3>3. CASE t.pc = "run" /\ Put(j, [t.copy EXCEPT !.etag = NoETag])
      <4> DEFINE d == [t.copy EXCEPT !.etag = NoETag]
      <4>1. d \in Doc
        BY <1>0, DocUpdate
      <4>2. d.status = t.copy.status /\ d.etag = NoETag
        BY <1>0 DEF Doc
      <4>3. Upsert(j, d)
        BY <3>3, <4>2 DEF Upsert, Accepts
      <4> QED BY <2>2, <3>3, <4>1, <4>2, <4>3
    <3>4. ASSUME t.pc = "run", NEW s \in {t.copy.status, "Complete"},
                 Upsert(j, [t.copy EXCEPT !.status = s])
          PROVE  \E d \in Doc : /\ d.status \in {"Processing", "Complete", "Failed"}
                                /\ UNCHANGED store \/ Upsert(j, d)
      <4>0. s \in {"Processing", "Complete", "Failed"}
        BY <2>2, <3>4
      <4>1. [t.copy EXCEPT !.status = s] \in Doc
        BY <1>0, <4>0, DocUpdate DEF Status
      <4>2. [t.copy EXCEPT !.status = s].status = s
        BY <1>0 DEF Doc
      <4> QED BY <3>4, <4>0, <4>1, <4>2
    <3> QED BY <2>1, <3>1, <3>2, <3>3, <3>4
  <2> QED BY <1>0, <1>3, <2>3, WriteOpensNothing
<1>4. UNCHANGED resets
  BY DEF TaskStep, AcquireSlot, StartFetch, StartWrite, SaveProgress,
       SaveUnconditionally, ReadToEnd, RunEnds, RunReturns, FinishFetch, FinishWrite,
       StartError, RunError, FinishError
<1> QED BY <1>2, <1>3, <1>4, NothingStarted DEF IInv

\* A start closes its job and adds at most one runner.
LEMMA StartKeepsOpenings ==
  ASSUME IInv, NEW w \in Worker, NEW j \in Job,
         StartWrite(w, j), Accepts(j, task[w][j].copy)
  PROVE  Openings'
<1> DEFINE t == task[w][j]
<1>0. /\ t.copy \in Doc /\ TaskCopy(t, store[j]) /\ store \in [Job -> Doc]
      /\ task \in [Worker -> [Job -> TaskState]] /\ resets \in [Job -> Nat]
      /\ t.pc = "starting"
  BY DEF IInv, TypeInv, TypeOK, TaskState, TaskCopies, StartWrite
<1>1. Open(j)
  BY <1>0 DEF TaskCopy, Fresh, Accepts, Open
<1>2. store' = [store EXCEPT ![j] = Stored(j, t.copy)]
  BY DEF StartWrite, Upsert, Put
<1>3. Stored(j, t.copy).status = "Processing"
  BY <1>0 DEF Stored, Doc, TaskCopy
<1>4. ~Open(j)' /\ \A k \in Job : k # j => (Open(k)' <=> Open(k))
  BY <1>0, <1>2, <1>3 DEF Open
<1>5. \A v \in Worker, k \in Job : <<v, k>> # <<w, j>> => task'[v][k] = task[v][k]
  BY <1>0 DEF StartWrite
<1>6. /\ Runners(j)' \in SUBSET (Runners(j) \cup {w})
      /\ \A k \in Job : k # j => Runners(k)' = Runners(k)
  BY <1>5 DEF Runners
<1>7. UNCHANGED resets
  BY DEF StartWrite
<1>8. ASSUME NEW k \in Job
      PROVE  Cardinality(Runners(k)') + (IF Open(k)' THEN 1 ELSE 0) <= 1 + resets[k]
  <2>1. Cardinality(Runners(k)) + (IF Open(k) THEN 1 ELSE 0) <= 1 + resets[k]
    BY DEF IInv, Openings
  <2>2. CASE k = j
    <3>1. /\ Cardinality(Runners(j)) \in Nat /\ Cardinality(Runners(j)') \in Nat
          /\ Cardinality(Runners(j)') <= Cardinality(Runners(j)) + 1
      BY <1>6, RunnersCount
    <3> QED BY <1>0, <1>1, <1>4, <2>1, <2>2, <3>1
  <2>3. CASE k # j
    BY <1>4, <1>6, <2>1, <2>3
  <2> QED BY <2>2, <2>3
<1> QED BY <1>7, <1>8 DEF Openings

\* The operator's write pays for the opening it makes.
LEMMA OperatorKeepsOpenings ==
  ASSUME IInv, Operator
  PROVE  Openings'
<1>0. /\ TypeInv /\ store \in [Job -> Doc] /\ resets \in [Job -> Nat]
      /\ admin.pc # "idle" => admin.job \in Job /\ admin.copy \in Doc
  BY DEF IInv, TypeInv, TypeOK, InFlight, AdminState
<1>1. UNCHANGED task
  BY DEF Operator, ResetFetch, ResetWrite, ResetAgain
<1>2. \A k \in Job : Runners(k)' = Runners(k)
  BY <1>1 DEF Runners
<1>3. CASE UNCHANGED <<store, resets>>
  <2>1. \A k \in Job : Open(k)' => Open(k)
    BY <1>3 DEF Open
  <2> QED BY <1>0, <1>2, <1>3, <2>1, NothingStarted DEF IInv
<1>4. CASE ResetAgain
  <2>1. ASSUME NEW k \in Job, Open(k)'
        PROVE  Open(k)
    <3>1. /\ admin.job \in Job /\ admin.copy \in Doc /\ Upsert(admin.job, admin.copy)
          /\ Fresh(admin.copy.etag, store[admin.job])
      BY <1>0, <1>4 DEF ResetAgain, IInv, AdminCopy
    <3> QED BY <1>0, <2>1, <3>1, WriteOpensNothing
  <2>2. UNCHANGED resets
    BY <1>4 DEF ResetAgain
  <2> QED BY <1>0, <1>2, <2>1, <2>2, NothingStarted DEF IInv
<1>5. CASE ResetWrite /\ Accepts(admin.job, admin.copy)
  <2> DEFINE j == admin.job
  <2>1. /\ j \in Job
        /\ resets' = [resets EXCEPT ![j] = @ + 1]
        /\ store' = [store EXCEPT ![j] = Stored(j, admin.copy)]
    BY <1>0, <1>5 DEF ResetWrite, Upsert, Put
  <2>2. /\ resets'[j] = resets[j] + 1
        /\ \A k \in Job : k # j => resets'[k] = resets[k] /\ store'[k] = store[k]
    BY <1>0, <2>1
  <2> HIDE DEF j
  <2>3. ASSUME NEW k \in Job
        PROVE  Cardinality(Runners(k)') + (IF Open(k)' THEN 1 ELSE 0) <= 1 + resets'[k]
    <3>1. /\ Cardinality(Runners(k)) + (IF Open(k) THEN 1 ELSE 0) <= 1 + resets[k]
          /\ Cardinality(Runners(k)) \in Nat /\ resets[k] \in Nat
      BY <1>0, RunnersCount DEF IInv, Openings
    <3>2. CASE k = j
      BY <1>2, <2>2, <3>1, <3>2
    <3>3. CASE k # j
      <4>1. Open(k)' <=> Open(k)
        BY <2>2, <3>3 DEF Open
      <4> QED BY <1>2, <2>2, <3>1, <3>3, <4>1
    <3> QED BY <3>2, <3>3
  <2> QED BY <2>3 DEF Openings
<1>6. \/ UNCHANGED <<store, resets>> \/ ResetAgain
      \/ ResetWrite /\ Accepts(admin.job, admin.copy)
  BY DEF Operator, ResetFetch, ResetWrite, Upsert
<1> QED BY <1>3, <1>4, <1>5, <1>6

\* The clock, the crashes and the restarts start and open nothing.
LEMMA EnvironmentKeepsOpenings ==
  ASSUME IInv, Tick \/ \E n \in Node : Crash(n) \/ Restart(n)
  PROVE  Openings'
<1>1. ASSUME NEW k \in Job
      PROVE  Runners(k)' \subseteq Runners(k)
  <2>1. \A v \in Worker : task'[v][k] = task[v][k] \/ task'[v][k].pc = "none"
    BY DEF Tick, Crash, Restart, IdleTask
  <2> QED BY <2>1 DEF Runners, Running
<1>2. \A k \in Job : Open(k)' => Open(k)
  BY DEF Tick, Crash, Restart, Open
<1>3. UNCHANGED resets
  BY DEF Tick, Crash, Restart
<1> QED BY <1>1, <1>2, <1>3, NothingStarted DEF IInv

\* In the initial state nobody runs anything and no copy is in flight.
LEMMA InitInvariant == Init => IInv
<1> SUFFICES ASSUME Init PROVE IInv
  OBVIOUS
<1>1. TypeInv
  BY InitTypes
<1>2. ClaimCopies /\ TaskCopies /\ AdminCopy /\ StoreETags
  BY DEF Init, ClaimCopies, TaskCopies, TaskCopy, AdminCopy, StoreETags, IdleClaim,
     IdleTask, NewDoc, NoETag
<1>3. \A j \in Job : Runners(j) = {} /\ resets[j] = 0
  BY DEF Init, Runners, Running, IdleTask
<1>4. Openings
  BY <1>3, FS_EmptySet DEF Openings
<1> QED BY <1>1, <1>2, <1>4 DEF IInv

LEMMA NextInvariant == IInv /\ [Next]_vars => IInv'
<1> SUFFICES ASSUME IInv, [Next]_vars PROVE IInv'
  OBVIOUS
<1>1. CASE UNCHANGED vars
  BY <1>1 DEF vars, IInv, TypeInv, TypeOK, InFlight, StoreETags, ClaimCopies, TaskCopies,
       AdminCopy, Openings, Open, Runners
<1>2. CASE Next
  <2>1. TypeInv'
    BY <1>2, NextTypes DEF IInv
  <2>2. StoreETags' /\ ClaimCopies' /\ TaskCopies' /\ AdminCopy'
    BY <1>2, StepKeepsETags, StepKeepsClaimCopies, StepKeepsTaskCopies,
       StepKeepsAdminCopy DEF IInv
  <2>3. Openings'
    <3>1. ASSUME NEW w \in Worker, ClaimStep(w) \/ ClaimError(w)
          PROVE  Openings'
      BY <3>1, ClaimingKeepsOpenings
    <3>2. ASSUME NEW w \in Worker, NEW j \in Job,
                 TaskStep(w, j) \/ StartError(w, j) \/ RunError(w, j) \/ FinishError(w, j)
          PROVE  Openings'
      BY <3>2, RunningKeepsOpenings, StartKeepsOpenings
    <3>3. CASE Operator
      BY <3>3, OperatorKeepsOpenings
    <3>4. CASE Tick \/ \E n \in Node : Crash(n) \/ Restart(n)
      BY <3>4, EnvironmentKeepsOpenings
    <3> QED BY <1>2, <3>1, <3>2, <3>3, <3>4 DEF Next, Errors
  <2> QED BY <2>1, <2>2, <2>3 DEF IInv
<1> QED BY <1>1, <1>2

(***************************************************************************)
(* A job is run by at most one worker of all the nodes, and by one more    *)
(* for every time the operator put it back to Pending: the ETag checks of  *)
(* TryClaimMultipleJobsAsync and ProcessJobAsync let every opening of the  *)
(* job be used by one start only, for any number of nodes, workers, jobs,  *)
(* crashes and lost calls.                                                 *)
(***************************************************************************)
THEOREM RunnersCorrect == Spec => []RunnersBounded
<1>1. IInv => RunnersBounded
  <2> SUFFICES ASSUME IInv, NEW j \in Job
               PROVE  Cardinality(Runners(j)) <= 1 + resets[j]
    BY DEF RunnersBounded
  <2>1. /\ Cardinality(Runners(j)) + (IF Open(j) THEN 1 ELSE 0) <= 1 + resets[j]
        /\ Cardinality(Runners(j)) \in Nat /\ resets[j] \in Nat
    BY RunnersCount DEF IInv, Openings, TypeInv, TypeOK
  <2> QED BY <2>1
<1> QED BY <1>1, InitInvariant, NextInvariant, PTL DEF Spec

=============================================================================
