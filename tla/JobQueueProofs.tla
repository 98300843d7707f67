--------------------------- MODULE JobQueueProofs ---------------------------
(***************************************************************************)
(* BatchJobClaim implements JobQueue, for every set of nodes and workers,  *)
(* every number of jobs and every bound but that of the resets; and who    *)
(* runs a job is who the stored document names.                            *)
(***************************************************************************)
EXTENDS BatchJobClaimProofs

-----------------------------------------------------------------------------
(* The invariant.                                                          *)

\* A claim pass writes what it claimed of the document it looked at, with a
\* clock value that was read in the past.
ClaimLook(c, doc, time) ==
  /\ c.now <= time
  /\ c.pc = "write" => c.copy.status = "Claiming"
  /\ c.pc = "write" /\ c.copy.etag = doc.etag => Claimable(doc, c.now)

ClaimLooks ==
  \A w \in Worker, j \in Job :
    claim[w].pc = "fetch" \/ (claim[w].pc = "write" /\ claim[w].job = j) =>
      ClaimLook(claim[w], store[j], now)

\* A task writes the name of its node, which was in the document it fetched,
\* and at last no name.
TaskNode(t, n, doc) ==
  /\ t.pc \in {"starting", "run"} => t.copy.claimedBy = n
  /\ t.pc = "starting" /\ t.copy.etag = doc.etag => doc.claimedBy = n
  /\ t.pc = "finishing" => t.copy.claimedBy = NoNode

TaskNodes == \A w \in Worker, j \in Job : TaskNode(task[w][j], NodeOf[w], store[j])

\* The document of a running task has its node, and the status of its copy.
Owned(t, n, doc) ==
  t.pc \in Running =>
    /\ doc.status \in {"Processing", "Complete"}
    /\ doc.claimedBy = n
    /\ t.pc = "run" => t.copy.status = doc.status

Owners ==
  \A w \in Worker, j \in Job : resets[j] = 0 => Owned(task[w][j], NodeOf[w], store[j])

Unclaimed ==
  \A j \in Job : resets[j] = 0 /\ store[j].status = "Pending" => store[j].claimedBy = NoNode

\* The operator's second write comes after the first, which was counted; none
\* leaves a name.
AdminPaid ==
  /\ admin.pc = "again" => resets[admin.job] # 0
  /\ admin.pc # "idle" => admin.copy.claimedBy = NoNode

OInv ==
  IInv /\ ClaimLooks /\ TaskNodes /\ Owners /\ Unclaimed /\ AdminPaid

-----------------------------------------------------------------------------
(* The writes.                                                             *)

\* What a write that the store accepted leaves of a job.
LEMMA Written ==
  ASSUME TypeInv, NEW j \in Job, NEW doc \in Doc, Upsert(j, doc), NEW k \in Job
  PROVE  \/ store'[k] = store[k]
         \/ /\ k = j /\ Accepts(j, doc)
            /\ store'[k] \in Doc
            /\ store'[k].etag = store[k].etag + 1
            /\ store'[k].status = doc.status
            /\ store'[k].claimedBy = doc.claimedBy
<1>1. CASE ~ Accepts(j, doc)
  BY <1>1 DEF Upsert
<1>2. CASE Accepts(j, doc)
  <2>1. store' = [store EXCEPT ![j] = Stored(j, doc)] /\ store \in [Job -> Doc]
    BY <1>2 DEF Upsert, Put, TypeInv, TypeOK
  <2>2. /\ Stored(j, doc) \in Doc
        /\ Stored(j, doc).etag = store[j].etag + 1
        /\ Stored(j, doc).status = doc.status
        /\ Stored(j, doc).claimedBy = doc.claimedBy
    BY <2>1, StoredIsDoc DEF Stored, Doc
  <2> HIDE DEF Doc
  <2> QED BY <1>2, <2>1, <2>2
<1> QED BY <1>1, <1>2

\* A step leaves a document alone or gives it the next ETag.
LEMMA Moves ==
  ASSUME TypeInv, Next, NEW k \in Job
  PROVE  store'[k] = store[k] \/ store'[k].etag = store[k].etag + 1
BY OneWrite, Written

\* At most one worker runs a job nobody reset, and none while it is open.
LEMMA OneRunner ==
  ASSUME IInv, NEW j \in Job, resets[j] = 0, NEW v \in Runners(j)
  PROVE  ~ Open(j) /\ \A w \in Runners(j) : w = v
<1>1. /\ Cardinality(Runners(j)) + (IF Open(j) THEN 1 ELSE 0) <= 1
      /\ Cardinality(Runners(j)) \in Nat
  BY RunnersCount DEF IInv, Openings
<1>2. IsFiniteSet(Runners(j))
  BY RunnersCount
<1>3. Cardinality({v}) = 1 /\ IsFiniteSet({v})
  BY FS_Singleton
<1>4. Cardinality({v}) <= Cardinality(Runners(j))
  BY <1>2, FS_Subset
<1>5. ASSUME NEW w \in Runners(j), w # v
      PROVE  FALSE
  <2>1. Cardinality({v} \cup {w}) = 2
    BY <1>3, <1>5, FS_AddElement
  <2>2. {v} \cup {w} \subseteq Runners(j)
    BY <1>5
  <2>3. Cardinality({v} \cup {w}) <= Cardinality(Runners(j))
    BY <1>2, <2>2, FS_Subset
  <2> QED BY <1>1, <2>1, <2>3
<1> QED BY <1>1, <1>3, <1>4, <1>5

-----------------------------------------------------------------------------
(* What a step of a task does to its document.                             *)

\* The task t becomes u, the document old becomes new, on node n.
Effect(t, u, old, new, n) ==
  \/ new = old /\ u.pc \notin Running \cup {"starting"}
  \/ new = old /\ t.pc \in Running /\ u.pc \in {"complete", "fail"}
  \/ new = old /\ u.pc = "starting" /\ u.copy.claimedBy = n /\ old.claimedBy = n
  \/ /\ new = old /\ t.pc \in {"complete", "fail"}
     /\ u.pc = "finishing" /\ u.copy.claimedBy = NoNode
  \/ /\ t.pc = "starting" /\ t.copy.etag \in {NoETag, old.etag}
     /\ new.status = t.copy.status /\ new.claimedBy = t.copy.claimedBy
     /\ \/ u.pc = "none"
        \/ /\ u.pc = "run"
           /\ u.copy.status = new.status /\ u.copy.claimedBy = new.claimedBy
  \/ /\ t.pc = "run"
     /\ new.status \in {t.copy.status, "Complete"} /\ new.claimedBy = t.copy.claimedBy
     /\ \/ u.pc \in {"complete", "fail"}
        \/ /\ u.pc = "run"
           /\ u.copy.status = new.status /\ u.copy.claimedBy = new.claimedBy
  \/ /\ t.pc = "finishing" /\ u.pc = "none"
     /\ new.status = t.copy.status /\ new.claimedBy = t.copy.claimedBy

\* A task's step moves that task, and its document alone if any.
LEMMA TaskEffect ==
  ASSUME TypeInv, NEW w \in Worker, NEW j \in Job,
         TaskStep(w, j) \/ StartError(w, j) \/ RunError(w, j) \/ FinishError(w, j)
  PROVE  /\ Effect(task[w][j], task'[w][j], store[j], store'[j], NodeOf[w])
         /\ \A v \in Worker, k \in Job : <<v, k>> # <<w, j>> => task'[v][k] = task[v][k]
         /\ \A k \in Job : k # j => store'[k] = store[k]
         /\ UNCHANGED <<resets, claim, now, admin>>
<1> DEFINE t == task[w][j]
           u == task'[w][j]
<1>0. /\ task \in [Worker -> [Job -> TaskState]] /\ store \in [Job -> Doc]
      /\ t \in TaskState /\ t.copy \in Doc /\ store[j] \in Doc
  BY DEF TypeInv, TypeOK, TaskState
<1>1. UNCHANGED <<resets, claim, now, admin>>
  BY DEF TaskStep, AcquireSlot, StartFetch, StartWrite, SaveProgress,
       SaveUnconditionally, ReadToEnd, RunEnds, RunReturns, FinishFetch, FinishWrite,
       StartError, RunError, FinishError
\* An upsert that is refused changes nothing.
<1>2. ASSUME NEW d \in Doc, Upsert(j, d)
      PROVE  /\ \/ ~ Accepts(j, d) /\ UNCHANGED store
                \/ /\ Accepts(j, d) /\ d.etag \in {NoETag, store[j].etag}
                   /\ store'[j].status = d.status /\ store'[j].claimedBy = d.claimedBy
                   /\ store'[j] = Stored(j, d)
             /\ \A k \in Job : k # j => store'[k] = store[k]
  <2>1. CASE ~ Accepts(j, d)
    BY <1>2, <2>1 DEF Upsert
  <2>2. CASE Accepts(j, d)
    <3>1. store' = [store EXCEPT ![j] = Stored(j, d)]
      BY <1>2, <2>2 DEF Upsert, Put
    <3>2. Stored(j, d).status = d.status /\ Stored(j, d).claimedBy = d.claimedBy
      BY DEF Stored, Doc
    <3> QED BY <1>0, <2>2, <3>1, <3>2 DEF Accepts
  <2> QED BY <2>1, <2>2
<1>3. IdleTask.pc = "none"
  BY DEF IdleTask
<1> SUFFICES /\ Effect(t, u, store[j], store'[j], NodeOf[w])
             /\ \A v \in Worker, k \in Job : <<v, k>> # <<w, j>> => task'[v][k] = task[v][k]
             /\ \A k \in Job : k # j => store'[k] = store[k]
  BY <1>1
<1>4. CASE AcquireSlot(w, j)
  <2>1. /\ u.pc = "start" /\ UNCHANGED store
        /\ \A v \in Worker, k \in Job : <<v, k>> # <<w, j>> => task'[v][k] = task[v][k]
    BY <1>0, <1>4 DEF AcquireSlot, TaskState
  <2> QED BY <2>1 DEF Effect, Running
<1>5. CASE StartFetch(w, j)
  <2> DEFINE d == [store[j] EXCEPT !.status = "Processing"]
  <2>0. d.claimedBy = store[j].claimedBy
    BY <1>0 DEF Doc
  <2>1. CASE Startable(NodeOf[w], store[j])
    <3>1. task' = [task EXCEPT ![w][j].pc = "starting", ![w][j].copy = d]
      BY <1>5, <2>1 DEF StartFetch
    <3> HIDE DEF d
    <3>2. /\ u.pc = "starting" /\ u.copy = d
          /\ \A v \in Worker, k \in Job : <<v, k>> # <<w, j>> => task'[v][k] = task[v][k]
      BY <1>0, <3>1 DEF TaskState
    <3>3. UNCHANGED store
      BY <1>5 DEF StartFetch
    <3> QED BY <2>0, <2>1, <3>2, <3>3 DEF Effect, Startable
  <2>2. CASE ~ Startable(NodeOf[w], store[j])
    <3>1. task' = [task EXCEPT ![w][j] = IdleTask] /\ UNCHANGED store
      BY <1>5, <2>2 DEF StartFetch
    <3> QED BY <1>0, <1>3, <3>1 DEF Effect, Running
  <2> QED BY <2>1, <2>2
<1>6. CASE StartWrite(w, j)
  <2> DEFINE d == Stored(j, t.copy)
  <2>1. Upsert(j, t.copy) /\ t.pc = "starting"
    BY <1>6 DEF StartWrite
  <2>2. CASE Accepts(j, t.copy)
    <3>1. task' = [task EXCEPT ![w][j].pc = "run", ![w][j].copy = d]
      BY <1>6, <2>2 DEF StartWrite
    <3>2. store'[j] = d
      BY <1>0, <1>2, <2>1, <2>2
    <3> HIDE DEF d
    <3>3. /\ u.pc = "run" /\ u.copy = d
          /\ \A v \in Worker, k \in Job : <<v, k>> # <<w, j>> => task'[v][k] = task[v][k]
      BY <1>0, <3>1 DEF TaskState
    <3> QED BY <1>0, <1>2, <2>1, <2>2, <3>2, <3>3 DEF Effect
  <2>3. CASE ~ Accepts(j, t.copy)
    <3>1. task' = [task EXCEPT ![w][j] = IdleTask] /\ UNCHANGED store
      BY <1>6, <2>1, <2>3 DEF StartWrite, Upsert
    <3> QED BY <1>0, <1>3, <3>1 DEF Effect, Running
  <2> QED BY <2>2, <2>3
<1>7. CASE StartError(w, j)
  <2>1. task' = [task EXCEPT ![w][j] = IdleTask]
    BY <1>7 DEF StartError
  <2>2. /\ u.pc = "none"
        /\ \A v \in Worker, k \in Job : <<v, k>> # <<w, j>> => task'[v][k] = task[v][k]
    BY <1>0, <1>3, <2>1
  <2>3. CASE UNCHANGED store
    BY <2>2, <2>3 DEF Effect, Running
  <2>4. CASE t.pc = "starting" /\ Upsert(j, t.copy)
    BY <1>0, <1>2, <2>2, <2>4 DEF Effect, Running
  <2> QED BY <1>7, <2>3, <2>4 DEF StartError
<1>8. CASE SaveProgress(w, j)
  <2>1. Upsert(j, t.copy) /\ t.pc = "run"
    BY <1>8 DEF SaveProgress
  <2>2. /\ u.pc = (IF Accepts(j, t.copy) THEN "run" ELSE "fail") /\ u.copy = t.copy
        /\ \A v \in Worker, k \in Job : <<v, k>> # <<w, j>> => task'[v][k] = task[v][k]
    BY <1>0, <1>8 DEF SaveProgress, TaskState
  <2> QED BY <1>0, <1>2, <2>1, <2>2 DEF Effect, Running
<1>9. CASE SaveUnconditionally(w, j)
  <2> DEFINE d == [t.copy EXCEPT !.etag = NoETag]
  <2>1. d \in Doc
    BY <1>0, DocUpdate
  <2>2. d.status = t.copy.status /\ d.claimedBy = t.copy.claimedBy /\ d.etag = NoETag
    BY <1>0 DEF Doc
  <2>3. Put(j, d) /\ t.pc = "run"
    BY <1>9 DEF SaveUnconditionally
  <2>4. task' = [task EXCEPT ![w][j].copy = d, ![w][j].saves = @ + 1]
    BY <1>9 DEF SaveUnconditionally
  <2> HIDE DEF d
  <2>5. /\ u.pc = t.pc /\ u.copy = d
        /\ \A v \in Worker, k \in Job : <<v, k>> # <<w, j>> => task'[v][k] = task[v][k]
    BY <1>0, <2>4 DEF TaskState
  <2>6. Upsert(j, d) /\ Accepts(j, d)
    BY <2>2, <2>3 DEF Upsert, Accepts
  <2> QED BY <1>2, <2>1, <2>2, <2>3, <2>5, <2>6 DEF Effect
<1>10. CASE ReadToEnd(w, j) \/ RunEnds(w, j)
  <2> DEFINE d == [t.copy EXCEPT !.status = "Complete"]
  <2>1. d \in Doc
    BY <1>0, DocUpdate DEF Status
  <2>2. d.status = "Complete" /\ d.claimedBy = t.copy.claimedBy
    BY <1>0 DEF Doc
  <2>3. PICK p \in {"run", "complete"} :
          /\ task' = [task EXCEPT ![w][j].pc = IF Accepts(j, d) THEN p ELSE "fail",
                                  ![w][j].copy = d]
          /\ Upsert(j, d) /\ t.pc = "run"
    BY <1>10 DEF ReadToEnd, RunEnds
  <2> HIDE DEF d
  <2>4. /\ u.pc = (IF Accepts(j, d) THEN p ELSE "fail") /\ u.copy = d
        /\ \A v \in Worker, k \in Job : <<v, k>> # <<w, j>> => task'[v][k] = task[v][k]
    BY <1>0, <2>3 DEF TaskState
  <2> QED BY <1>2, <2>1, <2>2, <2>3, <2>4 DEF Effect, Running
<1>11. CASE RunReturns(w, j)
  <2>1. /\ t.pc = "run" /\ u.pc = "complete" /\ UNCHANGED store
        /\ \A v \in Worker, k \in Job : <<v, k>> # <<w, j>> => task'[v][k] = task[v][k]
    BY <1>0, <1>11 DEF RunReturns, TaskState
  <2> QED BY <2>1 DEF Effect, Running
<1>12. CASE RunError(w, j)
  <2>1. /\ t.pc = "run" /\ u.pc = "fail"
        /\ \A v \in Worker, k \in Job : <<v, k>> # <<w, j>> => task'[v][k] = task[v][k]
    BY <1>0, <1>12 DEF RunError, TaskState
  <2>2. CASE UNCHANGED store
    BY <2>1, <2>2 DEF Effect, Running
  <2>3. ASSUME NEW s \in {t.copy.status, "Complete"},
               Upsert(j, [t.copy EXCEPT !.status = s])
        PROVE  /\ Effect(t, u, store[j], store'[j], NodeOf[w])
               /\ \A k \in Job : k # j => store'[k] = store[k]
    <3> DEFINE d == [t.copy EXCEPT !.status = s]
    <3>1. s \in Status
      BY <1>0 DEF Doc, Status
    <3>2. d \in Doc
      BY <1>0, <3>1, DocUpdate
    <3>3. d.status = s /\ d.claimedBy = t.copy.claimedBy
      BY <1>0 DEF Doc
    <3>4. Upsert(j, d)
      BY <2>3
    <3> HIDE DEF d
    <3> QED BY <1>2, <2>1, <3>2, <3>3, <3>4 DEF Effect, Running
  <2> QED BY <1>12, <2>1, <2>2, <2>3 DEF RunError
<1>13. CASE FinishFetch(w, j)
  <2>1. CASE store[j].claimedBy = NodeOf[w]
    <3> DEFINE d == [store[j] EXCEPT
                       !.status = IF t.pc = "complete" THEN "Complete" ELSE "Failed",
                       !.claimedBy = NoNode]
    <3>1. d.claimedBy = NoNode
      BY <1>0 DEF Doc
    <3>2. UNCHANGED store /\ t.pc \in {"complete", "fail"}
      BY <1>13 DEF FinishFetch
    <3>3. task' = [task EXCEPT ![w][j].pc = "finishing", ![w][j].copy = d]
      BY <1>13, <2>1 DEF FinishFetch
    <3> HIDE DEF d
    <3>4. /\ u.pc = "finishing" /\ u.copy = d
          /\ \A v \in Worker, k \in Job : <<v, k>> # <<w, j>> => task'[v][k] = task[v][k]
      BY <1>0, <3>3 DEF TaskState
    <3> QED BY <3>1, <3>2, <3>4 DEF Effect
  <2>2. CASE store[j].claimedBy # NodeOf[w]
    <3>1. task' = [task EXCEPT ![w][j] = IdleTask] /\ UNCHANGED store
      BY <1>13, <2>2 DEF FinishFetch
    <3> QED BY <1>0, <1>3, <3>1 DEF Effect, Running
  <2> QED BY <2>1, <2>2
<1>14. CASE FinishWrite(w, j)
  <2>1. /\ task' = [task EXCEPT ![w][j] = IdleTask] /\ Upsert(j, t.copy)
        /\ t.pc = "finishing"
    BY <1>14 DEF FinishWrite
  <2>2. /\ u.pc = "none"
        /\ \A v \in Worker, k \in Job : <<v, k>> # <<w, j>> => task'[v][k] = task[v][k]
    BY <1>0, <1>3, <2>1
  <2> QED BY <1>0, <1>2, <2>1, <2>2 DEF Effect, Running
<1>15. CASE FinishError(w, j)
  <2>1. task' = [task EXCEPT ![w][j] = IdleTask] /\ UNCHANGED store
    BY <1>15 DEF FinishError
  <2> QED BY <1>0, <1>3, <2>1 DEF Effect, Running
<1> HIDE DEF t, u
<1> QED BY <1>4, <1>5, <1>6, <1>7, <1>8, <1>9, <1>10, <1>11, <1>12, <1>13, <1>14, <1>15
        DEF TaskStep

-----------------------------------------------------------------------------
(* What a step does to the document of a job that nobody reset.            *)

Progress(old, new, time) ==
  \/ new = old
  \/ /\ \E t \in Nat : t <= time /\ Claimable(old, t)
     /\ new.status = "Claiming"
  \/ /\ old.status \in {"Pending", "Claiming"} /\ new.status = "Processing"
     /\ new.claimedBy = old.claimedBy /\ old.claimedBy \in Node
  \/ /\ old.status \in {"Processing", "Complete"} /\ new.status \in {old.status, "Complete"}
     /\ new.claimedBy = old.claimedBy
  \/ /\ old.status \in {"Processing", "Complete"} /\ new.status \in {"Complete", "Failed"}
     /\ new.claimedBy = NoNode

\* A task keeps to its node, ...
LEMMA EffectNode ==
  ASSUME NEW n, NEW t, NEW u, NEW old, NEW new,
         Effect(t, u, old, new, n), TaskNode(t, n, old)
  PROVE  TaskNode(u, n, new)
BY DEF Effect, TaskNode, Running

\* ... and takes the document it owns forward.
LEMMA EffectProgress ==
  ASSUME NEW n \in Node, NEW t, NEW u, NEW old, NEW new, NEW time,
         Effect(t, u, old, new, n), TaskNode(t, n, old), TaskCopy(t, old), Owned(t, n, old)
  PROVE  Progress(old, new, time) /\ Owned(u, n, new)
<1>1. CASE new = old /\ u.pc \notin Running
  BY <1>1 DEF Progress, Owned
<1>2. CASE new = old /\ t.pc \in Running /\ u.pc \in {"complete", "fail", "finishing"}
  BY <1>2 DEF Progress, Owned
<1>3. CASE /\ t.pc = "starting" /\ t.copy.etag \in {NoETag, old.etag}
           /\ new.status = t.copy.status /\ new.claimedBy = t.copy.claimedBy
           /\ \/ u.pc = "none"
              \/ /\ u.pc = "run"
                 /\ u.copy.status = new.status /\ u.copy.claimedBy = new.claimedBy
  BY <1>3 DEF TaskNode, TaskCopy, Fresh, Progress, Owned, Running
<1>4. CASE /\ t.pc = "run"
           /\ new.status \in {t.copy.status, "Complete"} /\ new.claimedBy = t.copy.claimedBy
           /\ \/ u.pc \in {"complete", "fail"}
              \/ /\ u.pc = "run"
                 /\ u.copy.status = new.status /\ u.copy.claimedBy = new.claimedBy
  BY <1>4 DEF TaskNode, Progress, Owned, Running
<1>5. CASE /\ t.pc = "finishing" /\ u.pc = "none"
           /\ new.status = t.copy.status /\ new.claimedBy = t.copy.claimedBy
  BY <1>5 DEF TaskNode, TaskCopy, Progress, Owned, Running
<1> QED BY <1>1, <1>2, <1>3, <1>4, <1>5 DEF Effect, Running

\* What a step of a claim pass does.
LEMMA ClaimEffect ==
  ASSUME TypeInv, NEW w \in Worker, ClaimStep(w) \/ ClaimError(w)
  PROVE  /\ \/ UNCHANGED store
            \/ claim[w].pc = "write" /\ Upsert(claim[w].job, claim[w].copy)
         /\ \A v \in Worker, k \in Job : task'[v][k] = task[v][k] \/ task'[v][k].pc = "wait"
         /\ \A v \in Worker : v # w => claim'[v] = claim[v]
         /\ \/ claim'[w].pc \in {"idle", "tasks"}
            \/ claim'[w].pc = "fetch" /\ claim'[w].now = now
            \/ /\ claim[w].pc \in {"fetch", "write"}
               /\ claim'[w].pc = "fetch" /\ claim'[w].now = claim[w].now
            \/ /\ claim[w].pc = "fetch" /\ UNCHANGED store
               /\ claim'[w].pc = "write" /\ claim'[w].now = claim[w].now
               /\ claim'[w].job \in Job
               /\ claim'[w].copy = Claimed(w, store[claim'[w].job])
               /\ Claimable(store[claim'[w].job], claim[w].now)
         /\ UNCHANGED <<resets, now, admin>>
<1>0. /\ claim \in [Worker -> ClaimState] /\ claim[w] \in ClaimState
      /\ task \in [Worker -> [Job -> TaskState]]
  BY DEF TypeInv, TypeOK
<1>1. CASE ClaimQuery(w)
  BY <1>0, <1>1 DEF ClaimQuery, ClaimState
<1>2. CASE ClaimFetch(w)
  <2>1. PICK j \in Job :
          claim' = IF Claimable(store[j], claim[w].now)
                   THEN [claim EXCEPT ![w].pc = "write", ![w].job = j,
                                      ![w].copy = Claimed(w, store[j])]
                   ELSE [claim EXCEPT ![w].cands = @ \ {j}]
    BY <1>2 DEF ClaimFetch
  <2>2. UNCHANGED <<store, now, task, admin, resets>> /\ claim[w].pc = "fetch"
    BY <1>2 DEF ClaimFetch
  <2>3. CASE Claimable(store[j], claim[w].now)
    <3>1. /\ claim'[w].pc = "write" /\ claim'[w].job = j /\ claim'[w].now = claim[w].now
          /\ claim'[w].copy = Claimed(w, store[j])
          /\ \A v \in Worker : v # w => claim'[v] = claim[v]
      BY <1>0, <2>1, <2>3 DEF ClaimState
    <3> QED BY <2>2, <2>3, <3>1
  <2>4. CASE ~ Claimable(store[j], claim[w].now)
    <3>1. /\ claim'[w].pc = claim[w].pc /\ claim'[w].now = claim[w].now
          /\ \A v \in Worker : v # w => claim'[v] = claim[v]
      BY <1>0, <2>1, <2>4 DEF ClaimState
    <3> QED BY <2>2, <3>1
  <2> QED BY <2>3, <2>4
<1>3. CASE ClaimWrite(w)
  <2>1. /\ claim[w].pc = "write" /\ Upsert(claim[w].job, claim[w].copy)
        /\ UNCHANGED <<now, task, admin, resets>>
    BY <1>3 DEF ClaimWrite
  <2>2. /\ claim'[w].pc = "fetch" /\ claim'[w].now = claim[w].now
        /\ \A v \in Worker : v # w => claim'[v] = claim[v]
    BY <1>0, <1>3 DEF ClaimWrite, ClaimState
  <2> QED BY <2>1, <2>2
<1>4. CASE ClaimError(w)
  <2>1. /\ \/ UNCHANGED store
           \/ claim[w].pc = "write" /\ Upsert(claim[w].job, claim[w].copy)
        /\ UNCHANGED <<now, task, admin, resets>>
    BY <1>4 DEF ClaimError
  <2>2. /\ claim[w].pc \in {"fetch", "write"}
        /\ claim'[w].pc = "fetch" /\ claim'[w].now = claim[w].now
        /\ \A v \in Worker : v # w => claim'[v] = claim[v]
    BY <1>0, <1>4 DEF ClaimError, ClaimState
  <2> QED BY <2>1, <2>2
<1>5. CASE ClaimEnd(w)
  <2>1. UNCHANGED <<store, now, admin, resets>>
    BY <1>5 DEF ClaimEnd
  <2>2. /\ claim'[w].pc \in {"idle", "tasks"}
        /\ \A v \in Worker : v # w => claim'[v] = claim[v]
    BY <1>0, <1>5 DEF ClaimEnd, IdleClaim
  <2>3. \A v \in Worker, k \in Job : task'[v][k] = task[v][k] \/ task'[v][k].pc = "wait"
    BY <1>0, <1>5 DEF ClaimEnd, IdleTask
  <2> QED BY <2>1, <2>2, <2>3
<1>6. CASE TasksDone(w)
  BY <1>0, <1>6 DEF TasksDone, ClaimState
<1> QED BY <1>1, <1>2, <1>3, <1>4, <1>5, <1>6 DEF ClaimStep

\* A claim that the store takes is of a document that was free to claim.
LEMMA ClaimProgress ==
  ASSUME OInv, NEW w \in Worker, ClaimStep(w) \/ ClaimError(w), NEW k \in Job
  PROVE  Progress(store[k], store'[k], now)
<1>1. TypeInv /\ ClaimCopies
  BY DEF OInv, IInv
<1>2. CASE UNCHANGED store
  BY <1>2 DEF Progress
<1>3. CASE claim[w].pc = "write" /\ Upsert(claim[w].job, claim[w].copy)
  <2> DEFINE c == claim[w]
             j == claim[w].job
  <2>1. /\ j \in Job /\ c.copy \in Doc /\ c.now \in Nat
        /\ Fresh(c.copy.etag, store[j]) /\ ClaimLook(c, store[j], now)
    BY <1>1, <1>3 DEF TypeInv, TypeOK, InFlight, ClaimState, ClaimCopies, OInv, ClaimLooks
  <2>2. CASE store'[k] = store[k]
    BY <2>2 DEF Progress
  <2>3. CASE k = j /\ Accepts(j, c.copy) /\ store'[k].status = c.copy.status
    <3>1. c.copy.etag = store[j].etag
      BY <2>1, <2>3 DEF Accepts, Fresh
    <3>2. Claimable(store[j], c.now) /\ c.now <= now /\ c.copy.status = "Claiming"
      BY <1>3, <2>1, <3>1 DEF ClaimLook
    <3> HIDE DEF c, j
    <3> QED BY <2>1, <2>3, <3>2 DEF Progress
  <2> HIDE DEF c, j
  <2>4. Upsert(j, c.copy)
    BY <1>3 DEF c, j
  <2> QED BY <1>1, <2>1, <2>2, <2>3, <2>4, Written
<1> QED BY <1>1, <1>2, <1>3, ClaimEffect

\* The operator's steps.
LEMMA OperatorEffect ==
  ASSUME OInv, Operator
  PROVE  /\ \A k \in Job : resets[k] # 0 => resets'[k] # 0
         /\ \A k \in Job : resets'[k] = 0 => store'[k] = store[k]
         /\ \A k \in Job : store'[k] = store[k] \/ store'[k].claimedBy = NoNode
         /\ UNCHANGED <<task, claim, now>>
         /\ AdminPaid'
<1>0. /\ TypeInv /\ AdminPaid /\ admin \in AdminState /\ resets \in [Job -> Nat]
      /\ store \in [Job -> Doc] /\ admin.copy \in Doc
      /\ admin.pc # "idle" => admin.job \in Job
  BY DEF OInv, IInv, TypeInv, TypeOK, InFlight, AdminState
<1>1. ASSUME NEW j \in Job, ResetFetch(j)
      PROVE  /\ UNCHANGED <<store, resets, task, claim, now>>
             /\ admin'.pc = "reset" /\ admin'.copy.claimedBy = NoNode
  <2>1. [store[j] EXCEPT !.status = "Pending", !.claimedBy = NoNode].claimedBy = NoNode
    BY <1>0 DEF Doc
  <2> QED BY <1>1, <2>1 DEF ResetFetch
<1>2. CASE ResetWrite
  <2> DEFINE j == admin.job
  <2>1. /\ admin.pc = "reset" /\ j \in Job /\ Upsert(j, admin.copy)
        /\ admin.copy.claimedBy = NoNode
        /\ UNCHANGED <<task, claim, now>>
    BY <1>0, <1>2 DEF ResetWrite, AdminPaid
  <2>2. CASE Accepts(j, admin.copy)
    <3>1. resets' = [resets EXCEPT ![j] = @ + 1]
      BY <1>2, <2>2 DEF ResetWrite
    <3>2. resets'[j] # 0 /\ \A k \in Job : k # j => resets'[k] = resets[k]
      BY <1>0, <2>1, <3>1
    <3>3. /\ admin'.pc = "again" /\ admin'.job = j
          /\ admin'.copy = Stored(j, admin.copy)
      BY <1>0, <1>2, <2>2 DEF ResetWrite, AdminState
    <3>4. Stored(j, admin.copy).claimedBy = NoNode
      BY <1>0, <2>1 DEF Stored, Doc
    <3>5. \A k \in Job : \/ store'[k] = store[k]
                         \/ k = j /\ store'[k].claimedBy = NoNode
      BY <1>0, <2>1, Written
    <3> HIDE DEF j
    <3> QED BY <2>1, <3>2, <3>3, <3>4, <3>5 DEF AdminPaid
  <2>3. CASE ~ Accepts(j, admin.copy)
    <3>1. UNCHANGED <<store, resets>>
      BY <1>2, <2>1, <2>3 DEF ResetWrite, Upsert
    <3>2. admin'.pc = "idle"
      BY <1>0, <1>2, <2>3 DEF ResetWrite, AdminState
    <3> QED BY <2>1, <3>1, <3>2 DEF AdminPaid
  <2> QED BY <2>2, <2>3
<1>3. CASE ResetAgain
  <2>1. /\ admin.pc = "again" /\ admin.job \in Job /\ Upsert(admin.job, admin.copy)
        /\ admin.copy.claimedBy = NoNode /\ resets[admin.job] # 0
        /\ UNCHANGED <<task, claim, now, resets>>
    BY <1>0, <1>3 DEF ResetAgain, AdminPaid
  <2>2. admin'.pc = "idle"
    BY <1>0, <1>3 DEF ResetAgain, AdminState
  <2>3. \A k \in Job : \/ store'[k] = store[k]
                       \/ k = admin.job /\ store'[k].claimedBy = NoNode
    BY <1>0, <2>1, Written
  <2> QED BY <2>1, <2>2, <2>3 DEF AdminPaid
<1> QED BY <1>1, <1>2, <1>3 DEF Operator, AdminPaid

\* Time passes, nodes come and go; what was in memory may be lost.
LEMMA EnvironmentEffect ==
  ASSUME TypeInv, Tick \/ \E n \in Node : Crash(n) \/ Restart(n)
  PROVE  /\ UNCHANGED <<store, resets, admin>>
         /\ now' \in Nat /\ now <= now'
         /\ \A v \in Worker : claim'[v] = claim[v] \/ claim'[v].pc = "idle"
         /\ \A v \in Worker, k \in Job : task'[v][k] = task[v][k] \/ task'[v][k].pc = "none"
<1>0. now \in Nat
  BY DEF TypeInv, TypeOK
<1>1. CASE Tick
  BY <1>0, <1>1 DEF Tick
<1>2. ASSUME NEW n \in Node, Crash(n)
      PROVE  /\ UNCHANGED <<store, resets, admin, now>>
             /\ \A v \in Worker : claim'[v] = claim[v] \/ claim'[v].pc = "idle"
             /\ \A v \in Worker, k \in Job :
                  task'[v][k] = task[v][k] \/ task'[v][k].pc = "none"
  BY <1>2 DEF Crash, IdleClaim, IdleTask
<1>3. ASSUME NEW n \in Node, Restart(n)
      PROVE  UNCHANGED <<store, resets, admin, now, claim, task>>
  BY <1>3 DEF Restart
<1> QED BY <1>0, <1>1, <1>2, <1>3

-----------------------------------------------------------------------------
(* The invariant is kept.                                                  *)

\* What a step leaves alone of a claim pass or a task stays true of it.
LEMMA IdleKeeps ==
  ASSUME OInv, Next, now' \in Nat, now <= now', NEW v \in Worker, NEW k \in Job
  PROVE  /\ claim'[v] = claim[v] =>
              (claim'[v].pc = "fetch" \/ (claim'[v].pc = "write" /\ claim'[v].job = k) =>
                 ClaimLook(claim'[v], store'[k], now'))
         /\ task'[v][k] = task[v][k] => TaskNode(task'[v][k], NodeOf[v], store'[k])
<1>0. /\ TypeInv /\ ClaimCopies /\ TaskCopies /\ ClaimLooks /\ TaskNodes
      /\ claim[v] \in ClaimState /\ claim[v].copy.etag \in Nat /\ claim[v].now \in Nat
      /\ task[v][k].copy.etag \in Nat /\ store[k].etag \in Nat /\ now \in Nat
  BY DEF OInv, IInv, TypeInv, TypeOK, ClaimState, TaskState, Doc
<1>1. store'[k] = store[k] \/ store'[k].etag = store[k].etag + 1
  BY <1>0, Moves
<1>2. ASSUME claim'[v] = claim[v],
             claim[v].pc = "fetch" \/ (claim[v].pc = "write" /\ claim[v].job = k)
      PROVE  ClaimLook(claim'[v], store'[k], now')
  <2> DEFINE c == claim[v]
  <2>1. ClaimLook(c, store[k], now)
    BY <1>0, <1>2 DEF ClaimLooks
  <2>2. c.pc = "write" => c.copy.etag <= store[k].etag
    BY <1>0, <1>2 DEF ClaimCopies, Fresh
  <2>3. c.now <= now'
    BY <1>0, <2>1 DEF ClaimLook
  <2>4. c.pc = "write" /\ c.copy.etag = store'[k].etag => store'[k] = store[k]
    BY <1>0, <1>1, <2>2
  <2> QED BY <1>2, <2>1, <2>3, <2>4 DEF ClaimLook
<1>3. ASSUME task'[v][k] = task[v][k]
      PROVE  TaskNode(task'[v][k], NodeOf[v], store'[k])
  <2> DEFINE t == task[v][k]
  <2>1. TaskNode(t, NodeOf[v], store[k])
    BY <1>0 DEF TaskNodes
  <2>2. t.pc = "starting" => t.copy.etag <= store[k].etag
    BY <1>0 DEF TaskCopies, TaskCopy, Fresh
  <2>3. t.pc = "starting" /\ t.copy.etag = store'[k].etag => store'[k] = store[k]
    BY <1>0, <1>1, <2>2
  <2> QED BY <1>3, <2>1, <2>3 DEF TaskNode
<1> QED BY <1>2, <1>3

LEMMA ClaimingKeeps ==
  ASSUME OInv, Next, NEW w \in Worker, ClaimStep(w) \/ ClaimError(w)
  PROVE  ClaimLooks' /\ TaskNodes' /\ Owners' /\ Unclaimed' /\ AdminPaid'
<1>0. /\ TypeInv /\ ClaimLooks /\ Owners /\ Unclaimed /\ AdminPaid
      /\ now \in Nat /\ claim[w] \in ClaimState /\ store \in [Job -> Doc]
  BY DEF OInv, IInv, TypeInv, TypeOK
<1>1. UNCHANGED <<resets, now, admin>>
  BY <1>0, ClaimEffect
<1>2. ClaimLooks'
  <2> SUFFICES ASSUME NEW v \in Worker, NEW k \in Job,
                      claim'[v].pc = "fetch" \/ (claim'[v].pc = "write" /\ claim'[v].job = k)
               PROVE  ClaimLook(claim'[v], store'[k], now')
    BY DEF ClaimLooks
  <2>1. CASE v # w
    BY <1>0, <1>1, <2>1, ClaimEffect, IdleKeeps
  <2>2. CASE v = w /\ claim'[w].pc = "fetch"
    <3>1. \/ claim'[w].now = now
          \/ claim[w].pc \in {"fetch", "write"} /\ claim'[w].now = claim[w].now
      BY <1>0, <2>2, ClaimEffect
    <3>2. claim[w].pc \in {"fetch", "write"} => claim[w].now <= now
      <4>1. claim[w].pc = "write" => claim[w].job \in Job
        BY <1>0 DEF TypeInv, InFlight
      <4> QED BY <1>0, <4>1 DEF ClaimLooks, ClaimLook
    <3>3. claim'[w].now <= now
      BY <1>0, <3>1, <3>2
    <3> QED BY <1>1, <2>2, <3>3 DEF ClaimLook
  <2>3. CASE v = w /\ claim'[w].pc = "write" /\ claim'[w].job = k
    <3>1. /\ claim[w].pc = "fetch" /\ UNCHANGED store
          /\ claim'[w].now = claim[w].now
          /\ claim'[w].copy = Claimed(w, store[k])
          /\ Claimable(store[k], claim[w].now)
      BY <1>0, <2>3, ClaimEffect
    <3>2. claim[w].now <= now
      BY <1>0, <3>1 DEF ClaimLooks, ClaimLook
    <3>3. claim'[w].copy.status = "Claiming"
      BY <1>0, <3>1 DEF Claimed, Doc
    <3> QED BY <1>1, <2>3, <3>1, <3>2, <3>3 DEF ClaimLook
  <2> QED BY <2>1, <2>2, <2>3
<1>3. TaskNodes'
  <2> SUFFICES ASSUME NEW v \in Worker, NEW k \in Job
               PROVE  TaskNode(task'[v][k], NodeOf[v], store'[k])
    BY DEF TaskNodes
  <2>1. CASE task'[v][k] = task[v][k]
    BY <1>0, <1>1, <2>1, IdleKeeps
  <2>2. CASE task'[v][k].pc = "wait"
    BY <2>2 DEF TaskNode
  <2> QED BY <1>0, <2>1, <2>2, ClaimEffect
<1>4. Owners'
  <2> SUFFICES ASSUME NEW v \in Worker, NEW k \in Job, resets[k] = 0
               PROVE  Owned(task'[v][k], NodeOf[v], store'[k])
    BY <1>1 DEF Owners
  <2>1. CASE task'[v][k].pc \notin Running
    BY <2>1 DEF Owned
  <2>2. CASE task'[v][k] = task[v][k] /\ task[v][k].pc \in Running
    <3>1. Owned(task[v][k], NodeOf[v], store[k]) /\ store[k].status \in {"Processing", "Complete"}
      BY <1>0, <2>2 DEF Owners, Owned
    <3>2. store'[k] = store[k]
      <4>1. CASE UNCHANGED store
        BY <4>1
      <4>2. CASE claim[w].pc = "write" /\ Upsert(claim[w].job, claim[w].copy)
        <5>1. claim[w].job \in Job /\ claim[w].copy \in Doc /\ claim[w].copy.etag \in Nat
          BY <1>0, <4>2 DEF TypeInv, InFlight, ClaimState, Doc
        <5>2. Fresh(claim[w].copy.etag, store[claim[w].job])
          BY <4>2 DEF OInv, IInv, ClaimCopies
        <5>3. k = claim[w].job /\ Accepts(k, claim[w].copy) => FALSE
          BY <3>1, <5>2 DEF Fresh, Accepts
        <5> QED BY <1>0, <4>2, <5>1, <5>3, Written
      <4> QED BY <1>0, <4>1, <4>2, ClaimEffect
    <3> QED BY <2>2, <3>1, <3>2
  <2> QED BY <1>0, <2>1, <2>2, ClaimEffect DEF Running
<1>5. Unclaimed'
  <2> SUFFICES ASSUME NEW k \in Job, resets[k] = 0, store'[k].status = "Pending"
               PROVE  store'[k].claimedBy = NoNode
    BY <1>1 DEF Unclaimed
  <2>1. Progress(store[k], store'[k], now)
    BY ClaimProgress
  <2>2. store'[k] = store[k]
    BY <2>1 DEF Progress
  <2> QED BY <1>0, <2>2 DEF Unclaimed
<1>6. AdminPaid'
  BY <1>0, <1>1 DEF AdminPaid
<1> QED BY <1>2, <1>3, <1>4, <1>5, <1>6

LEMMA RunningKeeps ==
  ASSUME OInv, Next, NEW w \in Worker, NEW j \in Job,
         TaskStep(w, j) \/ StartError(w, j) \/ RunError(w, j) \/ FinishError(w, j)
  PROVE  /\ ClaimLooks' /\ TaskNodes' /\ Owners' /\ Unclaimed' /\ AdminPaid'
         /\ \A k \in Job : resets[k] = 0 => Progress(store[k], store'[k], now)
<1> DEFINE t == task[w][j]
<1>0. /\ IInv /\ TypeInv /\ ClaimLooks /\ TaskNodes /\ Owners /\ Unclaimed /\ AdminPaid
      /\ now \in Nat /\ store \in [Job -> Doc]
      /\ NodeOf[w] \in Node /\ t.copy \in Doc
      /\ TaskNode(t, NodeOf[w], store[j]) /\ TaskCopy(t, store[j])
  BY ClaimAssumption DEF OInv, IInv, TypeInv, TypeOK, TaskNodes, TaskCopies, TaskState
<1>1. UNCHANGED <<resets, claim, now, admin>>
  BY <1>0, TaskEffect
<1>2. /\ Effect(t, task'[w][j], store[j], store'[j], NodeOf[w])
      /\ \A v \in Worker, k \in Job : <<v, k>> # <<w, j>> => task'[v][k] = task[v][k]
      /\ \A k \in Job : k # j => store'[k] = store[k]
  BY <1>0, TaskEffect
<1>3. ASSUME resets[j] = 0
      PROVE  /\ Progress(store[j], store'[j], now)
             /\ Owned(task'[w][j], NodeOf[w], store'[j])
  <2>1. Owned(t, NodeOf[w], store[j])
    BY <1>0, <1>3 DEF Owners
  <2> QED BY <1>0, <1>2, <2>1, EffectProgress
<1>4. \A k \in Job : resets[k] = 0 => Progress(store[k], store'[k], now)
  BY <1>2, <1>3 DEF Progress
<1>5. ClaimLooks'
  BY <1>0, <1>1, IdleKeeps DEF ClaimLooks
<1>6. TaskNodes'
  <2> SUFFICES ASSUME NEW v \in Worker, NEW k \in Job
               PROVE  TaskNode(task'[v][k], NodeOf[v], store'[k])
    BY DEF TaskNodes
  <2>1. CASE v = w /\ k = j
    BY <1>0, <1>2, <2>1, EffectNode
  <2>2. CASE ~ (v = w /\ k = j)
    BY <1>0, <1>1, <1>2, <2>2, IdleKeeps
  <2> QED BY <2>1, <2>2
<1>7. Owners'
  <2> SUFFICES ASSUME NEW v \in Worker, NEW k \in Job, resets[k] = 0
               PROVE  Owned(task'[v][k], NodeOf[v], store'[k])
    BY <1>1 DEF Owners
  <2>1. CASE v = w /\ k = j
    BY <1>3, <2>1
  <2>2. CASE k # j
    BY <1>0, <1>2, <2>2 DEF Owners
  <2>3. CASE k = j /\ v # w
    <3>1. task'[v][k] = task[v][k]
      BY <1>2, <2>3
    <3>2. CASE task[v][k].pc \notin Running
      BY <3>1, <3>2 DEF Owned
    \* Somebody else runs the job: then w does not, and cannot start it.
    <3>3. CASE task[v][k].pc \in Running
      <4>1. v \in Runners(j)
        BY <2>3, <3>3 DEF Runners
      <4>2. t.pc \notin Running /\ ~ Open(j)
        BY <1>0, <2>3, <4>1, OneRunner DEF Runners
      <4>3. t.pc = "starting" => t.copy.etag \notin {NoETag, store[j].etag}
        BY <1>0, <4>2 DEF TaskCopy, Fresh, Open
      <4>4. store'[j] = store[j]
        BY <1>2, <4>2, <4>3 DEF Effect, Running
      <4> QED BY <1>0, <2>3, <3>1, <4>4 DEF Owners
    <3> QED BY <3>2, <3>3
  <2> QED BY <2>1, <2>2, <2>3
<1>8. Unclaimed'
  <2> SUFFICES ASSUME NEW k \in Job, resets[k] = 0, store'[k].status = "Pending"
               PROVE  store'[k].claimedBy = NoNode
    BY <1>1 DEF Unclaimed
  <2>1. Progress(store[k], store'[k], now)
    BY <1>4
  <2>2. store'[k] = store[k]
    BY <2>1 DEF Progress
  <2> QED BY <1>0, <2>2 DEF Unclaimed
<1>9. AdminPaid'
  BY <1>0, <1>1 DEF AdminPaid
<1> QED BY <1>4, <1>5, <1>6, <1>7, <1>8, <1>9

LEMMA OperatorKeeps ==
  ASSUME OInv, Next, Operator
  PROVE  ClaimLooks' /\ TaskNodes' /\ Owners' /\ Unclaimed' /\ AdminPaid'
<1>0. /\ TypeInv /\ ClaimLooks /\ TaskNodes /\ Owners /\ Unclaimed /\ now \in Nat
      /\ UNCHANGED <<task, claim, now>>
      /\ \A k \in Job : resets'[k] = 0 => resets[k] = 0 /\ store'[k] = store[k]
  BY OperatorEffect DEF OInv, IInv, TypeInv, TypeOK
<1>1. ClaimLooks' /\ TaskNodes'
  BY <1>0, IdleKeeps DEF ClaimLooks, TaskNodes
<1>2. Owners'
  BY <1>0 DEF Owners
<1>3. Unclaimed'
  BY <1>0 DEF Unclaimed
<1> QED BY <1>1, <1>2, <1>3, OperatorEffect

LEMMA EnvironmentKeeps ==
  ASSUME OInv, Next, Tick \/ \E n \in Node : Crash(n) \/ Restart(n)
  PROVE  ClaimLooks' /\ TaskNodes' /\ Owners' /\ Unclaimed' /\ AdminPaid'
<1>0. TypeInv /\ ClaimLooks /\ TaskNodes /\ Owners /\ Unclaimed /\ AdminPaid
  BY DEF OInv, IInv
<1>1. /\ UNCHANGED <<store, resets, admin>>
      /\ now' \in Nat /\ now <= now'
      /\ \A v \in Worker : claim'[v] = claim[v] \/ claim'[v].pc = "idle"
      /\ \A v \in Worker, k \in Job : task'[v][k] = task[v][k] \/ task'[v][k].pc = "none"
  BY <1>0, EnvironmentEffect
<1>2. ClaimLooks'
  <2> SUFFICES ASSUME NEW v \in Worker, NEW k \in Job,
                      claim'[v].pc = "fetch" \/ (claim'[v].pc = "write" /\ claim'[v].job = k)
               PROVE  ClaimLook(claim'[v], store'[k], now')
    BY DEF ClaimLooks
  <2> QED BY <1>1, IdleKeeps
<1>3. TaskNodes'
  <2> SUFFICES ASSUME NEW v \in Worker, NEW k \in Job
               PROVE  TaskNode(task'[v][k], NodeOf[v], store'[k])
    BY DEF TaskNodes
  <2>1. CASE task'[v][k] = task[v][k]
    BY <1>1, <2>1, IdleKeeps
  <2>2. CASE task'[v][k].pc = "none"
    BY <2>2 DEF TaskNode
  <2> QED BY <1>1, <2>1, <2>2
<1>4. Owners'
  <2> SUFFICES ASSUME NEW v \in Worker, NEW k \in Job, resets[k] = 0
               PROVE  Owned(task'[v][k], NodeOf[v], store[k])
    BY <1>1 DEF Owners
  <2>1. CASE task'[v][k] = task[v][k]
    BY <1>0, <2>1 DEF Owners
  <2>2. CASE task'[v][k].pc = "none"
    BY <2>2 DEF Owned, Running
  <2> QED BY <1>1, <2>1, <2>2
<1>5. Unclaimed' /\ AdminPaid'
  BY <1>0, <1>1 DEF Unclaimed, AdminPaid
<1> QED BY <1>2, <1>3, <1>4, <1>5

LEMMA InitOwned == Init => OInv
<1> SUFFICES ASSUME Init PROVE OInv
  OBVIOUS
<1>1. IInv
  BY InitInvariant
<1>2. \A w \in Worker : claim[w].pc = "idle" /\ \A j \in Job : task[w][j].pc = "none"
  BY DEF Init, IdleClaim, IdleTask
<1>3. ClaimLooks /\ TaskNodes /\ Owners
  BY <1>2 DEF ClaimLooks, TaskNodes, TaskNode, Owners, Owned, Running
<1>4. Unclaimed /\ AdminPaid
  BY DEF Init, Unclaimed, AdminPaid, NewDoc
<1> QED BY <1>1, <1>3, <1>4 DEF OInv

LEMMA NextOwned == OInv /\ [Next]_vars => OInv'
<1> SUFFICES ASSUME OInv, [Next]_vars PROVE OInv'
  OBVIOUS
<1>1. IInv'
  BY NextInvariant DEF OInv
<1>2. CASE UNCHANGED vars
  BY <1>1, <1>2 DEF vars, OInv, ClaimLooks, TaskNodes, Owners, Unclaimed, AdminPaid
<1>3. CASE Next
  <2>1. ASSUME NEW w \in Worker, ClaimStep(w) \/ ClaimError(w)
        PROVE  ClaimLooks' /\ TaskNodes' /\ Owners' /\ Unclaimed' /\ AdminPaid'
    BY <1>3, <2>1, ClaimingKeeps
  <2>2. ASSUME NEW w \in Worker, NEW j \in Job,
               TaskStep(w, j) \/ StartError(w, j) \/ RunError(w, j) \/ FinishError(w, j)
        PROVE  ClaimLooks' /\ TaskNodes' /\ Owners' /\ Unclaimed' /\ AdminPaid'
    BY <1>3, <2>2, RunningKeeps
  <2>3. ASSUME Operator
        PROVE  ClaimLooks' /\ TaskNodes' /\ Owners' /\ Unclaimed' /\ AdminPaid'
    BY <1>3, <2>3, OperatorKeeps
  <2>4. ASSUME Tick \/ \E n \in Node : Crash(n) \/ Restart(n)
        PROVE  ClaimLooks' /\ TaskNodes' /\ Owners' /\ Unclaimed' /\ AdminPaid'
    BY <1>3, <2>4, EnvironmentKeeps
  <2> QED BY <1>1, <1>3, <2>1, <2>2, <2>3, <2>4 DEF Next, Errors, OInv
<1> QED BY <1>2, <1>3

\* The document of a job that nobody reset goes forward.
LEMMA StepProgress ==
  ASSUME OInv, Next, NEW k \in Job, resets[k] = 0
  PROVE  \/ Progress(store[k], store'[k], now)
         \/ resets'[k] # 0 /\ store'[k].claimedBy = NoNode
<1>0. TypeInv
  BY DEF OInv, IInv
<1>1. ASSUME NEW w \in Worker, ClaimStep(w) \/ ClaimError(w)
      PROVE  Progress(store[k], store'[k], now)
  BY <1>1, ClaimProgress
<1>2. ASSUME NEW w \in Worker, NEW j \in Job,
             TaskStep(w, j) \/ StartError(w, j) \/ RunError(w, j) \/ FinishError(w, j)
      PROVE  Progress(store[k], store'[k], now)
  BY <1>2, RunningKeeps
<1>3. CASE Operator
  BY <1>3, OperatorEffect DEF Progress
<1>4. CASE Tick \/ \E n \in Node : Crash(n) \/ Restart(n)
  BY <1>0, <1>4, EnvironmentEffect DEF Progress
<1> QED BY <1>1, <1>2, <1>3, <1>4 DEF Next, Errors

\* A reset is never forgotten.
LEMMA ResetsStay ==
  ASSUME OInv, Next, NEW k \in Job, resets'[k] = 0
  PROVE  resets[k] = 0
<1>0. TypeInv
  BY DEF OInv, IInv
<1>1. ASSUME NEW w \in Worker, ClaimStep(w) \/ ClaimError(w)
      PROVE  UNCHANGED resets
  BY <1>0, <1>1, ClaimEffect
<1>2. ASSUME NEW w \in Worker, NEW j \in Job,
             TaskStep(w, j) \/ StartError(w, j) \/ RunError(w, j) \/ FinishError(w, j)
      PROVE  UNCHANGED resets
  BY <1>0, <1>2, TaskEffect
<1>3. CASE Operator
  BY <1>3, OperatorEffect
<1>4. CASE Tick \/ \E n \in Node : Crash(n) \/ Restart(n)
  BY <1>0, <1>4, EnvironmentEffect
<1> QED BY <1>1, <1>2, <1>3, <1>4 DEF Next, Errors

-----------------------------------------------------------------------------
(* Theorems.                                                               *)

(***************************************************************************)
(* While a job nobody reset is run, its document is not up for a claim and *)
(* names the runner's node: CompleteJobAsync finds its own claim.          *)
(***************************************************************************)
THEOREM OwnerCorrect == Spec => []RunnerOwnsJob
<1>1. OInv => RunnerOwnsJob
  <2> SUFFICES ASSUME OInv, NEW j \in Job, NEW w \in Runners(j), resets[j] = 0
               PROVE  /\ store[j].status \in {"Processing", "Complete", "Failed"}
                      /\ store[j].status = "Processing" => store[j].claimedBy = NodeOf[w]
    BY DEF RunnerOwnsJob
  <2>1. w \in Worker /\ task[w][j].pc \in Running
    BY DEF Runners
  <2> QED BY <2>1 DEF OInv, Owners, Owned
<1> QED BY <1>1, InitOwned, NextOwned, PTL DEF Spec

(***************************************************************************)
(* A claim changes hands between nodes only after its lease ran out, and   *)
(* never once the claimant started the job.                                *)
(***************************************************************************)
THEOREM TakeoverCorrect == Spec => TakeoverOnlyExpired
<1> DEFINE Takeover ==
      \A j \in Job :
        LET a == store[j].claimedBy
            b == store'[j].claimedBy
        IN (a # NoNode /\ b # NoNode /\ a # b /\ resets[j] = 0) =>
             store[j].status = "Claiming" /\ store[j].exp < now
<1>1. OInv /\ [Next]_vars => [Takeover]_vars
  <2> SUFFICES ASSUME OInv, Next, NEW j \in Job, resets[j] = 0,
                      store[j].claimedBy # NoNode, store'[j].claimedBy # NoNode,
                      store[j].claimedBy # store'[j].claimedBy
               PROVE  store[j].status = "Claiming" /\ store[j].exp < now
    OBVIOUS
  <2>1. Progress(store[j], store'[j], now)
    BY StepProgress
  <2>2. PICK t \in Nat : t <= now /\ Claimable(store[j], t)
    BY <2>1 DEF Progress
  <2>3. store[j].status # "Pending"
    BY DEF OInv, Unclaimed
  <2>4. store[j].exp \in Nat /\ now \in Nat
    BY DEF OInv, IInv, TypeInv, TypeOK, Doc
  <2> QED BY <2>2, <2>3, <2>4 DEF Claimable
<1> HIDE DEF Takeover
<1>2. Spec => [][Takeover]_vars
  BY <1>1, InitOwned, NextOwned, PTL DEF Spec
<1> QED BY <1>2 DEF TakeoverOnlyExpired, Takeover

(***************************************************************************)
(* Without a reset no write takes a job back in its life cycle, though the *)
(* run's writes are of whole documents and partly unconditional.           *)
(***************************************************************************)
THEOREM LifecycleCorrect == Spec => LifecycleForward
<1> DEFINE Forward ==
      \A j \in Job : resets'[j] = 0 => Stage(store[j].status) <= Stage(store'[j].status)
<1>1. OInv /\ [Next]_vars => [Forward]_vars
  <2> SUFFICES ASSUME OInv, Next, NEW j \in Job, resets'[j] = 0
               PROVE  Stage(store[j].status) <= Stage(store'[j].status)
    OBVIOUS
  <2>1. Progress(store[j], store'[j], now)
    BY ResetsStay, StepProgress
  <2>2. store[j].status \in Status
    BY DEF OInv, IInv, TypeInv, TypeOK, Doc
  <2> QED BY <2>1, <2>2 DEF Progress, Claimable, Stage, Status
<1> HIDE DEF Forward
<1>2. Spec => [][Forward]_vars
  BY <1>1, InitOwned, NextOwned, PTL DEF Spec
<1> QED BY <1>2 DEF LifecycleForward, Forward

\* The operator does nothing when no job may be reset.
NoResets == admin.pc = "idle" /\ \A j \in Job : resets[j] = 0

LEMMA NeverReset == MaxResets = 0 /\ OInv /\ NoResets /\ [Next]_vars => NoResets'
<1> SUFFICES ASSUME MaxResets = 0, OInv, NoResets, Next PROVE NoResets'
  BY DEF NoResets, vars
<1>0. TypeInv
  BY DEF OInv, IInv
<1>1. ASSUME NEW w \in Worker, ClaimStep(w) \/ ClaimError(w)
      PROVE  UNCHANGED <<resets, admin>>
  BY <1>0, <1>1, ClaimEffect
<1>2. ASSUME NEW w \in Worker, NEW j \in Job,
             TaskStep(w, j) \/ StartError(w, j) \/ RunError(w, j) \/ FinishError(w, j)
      PROVE  UNCHANGED <<resets, admin>>
  BY <1>0, <1>2, TaskEffect
<1>3. ASSUME Operator
      PROVE  FALSE
  <2>1. \A j \in Job : ~ ResetFetch(j)
    BY DEF ResetFetch, NoResets
  <2>2. ~ ResetWrite /\ ~ ResetAgain
    BY DEF ResetWrite, ResetAgain, NoResets
  <2> QED BY <1>3, <2>1, <2>2 DEF Operator
<1>4. ASSUME Tick \/ \E n \in Node : Crash(n) \/ Restart(n)
      PROVE  UNCHANGED <<resets, admin>>
  BY <1>0, <1>4, EnvironmentEffect
<1> QED BY <1>1, <1>2, <1>3, <1>4 DEF Next, Errors, NoResets

\* Who runs a job, read off its document.
Holder(doc) == IF doc.status = "Processing" THEN doc.claimedBy ELSE NoNode

\* A document that goes forward starts its job, finishes it, or neither.
LEMMA ProgressPhase ==
  ASSUME NEW old \in Doc, NEW new \in Doc, NEW time, Progress(old, new, time)
  PROVE  \/ Phase(new) = Phase(old) /\ Holder(new) = Holder(old)
         \/ /\ Phase(old) = "open" /\ Phase(new) = "running"
            /\ Holder(new) \in Node
         \/ /\ Phase(old) = "running" /\ Phase(new) = "done"
            /\ Holder(new) = NoNode
BY DEF Progress, Claimable, Phase, Holder

(***************************************************************************)
(* Without resets the protocol implements the abstract queue, where a job  *)
(* is open until one node starts it and is finished once: for any number   *)
(* of nodes, workers, jobs, crashes and lost calls.                        *)
(***************************************************************************)
THEOREM QueueCorrect ==
  ASSUME MaxResets = 0
  PROVE  Spec => ImplementsJobQueue
<1>1. Init => Queue!Init
  <2> SUFFICES ASSUME Init PROVE Queue!Init
    OBVIOUS
  <2>1. \A j \in Job : Phase(store[j]) = "open" /\ store[j].status # "Processing"
    BY DEF Init, NewDoc, Phase
  <2> QED BY <2>1 DEF Queue!Init
<1>2. Init => NoResets
  BY DEF Init, NoResets
<1>3. OInv /\ NoResets /\ OInv' /\ [Next]_vars => [Queue!Next]_(Queue!vars)
  <2> SUFFICES ASSUME OInv, NoResets, OInv', [Next]_vars
               PROVE  [Queue!Next]_(Queue!vars)
    OBVIOUS
  <2>0. TypeInv /\ store \in [Job -> Doc] /\ store' \in [Job -> Doc]
    BY DEF OInv, IInv, TypeInv, TypeOK
  <2>1. CASE UNCHANGED store
    BY <2>1 DEF Queue!vars
  <2>2. ASSUME Next, NEW j \in Job, \A k \in Job : k # j => store'[k] = store[k]
        PROVE  [Queue!Next]_(Queue!vars)
    <3>1. Progress(store[j], store'[j], now)
      <4>1. resets'[j] = 0
        BY <2>2, NeverReset DEF NoResets
      <4> QED BY <2>2, <4>1, StepProgress DEF NoResets
    <3>2. CASE Phase(store'[j]) = Phase(store[j]) /\ Holder(store'[j]) = Holder(store[j])
      <4>1. \A k \in Job : /\ Phase(store'[k]) = Phase(store[k])
                           /\ Holder(store'[k]) = Holder(store[k])
        BY <2>2, <3>2
      <4> QED BY <4>1 DEF Queue!vars, Holder
    <3>3. CASE /\ Phase(store[j]) = "open" /\ Phase(store'[j]) = "running"
               /\ Holder(store'[j]) \in Node
      <4>1. PICK n \in Node : Holder(store'[j]) = n
        BY <3>3
      <4>2. Queue!Start(j, n)
        BY <2>2, <3>3, <4>1 DEF Queue!Start, Holder
      <4> QED BY <4>2 DEF Queue!Next
    <3>4. CASE /\ Phase(store[j]) = "running" /\ Phase(store'[j]) = "done"
               /\ Holder(store'[j]) = NoNode
      <4>1. Queue!Finish(j)
        BY <2>2, <3>4 DEF Queue!Finish, Holder
      <4> QED BY <4>1 DEF Queue!Next
    <3> QED BY <2>0, <3>1, <3>2, <3>3, <3>4, ProgressPhase
  <2>3. CASE Next
    <3>1. ASSUME NEW j \in Job, NEW doc \in Doc, Upsert(j, doc)
          PROVE  \A k \in Job : k # j => store'[k] = store[k]
      BY <2>0, <3>1, Written
    <3> QED BY <2>0, <2>1, <2>2, <2>3, <3>1, OneWrite
  <2> QED BY <2>1, <2>3 DEF vars
<1> QED BY <1>1, <1>2, <1>3, InitOwned, NextOwned, NeverReset, PTL
        DEF Spec, ImplementsJobQueue, Queue!Spec

=============================================================================
