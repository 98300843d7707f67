----------------------------- MODULE FileImport -----------------------------
(***************************************************************************)
(* The import of one blob.  EventGrid delivers the event that it was       *)
(* created at least once; each delivery runs CreateBatchJobsFromBlobUri:   *)
(* it looks for a batch file of that name, else stores one with its parent *)
(* job and uploads the lines, and at last stores a job for every chunk of  *)
(* a long file.  The workers of ChunkJobProcessor take the jobs as soon as *)
(* they are stored; how a claim is won and what a run of a job does in     *)
(* detail is in BatchJobClaim and BatchJobRun.                             *)
(***************************************************************************)
EXTENDS Integers, Sequences, FiniteSets

CONSTANTS
  Delivery,         \* deliveries of the event
  Worker,           \* nodes that run jobs, one at a time
  Nobody,           \* no worker, no delivery
  Lengths,          \* how many data lines the blob may have
  RecordsPerChunk   \* lines of a chunk, from the sizes of file and records

ASSUME ImportAssumption ==
  /\ Nobody \notin Delivery \cup Worker
  /\ IsFiniteSet(Delivery)
  /\ Lengths \subseteq Nat \ {0}
  /\ RecordsPerChunk \in Nat \ {0}

VARIABLES
  length,     \* the lines of the blob
  files,      \* the batch files stored for it, in the order of their creation
  jobs,       \* the job documents
  delivery,   \* what each delivery is doing
  worker,     \* what each worker is doing
  runs,       \* how often each line was processed
  since       \* history: deliveries that began since one was last cut short

vars == <<length, files, jobs, delivery, worker, runs, since>>

-----------------------------------------------------------------------------
(* Chunks.                                                                 *)

\* Mutated: the next chunk begins with the last line of the one before.
ChunksOverlap(n, size) ==
  LET from[line \in 1 .. n + size] ==
        IF line >= n THEN << >>
        ELSE LET end == IF line + size > n THEN n ELSE line + size
             IN <<line .. end>> \o from[end]
  IN from[1]

\* CreateChunksWithCompleteRecords: the file is read to its end, and a chunk
\* is cut after every so many lines; the last one has what is left.
Chunks(n, size) ==
  LET from[line \in 1 .. n + size] ==
        IF line > n THEN << >>
        ELSE LET end == IF line + size - 1 > n THEN n ELSE line + size - 1
             IN <<line .. end>> \o from[end + 1]
  IN from[1]

Split == Chunks(length, RecordsPerChunk)

\* One chunk, or a file no larger than a chunk: the file is not split.
Long == Len(Split) > 1

-----------------------------------------------------------------------------
(* Documents.                                                              *)

Line == UNION {1 .. n : n \in Lengths}

File == 1 .. Cardinality(Delivery)

\* The parent of a file has an id computed from the file's; a chunk job has a
\* new id in every delivery that stores it.
Parent(f) == <<f, 0, Nobody>>

ChunkNo == {k \in Line : (k - 1) * RecordsPerChunk + 1 \in Line}

JobId ==
  {Parent(f) : f \in File} \cup (File \X ChunkNo \X Delivery)

IsChunk(j) == j[2] # 0

Status == {"none", "pending", "processing", "complete", "failed"}

Job == [status: Status, owner: Worker \cup {Nobody}]

NoJob == [status |-> "none", owner |-> Nobody]

Pending == [status |-> "pending", owner |-> Nobody]

Stored(f) == {j \in JobId : j[1] = f /\ jobs[j].status # "none"}

\* The lines a job stands for.
LinesOf(j) == IF IsChunk(j) THEN Split[j[2]] ELSE 1 .. length

Place == {"new", "create", "jobs", "mend", "parent", "upload", "split", "store",
          "done", "cut"}

TypeOK ==
  /\ length \in Lengths
  /\ files \in Seq([fresh: BOOLEAN, uploaded: BOOLEAN])
  /\ Len(files) <= Cardinality(Delivery)
  /\ jobs \in [JobId -> Job]
  /\ \A j \in JobId : jobs[j].owner # Nobody <=> jobs[j].status = "processing"
  /\ delivery \in [Delivery -> [pc: Place, file: 0 .. Len(files), chunk: Nat]]
  /\ worker \in [Worker -> [pc: {"idle", "count", "size", "run", "complete", "failed"},
                            job: JobId \cup {Nobody}]]
  /\ runs \in [Line -> Nat]
  /\ since \subseteq Delivery

Init ==
  /\ length \in Lengths
  /\ files = << >>
  /\ jobs = [j \in JobId |-> NoJob]
  /\ delivery = [d \in Delivery |-> [pc |-> "new", file |-> 0, chunk |-> 0]]
  /\ worker = [w \in Worker |-> [pc |-> "idle", job |-> Nobody]]
  /\ runs = [l \in Line |-> 0]
  /\ since = {}

-----------------------------------------------------------------------------
(* A delivery of the event.                                                *)

At(d, place) == delivery[d].pc = place

Goto(d, place) == delivery' = [delivery EXCEPT ![d].pc = place]

\* The youngest batch file of the blob's name is taken for a duplicate, unless
\* it is older than OrphanDetectionTimeout.
Find(d) ==
  /\ At(d, "new")
  /\ LET f == Len(files) IN
     IF f > 0 /\ files[f].fresh
       THEN delivery' = [delivery EXCEPT ![d].pc = "jobs", ![d].file = f]
       ELSE Goto(d, "create")
  /\ since' = since \cup {d}
  /\ UNCHANGED <<length, files, jobs, worker, runs>>

\* A duplicate takes the parent job that is stored ...
FindParent(d) ==
  /\ At(d, "jobs")
  /\ jobs[Parent(delivery[d].file)] # NoJob
  /\ Goto(d, "split")
  /\ UNCHANGED <<length, files, jobs, worker, runs, since>>

\* ... and makes one if there is none, or if the query fails.
MissParent(d) ==
  /\ At(d, "jobs")
  /\ Goto(d, "mend")
  /\ UNCHANGED <<length, files, jobs, worker, runs, since>>

CreateFile(d) ==
  /\ At(d, "create")
  /\ files' = Append(files, [fresh |-> TRUE, uploaded |-> FALSE])
  /\ delivery' = [delivery EXCEPT ![d].pc = "parent", ![d].file = Len(files')]
  /\ UNCHANGED <<length, jobs, worker, runs, since>>

\* The new document has no ETag: it replaces one that is stored already.
CreateParent(d) ==
  /\ delivery[d].pc \in {"parent", "mend"}
  /\ jobs' = [jobs EXCEPT ![Parent(delivery[d].file)] = Pending]
  /\ Goto(d, IF At(d, "parent") THEN "upload" ELSE "split")
  /\ UNCHANGED <<length, files, worker, runs, since>>

Upload(d) ==
  /\ At(d, "upload")
  /\ files' = [files EXCEPT ![delivery[d].file].uploaded = TRUE]
  /\ Goto(d, "split")
  /\ UNCHANGED <<length, jobs, worker, runs, since>>

\* Mutated: a file that has chunk jobs is not split again.
SplitFileOnce(d) ==
  LET f == delivery[d].file IN
  /\ At(d, "split")
  /\ IF files[f].uploaded /\ Long /\ Cardinality(Stored(f)) <= 1
       THEN delivery' = [delivery EXCEPT ![d].pc = "store", ![d].chunk = 1]
       ELSE Goto(d, "done")
  /\ UNCHANGED <<length, files, jobs, worker, runs, since>>

\* A file that is not there yet has size 0, and counts as a short one.
SplitFile(d) ==
  /\ At(d, "split")
  /\ IF files[delivery[d].file].uploaded /\ Long
       THEN delivery' = [delivery EXCEPT ![d].pc = "store", ![d].chunk = 1]
       ELSE Goto(d, "done")
  /\ UNCHANGED <<length, files, jobs, worker, runs, since>>

\* Whether the chunk is stored already is asked of a job that has no id yet,
\* so it never is.
StoreChunk(d) ==
  LET f == delivery[d].file  k == delivery[d].chunk IN
  /\ At(d, "store")
  /\ jobs' = [jobs EXCEPT ![<<f, k, d>>] = Pending]
  /\ IF k = Len(Split)
       THEN Goto(d, "done")
       ELSE delivery' = [delivery EXCEPT ![d].chunk = @ + 1]
  /\ UNCHANGED <<length, files, worker, runs, since>>

\* A call throws, which the controller answers with OK, or the process dies.
Cut(d) ==
  /\ delivery[d].pc \notin {"new", "done", "cut"}
  /\ Goto(d, "cut")
  /\ since' = {}
  /\ UNCHANGED <<length, files, jobs, worker, runs>>

-----------------------------------------------------------------------------
(* The workers.                                                            *)

\* Mutated: a job that is being processed can be claimed as well.
ClaimAny(w) ==
  /\ worker[w].pc = "idle"
  /\ \E j \in JobId :
       /\ jobs[j].status \in {"pending", "processing"}
       /\ jobs' = [jobs EXCEPT ![j] = [status |-> "processing", owner |-> w]]
       /\ worker' = [worker EXCEPT ![w] =
                       [pc |-> IF IsChunk(j) THEN "run" ELSE "count", job |-> j]]
  /\ UNCHANGED <<length, files, delivery, runs, since>>

\* A pending job is claimed and set to Processing: BatchJobClaim shows that
\* one node at a time gets as far.
Claim(w) ==
  /\ worker[w].pc = "idle"
  /\ \E j \in JobId :
       /\ jobs[j].status = "pending"
       /\ jobs' = [jobs EXCEPT ![j] = [status |-> "processing", owner |-> w]]
       /\ worker' = [worker EXCEPT ![w] =
                       [pc |-> IF IsChunk(j) THEN "run" ELSE "count", job |-> j]]
  /\ UNCHANGED <<length, files, delivery, runs, since>>

Proceed(w, place) == worker' = [worker EXCEPT ![w].pc = place]

\* RunJobAsync leaves the parent alone when its file has other jobs, ...
CountJobs(w) ==
  /\ worker[w].pc = "count"
  /\ Proceed(w, IF Cardinality(Stored(worker[w].job[1])) > 1 THEN "complete" ELSE "size")
  /\ UNCHANGED <<length, files, jobs, delivery, runs, since>>

\* ... or when it will have them, which a file not yet uploaded will not.
Size(w) ==
  /\ worker[w].pc = "size"
  /\ Proceed(w, IF files[worker[w].job[1]].uploaded /\ Long THEN "complete" ELSE "run")
  /\ UNCHANGED <<length, files, jobs, delivery, runs, since>>

\* The lines of the job are processed, if the file can be read.
Run(w) ==
  /\ worker[w].pc = "run"
  /\ IF files[worker[w].job[1]].uploaded
       THEN /\ runs' = [l \in Line |->
                          IF l \in LinesOf(worker[w].job) THEN runs[l] + 1 ELSE runs[l]]
            /\ Proceed(w, "complete")
       ELSE /\ Proceed(w, "failed")
            /\ UNCHANGED runs
  /\ UNCHANGED <<length, files, jobs, delivery, since>>

\* Mutated: the outcome is not written.
FinishNothing(w) ==
  /\ worker[w].pc \in {"complete", "failed"}
  /\ jobs' = [jobs EXCEPT ![worker[w].job] =
                IF @.owner = w THEN Pending ELSE @]
  /\ worker' = [worker EXCEPT ![w] = [pc |-> "idle", job |-> Nobody]]
  /\ UNCHANGED <<length, files, delivery, runs, since>>

\* Mutated: the job stays with the worker that finished it.
FinishKeeps(w) ==
  /\ worker[w].pc \in {"complete", "failed"}
  /\ jobs' = [jobs EXCEPT ![worker[w].job].status =
                IF jobs[worker[w].job].owner = w THEN worker[w].pc ELSE @]
  /\ worker' = [worker EXCEPT ![w] = [pc |-> "idle", job |-> Nobody]]
  /\ UNCHANGED <<length, files, delivery, runs, since>>

\* The outcome is written unless the document is no longer the worker's.
Finish(w) ==
  /\ worker[w].pc \in {"complete", "failed"}
  /\ jobs' = [jobs EXCEPT ![worker[w].job] =
                IF @.owner = w THEN [status |-> worker[w].pc, owner |-> Nobody] ELSE @]
  /\ worker' = [worker EXCEPT ![w] = [pc |-> "idle", job |-> Nobody]]
  /\ UNCHANGED <<length, files, delivery, runs, since>>

-----------------------------------------------------------------------------
\* A batch file grows older than OrphanDetectionTimeout.
Age ==
  /\ \E f \in DOMAIN files :
       /\ files[f].fresh
       /\ \A g \in 1 .. f - 1 : ~ files[g].fresh
       /\ files' = [files EXCEPT ![f].fresh = FALSE]
  /\ UNCHANGED <<length, jobs, delivery, worker, runs, since>>

Import(d) ==
  \/ FindParent(d) \/ MissParent(d) \/ CreateFile(d) \/ CreateParent(d)
  \/ Upload(d) \/ SplitFile(d) \/ StoreChunk(d)

Work(w) == Claim(w) \/ CountJobs(w) \/ Size(w) \/ Run(w) \/ Finish(w)

Next ==
  \/ Age
  \/ \E d \in Delivery : Find(d) \/ Import(d) \/ Cut(d)
  \/ \E w \in Worker : Work(w)

Spec == Init /\ [][Next]_vars

\* What deliveries began goes on or is cut short, and some worker keeps polling.
Fairness ==
  /\ WF_vars(\E d \in Delivery : Import(d))
  /\ WF_vars(\E w \in Worker : Work(w))

FairSpec == Spec /\ Fairness

-----------------------------------------------------------------------------
\* Nothing is under way.
Quiet ==
  /\ \A d \in Delivery : delivery[d].pc \in {"new", "done", "cut"}
  /\ \A w \in Worker : worker[w].pc = "idle"
  /\ \A j \in JobId : jobs[j].status # "pending"

\* The line was processed, or a job that stands for it shows as failed.
Accounted(l) ==
  runs[l] > 0 \/ \E j \in JobId : jobs[j].status = "failed" /\ l \in LinesOf(j)

\* Once a delivery ends that began after the last one that was cut short, no
\* line of the blob is lost without a trace: whichever steps were cut, however
\* deliveries overlap, and whenever the workers take the parent job, which is
\* stored before the upload and before its chunks.
LinesAccounted ==
  Quiet /\ (\E d \in since : At(d, "done")) => \A l \in 1 .. length : Accounted(l)

\* A delivery makes a short file be processed at most once more, and a long
\* one at most twice, as a whole and in chunks: by a worker that finds no file
\* when it asks for the size and the whole one when it reads it.
RunsBounded ==
  LET begun == {d \in Delivery : ~ At(d, "new")} IN
  \A l \in Line : runs[l] <= Cardinality(begun) * (IF Long THEN 2 ELSE 1)

\* Whatever the size aimed at, the chunks that a file up to three times as long
\* would be cut into have each of its lines once, and none is empty (asked once
\* for a length, before the file is stored).
ChunksPartition ==
  files = << >> =>
    \A n \in 0 .. 3 * length, size \in 1 .. 4 :
      LET c == Chunks(n, size)
      IN  /\ \A l \in 1 .. n : Cardinality({k \in DOMAIN c : l \in c[k]}) = 1
          /\ \A k \in DOMAIN c : c[k] # {} /\ c[k] \subseteq 1 .. n

\* Deliveries end, jobs are taken and finished, whatever another delivery
\* makes of their documents in the meantime.
Settles == <>[]Quiet

=============================================================================
