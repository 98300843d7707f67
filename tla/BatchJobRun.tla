---------------------------- MODULE BatchJobRun ----------------------------
(***************************************************************************)
(* One batch job line by line: IngestService.RunAsync and its reader loop  *)
(* BatchJobService.ProcessBatchJobWithIngestServiceAsync, over the crashes *)
(* and failed calls that interrupt a run and the ReprocessBatchJob calls   *)
(* that start the next one.  That at most one run works on a job between   *)
(* two resets is shown by BatchJobClaim; here a job has one run at a time. *)
(*                                                                         *)
(* A run hands every line to the event service, appends the outcome to a   *)
(* result file that is committed when its stream is disposed, and records  *)
(* its progress in the job document, by two counters: the lines read       *)
(* (processedCount) and the result lines written (writeCounter).  Nobody   *)
(* else writes the document meanwhile, so of its ETag only the relation to *)
(* the stored one is kept.                                                 *)
(***************************************************************************)
EXTENDS Integers, FiniteSets

CONSTANTS
  NumLines,          \* lines of the chunk, or of the file
  NullLines,         \* lines the reader yields as null or undefined
  WriteFrequency,    \* result lines between two saves of RunAsync
  ProgressInterval,  \* lines between two saves of the reader loop (50)
  MaxCrashes,        \* bound: crashes
  MaxLost,           \* bound: calls that fail or whose reply is lost
  MaxResets          \* bound: ReprocessBatchJob calls

ASSUME RunAssumption ==
  /\ NumLines \in Nat
  /\ NullLines \subseteq 1 .. NumLines
  /\ WriteFrequency \in Nat \ {0}
  /\ ProgressInterval \in Nat \ {0}
  /\ MaxCrashes \in Nat
  /\ MaxLost \in Nat
  /\ MaxResets \in Nat

VARIABLES
  job,      \* the stored job document
  run,      \* the run in progress
  done,     \* how often each line was handed to the event service
  buffer,   \* lines whose result is in the stream of the run
  results,  \* how often each line's result is in a committed result file
  resets,   \* ReprocessBatchJob calls so far
  crashes,  \* crashes so far
  lost      \* failed or unanswered calls so far

vars == <<job, run, done, buffer, results, resets, crashes, lost>>

Line == 1 .. NumLines

\* A document: Status, ProcessedLines (a null one is 0), and whether it is of
\* a chunk of a file or of a whole file.
Doc == [status: {"Pending", "Processing", "Complete", "Failed"}, processed: Nat,
        isChunk: BOOLEAN]

\* etag: what the run sends is the stored ETag, an older one, or null.
Run == [pc: {"idle", "read", "freq", "count", "last", "final", "finish",
             "complete", "error", "completed", "failed"},
        copy: Doc, etag: {"current", "stale", "none"}, count: Nat, counter: Nat]

NewDoc(b) == [status |-> "Pending", processed |-> 0, isChunk |-> b]

NoRun == [pc |-> "idle", copy |-> NewDoc(FALSE), etag |-> "none", count |-> 0,
          counter |-> 0]

TypeOK ==
  /\ job \in Doc
  /\ run \in Run
  /\ done \in [Line -> Nat]
  /\ buffer \in SUBSET Line
  /\ results \in [Line -> Nat]
  /\ resets \in Nat
  /\ crashes \in Nat
  /\ lost \in Nat

Init ==
  /\ \E b \in BOOLEAN : job = NewDoc(b)
  /\ run = NoRun
  /\ done = [l \in Line |-> 0]
  /\ buffer = {}
  /\ results = [l \in Line |-> 0]
  /\ resets = 0
  /\ crashes = 0
  /\ lost = 0

-----------------------------------------------------------------------------
(* Starting.                                                               *)

\* Mutated: the error line of the failed run is counted as a processed line.
ResumeCountsErrorLine == IF resets > 0 THEN 1 ELSE 0

\* Mutated: the header line is taken off the count.
ResumeLessHeader == 0 - 1

\* CheckResumeInfoAsync counts the lines of the job's result file.  That file
\* is created empty, and since it exists by then GetFileWriteStreamAsync opens
\* a new one with a timestamp in its name: the count is always 0.
ResumeInfo == 0

\* The job is claimed and moved to Processing, and the run sets out with the
\* document the store returned.
Started(pc) ==
  [pc |-> pc, copy |-> [job EXCEPT !.status = "Processing"], etag |-> "current",
   count |-> 0, counter |-> ResumeInfo]

Start ==
  /\ run.pc = "idle"
  /\ job.status = "Pending"
  /\ job' = [job EXCEPT !.status = "Processing"]
  /\ run' = Started("read")
  /\ UNCHANGED <<done, buffer, results, resets, crashes, lost>>

\* The result file or its stream cannot be opened.
StartError ==
  /\ run.pc = "idle"
  /\ job.status = "Pending"
  /\ lost < MaxLost
  /\ lost' = lost + 1
  /\ job' = [job EXCEPT !.status = "Processing"]
  /\ run' = Started("failed")
  /\ UNCHANGED <<done, buffer, results, resets, crashes>>

-----------------------------------------------------------------------------
(* Saving the document.                                                    *)

\* The store refuses an ETag that is not the stored one.
Accepted == run.etag # "stale"

\* What an accepted write leaves of the ETag the run goes on with: it is not
\* refreshed from the answer.
After(etag) == IF etag = "none" THEN "none" ELSE "stale"

\* The run writes doc and goes on at ok, or at refused.
Save(doc, ok, refused) ==
  /\ job' = IF Accepted THEN doc ELSE job
  /\ run' = [run EXCEPT !.pc = IF Accepted THEN ok ELSE refused, !.copy = doc,
                        !.etag = IF Accepted THEN After(@) ELSE @]

\* A write that fails, or that the store makes without the run learning of it.
SaveLost(doc, next) ==
  /\ lost < MaxLost
  /\ lost' = lost + 1
  /\ \/ UNCHANGED job /\ run' = [run EXCEPT !.pc = next, !.copy = doc]
     \/ Accepted /\ job' = doc
                 /\ run' = [run EXCEPT !.pc = next, !.copy = doc, !.etag = After(@)]

Progress(n) == [run.copy EXCEPT !.processed = n]

-----------------------------------------------------------------------------
(* The reader loop.                                                        *)

\* Mutated: one line more is skipped.
SkipOneMore(n) == n <= run.copy.processed

\* Lines below ProcessedLines were processed by an earlier run.
Skip(n) == n < run.copy.processed

\* Mutated: a skipped line is not counted.
SkipForever ==
  /\ run.pc = "read"
  /\ run.count < NumLines
  /\ Skip(run.count)
  /\ UNCHANGED vars

SkipLine ==
  /\ run.pc = "read"
  /\ run.count < NumLines
  /\ Skip(run.count)
  /\ run' = [run EXCEPT !.count = @ + 1]
  /\ UNCHANGED <<job, done, buffer, results, resets, crashes, lost>>

\* Mutated: every other save is forgotten.
FrequencyDoubled(n) == n % (2 * WriteFrequency) = 0

\* RunAsync saves its progress after so many result lines.
FrequencyDue(n) == n % WriteFrequency = 0

\* The event service has its say on the line, and its answer or its error is
\* written to the stream; a null line is passed over.
ProcessLine ==
  LET l == run.count + 1
      n == run.counter + 1
  IN /\ run.pc = "read"
     /\ run.count < NumLines
     /\ ~Skip(run.count)
     /\ IF l \in NullLines
        THEN /\ run' = [run EXCEPT !.pc = "count"]
             /\ UNCHANGED <<done, buffer>>
        ELSE /\ run' = [run EXCEPT !.pc = IF FrequencyDue(n) THEN "freq" ELSE "count",
                                   !.counter = n]
             /\ done' = [done EXCEPT ![l] = @ + 1]
             /\ buffer' = buffer \cup {l}
     /\ UNCHANGED <<job, results, resets, crashes, lost>>

\* Every WriteFrequency result lines the document is saved with no ETag and
\* writeCounter as its progress; a failure is logged and forgotten.
FrequencySave ==
  /\ run.pc = "freq"
  /\ job' = Progress(run.counter)
  /\ run' = [run EXCEPT !.pc = "count", !.copy = Progress(run.counter), !.etag = "none"]
  /\ UNCHANGED <<done, buffer, results, resets, crashes, lost>>

FrequencySaveLost ==
  /\ run.pc = "freq"
  /\ lost < MaxLost
  /\ lost' = lost + 1
  /\ job' \in {job, Progress(run.counter)}
  /\ run' = [run EXCEPT !.pc = "count", !.copy = Progress(run.counter), !.etag = "none"]
  /\ UNCHANGED <<done, buffer, results, resets, crashes>>

\* The reader loop saves every ProgressInterval lines, and a chunk its last.
IntervalDue(n) == n % ProgressInterval = 0 \/ (run.copy.isChunk /\ n = NumLines)

CountLine ==
  LET n == run.count + 1
      counted == [run EXCEPT !.pc = "read", !.count = n]
  IN /\ run.pc = "count"
     /\ IF IntervalDue(n)
        THEN /\ job' = IF Accepted THEN Progress(n) ELSE job
             /\ run' = [counted EXCEPT !.pc = IF Accepted THEN "read" ELSE "error",
                                       !.copy = Progress(n),
                                       !.etag = IF Accepted THEN After(@) ELSE @]
        ELSE job' = job /\ run' = counted
     /\ UNCHANGED <<done, buffer, results, resets, crashes, lost>>

CountLineLost ==
  LET n == run.count + 1
  IN /\ run.pc = "count"
     /\ IntervalDue(n)
     /\ SaveLost(Progress(n), "error")
     /\ UNCHANGED <<done, buffer, results, resets, crashes>>

\* The file cannot be read on.
ReadError ==
  /\ run.pc = "read"
  /\ lost < MaxLost
  /\ lost' = lost + 1
  /\ run' = [run EXCEPT !.pc = "error"]
  /\ UNCHANGED <<job, done, buffer, results, resets, crashes>>

-----------------------------------------------------------------------------
(* The end of the run.                                                     *)

Completed == [run.copy EXCEPT !.status = "Complete"]

\* After the last line ReadGroupAsync marks a whole file's job Complete.
ReadToEnd ==
  /\ run.pc = "read"
  /\ run.count = NumLines
  /\ IF run.copy.isChunk
     THEN job' = job /\ run' = [run EXCEPT !.pc = "last"]
     ELSE Save(Completed, "last", "error")
  /\ UNCHANGED <<done, buffer, results, resets, crashes, lost>>

ReadToEndLost ==
  /\ run.pc = "read"
  /\ run.count = NumLines
  /\ ~run.copy.isChunk
  /\ SaveLost(Completed, "error")
  /\ UNCHANGED <<done, buffer, results, resets, crashes>>

\* The reader loop's final progress update.
LastSave ==
  /\ run.pc = "last"
  /\ IF run.count % ProgressInterval # 0
     THEN Save(Progress(run.count), "final", "error")
     ELSE job' = job /\ run' = [run EXCEPT !.pc = "final"]
  /\ UNCHANGED <<done, buffer, results, resets, crashes, lost>>

LastSaveLost ==
  /\ run.pc = "last"
  /\ run.count % ProgressInterval # 0
  /\ SaveLost(Progress(run.count), "error")
  /\ UNCHANGED <<done, buffer, results, resets, crashes>>

\* RunAsync's final progress update; its failure is logged and forgotten.
FinalSave ==
  /\ run.pc = "final"
  /\ IF ~FrequencyDue(run.counter)
     THEN Save(Progress(run.counter), "finish", "finish")
     ELSE job' = job /\ run' = [run EXCEPT !.pc = "finish"]
  /\ UNCHANGED <<done, buffer, results, resets, crashes, lost>>

FinalSaveLost ==
  /\ run.pc = "final"
  /\ ~FrequencyDue(run.counter)
  /\ SaveLost(Progress(run.counter), "finish")
  /\ UNCHANGED <<done, buffer, results, resets, crashes>>

\* The last write of RunAsync.
Finish ==
  /\ run.pc = "finish"
  /\ Save(Completed, "complete", "error")
  /\ UNCHANGED <<done, buffer, results, resets, crashes, lost>>

FinishLost ==
  /\ run.pc = "finish"
  /\ SaveLost(Completed, "error")
  /\ UNCHANGED <<done, buffer, results, resets, crashes>>

\* Mutated: the results of an earlier run are overwritten.
CommittedOver == [l \in Line |-> IF l \in buffer THEN 1 ELSE results[l]]

\* The result files once the stream of the run is committed.
Committed == [l \in Line |-> IF l \in buffer THEN results[l] + 1 ELSE results[l]]

Closed == [run EXCEPT !.pc = IF @ = "complete" THEN "completed" ELSE "failed"]

\* Whether it succeeded or failed, the run disposes its stream.
Dispose ==
  /\ run.pc \in {"complete", "error"}
  /\ run' = Closed
  /\ results' = Committed
  /\ buffer' = {}
  /\ UNCHANGED <<job, done, resets, crashes, lost>>

\* The commit is refused: logged and forgotten.
DisposeLost ==
  /\ run.pc \in {"complete", "error"}
  /\ lost < MaxLost
  /\ lost' = lost + 1
  /\ run' = Closed
  /\ buffer' = {}
  /\ UNCHANGED <<job, done, results, resets, crashes>>

\* CompleteJobAsync or FailJobAsync, on the document as it is stored.
Outcome ==
  [job EXCEPT !.status = IF run.pc = "completed" THEN "Complete" ELSE "Failed"]

Report ==
  /\ run.pc \in {"completed", "failed"}
  /\ job' = Outcome
  /\ run' = NoRun
  /\ UNCHANGED <<done, buffer, results, resets, crashes, lost>>

ReportLost ==
  /\ run.pc \in {"completed", "failed"}
  /\ lost < MaxLost
  /\ lost' = lost + 1
  /\ job' \in {job, Outcome}
  /\ run' = NoRun
  /\ UNCHANGED <<done, buffer, results, resets, crashes>>

-----------------------------------------------------------------------------
(* The environment.                                                        *)

\* The node dies: what the run keeps in memory is gone.
Crash ==
  /\ run.pc # "idle"
  /\ crashes < MaxCrashes
  /\ crashes' = crashes + 1
  /\ run' = NoRun
  /\ buffer' = {}
  /\ UNCHANGED <<job, done, results, resets, lost>>

\* ReprocessBatchJob, the only way back to Pending for a job that was started;
\* it changes Status and ClaimedBy only.
Reprocess ==
  /\ run.pc = "idle"
  /\ job.status # "Pending"
  /\ resets < MaxResets
  /\ resets' = resets + 1
  /\ job' = [job EXCEPT !.status = "Pending"]
  /\ UNCHANGED <<run, done, buffer, results, crashes, lost>>

-----------------------------------------------------------------------------

Loop == SkipLine \/ ProcessLine \/ FrequencySave \/ CountLine

Ending == ReadToEnd \/ LastSave \/ FinalSave \/ Finish \/ Dispose \/ Report

Failures ==
  \/ StartError \/ FrequencySaveLost \/ CountLineLost \/ ReadError
  \/ ReadToEndLost \/ LastSaveLost \/ FinalSaveLost \/ FinishLost
  \/ DisposeLost \/ ReportLost

Next == Start \/ Loop \/ Ending \/ Failures \/ Crash \/ Reprocess

Spec == Init /\ [][Next]_vars

\* A run that was begun goes on: its calls are awaited one after the other.
FairSpec == Spec /\ WF_vars(Start) /\ WF_vars(Loop \/ Ending)

-----------------------------------------------------------------------------
(* Properties.                                                             *)

(***************************************************************************)
(* The stored ProcessedLines covers only lines that were handed to the     *)
(* event service, by whatever run: a resumed run skips nothing that was    *)
(* never processed, although writeCounter and the reader loop's count      *)
(* overwrite each other's progress and a resumed run counts from 0 again.  *)
(***************************************************************************)
Processed(l) == l \in NullLines \/ done[l] > 0

ProgressSound == \A l \in Line : l <= job.processed => Processed(l)

(***************************************************************************)
(* A job is Complete only when every line of it was processed, over all    *)
(* the runs it took.                                                       *)
(***************************************************************************)
CompleteMeansAll == job.status = "Complete" => \A l \in Line : Processed(l)

(***************************************************************************)
(* What a crash of the first run makes the next one repeat is bounded: the *)
(* lines processed beyond the stored progress are at most WriteFrequency   *)
(* for every save that failed, and one for every null line, which          *)
(* writeCounter does not count.                                            *)
(***************************************************************************)
Unrecorded == {l \in Line : done[l] > 0 /\ l > job.processed}

ReworkBounded ==
  resets = 0 =>
    Cardinality(Unrecorded) <= WriteFrequency * (1 + lost) + Cardinality(NullLines)

(***************************************************************************)
(* Between runs the committed result files hold exactly one result for     *)
(* every time a line was processed, also when the run failed half way, as  *)
(* long as no node crashed and no commit was refused.                      *)
(***************************************************************************)
ResultsMatch ==
  (run.pc \in {"idle", "completed", "failed"} /\ crashes = 0 /\ lost = 0) =>
    results = done

(***************************************************************************)
(* A run always gets through its lines and reports an outcome.             *)
(***************************************************************************)
RunReports == (run.pc # "idle") ~> (run.pc = "idle")

(***************************************************************************)
(* BatchJobService makes the "final progress update if not already done":  *)
(* a run none of whose calls failed is not reported as Failed.             *)
(***************************************************************************)
FailedOnlyOnError == job.status = "Failed" => lost > 0 \/ crashes > 0

=============================================================================
