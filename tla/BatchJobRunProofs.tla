------------------------- MODULE BatchJobRunProofs -------------------------
(***************************************************************************)
(* What BatchJobRun guarantees for every number of lines and every setting *)
(* of the two save intervals: no line is lost over crashes, failed calls   *)
(* and resets.  Both counters of a run stay within the lines processed so  *)
(* far, so whichever of them is saved, the progress it leaves behind is    *)
(* one the next run may skip.                                              *)
(***************************************************************************)
EXTENDS BatchJobRun, FiniteSetTheorems, TLAPS

\* The first n lines were processed, according to d.
Covers(d, n) == \A l \in Line : l <= n => l \in NullLines \/ d[l] > 0

\* The places of a run that has read all its lines.
Through == {"last", "final", "finish", "complete", "completed"}

\* A line was processed that the reader loop has not counted yet.
Ahead == {"freq", "count"}

RunOK(d, r) ==
  /\ Covers(d, r.copy.processed)
  /\ Covers(d, r.count)
  /\ r.count <= NumLines
  /\ r.pc \notin {"error", "failed"} =>
       r.counter <= r.count + (IF r.pc \in Ahead THEN 1 ELSE 0)
  /\ r.pc \in Ahead => r.count < NumLines /\ Covers(d, r.count + 1)
  /\ r.pc \in Through => r.count = NumLines
  /\ r.copy.status = "Complete" => r.count = NumLines

JobOK(d, j) ==
  /\ Covers(d, j.processed)
  /\ j.status = "Complete" => Covers(d, NumLines)

RInv == TypeOK /\ JobOK(done, job) /\ RunOK(done, run)

LEMMA NewDocOK ==
  ASSUME NEW d \in [Line -> Nat], NEW b \in BOOLEAN
  PROVE  NewDoc(b) \in Doc /\ JobOK(d, NewDoc(b)) /\ Covers(d, 0)
BY RunAssumption DEF NewDoc, Doc, JobOK, Covers, Line

LEMMA NoRunOK ==
  ASSUME NEW d \in [Line -> Nat]
  PROVE  NoRun \in Run /\ RunOK(d, NoRun)
<1>1. NewDoc(FALSE) \in Doc /\ Covers(d, 0)
  BY NewDocOK
<1>2. NoRun \in Run
  BY <1>1 DEF NoRun, Run
<1> QED BY <1>1, <1>2, RunAssumption DEF RunOK, NoRun, NewDoc, Ahead, Through

LEMMA InitRun == Init => RInv
<1> SUFFICES ASSUME Init PROVE RInv
  OBVIOUS
<1>1. done \in [Line -> Nat] /\ results \in [Line -> Nat]
  BY DEF Init
<1>2. PICK b \in BOOLEAN : job = NewDoc(b)
  BY DEF Init
<1>3. run \in Run /\ RunOK(done, run) /\ job \in Doc /\ JobOK(done, job)
  BY <1>1, <1>2, NoRunOK, NewDocOK DEF Init
<1> QED BY <1>1, <1>3 DEF Init, RInv, TypeOK

\* Wherever a run goes once it counts no more lines.
LEMMA Ended ==
  ASSUME RInv, NEW doc \in Doc, Covers(done, doc.processed),
         NEW pc \in {"last", "final", "finish", "complete", "error", "completed", "failed"},
         NEW e \in {"current", "stale", "none"},
         pc \in Through => run.count = NumLines /\ run.counter <= run.count,
         doc.status = "Complete" => run.count = NumLines,
         NEW r, r = [run EXCEPT !.pc = pc, !.copy = doc, !.etag = e]
  PROVE  r \in Run /\ RunOK(done, r)
<1>1. /\ r \in Run /\ r.pc = pc /\ r.copy = doc
      /\ r.count = run.count /\ r.counter = run.counter
      /\ run.count \in Nat /\ run.counter \in Nat
  BY DEF RInv, TypeOK, Run
<1>2. Covers(done, run.count) /\ run.count <= NumLines
  BY DEF RInv, RunOK
<1>3. pc \notin Ahead /\ (pc \notin {"error", "failed"} => pc \in Through)
  BY DEF Ahead, Through
<1> QED BY <1>1, <1>2, <1>3, RunAssumption DEF RunOK

\* A save of doc by a run that has read all its lines.
LEMMA SaveKeeps ==
  ASSUME RInv, NEW doc \in Doc, Covers(done, doc.processed),
         run.pc \in {"last", "final", "finish"} \/ (run.pc = "read" /\ run.count = NumLines),
         NEW ok \in {"last", "final", "finish", "complete"},
         NEW refused \in {"error", "finish"},
         Save(doc, ok, refused) \/ SaveLost(doc, refused),
         UNCHANGED <<done, buffer, results, resets, crashes>>,
         UNCHANGED lost \/ lost' = lost + 1
  PROVE  RInv'
<1>1. run.count = NumLines /\ run.counter <= run.count
  BY RunAssumption DEF RInv, RunOK, Through, Ahead
<1>2. PICK pc \in {ok, refused}, e \in {"current", "stale", "none"} :
        run' = [run EXCEPT !.pc = pc, !.copy = doc, !.etag = e]
  <2>1. run.etag \in {"current", "stale", "none"} /\ run \in Run
    BY DEF RInv, TypeOK, Run
  <2>2. After(run.etag) \in {"current", "stale", "none"}
    BY DEF After
  <2>3. CASE Save(doc, ok, refused)
    BY <2>1, <2>2, <2>3 DEF Save, Run
  <2>4. CASE SaveLost(doc, refused)
    <3>1. [run EXCEPT !.pc = refused, !.copy = doc] =
            [run EXCEPT !.pc = refused, !.copy = doc, !.etag = run.etag]
      BY <2>1 DEF Run
    <3>2. \/ run' = [run EXCEPT !.pc = refused, !.copy = doc]
          \/ run' = [run EXCEPT !.pc = refused, !.copy = doc, !.etag = After(run.etag)]
      BY <2>4 DEF SaveLost
    <3> QED BY <2>1, <2>2, <3>1, <3>2
  <2> QED BY <2>3, <2>4
<1>3. run' \in Run /\ RunOK(done, run')
  BY <1>1, <1>2, Ended
<1>4. job' \in {job, doc}
  BY DEF Save, SaveLost
<1>5. JobOK(done, doc)
  BY <1>1 DEF JobOK, RInv, RunOK
<1>6. job' \in Doc /\ JobOK(done, job')
  BY <1>4, <1>5 DEF RInv, TypeOK
<1> QED BY <1>3, <1>6 DEF RInv, TypeOK

\* The saved progress is a number of lines processed.
LEMMA ProgressCovers ==
  ASSUME RInv, NEW n \in Nat, Covers(done, n)
  PROVE  /\ Progress(n) \in Doc /\ Covers(done, Progress(n).processed)
         /\ Progress(n).status = run.copy.status
BY DEF Progress, RInv, TypeOK, Run, Doc

LEMMA CompletedCovers ==
  ASSUME RInv
  PROVE  Completed \in Doc /\ Covers(done, Completed.processed)
<1>1. run.copy \in Doc
  BY DEF RInv, TypeOK, Run
<1> QED BY <1>1 DEF Completed, Doc, RInv, RunOK

\* The first n lines include the first m.
LEMMA CoversFewer ==
  ASSUME NEW d, NEW n \in Nat, NEW m \in Nat, m <= n, Covers(d, n)
  PROVE  Covers(d, m)
BY RunAssumption DEF Covers, Line

LEMMA EndingKeeps ==
  ASSUME RInv,
         \/ ReadToEnd \/ LastSave \/ FinalSave \/ Finish
         \/ ReadToEndLost \/ LastSaveLost \/ FinalSaveLost \/ FinishLost
  PROVE  RInv'
<1>0. /\ run \in Run /\ run.count \in Nat /\ run.counter \in Nat /\ run.copy \in Doc
      /\ Covers(done, run.count)
  BY DEF RInv, TypeOK, Run, RunOK
<1>1. run.pc \in {"last", "final", "finish"} => run.count = NumLines /\ run.counter <= run.count
  BY RunAssumption, <1>0 DEF RInv, RunOK, Through, Ahead
<1>2. ASSUME NEW pc \in {"last", "final", "finish"}, run.pc # "idle",
             run.count = NumLines, run.counter <= run.count,
             run' = [run EXCEPT !.pc = pc], job' = job,
             UNCHANGED <<done, buffer, results, resets, crashes, lost>>
      PROVE  RInv'
  <2>1. run' = [run EXCEPT !.pc = pc, !.copy = run.copy, !.etag = run.etag]
    BY <1>0, <1>2 DEF Run
  <2>2. run.etag \in {"current", "stale", "none"} /\ Covers(done, run.copy.processed)
    BY <1>0 DEF Run, RInv, RunOK
  <2>3. run' \in Run /\ RunOK(done, run')
    BY <1>0, <1>2, <2>1, <2>2, Ended
  <2> QED BY <1>2, <2>3 DEF RInv, TypeOK
<1>3. CASE ReadToEnd \/ ReadToEndLost
  <2>1. run.pc = "read" /\ run.count = NumLines /\ run.counter <= run.count
    BY <1>0, <1>3 DEF ReadToEnd, ReadToEndLost, RInv, RunOK, Ahead
  <2>2. CASE run.copy.isChunk
    BY <1>2, <1>3, <2>1, <2>2 DEF ReadToEnd, ReadToEndLost
  <2>3. CASE ~run.copy.isChunk
    <3>1. Save(Completed, "last", "error") \/ SaveLost(Completed, "error")
      BY <1>3, <2>3 DEF ReadToEnd, ReadToEndLost
    <3>2. /\ UNCHANGED <<done, buffer, results, resets, crashes>>
          /\ UNCHANGED lost \/ lost' = lost + 1
      BY <1>3 DEF ReadToEnd, ReadToEndLost, SaveLost
    <3> QED BY <2>1, <3>1, <3>2, CompletedCovers, SaveKeeps
  <2> QED BY <2>2, <2>3
<1>4. CASE LastSave \/ LastSaveLost
  <2>1. run.pc = "last"
    BY <1>4 DEF LastSave, LastSaveLost
  <2>2. CASE run' = [run EXCEPT !.pc = "final"] /\ job' = job /\ LastSave
    BY <1>1, <1>2, <2>1, <2>2 DEF LastSave
  <2>3. CASE Save(Progress(run.count), "final", "error")
             \/ SaveLost(Progress(run.count), "error")
    <3>1. /\ UNCHANGED <<done, buffer, results, resets, crashes>>
          /\ UNCHANGED lost \/ lost' = lost + 1
      BY <1>4 DEF LastSave, LastSaveLost, SaveLost
    <3>2. Progress(run.count) \in Doc /\ Covers(done, Progress(run.count).processed)
      BY <1>0, ProgressCovers
    <3> QED BY <2>1, <2>3, <3>1, <3>2, SaveKeeps
  <2> QED BY <1>4, <2>2, <2>3 DEF LastSave, LastSaveLost
<1>5. CASE FinalSave \/ FinalSaveLost
  <2>1. run.pc = "final"
    BY <1>5 DEF FinalSave, FinalSaveLost
  <2>2. CASE run' = [run EXCEPT !.pc = "finish"] /\ job' = job /\ FinalSave
    BY <1>1, <1>2, <2>1, <2>2 DEF FinalSave
  <2>3. CASE Save(Progress(run.counter), "finish", "finish")
             \/ SaveLost(Progress(run.counter), "finish")
    <3>1. /\ UNCHANGED <<done, buffer, results, resets, crashes>>
          /\ UNCHANGED lost \/ lost' = lost + 1
      BY <1>5 DEF FinalSave, FinalSaveLost, SaveLost
    <3>2. Progress(run.counter) \in Doc /\ Covers(done, Progress(run.counter).processed)
      BY <1>0, <1>1, <2>1, ProgressCovers, CoversFewer
    <3> QED BY <2>1, <2>3, <3>1, <3>2, SaveKeeps
  <2> QED BY <1>5, <2>2, <2>3 DEF FinalSave, FinalSaveLost
<1>6. CASE Finish \/ FinishLost
  <2>1. /\ run.pc = "finish"
        /\ Save(Completed, "complete", "error") \/ SaveLost(Completed, "error")
        /\ UNCHANGED <<done, buffer, results, resets, crashes>>
        /\ UNCHANGED lost \/ lost' = lost + 1
    BY <1>6 DEF Finish, FinishLost, SaveLost
  <2> QED BY <2>1, CompletedCovers, SaveKeeps
<1> QED BY <1>3, <1>4, <1>5, <1>6

\* A line that is processed again stays processed.
LEMMA MoreDone ==
  ASSUME NEW d \in [Line -> Nat], NEW e \in [Line -> Nat],
         \A l \in Line : d[l] <= e[l], NEW n, Covers(d, n)
  PROVE  Covers(e, n)
BY DEF Covers

LEMMA ProcessKeeps ==
  ASSUME RInv, ProcessLine
  PROVE  RInv'
<1> DEFINE l == run.count + 1
           n == run.counter + 1
<1>0. /\ run \in Run /\ run.count \in Nat /\ run.counter \in Nat /\ run.copy \in Doc
      /\ Covers(done, run.count) /\ Covers(done, run.copy.processed)
      /\ Covers(done, job.processed) /\ (job.status = "Complete" => Covers(done, NumLines))
      /\ done \in [Line -> Nat] /\ run.pc = "read" /\ run.count < NumLines
      /\ run.counter <= run.count /\ run.copy.status # "Complete"
  BY RunAssumption DEF RInv, TypeOK, Run, RunOK, JobOK, ProcessLine, Ahead
<1>1. l \in Line
  BY <1>0, RunAssumption DEF Line
<1>2. /\ done' \in [Line -> Nat] /\ \A k \in Line : done[k] <= done'[k]
      /\ l \in NullLines \/ done'[l] > 0
      /\ buffer' \in SUBSET Line
  <2>1. CASE l \in NullLines
    BY <1>0, <2>1 DEF ProcessLine, RInv, TypeOK
  <2>2. CASE l \notin NullLines
    <3>1. done' = [done EXCEPT ![l] = @ + 1] /\ buffer' = buffer \cup {l}
      BY <2>2 DEF ProcessLine
    <3> QED BY <1>0, <1>1, <3>1 DEF RInv, TypeOK
  <2> QED BY <2>1, <2>2
<1>3. /\ Covers(done', run.count) /\ Covers(done', run.copy.processed)
      /\ Covers(done', job.processed) /\ (job.status = "Complete" => Covers(done', NumLines))
  BY <1>0, <1>2, MoreDone
<1>4. Covers(done', l)
  <2> SUFFICES ASSUME NEW k \in Line, k <= l
               PROVE  k \in NullLines \/ done'[k] > 0
    BY DEF Covers
  <2>1. k <= run.count \/ k = l
    BY <1>0 DEF Line
  <2> QED BY <1>2, <1>3, <2>1 DEF Covers
<1>5. PICK pc \in Ahead, c \in {run.counter, n} :
        run' = [run EXCEPT !.pc = pc, !.counter = c]
  <2>1. CASE l \in NullLines
    <3>1. [run EXCEPT !.pc = "count"] = [run EXCEPT !.pc = "count", !.counter = run.counter]
      BY <1>0 DEF Run
    <3>2. run' = [run EXCEPT !.pc = "count"] /\ "count" \in Ahead
      BY <2>1 DEF ProcessLine, Ahead
    <3> QED BY <3>1, <3>2
  <2>2. CASE l \notin NullLines
    <3>1. run' = [run EXCEPT !.pc = IF FrequencyDue(n) THEN "freq" ELSE "count",
                             !.counter = n]
      BY <2>2 DEF ProcessLine
    <3> QED BY <3>1 DEF Ahead
  <2> QED BY <2>1, <2>2
<1>6. /\ run' \in Run /\ run'.pc = pc /\ run'.counter = c
      /\ run'.count = run.count /\ run'.copy = run.copy
  <2>1. c \in Nat /\ pc \in {"freq", "count"}
    BY <1>0, <1>5 DEF Ahead
  <2> QED BY <1>0, <1>5, <2>1 DEF Run
<1>7. c <= run.count + 1 /\ run.count <= NumLines /\ pc \notin Through
  BY <1>0, <1>5, RunAssumption DEF Ahead, Through
<1>8. RunOK(done', run')
  BY <1>0, <1>3, <1>4, <1>5, <1>6, <1>7 DEF RunOK
<1>9. JobOK(done', job')
  BY <1>3 DEF JobOK, ProcessLine
<1> QED BY <1>2, <1>6, <1>8, <1>9 DEF RInv, TypeOK, ProcessLine

LEMMA FrequencyKeeps ==
  ASSUME RInv, FrequencySave \/ FrequencySaveLost
  PROVE  RInv'
<1> DEFINE doc == Progress(run.counter)
<1>0. /\ run \in Run /\ run.count \in Nat /\ run.counter \in Nat /\ run.copy \in Doc
      /\ run.pc = "freq" /\ run.counter <= run.count + 1 /\ Covers(done, run.count + 1)
      /\ run.copy.status # "Complete"
  BY RunAssumption DEF RInv, TypeOK, Run, RunOK, FrequencySave, FrequencySaveLost, Ahead
<1>1. Covers(done, run.counter)
  BY <1>0, CoversFewer
<1>2. doc \in Doc /\ Covers(done, doc.processed) /\ doc.status = run.copy.status
  BY <1>0, <1>1, ProgressCovers
<1> HIDE DEF doc
<1>3. run' = [run EXCEPT !.pc = "count", !.copy = doc, !.etag = "none"]
  BY DEF FrequencySave, FrequencySaveLost, doc
<1>4. /\ run' \in Run /\ run'.pc = "count" /\ run'.copy = doc
      /\ run'.count = run.count /\ run'.counter = run.counter
  BY <1>0, <1>2, <1>3 DEF Run
<1>5. RunOK(done, run')
  BY <1>0, <1>2, <1>4 DEF RInv, RunOK, Ahead, Through
<1>6. job' \in {job, doc} /\ JobOK(done, doc)
  BY <1>0, <1>2 DEF FrequencySave, FrequencySaveLost, doc, JobOK
<1>7. job' \in Doc /\ JobOK(done, job')
  BY <1>2, <1>6 DEF RInv, TypeOK
<1>8. lost' \in Nat /\ UNCHANGED <<done, buffer, results, resets, crashes>>
  BY DEF FrequencySave, FrequencySaveLost, RInv, TypeOK
<1> QED BY <1>4, <1>5, <1>7, <1>8 DEF RInv, TypeOK

LEMMA CountKeeps ==
  ASSUME RInv, CountLine \/ CountLineLost
  PROVE  RInv'
<1> DEFINE n == run.count + 1
           doc == Progress(n)
<1>0. /\ run \in Run /\ run.count \in Nat /\ run.counter \in Nat /\ run.copy \in Doc
      /\ run.pc = "count" /\ run.counter <= n /\ Covers(done, n)
      /\ n <= NumLines /\ run.copy.status # "Complete"
      /\ Covers(done, run.count) /\ Covers(done, run.copy.processed)
      /\ run.etag \in {"current", "stale", "none"}
      /\ After(run.etag) \in {"current", "stale", "none"}
  BY RunAssumption DEF RInv, TypeOK, Run, RunOK, CountLine, CountLineLost, Ahead, After
<1>1. doc \in Doc /\ Covers(done, doc.processed) /\ doc.status = run.copy.status
  BY <1>0, ProgressCovers
<1>2. job' \in {job, doc} /\ JobOK(done, doc)
  BY <1>0, <1>1 DEF CountLine, CountLineLost, SaveLost, JobOK
<1>3. job' \in Doc /\ JobOK(done, job')
  BY <1>1, <1>2 DEF RInv, TypeOK
<1>4. CASE CountLineLost
  <2> HIDE DEF doc
  <2>1. PICK e \in {"current", "stale", "none"} :
          run' = [run EXCEPT !.pc = "error", !.copy = doc, !.etag = e]
    <3>1. [run EXCEPT !.pc = "error", !.copy = doc] =
            [run EXCEPT !.pc = "error", !.copy = doc, !.etag = run.etag]
      BY <1>0 DEF Run
    <3>2. \/ run' = [run EXCEPT !.pc = "error", !.copy = doc]
          \/ run' = [run EXCEPT !.pc = "error", !.copy = doc, !.etag = After(run.etag)]
      BY <1>4 DEF CountLineLost, SaveLost, doc
    <3> QED BY <1>0, <3>1, <3>2
  <2>2. run' \in Run /\ RunOK(done, run')
    BY <1>0, <1>1, <2>1, Ended DEF Through
  <2>3. lost' \in Nat /\ UNCHANGED <<done, buffer, results, resets, crashes>>
    BY <1>4 DEF CountLineLost, SaveLost, RInv, TypeOK
  <2> QED BY <1>3, <2>2, <2>3 DEF RInv, TypeOK
<1>5. CASE CountLine
  <2>1. PICK pc \in {"read", "error"}, d \in {run.copy, doc},
             e \in {"current", "stale", "none"} :
          run' = [run EXCEPT !.pc = pc, !.count = n, !.copy = d, !.etag = e]
    <3>1. CASE IntervalDue(n)
      <4>1. run' = [run EXCEPT !.pc = IF Accepted THEN "read" ELSE "error", !.count = n,
                               !.copy = doc,
                               !.etag = IF Accepted THEN After(@) ELSE @]
        BY <1>0, <1>5, <3>1 DEF CountLine, Run
      <4> HIDE DEF doc
      <4> QED BY <1>0, <4>1
    <3>2. CASE ~IntervalDue(n)
      <4>1. run' = [run EXCEPT !.pc = "read", !.count = n]
        BY <1>5, <3>2 DEF CountLine
      <4>2. run' = [run EXCEPT !.pc = "read", !.count = n, !.copy = run.copy,
                               !.etag = run.etag]
        BY <1>0, <4>1 DEF Run
      <4> QED BY <1>0, <4>2
    <3> QED BY <3>1, <3>2
  <2>2. d \in Doc /\ Covers(done, d.processed) /\ d.status # "Complete"
    BY <1>0, <1>1, <2>1
  <2>3. /\ run' \in Run /\ run'.pc = pc /\ run'.copy = d
        /\ run'.count = n /\ run'.counter = run.counter
    <3>1. n \in Nat
      BY <1>0
    <3> HIDE DEF n, doc
    <3> QED BY <1>0, <2>1, <2>2, <3>1 DEF Run
  <2>4. RunOK(done, run')
    BY <1>0, <2>1, <2>2, <2>3 DEF RunOK, Ahead, Through
  <2>5. UNCHANGED <<done, buffer, results, resets, crashes, lost>>
    BY <1>5 DEF CountLine
  <2> QED BY <1>3, <2>3, <2>4, <2>5 DEF RInv, TypeOK
<1> QED BY <1>4, <1>5

LEMMA BeginningKeeps ==
  ASSUME RInv, Start \/ StartError
  PROVE  RInv'
<1>1. PICK pc \in {"read", "failed"} : run' = Started(pc)
  BY DEF Start, StartError
<1> DEFINE doc == [job EXCEPT !.status = "Processing"]
<1>2. doc \in Doc /\ doc.processed = job.processed /\ doc.status = "Processing"
  BY DEF RInv, TypeOK, Doc
<1>3. job' = doc
  BY DEF Start, StartError
<1> HIDE DEF doc
<1>4. run' = [pc |-> pc, copy |-> doc, etag |-> "current", count |-> 0, counter |-> 0]
  BY <1>1 DEF Started, ResumeInfo, doc
<1>5. run' \in Run
  BY <1>2, <1>4 DEF Run
<1>6. Covers(done, 0) /\ Covers(done, doc.processed)
  BY <1>2 DEF Covers, Line, RInv, JobOK
<1>7. RunOK(done, run')
  BY <1>2, <1>4, <1>6, RunAssumption DEF RunOK, Ahead, Through
<1>8. JobOK(done, job')
  BY <1>2, <1>3, <1>6 DEF JobOK
<1>9. lost' \in Nat /\ UNCHANGED <<done, buffer, results, resets, crashes>>
  BY DEF Start, StartError, RInv, TypeOK
<1> QED BY <1>2, <1>3, <1>5, <1>7, <1>8, <1>9 DEF RInv, TypeOK

LEMMA SkipKeeps ==
  ASSUME RInv, SkipLine
  PROVE  RInv'
<1>0. /\ run \in Run /\ run.count \in Nat /\ run.counter \in Nat /\ run.copy \in Doc
      /\ run.copy.processed \in Nat /\ run.pc = "read" /\ run.count < NumLines
      /\ run.count + 1 <= run.copy.processed /\ run.counter <= run.count
      /\ run.copy.status # "Complete" /\ Covers(done, run.copy.processed)
  BY RunAssumption DEF RInv, TypeOK, Run, Doc, RunOK, SkipLine, Skip, Ahead
<1>1. /\ run' \in Run /\ run'.pc = "read" /\ run'.copy = run.copy
      /\ run'.count = run.count + 1 /\ run'.counter = run.counter
  <2>1. run.count + 1 \in Nat
    BY <1>0
  <2> QED BY <1>0, <2>1 DEF SkipLine, Run
<1>2. Covers(done, run.count + 1)
  BY <1>0, CoversFewer
<1>3. RunOK(done, run')
  BY <1>0, <1>1, <1>2, RunAssumption DEF RunOK, Ahead, Through
<1> QED BY <1>1, <1>3 DEF SkipLine, RInv, TypeOK

LEMMA DisposeKeeps ==
  ASSUME RInv, Dispose \/ DisposeLost \/ ReadError
  PROVE  RInv'
<1>0. /\ run \in Run /\ run.copy \in Doc /\ Covers(done, run.copy.processed)
      /\ run.etag \in {"current", "stale", "none"}
      /\ run.copy.status = "Complete" => run.count = NumLines
  BY DEF RInv, TypeOK, Run, RunOK
<1>1. PICK pc \in {"completed", "failed", "error"} :
        /\ run' = [run EXCEPT !.pc = pc]
        /\ pc = "completed" => run.pc = "complete"
  BY <1>0 DEF Dispose, DisposeLost, ReadError, Closed, Run
<1>2. run' = [run EXCEPT !.pc = pc, !.copy = run.copy, !.etag = run.etag]
  BY <1>0, <1>1 DEF Run
<1>3. pc \in Through => run.count = NumLines /\ run.counter <= run.count
  <2>1. pc = "completed" => run.pc \in Through /\ run.pc \notin Ahead /\ run.pc \notin {"error", "failed"}
    BY <1>1 DEF Through, Ahead
  <2>2. run.count \in Nat /\ run.counter \in Nat
    BY <1>0 DEF Run
  <2>3. pc \in Through => pc = "completed"
    BY <1>1 DEF Through
  <2> QED BY <2>1, <2>2, <2>3 DEF RInv, RunOK
<1>4. run' \in Run /\ RunOK(done, run')
  BY <1>0, <1>2, <1>3, Ended
<1>5. results' \in [Line -> Nat]
  BY DEF Dispose, DisposeLost, ReadError, Committed, RInv, TypeOK
<1>6. buffer' \in SUBSET Line /\ lost' \in Nat /\ UNCHANGED <<job, done, resets, crashes>>
  BY DEF Dispose, DisposeLost, ReadError, RInv, TypeOK
<1> QED BY <1>4, <1>5, <1>6 DEF RInv, TypeOK

LEMMA ReportKeeps ==
  ASSUME RInv, Report \/ ReportLost
  PROVE  RInv'
<1>1. /\ Outcome \in Doc /\ Outcome.processed = job.processed
      /\ Outcome.status = "Complete" <=> run.pc = "completed"
  BY DEF Outcome, RInv, TypeOK, Doc
<1>2. run.pc = "completed" => Covers(done, NumLines)
  BY DEF RInv, RunOK, Through
<1>3. JobOK(done, Outcome)
  BY <1>1, <1>2 DEF RInv, JobOK
<1>4. job' \in {job, Outcome} /\ run' = NoRun /\ UNCHANGED <<done, buffer, results, resets, crashes>>
  BY DEF Report, ReportLost
<1>5. job' \in Doc /\ JobOK(done, job')
  BY <1>1, <1>3, <1>4 DEF RInv, TypeOK
<1>6. lost' \in Nat /\ run' \in Run /\ RunOK(done, run')
  BY <1>4, NoRunOK DEF Report, ReportLost, RInv, TypeOK
<1> QED BY <1>4, <1>5, <1>6 DEF RInv, TypeOK

LEMMA EnvironmentKeeps ==
  ASSUME RInv, Crash \/ Reprocess
  PROVE  RInv'
<1>1. CASE Crash
  BY <1>1, NoRunOK DEF Crash, RInv, TypeOK
<1>2. CASE Reprocess
  <2>1. job' \in Doc /\ JobOK(done, job')
    BY <1>2 DEF Reprocess, RInv, TypeOK, Doc, JobOK
  <2> QED BY <1>2, <2>1 DEF Reprocess, RInv, TypeOK
<1> QED BY <1>1, <1>2

LEMMA NextRun == RInv /\ [Next]_vars => RInv'
<1> SUFFICES ASSUME RInv, [Next]_vars PROVE RInv'
  OBVIOUS
<1>1. CASE UNCHANGED vars
  BY <1>1 DEF vars, RInv, TypeOK
<1>2. CASE Start \/ StartError
  BY <1>2, BeginningKeeps
<1>3. CASE Loop
  BY <1>3, SkipKeeps, ProcessKeeps, FrequencyKeeps, CountKeeps DEF Loop
<1>4. CASE Ending
  BY <1>4, EndingKeeps, DisposeKeeps, ReportKeeps DEF Ending
<1>5. CASE Failures
  BY <1>5, BeginningKeeps, FrequencyKeeps, CountKeeps, EndingKeeps, DisposeKeeps,
     ReportKeeps DEF Failures
<1>6. CASE Crash \/ Reprocess
  BY <1>6, EnvironmentKeeps
<1> QED BY <1>1, <1>2, <1>3, <1>4, <1>5, <1>6 DEF Next

(***************************************************************************)
(* The stored ProcessedLines covers only lines that were processed, so the *)
(* skip at the start of a resumed run (ProcessBatchJobWithIngestService-   *)
(* Async) loses none, for any number of lines and any WriteFrequency and   *)
(* ProgressInterval, however often the run crashes, fails or is reset.     *)
(***************************************************************************)
THEOREM ProgressCorrect == Spec => []ProgressSound
<1>1. RInv => ProgressSound
  BY DEF RInv, JobOK, Covers, ProgressSound, Processed
<1> QED BY <1>1, InitRun, NextRun, PTL DEF Spec

(***************************************************************************)
(* A job becomes Complete, by its run's last write or by CompleteJobAsync, *)
(* only after every line of it was processed.                              *)
(***************************************************************************)
THEOREM CompletionCorrect == Spec => []CompleteMeansAll
<1>1. RInv => CompleteMeansAll
  <2> SUFFICES ASSUME RInv, job.status = "Complete", NEW l \in Line
               PROVE  Processed(l)
    BY DEF CompleteMeansAll
  <2>1. Covers(done, NumLines) /\ l <= NumLines
    BY RunAssumption DEF RInv, JobOK, Line
  <2> QED BY <2>1 DEF Covers, Processed
<1> QED BY <1>1, InitRun, NextRun, PTL DEF Spec

(***************************************************************************)
(* The document, the run and the counters keep their shapes: in particular *)
(* no progress and no count is ever negative.                              *)
(***************************************************************************)
THEOREM TypeCorrect == Spec => []TypeOK
<1>1. RInv => TypeOK
  BY DEF RInv
<1> QED BY <1>1, InitRun, NextRun, PTL DEF Spec

-----------------------------------------------------------------------------
(* The results.                                                            *)

Outside == {"idle", "completed", "failed"}

\* The lines whose result is in the stream of run r are ones it has read.
StreamOK(r, b) ==
  /\ r.pc \in Outside => b = {}
  /\ r.pc = "read" => \A l \in b : l <= r.count
  /\ r.pc \in Ahead => \A l \in b : l <= r.count + 1

\* Every time a line was processed its result is committed or in the stream.
ResultsOK ==
  crashes = 0 /\ lost = 0 =>
    \A l \in Line : done[l] = results[l] + (IF l \in buffer THEN 1 ELSE 0)

SInv == RInv /\ StreamOK(run, buffer) /\ ResultsOK

LEMMA InitResults == Init => SInv
<1> SUFFICES ASSUME Init PROVE SInv
  OBVIOUS
<1>1. buffer = {} /\ \A l \in Line : done[l] = 0 /\ results[l] = 0
  BY DEF Init
<1> QED BY <1>1, InitRun DEF SInv, StreamOK, ResultsOK

\* A step that hands no line over and commits nothing.
LEMMA StreamStays ==
  ASSUME SInv, UNCHANGED <<done, buffer, results, crashes>>,
         lost' = lost \/ lost' = lost + 1, StreamOK(run', buffer)
  PROVE  StreamOK(run', buffer') /\ ResultsOK'
<1>1. lost' = 0 => lost = 0
  BY DEF SInv, RInv, TypeOK
<1> QED BY <1>1 DEF SInv, ResultsOK

LEMMA SavingStream ==
  ASSUME SInv,
         \/ ReadToEnd \/ LastSave \/ FinalSave \/ Finish
         \/ ReadToEndLost \/ LastSaveLost \/ FinalSaveLost \/ FinishLost
  PROVE  StreamOK(run', buffer') /\ ResultsOK'
<1>0. run \in Run
  BY DEF SInv, RInv, TypeOK
<1>1. /\ UNCHANGED <<done, buffer, results, crashes>>
      /\ lost' = lost \/ lost' = lost + 1
  BY DEF ReadToEnd, LastSave, FinalSave, Finish, ReadToEndLost, LastSaveLost,
         FinalSaveLost, FinishLost, SaveLost
<1>2. run'.pc \in {"last", "final", "finish", "complete", "error"}
  <2>1. CASE ReadToEnd \/ ReadToEndLost
    BY <1>0, <2>1 DEF ReadToEnd, ReadToEndLost, Save, SaveLost, Run
  <2>2. CASE LastSave \/ LastSaveLost
    BY <1>0, <2>2 DEF LastSave, LastSaveLost, Save, SaveLost, Run
  <2>3. CASE FinalSave \/ FinalSaveLost
    BY <1>0, <2>3 DEF FinalSave, FinalSaveLost, Save, SaveLost, Run
  <2>4. CASE Finish \/ FinishLost
    BY <1>0, <2>4 DEF Finish, FinishLost, Save, SaveLost, Run
  <2> QED BY <2>1, <2>2, <2>3, <2>4
<1>3. StreamOK(run', buffer)
  BY <1>2 DEF StreamOK, Outside, Ahead
<1> QED BY <1>1, <1>3, StreamStays

LEMMA LoopStream ==
  ASSUME SInv,
         \/ SkipLine \/ FrequencySave \/ FrequencySaveLost
         \/ CountLine \/ CountLineLost \/ ReadError
  PROVE  StreamOK(run', buffer') /\ ResultsOK'
<1>0. run \in Run /\ run.count \in Nat /\ buffer \in SUBSET Line
  BY DEF SInv, RInv, TypeOK, Run
<1>1. /\ UNCHANGED <<done, buffer, results, crashes>>
      /\ lost' = lost \/ lost' = lost + 1
  BY DEF SkipLine, FrequencySave, FrequencySaveLost, CountLine, CountLineLost,
         ReadError, SaveLost
<1>2. \A l \in buffer : l \in Int
  BY <1>0, RunAssumption DEF Line
<1>3. CASE SkipLine
  <2>1. run.pc = "read" /\ run'.pc = "read" /\ run'.count = run.count + 1
    BY <1>0, <1>3 DEF SkipLine, Run
  <2>2. \A l \in buffer : l <= run'.count
    BY <1>0, <1>2, <2>1 DEF SInv, StreamOK
  <2>3. StreamOK(run', buffer)
    BY <2>1, <2>2 DEF StreamOK, Outside, Ahead
  <2> QED BY <1>1, <2>3, StreamStays
<1>4. CASE FrequencySave \/ FrequencySaveLost
  <2>1. run.pc = "freq" /\ run'.pc = "count" /\ run'.count = run.count
    BY <1>0, <1>4 DEF FrequencySave, FrequencySaveLost, Run
  <2>2. \A l \in buffer : l <= run'.count + 1
    BY <2>1 DEF SInv, StreamOK, Ahead
  <2>3. StreamOK(run', buffer)
    BY <2>1, <2>2 DEF StreamOK, Outside, Ahead
  <2> QED BY <1>1, <2>3, StreamStays
<1>5. CASE CountLine
  <2>1. /\ run.pc = "count" /\ run'.pc \in {"read", "error"}
        /\ run'.count = run.count + 1
    BY <1>0, <1>5 DEF CountLine, Run
  <2>2. \A l \in buffer : l <= run'.count
    BY <2>1 DEF SInv, StreamOK, Ahead
  <2>3. StreamOK(run', buffer)
    BY <2>1, <2>2 DEF StreamOK, Outside, Ahead
  <2> QED BY <1>1, <2>3, StreamStays
<1>6. CASE CountLineLost \/ ReadError
  <2>1. run'.pc = "error"
    BY <1>0, <1>6 DEF CountLineLost, SaveLost, ReadError, Run
  <2>2. StreamOK(run', buffer)
    BY <2>1 DEF StreamOK, Outside, Ahead
  <2> QED BY <1>1, <2>2, StreamStays
<1> QED BY <1>3, <1>4, <1>5, <1>6

LEMMA ProcessStream ==
  ASSUME SInv, ProcessLine
  PROVE  StreamOK(run', buffer') /\ ResultsOK'
<1> DEFINE l == run.count + 1
<1>0. /\ run \in Run /\ run.count \in Nat /\ run.counter \in Nat /\ run.pc = "read"
      /\ run.count < NumLines /\ buffer \in SUBSET Line
      /\ done \in [Line -> Nat] /\ results \in [Line -> Nat]
      /\ \A k \in buffer : k <= run.count
  BY DEF SInv, RInv, TypeOK, Run, ProcessLine, StreamOK
<1>1. l \in Line /\ l \notin buffer
  BY <1>0, RunAssumption DEF Line
<1>2. run'.pc \in Ahead /\ run'.count = run.count
  <2>1. CASE l \in NullLines
    BY <1>0, <2>1 DEF ProcessLine, Ahead, Run
  <2>2. CASE l \notin NullLines
    BY <1>0, <2>2 DEF ProcessLine, Ahead, Run
  <2> QED BY <2>1, <2>2
<1>3. buffer' \subseteq buffer \cup {l}
  BY DEF ProcessLine
<1>4. \A k \in buffer' : k <= run'.count + 1
  <2> SUFFICES ASSUME NEW k \in buffer' PROVE k <= run.count + 1
    BY <1>2
  <2>1. CASE k = l
    BY <1>0, <2>1
  <2>2. CASE k \in buffer
    BY <1>0, <2>2, RunAssumption DEF Line
  <2> QED BY <1>3, <2>1, <2>2
<1>5. StreamOK(run', buffer')
  BY <1>2, <1>4 DEF StreamOK, Outside, Ahead
<1>6. ResultsOK'
  <2> SUFFICES ASSUME crashes = 0, lost = 0, NEW k \in Line
               PROVE  done'[k] = results[k] + (IF k \in buffer' THEN 1 ELSE 0)
    BY DEF ResultsOK, ProcessLine
  <2>1. done[k] = results[k] + (IF k \in buffer THEN 1 ELSE 0)
    BY DEF SInv, ResultsOK
  <2>2. CASE l \in NullLines
    <3>1. done' = done /\ buffer' = buffer
      BY <2>2 DEF ProcessLine
    <3> QED BY <2>1, <3>1
  <2>3. CASE l \notin NullLines
    <3>1. done' = [done EXCEPT ![l] = @ + 1] /\ buffer' = buffer \cup {l}
      BY <2>3 DEF ProcessLine
    <3>2. /\ done'[k] = IF k = l THEN done[k] + 1 ELSE done[k]
          /\ k \in buffer' <=> k \in buffer \/ k = l
      BY <1>0, <1>1, <3>1
    <3>3. results[k] \in Nat /\ done[k] \in Nat
      BY <1>0
    <3> HIDE DEF l
    <3> QED BY <1>1, <2>1, <3>2, <3>3
  <2> QED BY <2>2, <2>3
<1> QED BY <1>5, <1>6

LEMMA DisposeStream ==
  ASSUME SInv, Dispose \/ DisposeLost
  PROVE  StreamOK(run', buffer') /\ ResultsOK'
<1>0. run \in Run /\ lost \in Nat /\ results \in [Line -> Nat] /\ done \in [Line -> Nat]
  BY DEF SInv, RInv, TypeOK
<1>1. run'.pc \in {"completed", "failed"} /\ buffer' = {}
  BY <1>0 DEF Dispose, DisposeLost, Closed, Run
<1>2. StreamOK(run', buffer')
  BY <1>1 DEF StreamOK, Ahead
<1>3. CASE Dispose
  <2>1. ASSUME crashes = 0, lost = 0, NEW k \in Line
        PROVE  done[k] = results'[k]
    <3>1. done[k] = results[k] + (IF k \in buffer THEN 1 ELSE 0)
      BY <2>1 DEF SInv, ResultsOK
    <3>2. results'[k] = IF k \in buffer THEN results[k] + 1 ELSE results[k]
      BY <1>3 DEF Dispose, Committed
    <3>3. results[k] \in Nat
      BY <1>0
    <3> QED BY <3>1, <3>2, <3>3
  <2>2. ASSUME crashes = 0, lost = 0, NEW k \in Line
        PROVE  done[k] = results'[k] + (IF k \in {} THEN 1 ELSE 0)
    <3>1. done[k] \in Nat
      BY <1>0
    <3> QED BY <2>1, <2>2, <3>1
  <2>3. UNCHANGED <<done, crashes, lost>>
    BY <1>3 DEF Dispose
  <2> QED BY <1>1, <1>2, <2>2, <2>3 DEF ResultsOK
<1>4. CASE DisposeLost
  <2>1. lost' # 0
    BY <1>0, <1>4 DEF DisposeLost
  <2> QED BY <1>2, <2>1 DEF ResultsOK
<1> QED BY <1>2, <1>3, <1>4

LEMMA OutsideStream ==
  ASSUME SInv, Start \/ StartError \/ Report \/ ReportLost \/ Reprocess
  PROVE  StreamOK(run', buffer') /\ ResultsOK'
<1>1. buffer = {}
  BY DEF SInv, StreamOK, Outside, Start, StartError, Report, ReportLost, Reprocess
<1>2. /\ UNCHANGED <<done, buffer, results, crashes>>
      /\ lost' = lost \/ lost' = lost + 1
  BY DEF Start, StartError, Report, ReportLost, Reprocess
<1>3. StreamOK(run', buffer)
  BY <1>1 DEF StreamOK
<1> QED BY <1>2, <1>3, StreamStays

LEMMA CrashStream ==
  ASSUME SInv, Crash
  PROVE  StreamOK(run', buffer') /\ ResultsOK'
<1>1. crashes' # 0
  BY DEF SInv, RInv, TypeOK, Crash
<1>2. buffer' = {}
  BY DEF Crash
<1> QED BY <1>1, <1>2 DEF StreamOK, ResultsOK

LEMMA NextResults == SInv /\ [Next]_vars => SInv'
<1> SUFFICES ASSUME SInv, [Next]_vars PROVE SInv'
  OBVIOUS
<1>0. RInv'
  BY NextRun DEF SInv
<1>1. StreamOK(run', buffer') /\ ResultsOK'
  <2>1. CASE UNCHANGED vars
    BY <2>1 DEF vars, SInv, ResultsOK
  <2>2. CASE Start \/ StartError \/ Report \/ ReportLost \/ Reprocess
    BY <2>2, OutsideStream
  <2>3. CASE Loop
    BY <2>3, LoopStream, ProcessStream DEF Loop
  <2>4. CASE Ending
    BY <2>4, SavingStream, DisposeStream, OutsideStream DEF Ending
  <2>5. CASE Failures
    BY <2>5, OutsideStream, LoopStream, SavingStream, DisposeStream DEF Failures
  <2>6. CASE Crash
    BY <2>6, CrashStream
  <2> QED BY <2>1, <2>2, <2>3, <2>4, <2>5, <2>6 DEF Next
<1> QED BY <1>0, <1>1 DEF SInv, StreamOK

(***************************************************************************)
(* Between runs the committed result files hold exactly one result for     *)
(* every time a line was processed, for any number of lines and resets, as *)
(* long as no node crashed and no call failed: RunAsync disposes its       *)
(* stream on success and on failure.                                       *)
(***************************************************************************)
THEOREM ResultsCorrect == Spec => []ResultsMatch
<1>1. SInv => ResultsMatch
  <2> SUFFICES ASSUME SInv, run.pc \in Outside, crashes = 0, lost = 0
               PROVE  results = done
    BY DEF ResultsMatch, Outside
  <2>1. results \in [Line -> Nat] /\ done \in [Line -> Nat]
    BY DEF SInv, RInv, TypeOK
  <2>2. \A l \in Line : done[l] = results[l]
    <3>1. buffer = {}
      BY DEF SInv, StreamOK
    <3> QED BY <2>1, <3>1 DEF SInv, ResultsOK
  <2> QED BY <2>1, <2>2
<1> QED BY <1>1, InitResults, NextResults, PTL DEF Spec

-----------------------------------------------------------------------------
(* The rework.                                                             *)

\* The lines handed over so far.
Fed == {l \in Line : done[l] > 0}

\* Of n results, p were recorded, but for those since the last multiple of
\* WriteFrequency and WriteFrequency more for each of k failures.
Due(n, p, k) ==
  \E q \in Nat : /\ WriteFrequency * q <= n /\ n < WriteFrequency * q + WriteFrequency
                 /\ WriteFrequency * q <= p + WriteFrequency * k

Behind(r, p, k) ==
  IF r.pc = "freq" THEN r.counter <= p + WriteFrequency * (1 + k) ELSE Due(r.counter, p, k)

\* The reader loop has not been past the lines it has still to count.
FirstTime(r) ==
  /\ r.pc = "read" => \A l \in Fed : l <= r.count
  /\ r.pc \in Ahead => \A l \in Fed : l <= r.count + 1

\* Before any reset the job has one run at most, whose writeCounter counts the
\* lines handed over, and neither the stored progress nor the copy that the run
\* writes back at its end is far behind it.
Rework ==
  resets = 0 =>
    /\ job.status = "Pending" => run.pc = "idle" /\ Fed = {}
    /\ run.pc = "idle" =>
         Cardinality(Fed) <= job.processed + WriteFrequency * (1 + lost)
    /\ run.pc # "idle" =>
         /\ run.copy.status # "Pending"
         /\ Cardinality(Fed) = run.counter /\ FirstTime(run)
         /\ Behind(run, job.processed, lost)
         /\ Behind(run, run.copy.processed, lost)

LEMMA TimesFrequency == \A k \in Nat : WriteFrequency * k \in Nat
BY RunAssumption

LEMMA DueBound ==
  ASSUME NEW n \in Nat, NEW p \in Nat, NEW k \in Nat, Due(n, p, k)
  PROVE  n <= p + WriteFrequency * (1 + k)
BY RunAssumption DEF Due

LEMMA DueMore ==
  ASSUME NEW n \in Nat, NEW p \in Nat, NEW k \in Nat, Due(n, p, k),
         NEW b \in Nat, p <= b, NEW m \in Nat, m = k \/ m = k + 1
  PROVE  Due(n, b, m)
<1>1. PICK q \in Nat : /\ WriteFrequency * q <= n /\ n < WriteFrequency * q + WriteFrequency
                       /\ WriteFrequency * q <= p + WriteFrequency * k
  BY DEF Due
<1>2. WriteFrequency * q <= b + WriteFrequency * m
  BY <1>1, RunAssumption
<1> QED BY <1>1, <1>2 DEF Due

LEMMA DueAtOnce ==
  ASSUME NEW n \in Nat, NEW p \in Nat, NEW k \in Nat, n <= p + WriteFrequency * k
  PROVE  Due(n, p, k)
<1> DEFINE q == n \div WriteFrequency
<1>1. q \in Nat
  BY RunAssumption
<1>2. WriteFrequency * q <= n /\ n < WriteFrequency * q + WriteFrequency
  BY RunAssumption
<1>3. WriteFrequency * q \in Nat /\ WriteFrequency * k \in Nat
  BY <1>1, RunAssumption
<1> HIDE DEF q
<1>4. WriteFrequency * q <= p + WriteFrequency * k
  BY <1>2, <1>3
<1> QED BY <1>1, <1>2, <1>4 DEF Due

\* One result more, when no save is due.
LEMMA DueNext ==
  ASSUME NEW n \in Nat, NEW p \in Nat, NEW k \in Nat, Due(n, p, k),
         ~ FrequencyDue(n + 1)
  PROVE  Due(n + 1, p, k)
<1>1. PICK q \in Nat : /\ WriteFrequency * q <= n /\ n < WriteFrequency * q + WriteFrequency
                       /\ WriteFrequency * q <= p + WriteFrequency * k
  BY DEF Due
<1>2. n + 1 # WriteFrequency * (q + 1)
  <2> DEFINE m == q + 1
  <2>1. m \in Nat
    OBVIOUS
  <2> HIDE DEF m
  <2>2. (WriteFrequency * m) % WriteFrequency = 0
    BY <2>1, RunAssumption
  <2>3. n + 1 # WriteFrequency * m
    BY <2>2 DEF FrequencyDue
  <2> QED BY <2>3 DEF m
<1>3. WriteFrequency * (q + 1) = WriteFrequency * q + WriteFrequency
  BY RunAssumption
<1>4. n + 1 < WriteFrequency * q + WriteFrequency
  BY <1>1, <1>2, <1>3, RunAssumption
<1> QED BY <1>1, <1>4, RunAssumption DEF Due

LEMMA FedCounted == IsFiniteSet(Fed) /\ Cardinality(Fed) \in Nat
<1>1. IsFiniteSet(Line)
  BY FS_Interval, RunAssumption DEF Line
<1>2. IsFiniteSet(Fed)
  BY <1>1, FS_Subset DEF Fed
<1> QED BY <1>2, FS_CardinalityType

LEMMA InitRework == Init => Rework
<1> SUFFICES ASSUME Init PROVE Rework
  OBVIOUS
<1>1. run.pc = "idle" /\ job.processed = 0 /\ lost = 0 /\ \A l \in Line : done[l] = 0
  BY DEF Init, NoRun, NewDoc
<1>2. Fed = {}
  BY <1>1 DEF Fed
<1>3. Cardinality(Fed) = 0
  BY <1>2, FS_EmptySet
<1> QED BY <1>1, <1>2, <1>3, RunAssumption DEF Rework

\* A step of a run that hands no line over, saves or not, and is not at its
\* periodic save before or after.
SavesWell ==
  /\ UNCHANGED <<done, resets>> /\ lost' \in {lost, lost + 1}
  /\ run.pc \notin {"idle", "freq"} /\ run'.pc \notin {"idle", "freq"}
  /\ run'.counter = run.counter
  /\ job'.status \in {job.status, run.copy.status, "Complete"}
  /\ run'.copy.status \in {run.copy.status, "Complete"}
  /\ job'.processed \in {job.processed, run.copy.processed} \/ run.counter <= job'.processed
  /\ run'.copy.processed = run.copy.processed \/ run.counter <= run'.copy.processed
  /\ run'.pc \notin Ahead
  /\ run'.pc = "read" => run.pc \in {"read", "count"} /\ run'.count = run.count + 1

LEMMA SavesRework ==
  ASSUME RInv, TypeOK', Rework, SavesWell
  PROVE  Rework'
<1> SUFFICES ASSUME resets = 0 PROVE Rework'
  BY DEF Rework, SavesWell
<1>1. /\ job.processed \in Nat /\ run.copy.processed \in Nat /\ run.counter \in Nat
      /\ job'.processed \in Nat /\ run'.copy.processed \in Nat
      /\ lost \in Nat /\ lost' \in Nat
  BY DEF RInv, TypeOK, Run, Doc
<1>2. /\ job.status # "Pending" /\ run.copy.status # "Pending"
      /\ Cardinality(Fed) = run.counter
      /\ Due(run.counter, job.processed, lost) /\ Due(run.counter, run.copy.processed, lost)
  BY DEF Rework, SavesWell, Behind
<1>3. Fed' = Fed
  BY DEF Fed, SavesWell
<1>4. WriteFrequency * lost' \in Nat
  BY <1>1, TimesFrequency
<1>5. ASSUME NEW p \in Nat, p \in {job.processed, run.copy.processed} \/ run.counter <= p
      PROVE  Due(run.counter, p, lost')
  <2>1. CASE run.counter <= p
    <3>1. run.counter <= p + WriteFrequency * lost'
      BY <1>1, <1>4, <2>1
    <3> QED BY <1>1, <3>1, DueAtOnce
  <2>2. CASE p \in {job.processed, run.copy.processed}
    <3>1. Due(run.counter, p, lost)
      BY <1>2, <2>2
    <3> QED BY <1>1, <3>1, DueMore DEF SavesWell
  <2> QED BY <1>5, <2>1, <2>2
<1>6. Due(run.counter, job'.processed, lost') /\ Due(run.counter, run'.copy.processed, lost')
  BY <1>1, <1>5 DEF SavesWell
<1>7. job'.status # "Pending" /\ run'.copy.status # "Pending"
  BY <1>2 DEF SavesWell
<1>8. FirstTime(run)
  BY DEF Rework, SavesWell
<1>9. FirstTime(run')
  <2> SUFFICES ASSUME run'.pc = "read", NEW l \in Fed PROVE l <= run.count + 1
    BY DEF FirstTime, SavesWell
  <2>1. CASE run.pc = "read"
    <3>1. l <= run.count
      BY <1>8, <2>1 DEF FirstTime
    <3>2. l \in Int /\ run.count \in Int
      BY RunAssumption DEF Fed, Line, RInv, TypeOK, Run
    <3> QED BY <3>1, <3>2
  <2>2. CASE run.pc = "count"
    BY <1>8, <2>2 DEF FirstTime, Ahead
  <2> QED BY <2>1, <2>2 DEF SavesWell
<1>10. FirstTime(run)'
  BY <1>3, <1>9 DEF FirstTime
<1> QED BY <1>2, <1>3, <1>6, <1>7, <1>10 DEF Rework, SavesWell, Behind

LEMMA StepSaves ==
  ASSUME RInv,
         \/ SkipLine \/ CountLine \/ CountLineLost \/ ReadError \/ ReadToEnd \/ ReadToEndLost
         \/ LastSave \/ LastSaveLost \/ FinalSave \/ FinalSaveLost \/ Finish \/ FinishLost
         \/ Dispose \/ DisposeLost
  PROVE  SavesWell
<1>0. /\ run \in Run /\ job \in Doc /\ run.copy \in Doc /\ run.counter \in Nat /\ run.count \in Nat
      /\ run.copy.processed \in Nat
  BY DEF RInv, TypeOK, Run, Doc
<1>1. /\ run.pc \in {"last", "final"} => run.counter <= run.count
      /\ run.pc = "count" => run.counter <= run.count + 1
  <2>1. CASE run.pc \in {"last", "final"}
    BY <1>0, <2>1 DEF RInv, RunOK, Ahead
  <2>2. CASE run.pc = "count"
    BY <1>0, <2>2 DEF RInv, RunOK, Ahead
  <2> QED BY <2>1, <2>2
<1> DEFINE Saved(doc) == /\ run'.copy = doc /\ job' \in {job, doc}
                         /\ run'.counter = run.counter
                         /\ run.pc \notin {"idle", "freq"}
                         /\ run'.pc \notin {"idle", "freq"} \cup Ahead
                         /\ UNCHANGED <<done, resets>> /\ lost' \in {lost, lost + 1}
<1>2. ASSUME NEW n \in Nat, run.counter <= n, Saved(Progress(n)),
             run'.pc = "read" => run.pc \in {"read", "count"} /\ run'.count = run.count + 1
      PROVE  SavesWell
  <2>1. Progress(n).processed = n /\ Progress(n).status = run.copy.status
    BY <1>0 DEF Progress, Doc
  <2> QED BY <1>2, <2>1 DEF SavesWell
<1>3. ASSUME Saved(Completed), run'.pc # "read"
      PROVE  SavesWell
  <2>1. Completed.processed = run.copy.processed /\ Completed.status = "Complete"
    BY <1>0 DEF Completed, Doc
  <2> QED BY <1>3, <2>1 DEF SavesWell
<1>4. ASSUME Saved(run.copy), job' = job,
             run'.pc = "read" => run.pc \in {"read", "count"} /\ run'.count = run.count + 1
      PROVE  SavesWell
  BY <1>4 DEF SavesWell
<1>5. CASE SkipLine \/ ReadError
  <2>1. /\ Saved(run.copy) /\ job' = job /\ run.pc = "read"
        /\ run'.pc = "read" => run'.count = run.count + 1
    BY <1>0, <1>5 DEF SkipLine, ReadError, Run, Ahead
  <2> QED BY <1>4, <2>1
<1>6. CASE Dispose \/ DisposeLost
  <2>1. Saved(run.copy) /\ job' = job /\ run'.pc # "read"
    BY <1>0, <1>6 DEF Dispose, DisposeLost, Closed, Run, Ahead
  <2> QED BY <1>4, <2>1
<1>7. CASE CountLine
  <2>1. run.pc = "count" /\ run'.count = run.count + 1
    BY <1>0, <1>7 DEF CountLine, Run
  <2>2. CASE IntervalDue(run.count + 1)
    <3>1. Saved(Progress(run.count + 1))
      BY <1>0, <1>7, <2>1, <2>2 DEF CountLine, Run, Ahead
    <3> QED BY <1>0, <1>1, <1>2, <2>1, <3>1
  <2>3. CASE ~ IntervalDue(run.count + 1)
    <3>1. Saved(run.copy) /\ job' = job
      BY <1>0, <1>7, <2>1, <2>3 DEF CountLine, Run, Ahead
    <3> QED BY <1>4, <2>1, <3>1
  <2> QED BY <2>2, <2>3
<1>8. CASE CountLineLost
  <2>1. run.pc = "count" /\ run'.pc # "read" /\ Saved(Progress(run.count + 1))
    BY <1>0, <1>8 DEF CountLineLost, SaveLost, Run, Ahead
  <2> QED BY <1>0, <1>1, <1>2, <2>1
<1>9. CASE ReadToEnd \/ Finish
  <2>1. run'.pc # "read"
    BY <1>0, <1>9 DEF ReadToEnd, Finish, Save, Run
  <2>2. Saved(Completed) \/ (Saved(run.copy) /\ job' = job)
    BY <1>0, <1>9 DEF ReadToEnd, Finish, Save, Run, Ahead
  <2> QED BY <1>3, <1>4, <2>1, <2>2
<1>10. CASE ReadToEndLost \/ FinishLost
  <2>1. run'.pc # "read" /\ Saved(Completed)
    BY <1>0, <1>10 DEF ReadToEndLost, FinishLost, SaveLost, Run, Ahead
  <2> QED BY <1>3, <2>1
<1>11. CASE LastSave \/ FinalSave
  <2>1. run.pc \in {"last", "final"} /\ run'.pc # "read"
    BY <1>0, <1>11 DEF LastSave, FinalSave, Save, Run
  <2>2. \/ Saved(Progress(run.count)) \/ Saved(Progress(run.counter))
        \/ Saved(run.copy) /\ job' = job
    BY <1>0, <1>11 DEF LastSave, FinalSave, Save, Run, Ahead
  <2> QED BY <1>0, <1>1, <1>2, <1>4, <2>1, <2>2
<1>12. CASE LastSaveLost \/ FinalSaveLost
  <2>1. run.pc \in {"last", "final"} /\ run'.pc # "read"
    BY <1>0, <1>12 DEF LastSaveLost, FinalSaveLost, SaveLost, Run
  <2>2. Saved(Progress(run.count)) \/ Saved(Progress(run.counter))
    BY <1>0, <1>12 DEF LastSaveLost, FinalSaveLost, SaveLost, Run, Ahead
  <2> QED BY <1>0, <1>1, <1>2, <2>1, <2>2
<1> QED BY <1>5, <1>6, <1>7, <1>8, <1>9, <1>10, <1>11, <1>12

\* The periodic save, which leaves the counter behind it, or one failure more.
LEMMA FrequencyRework ==
  ASSUME RInv, TypeOK', Rework, FrequencySave \/ FrequencySaveLost
  PROVE  Rework'
<1> SUFFICES ASSUME resets = 0 PROVE Rework'
  BY DEF Rework, FrequencySave, FrequencySaveLost
<1>1. /\ job.processed \in Nat /\ run \in Run /\ run.counter \in Nat /\ run.copy \in Doc
      /\ job'.processed \in Nat /\ lost \in Nat /\ lost' \in Nat
  BY DEF RInv, TypeOK, Run, Doc
<1>2. /\ run.pc = "freq" /\ job.status # "Pending" /\ run.copy.status # "Pending"
      /\ Cardinality(Fed) = run.counter
      /\ run.counter <= job.processed + WriteFrequency * (1 + lost)
  BY DEF Rework, Behind, FrequencySave, FrequencySaveLost
<1>3. /\ Fed' = Fed /\ run'.pc = "count" /\ run'.counter = run.counter
      /\ run'.copy.status = run.copy.status /\ run'.copy.processed = run.counter
      /\ job'.status \in {job.status, run.copy.status}
  <2>1. /\ run' = [run EXCEPT !.pc = "count", !.copy = Progress(run.counter), !.etag = "none"]
        /\ job' \in {job, Progress(run.counter)} /\ done' = done
    BY DEF FrequencySave, FrequencySaveLost
  <2>2. /\ Progress(run.counter).status = run.copy.status
        /\ Progress(run.counter).processed = run.counter
    BY <1>1 DEF Progress, Doc
  <2> QED BY <1>1, <2>1, <2>2 DEF Fed, Run
<1>4. run.counter <= job'.processed + WriteFrequency * lost'
  <2>1. CASE job'.processed = run.counter
    BY <1>1, <2>1, RunAssumption
  <2>2. CASE job' = job /\ lost' = lost + 1
    BY <1>1, <1>2, <2>2
  <2> QED BY <1>1, <2>1, <2>2 DEF FrequencySave, FrequencySaveLost, Progress, Doc
<1>5. run.counter <= run.counter + WriteFrequency * lost'
  BY <1>1, RunAssumption
<1>6. Due(run.counter, job'.processed, lost') /\ Due(run.counter, run.counter, lost')
  BY <1>1, <1>4, <1>5, DueAtOnce
<1>7. run'.count = run.count
  BY <1>1 DEF FrequencySave, FrequencySaveLost, Run
<1>8. FirstTime(run)'
  BY <1>2, <1>3, <1>7 DEF Rework, FirstTime, Ahead
<1> QED BY <1>2, <1>3, <1>6, <1>8 DEF Rework, Behind

LEMMA ProcessRework ==
  ASSUME RInv, Rework, ProcessLine
  PROVE  Rework'
<1> SUFFICES ASSUME resets = 0 PROVE Rework'
  BY DEF Rework, ProcessLine
<1> DEFINE l == run.count + 1
           n == run.counter + 1
<1>1. /\ job.processed \in Nat /\ run \in Run /\ run.counter \in Nat /\ run.count \in Nat
      /\ run.copy.processed \in Nat /\ lost \in Nat /\ done \in [Line -> Nat]
  BY DEF RInv, TypeOK, Run, Doc
<1>2. /\ run.pc = "read" /\ job.status # "Pending" /\ run.copy.status # "Pending"
      /\ Cardinality(Fed) = run.counter
      /\ Due(run.counter, job.processed, lost) /\ Due(run.counter, run.copy.processed, lost)
      /\ \A k \in Fed : k <= run.count
  BY DEF Rework, Behind, ProcessLine, FirstTime
<1>3. /\ UNCHANGED <<job, lost>> /\ run'.copy = run.copy
  BY <1>1 DEF ProcessLine, Run
<1>6. run'.count = run.count /\ \A k \in Fed : k <= run.count + 1
  <2>1. \A k \in Fed : k \in Int
    BY RunAssumption DEF Fed, Line
  <2>2. \A k \in Fed : k <= run.count + 1
    BY <1>1, <1>2, <2>1
  <2>3. run'.count = run.count
    BY <1>1 DEF ProcessLine, Run
  <2> QED BY <2>2, <2>3
<1>4. CASE l \in NullLines
  <2>1. Fed' = Fed /\ run'.pc = "count" /\ run'.counter = run.counter
    BY <1>1, <1>4 DEF ProcessLine, Fed, Run
  <2>2. \A k \in Fed : k <= run'.count + 1
    BY <1>6
  <2>3. FirstTime(run)'
    BY <2>1, <2>2 DEF FirstTime
  <2> QED BY <1>2, <1>3, <2>1, <2>3 DEF Rework, Behind
<1>5. CASE l \notin NullLines
  <2>1. /\ l \in Line /\ done' = [done EXCEPT ![l] = @ + 1]
        /\ run'.pc = (IF FrequencyDue(n) THEN "freq" ELSE "count") /\ run'.counter = n
    <3>1. l \in Line
      BY <1>1, RunAssumption DEF ProcessLine, Line
    <3>2. /\ done' = [done EXCEPT ![l] = @ + 1]
          /\ run' = [run EXCEPT !.pc = IF FrequencyDue(n) THEN "freq" ELSE "count",
                                !.counter = n]
      BY <1>5 DEF ProcessLine
    <3> HIDE DEF n
    <3> QED BY <1>1, <3>1, <3>2 DEF Run
  <2>2. l \notin Fed
    BY <1>1, <1>2
  <2>3. Fed' = Fed \cup {l}
    BY <1>1, <2>1 DEF Fed
  <2>4. Cardinality(Fed') = n
    BY <1>2, <2>2, <2>3, FedCounted, FS_AddElement
  <2>5. ASSUME NEW p \in Nat, Due(run.counter, p, lost)
        PROVE  Behind(run', p, lost)
    <3>1. CASE FrequencyDue(n)
      <4>1. PICK q \in Nat : /\ run.counter < WriteFrequency * q + WriteFrequency
                             /\ WriteFrequency * q <= p + WriteFrequency * lost
        BY <2>5 DEF Due
      <4>2. n <= p + WriteFrequency * (1 + lost)
        BY <1>1, <4>1, RunAssumption
      <4> QED BY <2>1, <3>1, <4>2 DEF Behind
    <3>2. CASE ~ FrequencyDue(n)
      BY <1>1, <2>1, <2>5, <3>2, DueNext DEF Behind
    <3> QED BY <3>1, <3>2
  <2>6. run'.pc # "idle"
    BY <2>1
  <2>7. \A k \in Fed' : k <= run'.count + 1
    BY <1>1, <1>6, <2>3
  <2>8. FirstTime(run)'
    BY <2>1, <2>7 DEF FirstTime
  <2> QED BY <1>1, <1>2, <1>3, <2>1, <2>4, <2>5, <2>6, <2>8 DEF Rework
<1> QED BY <1>4, <1>5

LEMMA OutsideRework ==
  ASSUME RInv, TypeOK', Rework,
         Start \/ StartError \/ Report \/ ReportLost \/ Crash \/ Reprocess
  PROVE  Rework'
<1> SUFFICES ASSUME resets' = 0 PROVE Rework'
  BY DEF Rework
<1>0. /\ job \in Doc /\ run \in Run /\ lost \in Nat /\ lost' \in Nat
      /\ job.processed \in Nat /\ run.counter \in Nat
  BY DEF RInv, TypeOK, Doc, Run
<1>1. resets = 0 /\ ~ Reprocess
  BY DEF RInv, TypeOK, Start, StartError, Report, ReportLost, Crash, Reprocess
<1>2. /\ job.status = "Pending" => run.pc = "idle" /\ Fed = {}
      /\ run.pc # "idle" => /\ Cardinality(Fed) = run.counter
                            /\ Behind(run, job.processed, lost)
  BY <1>1 DEF Rework
<1>3. Fed' = Fed
  BY <1>1 DEF Fed, Start, StartError, Report, ReportLost, Crash
<1>4. CASE Start \/ StartError
  <2>1. /\ Fed = {} /\ run'.pc \in {"read", "failed"} /\ run'.counter = 0
        /\ run'.copy.status = "Processing" /\ run'.copy.processed = job.processed
        /\ job'.status = "Processing" /\ job'.processed = job.processed
    BY <1>0, <1>2, <1>4 DEF Start, StartError, Started, ResumeInfo, Doc
  <2>2. Cardinality(Fed) = 0
    BY <2>1, FS_EmptySet
  <2>3. 0 <= job.processed + WriteFrequency * lost'
    BY <1>0, RunAssumption
  <2>4. Due(0, job.processed, lost')
    BY <1>0, <2>3, DueAtOnce
  <2>5. FirstTime(run)'
    BY <1>3, <2>1 DEF FirstTime, Ahead
  <2> QED BY <1>3, <2>1, <2>2, <2>4, <2>5 DEF Rework, Behind
<1>5. CASE Report \/ ReportLost \/ Crash
  <2>1. /\ run.pc # "idle" /\ run'.pc = "idle"
        /\ job'.processed = job.processed /\ job'.status # "Pending"
        /\ lost' \in {lost, lost + 1}
    <3>1. CASE Crash
      BY <1>2, <3>1 DEF Crash, NoRun
    <3>2. CASE Report \/ ReportLost
      <4>1. Outcome.processed = job.processed /\ Outcome.status # "Pending"
        BY <1>0 DEF Outcome, Doc
      <4>2. /\ run.pc # "idle" /\ run' = NoRun /\ job' \in {job, Outcome}
            /\ lost' \in {lost, lost + 1}
        BY <3>2 DEF Report, ReportLost
      <4>3. job'.processed = job.processed /\ job'.status # "Pending"
        BY <1>2, <4>1, <4>2
      <4> QED BY <4>2, <4>3 DEF NoRun
    <3> QED BY <1>5, <3>1, <3>2
  <2>2. run.counter <= job.processed + WriteFrequency * (1 + lost)
    BY <1>0, <1>2, <2>1, DueBound DEF Behind
  <2>3. run.counter <= job.processed + WriteFrequency * (1 + lost')
    BY <1>0, <2>1, <2>2, RunAssumption
  <2> QED BY <1>2, <1>3, <2>1, <2>3 DEF Rework
<1> QED BY <1>1, <1>4, <1>5

LEMMA NextRework == RInv /\ Rework /\ [Next]_vars => RInv' /\ Rework'
<1> SUFFICES ASSUME RInv, Rework, [Next]_vars PROVE RInv' /\ Rework'
  OBVIOUS
<1>1. RInv' /\ TypeOK'
  BY NextRun DEF RInv
<1>2. CASE UNCHANGED vars
  <2>1. Fed' = Fed /\ UNCHANGED vars
    BY <1>2 DEF vars, Fed
  <2>2. FirstTime(run)' <=> FirstTime(run)
    BY <2>1 DEF vars, FirstTime
  <2> QED BY <1>1, <2>1, <2>2 DEF vars, Rework
<1>3. CASE Next
  <2>1. CASE ProcessLine
    BY <1>1, <2>1, ProcessRework
  <2>2. CASE FrequencySave \/ FrequencySaveLost
    BY <1>1, <2>2, FrequencyRework
  <2>3. CASE \/ Start \/ StartError \/ Report \/ ReportLost \/ Crash \/ Reprocess
    BY <1>1, <2>3, OutsideRework
  <2>4. CASE \/ SkipLine \/ CountLine \/ CountLineLost \/ ReadError
             \/ ReadToEnd \/ ReadToEndLost \/ LastSave \/ LastSaveLost
             \/ FinalSave \/ FinalSaveLost \/ Finish \/ FinishLost
             \/ Dispose \/ DisposeLost
    BY <1>1, <2>4, StepSaves, SavesRework
  <2> QED BY <1>3, <2>1, <2>2, <2>3, <2>4 DEF Next, Loop, Ending, Failures
<1> QED BY <1>1, <1>2, <1>3

\* The recorded lines that were handed over are all but the null ones.
LEMMA ReworkCounts == RInv /\ Rework => ReworkBounded
<1> SUFFICES ASSUME RInv, Rework, resets = 0
             PROVE  Cardinality(Unrecorded)
                      <= WriteFrequency * (1 + lost) + Cardinality(NullLines)
  BY DEF ReworkBounded
<1>0. /\ job.processed \in Nat /\ run.counter \in Nat /\ run.copy.processed \in Nat
      /\ lost \in Nat /\ WriteFrequency * (1 + lost) \in Nat
      /\ ProgressSound
  BY RunAssumption DEF RInv, TypeOK, Run, Doc, JobOK, Covers, ProgressSound, Processed
<1>1. Cardinality(Fed) <= job.processed + WriteFrequency * (1 + lost)
  <2>1. CASE run.pc = "idle"
    BY <2>1 DEF Rework
  <2>2. CASE run.pc # "idle"
    BY <1>0, <2>2, DueBound DEF Rework, Behind
  <2> QED BY <2>1, <2>2
<1> DEFINE Old == {l \in Fed : l <= job.processed}
<1>2. /\ IsFiniteSet(Fed) /\ Cardinality(Fed) \in Nat
      /\ IsFiniteSet(NullLines) /\ Cardinality(NullLines) \in Nat
      /\ IsFiniteSet(Old) /\ Cardinality(Old) \in Nat
  <2>1. IsFiniteSet(NullLines)
    <3>1. IsFiniteSet(1 .. NumLines)
      BY RunAssumption, FS_Interval
    <3> QED BY <3>1, RunAssumption, FS_Subset
  <2>2. IsFiniteSet(Old)
    BY FedCounted, FS_Subset
  <2> QED BY <2>1, <2>2, FedCounted, FS_CardinalityType
<1>3. Unrecorded = Fed \ Old
  BY <1>0, RunAssumption DEF Unrecorded, Fed, Line
<1>4. Cardinality(Unrecorded) = Cardinality(Fed) - Cardinality(Old)
  <2>1. Fed \cap Old = Old
    OBVIOUS
  <2> HIDE DEF Old
  <2>2. Cardinality(Fed \ Old) = Cardinality(Fed) - Cardinality(Fed \cap Old)
    BY <1>2, FS_Difference, Zenon
  <2> QED BY <1>3, <2>1, <2>2, Zenon
<1>5. CASE job.processed <= NumLines
  <2>1. 1 .. job.processed \subseteq Old \cup NullLines
    BY <1>0, <1>5, RunAssumption DEF ProgressSound, Processed, Line, Fed
  <2>2. Cardinality(1 .. job.processed) = job.processed
    <3>1. Cardinality(1 .. job.processed)
            = IF 1 > job.processed THEN 0 ELSE job.processed - 1 + 1
      <4> DEFINE n == job.processed
      <4>1. 1 \in Int /\ n \in Int
        BY <1>0
      <4> HIDE DEF n
      <4>2. Cardinality(1 .. n) = IF 1 > n THEN 0 ELSE n - 1 + 1
        BY <4>1, FS_Interval
      <4> QED BY <4>2 DEF n
    <3> QED BY <1>0, <3>1
  <2>3. /\ IsFiniteSet(Old \cup NullLines) /\ Cardinality(Old \cap NullLines) \in Nat
        /\ Cardinality(Old \cup NullLines)
             = Cardinality(Old) + Cardinality(NullLines) - Cardinality(Old \cap NullLines)
    <3>1. IsFiniteSet(Old \cap NullLines)
      BY <1>2, FS_Subset
    <3> QED BY <1>2, <3>1, FS_Union, FS_CardinalityType
  <2>4. job.processed <= Cardinality(Old) + Cardinality(NullLines)
    <3>1. Cardinality(1 .. job.processed) <= Cardinality(Old \cup NullLines)
      BY <2>1, <2>3, FS_Subset
    <3> HIDE DEF Old
    <3> QED BY <1>0, <1>2, <2>2, <2>3, <3>1
  <2> HIDE DEF Old
  <2> QED BY <1>0, <1>1, <1>2, <1>4, <2>4
<1>6. CASE ~ (job.processed <= NumLines)
  <2>1. Fed \subseteq Old
    BY <1>0, <1>6, RunAssumption DEF Fed, Line
  <2>2. Cardinality(Unrecorded) = 0
    BY <1>3, <2>1, FS_EmptySet
  <2> HIDE DEF Old
  <2> QED BY <1>0, <1>2, <2>2
<1> QED BY <1>5, <1>6

(***************************************************************************)
(* For any number of lines and null lines, any two save intervals and any  *)
(* number of failures: a run that stops, at whatever step, leaves the next *)
(* one at most the results of one WriteFrequency to repeat, of one more    *)
(* for every save that failed, and a line for every null line.             *)
(***************************************************************************)
THEOREM ReworkCorrect == Spec => []ReworkBounded
<1> QED BY InitRun, InitRework, NextRework, ReworkCounts, PTL DEF Spec

=============================================================================
