-------------------------- MODULE FileTransaction --------------------------
(***************************************************************************)
(* executePlan of the developer tools (aidlc-transaction.ts): a process    *)
(* changes several files and trees below a root, all or none of them, with *)
(* a lock file against other processes, a staging directory with copies of *)
(* what it replaces, and a rollback.  Processes may die at any moment, and *)
(* somebody may edit the files by hand.  A step is a call to the file      *)
(* system; the content of a path is the name of who wrote it.              *)
(***************************************************************************)
EXTENDS Integers, FiniteSets, Sequences, SequencesExt

CONSTANTS
  Process,      \* the processes, each with one plan
  Path,         \* what the plans change
  Tree,         \* the paths that hold a directory tree
  Missing,      \* the paths where there may be nothing at first
  Plan,         \* the operations of each process, checked if they expect a state
  NoProcess,    \* no lock file
  Original,     \* what a path holds at first
  Edited,       \* what an editor writes
  Absent,       \* nothing at the path
  Remnant,      \* what is left of a tree that was removed in part
  MaxDeaths,    \* bound: processes that die
  MaxEdits      \* bound: edits by hand

Operation == [kind: {"put", "remove"}, path: Path, checked: BOOLEAN]

ASSUME TransactionAssumption ==
  /\ Tree \subseteq Path /\ Missing \subseteq Path
  /\ Plan \in [Process -> Seq(Operation)]
  /\ \A p \in Process : Plan[p] # << >>
  /\ \A p \in Process : \A i, j \in DOMAIN Plan[p] :
       Plan[p][i].path = Plan[p][j].path => i = j
  /\ NoProcess \notin Process
  /\ Edited \notin Process \cup {Absent}
  /\ Remnant \notin Process \cup {Absent}
  /\ MaxDeaths \in Nat /\ MaxEdits \in Nat

VARIABLES
  target,     \* what is at each path
  lock,       \* whose identity the lock file has
  staging,    \* the directory of each process
  proc,       \* what each process is doing
  edits,      \* edits made
  base,       \* history: what each path held when last nobody was changing it
  torn        \* history: the paths of which a process gave up the old content

history == <<base, torn>>

vars == <<target, lock, staging, proc, edits, history>>

Content == Process \cup {Original, Edited, Absent, Remnant}

Nothing == [q \in Path |-> Absent]

Staging == [place: {"none", "txn", "recovery"},
            backups: [Path -> Content], removed: [Path -> Content]]

Empty == [place |-> "none", backups |-> Nothing, removed |-> Nothing]

Entry == [path: Path, existed: BOOLEAN, state: Content, displaced: BOOLEAN]

\* The places of a process that got the lock and has not given it back.
Locked == {"quarantine", "verify", "snapshot", "check", "displace", "install",
           "record", "validate", "rollback", "clean", "release", "unlock"}

Place == {"new", "link", "read", "judge", "move", "compare", "putback", "ended", "dead"}
           \cup Locked

Proc == [pc: Place, tries: 0 .. 1, seen: Process \cup {NoProcess},
         moved: Process \cup {NoProcess}, expected: [Path -> Content],
         op: Nat, existed: BOOLEAN, committed: Seq(Entry), incomplete: BOOLEAN]

NewProc == [pc |-> "new", tries |-> 0, seen |-> NoProcess, moved |-> NoProcess,
            expected |-> Nothing, op |-> 1, existed |-> FALSE, committed |-> << >>,
            incomplete |-> FALSE]

TypeOK ==
  /\ target \in [Path -> Content]
  /\ lock \in Process \cup {NoProcess}
  /\ staging \in [Process -> Staging]
  /\ proc \in [Process -> Proc]
  /\ \A p \in Process : proc[p].op \in DOMAIN Plan[p]
  /\ edits \in 0 .. MaxEdits
  /\ base \in [Path -> Content]
  /\ torn \subseteq Path

Init ==
  /\ target \in [Path -> {Original, Absent}]
  /\ \A q \in Path \ Missing : target[q] = Original
  /\ lock = NoProcess
  /\ staging = [p \in Process |-> Empty]
  /\ proc = [p \in Process |-> NewProc]
  /\ edits = 0
  /\ base = target
  /\ torn = {}

At(p, place) == proc[p].pc = place

Goto(p, place) == proc' = [proc EXCEPT ![p].pc = place]

\* A process is gone, and all that it knew.
Quit(p, place) ==
  proc' = [proc EXCEPT ![p] =
             [NewProc EXCEPT !.pc = place, !.incomplete = proc[p].incomplete]]

\* The operation a process is at.
Op(p) == Plan[p][proc[p].op]

LastOp(p) == proc[p].op = Len(Plan[p])

\* Only what was committed matters from here.
Stop(p, place) ==
  proc' = [proc EXCEPT ![p] =
             [NewProc EXCEPT !.pc = place, !.committed = proc[p].committed]]

\* Still in executePlan.
Alive(p) == proc[p].pc \notin {"new", "ended", "dead"}

-----------------------------------------------------------------------------
(* The lock.                                                               *)

\* The plan is made, with the state that it expects of paths.
Begin(p) ==
  LET checked == {Plan[p][i].path : i \in {j \in DOMAIN Plan[p] : Plan[p][j].checked}} IN
  /\ At(p, "new")
  /\ proc' = [proc EXCEPT ![p].pc = "link",
       ![p].expected = [q \in Path |-> IF q \in checked THEN target[q] ELSE Absent]]
  /\ UNCHANGED <<target, lock, staging, edits, history>>

\* A link to the process's own file, which fails if the lock file exists.
Link(p) ==
  /\ At(p, "link")
  /\ \/ /\ lock = NoProcess
        /\ lock' = p
        /\ proc' = [proc EXCEPT ![p] = [NewProc EXCEPT !.pc = "quarantine",
                                                     !.expected = proc[p].expected]]
     \/ /\ lock # NoProcess
        /\ IF proc[p].tries = 0 THEN Goto(p, "read") ELSE Quit(p, "ended")
        /\ UNCHANGED lock
  /\ UNCHANGED <<target, staging, edits, history>>

Again(p) ==
  proc' = [proc EXCEPT ![p].pc = "link", ![p].tries = 1,
                       ![p].seen = NoProcess, ![p].moved = NoProcess]

\* clearStaleLock reads the lock file, ...
ReadLock(p) ==
  /\ At(p, "read")
  /\ IF lock = NoProcess
       THEN Again(p)
       ELSE proc' = [proc EXCEPT ![p].pc = "judge", ![p].seen = lock]
  /\ UNCHANGED <<target, lock, staging, edits, history>>

\* ... gives up if its process is alive, as it may also be after its plan, ...
Judge(p) ==
  /\ At(p, "judge")
  /\ \/ ~ At(proc[p].seen, "dead") /\ Quit(p, "ended")
     \/ ~ Alive(proc[p].seen) /\ Goto(p, "move")
  /\ UNCHANGED <<target, lock, staging, edits, history>>

\* ... moves the lock file aside if it is not, ...
MoveLock(p) ==
  /\ At(p, "move")
  /\ \/ lock = NoProcess /\ Again(p)
     \/ lock # NoProcess /\ proc' = [proc EXCEPT ![p].pc = "compare", ![p].moved = lock]
  /\ lock' = NoProcess
  /\ UNCHANGED <<target, staging, edits, history>>

\* Mutated: what was moved aside is not read again.
CompareNothing(p) ==
  /\ At(p, "compare")
  /\ Again(p)
  /\ UNCHANGED <<target, lock, staging, edits, history>>

\* ... makes sure that it is the one it had read, ...
Compare(p) ==
  /\ At(p, "compare")
  /\ IF proc[p].moved = proc[p].seen THEN Again(p) ELSE Goto(p, "putback")
  /\ UNCHANGED <<target, lock, staging, edits, history>>

\* ... and puts it back if not, over the lock of a third process if there is one,
\* or fails to.
PutBack(p) ==
  /\ At(p, "putback")
  /\ lock' \in {proc[p].moved, lock}
  /\ Quit(p, "ended")
  /\ UNCHANGED <<target, staging, edits, history>>

\* The lock file is removed if it still has the identity of the process.  It stays
\* when it cannot be read or removed.
Release(p) ==
  /\ At(p, "release")
  /\ \/ lock = p /\ Goto(p, "unlock")
     \/ Quit(p, "ended")
  /\ UNCHANGED <<target, lock, staging, edits, history>>

Unlock(p) ==
  /\ At(p, "unlock")
  /\ lock' \in {NoProcess, lock}
  /\ Quit(p, "ended")
  /\ UNCHANGED <<target, staging, edits, history>>

-----------------------------------------------------------------------------
(* The plan.                                                               *)

\* Staging directories that dead processes left become recovery directories.
Quarantine(p) ==
  /\ At(p, "quarantine")
  /\ staging' = [q \in Process |->
       IF q # p /\ staging[q].place = "txn"
         THEN [staging[q] EXCEPT !.place = "recovery"] ELSE staging[q]]
  /\ Goto(p, "verify")
  /\ UNCHANGED <<target, lock, edits, history>>

AsExpected(p, op) == op.checked => target[op.path] = proc[p].expected[op.path]

\* The plan is verified under the lock, and what it puts in place is staged.
Verify(p) ==
  /\ At(p, "verify")
  /\ \A i \in DOMAIN Plan[p] : AsExpected(p, Plan[p][i])
  /\ staging' = [staging EXCEPT ![p].place = "txn"]
  /\ Goto(p, "snapshot")
  /\ UNCHANGED <<target, lock, edits, history>>

\* Mutated: the next stage does not begin with the first operation.
AdvanceOn(p, place) ==
  [proc[p] EXCEPT !.pc = IF LastOp(p) THEN place ELSE @, !.op = @ + 1]

\* The next operation, or the next stage with the first one.
Advance(p, place) ==
  IF LastOp(p)
    THEN [proc[p] EXCEPT !.pc = place, !.op = 1]
    ELSE [proc[p] EXCEPT !.op = @ + 1]

Snapshot(p) ==
  /\ At(p, "snapshot")
  /\ AsExpected(p, Op(p))
  /\ staging' = [staging EXCEPT ![p].backups[Op(p).path] = target[Op(p).path]]
  /\ proc' = [proc EXCEPT ![p] = Advance(p, "check")]
  /\ UNCHANGED <<target, lock, edits, history>>

\* Just before it commits an operation, it looks at the path once more, and
\* whether there is something to replace.
Check(p) ==
  LET existed == target[Op(p).path] # Absent IN
  /\ At(p, "check")
  /\ AsExpected(p, Op(p))
  /\ proc' = [proc EXCEPT
       ![p].existed = existed,
       ![p].pc = IF Op(p).path \in Tree /\ Op(p).kind = "put" /\ existed
                   THEN "displace" ELSE "install"]
  /\ UNCHANGED <<target, lock, staging, edits, history>>

\* A tree is moved out of the way of the new one.
Displace(p) ==
  LET path == Op(p).path IN
  /\ At(p, "displace")
  /\ staging' = [staging EXCEPT ![p].removed[path] = target[path]]
  /\ target' = [target EXCEPT ![path] = Absent]
  /\ Goto(p, "install")
  /\ UNCHANGED <<lock, edits, history>>

Displaced(p) == Op(p).kind = "put" /\ staging[p].removed[Op(p).path] # Absent

\* An operation that expects nothing replaces what was edited after its snapshot.
Unseen(p) ==
  proc[p].existed /\ ~ Displaced(p)
    /\ target[Op(p).path] # staging[p].backups[Op(p).path]

\* The new content is moved into place, or the old content out of it.
Install(p) ==
  LET path == Op(p).path IN
  /\ At(p, "install")
  /\ IF Op(p).kind = "remove"
       THEN /\ staging' = [staging EXCEPT ![p].removed[path] = target[path]]
            /\ target' = [target EXCEPT ![path] = Absent]
       ELSE /\ target' = [target EXCEPT ![path] = p]
            /\ UNCHANGED staging
  /\ torn' = IF Unseen(p) THEN torn \cup {path} ELSE torn
  /\ Goto(p, "record")
  /\ UNCHANGED <<lock, edits, base>>

\* The record that a committed operation leaves for the rollback.
Done(p) ==
  [path |-> Op(p).path, existed |-> proc[p].existed, state |-> target[Op(p).path],
   displaced |-> Displaced(p)]

Record(p) ==
  LET r == [Advance(p, "validate") EXCEPT !.committed = Append(@, Done(p))] IN
  /\ At(p, "record")
  /\ proc' = [proc EXCEPT ![p] = IF LastOp(p) THEN r ELSE [r EXCEPT !.pc = "check"]]
  /\ UNCHANGED <<target, lock, staging, edits, history>>

Paths(p) == {Plan[p][i].path : i \in DOMAIN Plan[p]}

\* The plan of p has been carried out.
Carried(p) ==
  /\ base' = [path \in Path |-> IF path \in Paths(p) THEN target[path] ELSE base[path]]
  /\ torn' = torn \ Paths(p)

\* All operations are committed and validated, and the staging is removed.
Validate(p) ==
  /\ At(p, "validate")
  /\ staging' = [staging EXCEPT ![p] = Empty]
  /\ Carried(p)
  /\ Stop(p, "release")
  /\ UNCHANGED <<target, lock, edits>>

-----------------------------------------------------------------------------
(* Failures.                                                               *)

\* A call or a check throws: what was committed is to be rolled back.
Throw(p) ==
  /\ proc[p].pc \in {"quarantine", "verify", "snapshot", "check", "displace", "validate"}
  /\ Stop(p, "rollback")
  /\ UNCHANGED <<target, lock, staging, edits, history>>

\* Mutated: the tree that was moved aside is not moved back.
ThrowAtInstallOnly(p) ==
  /\ At(p, "install")
  /\ Stop(p, "rollback")
  /\ UNCHANGED <<target, lock, staging, edits, history>>

\* The new content cannot be moved into place: a tree is moved back, unless that
\* fails as well.
ThrowAtInstall(p) ==
  LET path == Op(p).path IN
  /\ At(p, "install")
  /\ \/ /\ Displaced(p)
        /\ target' = [target EXCEPT ![path] = staging[p].removed[path]]
        /\ staging' = [staging EXCEPT ![p].removed[path] = Absent]
        /\ UNCHANGED torn
     \/ /\ Displaced(p)
        /\ torn' = torn \cup {path}
        /\ UNCHANGED <<target, staging>>
     \/ ~ Displaced(p) /\ UNCHANGED <<target, staging, torn>>
  /\ Stop(p, "rollback")
  /\ UNCHANGED <<lock, edits, base>>

\* The state of what is now in place cannot be read: the operation is live, and
\* the rollback does not know of it.
ThrowAtRecord(p) ==
  /\ At(p, "record")
  /\ torn' = torn \cup {Op(p).path}
  /\ Stop(p, "rollback")
  /\ UNCHANGED <<target, lock, staging, edits, base>>

\* The paths that p has a copy of.
Copied(p) == {q \in Path : staging[p].backups[q] # Absent \/ staging[p].removed[q] # Absent}

\* What is left of copies when the ones of some paths are gone, and of others in
\* part.
Left(copies, gone, part) ==
  [q \in Path |-> IF q \in gone THEN Absent
                 ELSE IF q \in part /\ copies[q] # Absent THEN Remnant ELSE copies[q]]

\* The removal of the staging throws, and what was committed is rolled back with
\* the copies that are left.
ThrowAtValidate(p) ==
  /\ At(p, "validate")
  /\ \E gone \in SUBSET Copied(p) : \E part \in SUBSET ((Copied(p) \cap Tree) \ gone) :
       /\ staging' = [staging EXCEPT ![p].backups = Left(@, gone, part),
                                    ![p].removed = Left(@, gone, part)]
       /\ torn' = torn \cup gone \cup part
  /\ Stop(p, "rollback")
  /\ UNCHANGED <<target, lock, edits, base>>

\* The last committed operation, and the ones before it.
Undo(p) == Last(proc[p].committed)

Remaining(p) == [proc[p] EXCEPT !.committed = Front(@)]

\* The copy of what it replaced.
Copy(p) ==
  IF Undo(p).displaced THEN staging[p].removed[Undo(p).path]
                       ELSE staging[p].backups[Undo(p).path]

\* It is undone: the copy is moved back, or the path is removed.
Undone(p) ==
  LET path == Undo(p).path IN
  /\ target[path] = Undo(p).state
  /\ IF Undo(p).existed
       THEN /\ Copy(p) # Absent
            /\ target' = [target EXCEPT ![path] = Copy(p)]
            /\ staging' = IF Undo(p).displaced
                          THEN [staging EXCEPT ![p].removed[path] = Absent]
                          ELSE [staging EXCEPT ![p].backups[path] = Absent]
       ELSE /\ target' = [target EXCEPT ![path] = Absent]
            /\ UNCHANGED staging

\* One operation is undone, the last one first ...
Rollback(p) ==
  /\ At(p, "rollback")
  /\ proc[p].committed # << >>
  /\ Undone(p)
  /\ proc' = [proc EXCEPT ![p] = Remaining(p)]
  /\ UNCHANGED <<lock, edits, history>>

\* ... or cannot be: the path was changed since, a call fails, if need be after
\* what is at the path was removed in part or whole, or all is done but not
\* synchronized.
RollbackFails(p) ==
  LET path == Undo(p).path IN
  /\ At(p, "rollback")
  /\ proc[p].committed # << >>
  /\ \/ UNCHANGED <<target, staging>>
     \/ /\ target[path] = Undo(p).state
        /\ Undo(p).displaced \/ ~ Undo(p).existed
        /\ \E rest \in {Absent} \cup (IF path \in Tree THEN {Remnant} ELSE {}) :
             target' = [target EXCEPT ![path] = rest]
        /\ UNCHANGED staging
     \/ Undone(p)
  /\ proc' = [proc EXCEPT ![p] = [Remaining(p) EXCEPT !.incomplete = TRUE]]
  /\ UNCHANGED <<lock, edits, history>>

RollbackEnds(p) ==
  /\ At(p, "rollback")
  /\ proc[p].committed = << >>
  /\ Goto(p, "clean")
  /\ UNCHANGED <<target, lock, staging, edits, history>>

\* Mutated: the staging is removed whatever the rollback came to.
CleanAlways(p) ==
  /\ At(p, "clean")
  /\ staging' = [staging EXCEPT ![p] = Empty]
  /\ Goto(p, "release")
  /\ UNCHANGED <<target, lock, edits, history>>

\* The staging is removed, unless the rollback was incomplete.
Clean(p) ==
  /\ At(p, "clean")
  /\ staging' = IF proc[p].incomplete THEN staging ELSE [staging EXCEPT ![p] = Empty]
  /\ Goto(p, "release")
  /\ UNCHANGED <<target, lock, edits, history>>

\* The copies in a staging directory whose removal was broken off: nobody will
\* read what is left of them, and at worst it is nothing.
BrokenOff(p) ==
  staging' = [staging EXCEPT ![p].backups = Nothing, ![p].removed = Nothing]

\* The removal throws, and the lock file stays behind.
CleanFails(p) ==
  /\ At(p, "clean")
  /\ ~ proc[p].incomplete
  /\ BrokenOff(p)
  /\ Quit(p, "ended")
  /\ UNCHANGED <<target, lock, edits, history>>

\* A process may die while it removes its staging, its plan carried out or rolled
\* back.
Die(p) ==
  /\ Alive(p)
  /\ Cardinality({q \in Process : At(q, "dead")}) < MaxDeaths
  /\ \/ UNCHANGED <<staging, history>>
     \/ At(p, "validate") /\ BrokenOff(p) /\ Carried(p)
     \/ At(p, "clean") /\ ~ proc[p].incomplete /\ BrokenOff(p) /\ UNCHANGED history
  /\ Quit(p, "dead")
  /\ UNCHANGED <<target, lock, edits>>

\* A path is edited by hand.  Between the check of a path and the call that
\* changes it an edit would go unseen, and until the state is recorded it would
\* pass for the new content; nothing a process could do with files prevents
\* that: such edits are left out.
Edit ==
  /\ edits < MaxEdits
  /\ edits' = edits + 1
  /\ \E path \in Path :
       /\ \A p \in Process :
            proc[p].pc \in {"displace", "install", "record"} => Op(p).path # path
       /\ target' = [target EXCEPT ![path] = Edited]
       /\ base' = [base EXCEPT ![path] = Edited]
       /\ torn' = torn \ {path}
  /\ UNCHANGED <<lock, staging, proc>>

-----------------------------------------------------------------------------
Step(p) ==
  \/ Link(p) \/ ReadLock(p) \/ Judge(p) \/ MoveLock(p) \/ Compare(p) \/ PutBack(p)
  \/ Quarantine(p) \/ Verify(p) \/ Snapshot(p) \/ Check(p) \/ Displace(p)
  \/ Install(p) \/ Record(p) \/ Validate(p)
  \/ Throw(p) \/ ThrowAtInstall(p) \/ ThrowAtRecord(p) \/ ThrowAtValidate(p)
  \/ Rollback(p) \/ RollbackFails(p) \/ RollbackEnds(p) \/ Clean(p) \/ CleanFails(p)
  \/ Release(p) \/ Unlock(p)

Next ==
  \/ Edit
  \/ \E p \in Process : Begin(p) \/ Step(p) \/ Die(p)

Spec == Init /\ [][Next]_vars

-----------------------------------------------------------------------------
\* The processes between getting the lock and giving it back.
Inside == {p \in Process : proc[p].pc \in Locked}

\* One process at a time changes the paths, although the lock file of a dead
\* process is taken away by whoever finds it, in steps that others come between.
\* This is a promise to two processes that contend for the lock file of a third,
\* dead or about to end.  It is not one to more: a process that has read the lock
\* of the third can move aside that of a second one, and a fourth then gets in
\* before it is put back.
OneMutates == \A p, q \in Inside : p = q

\* What a path held when last nobody was changing it is there, or can be found
\* in a staging or recovery directory: whoever dies or throws, whether or not the
\* rollback succeeds, and whoever comes next.  It is not so of the paths that are
\* torn, one by one: their copies were given up by a call that failed between a
\* rename and its record, in the removal of the staging or in moving a tree back,
\* or an operation that expects nothing replaced an edit it had not seen.
NothingLost ==
  \A path \in Path \ torn :
    \/ base[path] \in {Absent, target[path]}
    \/ \E p \in Process :
         /\ staging[p].place # "none"
         /\ base[path] \in {staging[p].backups[path], staging[p].removed[path]}

\* A plan is carried out whole or not at all, unless the process dies or says
\* that its rollback is incomplete: what is left of a plan is in the paths that
\* are torn, and nowhere else.
AllOrNothing ==
  Inside = {} /\ (\A p \in Process : ~ At(p, "dead") /\ ~ proc[p].incomplete)
    => \A path \in Path \ torn : target[path] = base[path]
=============================================================================
