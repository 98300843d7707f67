----------------------- MODULE FileTransactionProofs -----------------------
(***************************************************************************)
(* What FileTransaction guarantees for any plans, paths, deaths and edits: *)
(* with at most three processes one is inside at a time, although the lock *)
(* file of a dead one is taken away by two that race for it; and then what *)
(* the paths held can always be found, and a plan is carried out whole or  *)
(* not at all, except for the paths that are torn.                         *)
(***************************************************************************)
EXTENDS FileTransaction, TLAPS

\* Two processes contend for the lock file of a third.
Few ==
  \A a, b, c, d \in Process : a = b \/ a = c \/ a = d \/ b = c \/ b = d \/ c = d

-----------------------------------------------------------------------------
(* The lock.                                                               *)

Over == {"ended", "dead"}

\* The process had the lock, or ended or died without it.
Past(p) == proc[p].pc \in Locked \cup Over

\* What a process that clears a stale lock file r knows.
Sees(r) ==
  /\ r.pc = "judge" => r.seen \in Process /\ Past(r.seen)
  /\ r.pc \in {"move", "compare", "putback"} => r.seen \in Process /\ proc[r.seen].pc \in Over
  /\ r.pc \in {"compare", "putback"} => r.moved \in Process /\ Past(r.moved)
  /\ r.pc = "putback" => r.moved # r.seen

\* q moved the lock file of p aside, when d's was stale; it puts it back or is
\* over.
Moved(p, q, d) ==
  /\ q # p /\ d # p /\ q # d
  /\ proc[d].pc \in Over
  /\ \/ proc[q].pc \in Over
     \/ proc[q].pc \in {"compare", "putback"} /\ proc[q].moved = p /\ proc[q].seen = d

LInv ==
  /\ TypeOK
  /\ lock # NoProcess => Past(lock)
  /\ \A q \in Process : Sees(proc[q])
  /\ \A p \in Inside : lock # p => \E q, d \in Process : Moved(p, q, d)
  /\ OneMutates

-----------------------------------------------------------------------------
(* The paths.                                                              *)

Undisturbed == \A p \in Process : ~ At(p, "dead") /\ ~ proc[p].incomplete

Keeps(s, path) ==
  staging[s].place # "none" /\ base[path] \in {staging[s].backups[path], staging[s].removed[path]}

Found(path) == base[path] \in {Absent, target[path]} \/ \E s \in Process : Keeps(s, path)

Elsewhere(p, path) == base[path] = Absent \/ \E s \in Process \ {p} : Keeps(s, path)

\* Somebody died or gave up, and nothing at the path is missed.
Spare(p, path) == ~ Undisturbed /\ Elsewhere(p, path)

\* With c at the path, all would be well without the staging directory of p.
Well(p, path, c) == base[path] = c \/ Spare(p, path)

PathOf(p, i) == Plan[p][i].path

\* The records of operations on a path.
Made(p, path) ==
  {proc[p].committed[i] : i \in {j \in DOMAIN proc[p].committed : PathOf(p, j) = path}}

\* What the operation of a record replaced.
Previous(p, e) ==
  IF ~ e.existed THEN Absent
  ELSE IF e.displaced THEN staging[p].removed[e.path] ELSE staging[p].backups[e.path]

\* The path is what a process is just changing: its tree is moved aside, or its
\* new content not yet recorded.
Away(p, path) == proc[p].pc = "install" /\ path = Op(p).path /\ Displaced(p)

Live(p, path) == proc[p].pc = "record" /\ path = Op(p).path

Touched(p, e) ==
  \/ Well(p, e.path, Previous(p, e))
  \/ base[e.path] = target[e.path] /\ target[e.path] = Edited

\* What a process inside has made of a path, and could undo.
PathOK(p, path) ==
  /\ \A e \in Made(p, path) : Touched(p, e)
  /\ Away(p, path) => Well(p, path, staging[p].removed[path])
  /\ Live(p, path) => \A e \in {Done(p)} : Well(p, path, Previous(p, e))
  /\ Made(p, path) = {} /\ ~ Away(p, path) /\ ~ Live(p, path) =>
       IF proc[p].incomplete THEN Found(path) ELSE Well(p, path, target[path])

EntryOK(p, i) ==
  LET e == proc[p].committed[i] IN e.path = PathOf(p, i) /\ e.state \in {p, Absent}

Committing == {"check", "displace", "install", "record"}

\* What a process knows of the path that it is changing.
OpOK(p) ==
  LET path == Op(p).path IN
  /\ proc[p].pc \in {"check", "displace"} => staging[p].removed[path] = Absent
  /\ proc[p].pc = "displace" => Op(p).kind = "put" /\ proc[p].existed /\ target[path] # Absent
  /\ proc[p].pc = "install" => (proc[p].existed <=> Displaced(p) \/ target[path] # Absent)
  /\ proc[p].pc = "record" =>
       target[path] \in {p, Absent} /\ (Displaced(p) => proc[p].existed)

\* What the staging directory and the records of a process inside have.
Records(p) ==
  /\ proc[p].pc \in {"quarantine", "verify"} => staging[p] = Empty /\ proc[p].op = 1
  /\ proc[p].pc \in {"quarantine", "verify", "snapshot"} => proc[p].committed = << >>
  /\ proc[p].pc \notin {"rollback", "clean"} => ~ proc[p].incomplete
  /\ proc[p].pc = "clean" => proc[p].committed = << >>
  /\ proc[p].pc \in {"snapshot", "validate"} \cup Committing => staging[p].place # "none"
  /\ proc[p].committed # << >> \/ proc[p].incomplete => staging[p].place # "none"
  /\ Len(proc[p].committed) <= Len(Plan[p])
  /\ \A i \in DOMAIN proc[p].committed : EntryOK(p, i)
  /\ proc[p].pc = "snapshot" => staging[p].removed = Nothing
  /\ proc[p].pc \in Committing =>
       /\ Len(proc[p].committed) = proc[p].op - 1
       /\ \A i \in DOMAIN Plan[p] :
            i > proc[p].op => staging[p].removed[PathOf(p, i)] = Absent
  /\ OpOK(p)
  /\ proc[p].pc = "validate" => Len(proc[p].committed) = Len(Plan[p])

Settled(path) == Found(path) /\ (Undisturbed => base[path] = target[path])

Working(p) == proc[p].pc \in Locked \ {"release", "unlock"}

Contending == {"new", "link", "read", "judge", "move", "compare", "putback"}

\* Either nobody is at work and all is settled, or one process is.
PInv ==
  /\ \A p \in Process :
       proc[p].pc \in Contending => staging[p] = Empty /\ ~ proc[p].incomplete
  /\ \A p \in Process : Working(p) => Records(p) /\ \A path \in Path \ torn : PathOK(p, path)
  /\ (\A p \in Process : ~ Working(p)) => \A path \in Path \ torn : Settled(path)

-----------------------------------------------------------------------------
(* Types.                                                                  *)

LEMMA Places ==
  /\ Place = Contending \cup Locked \cup Over
  /\ Contending \cap Locked = {} /\ Contending \cap Over = {} /\ Locked \cap Over = {}
BY DEF Place, Contending, Locked, Over

LEMMA Plans ==
  /\ \A p \in Process : /\ Plan[p] \in Seq(Operation)
                        /\ Len(Plan[p]) \in Nat \ {0}
                        /\ DOMAIN Plan[p] = 1 .. Len(Plan[p])
                        /\ \A i \in DOMAIN Plan[p] : PathOf(p, i) \in Path
  /\ \A p \in Process : \A i, j \in DOMAIN Plan[p] : PathOf(p, i) = PathOf(p, j) => i = j
<1> SUFFICES ASSUME NEW p \in Process
             PROVE  /\ Plan[p] \in Seq(Operation)
                    /\ Len(Plan[p]) \in Nat \ {0}
                    /\ DOMAIN Plan[p] = 1 .. Len(Plan[p])
                    /\ \A i \in DOMAIN Plan[p] : PathOf(p, i) \in Path
                    /\ \A i, j \in DOMAIN Plan[p] : PathOf(p, i) = PathOf(p, j) => i = j
  OBVIOUS
<1>1. Plan[p] \in Seq(Operation) /\ Plan[p] # << >>
  BY TransactionAssumption
<1>2. /\ Len(Plan[p]) \in Nat \ {0} /\ DOMAIN Plan[p] = 1 .. Len(Plan[p])
      /\ \A i \in DOMAIN Plan[p] : Plan[p][i] \in Operation
  <2> DEFINE s == Plan[p]
  <2>1. s \in Seq(Operation) /\ s # << >>
    BY <1>1
  <2> HIDE DEF s
  <2>2. /\ Len(s) \in Nat \ {0} /\ DOMAIN s = 1 .. Len(s)
        /\ \A i \in DOMAIN s : s[i] \in Operation
    BY <2>1
  <2> QED BY <2>2 DEF s
<1>3. \A i, j \in DOMAIN Plan[p] : PathOf(p, i) = PathOf(p, j) => i = j
  BY TransactionAssumption DEF PathOf
<1> QED BY <1>1, <1>2, <1>3 DEF PathOf, Operation

\* The step of one process, told by what becomes of it.
Becomes(p, r) == proc' = [proc EXCEPT ![p] = r]

LEMMA GotoBecomes ==
  ASSUME NEW p \in Process, NEW place, proc \in [Process -> Proc], Goto(p, place)
  PROVE  Becomes(p, [proc[p] EXCEPT !.pc = place])
BY DEF Goto, Becomes

LEMMA ProcTypes ==
  ASSUME TypeOK, NEW p \in Process, NEW r \in Proc, r.op \in DOMAIN Plan[p], Becomes(p, r)
  PROVE  /\ proc' \in [Process -> Proc]
         /\ \A q \in Process : proc'[q].op \in DOMAIN Plan[q]
BY DEF TypeOK, Becomes

LEMMA PlacedType ==
  ASSUME TypeOK, NEW p \in Process, NEW place \in Place
  PROVE  /\ [proc[p] EXCEPT !.pc = place] \in Proc
         /\ [proc[p] EXCEPT !.pc = place].op \in DOMAIN Plan[p]
<1>1. proc[p] \in Proc /\ proc[p].op \in DOMAIN Plan[p]
  BY DEF TypeOK
<1> QED BY <1>1 DEF Proc

LEMMA NothingType == Nothing \in [Path -> Content]
BY DEF Nothing, Content

ProcFields ==
  {"pc", "tries", "seen", "moved", "expected", "op", "existed", "committed", "incomplete"}

LEMMA FieldsType ==
  ASSUME NEW r, DOMAIN r = ProcFields, r = [x \in ProcFields |-> r[x]], r.pc \in Place,
         r.tries \in 0 .. 1, r.seen \in Process \cup {NoProcess},
         r.moved \in Process \cup {NoProcess}, r.expected \in [Path -> Content],
         r.op \in Nat, r.existed \in BOOLEAN, r.committed \in Seq(Entry), r.incomplete \in BOOLEAN
  PROVE  r \in Proc
BY DEF Proc, ProcFields

\* A process that begins anew, with an expectation or without.
LEMMA QuitType ==
  ASSUME TypeOK, NEW p \in Process, NEW place \in Place
  PROVE  LET r == [NewProc EXCEPT !.pc = place, !.incomplete = proc[p].incomplete]
         IN  r \in Proc /\ r.op \in DOMAIN Plan[p]
<1> DEFINE r == [NewProc EXCEPT !.pc = place, !.incomplete = proc[p].incomplete]
           none == << >>
           S == Seq(Entry)
<1>1. none \in S /\ 1 \in DOMAIN Plan[p] /\ proc[p].incomplete \in BOOLEAN
  BY Plans DEF TypeOK, Proc
<1>2. /\ DOMAIN r = ProcFields /\ r = [x \in ProcFields |-> r[x]]
      /\ r.pc = place /\ r.tries = 0 /\ r.seen = NoProcess /\ r.moved = NoProcess
      /\ r.expected = Nothing /\ r.op = 1 /\ r.existed \in BOOLEAN /\ r.committed = none
      /\ r.incomplete = proc[p].incomplete
  BY DEF NewProc, ProcFields
<1> HIDE DEF none, S, r
<1>3. r \in Proc
  BY <1>1, <1>2, NothingType, FieldsType DEF S
<1> QED BY <1>1, <1>2, <1>3 DEF r

LEMMA LinkedType ==
  ASSUME TypeOK, NEW p \in Process
  PROVE  LET r == [NewProc EXCEPT !.pc = "quarantine", !.expected = proc[p].expected]
         IN  r \in Proc /\ r.op \in DOMAIN Plan[p]
<1> DEFINE r == [NewProc EXCEPT !.pc = "quarantine", !.expected = proc[p].expected]
           none == << >>
           S == Seq(Entry)
<1>1. none \in S /\ 1 \in DOMAIN Plan[p] /\ proc[p].expected \in [Path -> Content]
  BY Plans DEF TypeOK, Proc
<1>2. /\ DOMAIN r = ProcFields /\ r = [x \in ProcFields |-> r[x]]
      /\ r.pc = "quarantine" /\ r.tries = 0 /\ r.seen = NoProcess /\ r.moved = NoProcess
      /\ r.expected = proc[p].expected /\ r.op = 1 /\ r.committed = none
      /\ r.existed \in BOOLEAN /\ r.incomplete = FALSE
  BY DEF NewProc, ProcFields
<1>3. r.pc \in Place /\ r.incomplete \in BOOLEAN
  BY DEF NewProc, Place, Locked
<1> HIDE DEF none, S, r
<1>4. r \in Proc
  BY <1>1, <1>2, <1>3, FieldsType DEF S
<1> QED BY <1>1, <1>2, <1>4 DEF r

\* A process that keeps only what it committed.
LEMMA StopType ==
  ASSUME TypeOK, NEW p \in Process, NEW place \in Place
  PROVE  LET r == [NewProc EXCEPT !.pc = place, !.committed = proc[p].committed]
         IN  /\ r \in Proc /\ r.op \in DOMAIN Plan[p]
             /\ r.pc = place /\ r.committed = proc[p].committed /\ r.incomplete = FALSE
<1> DEFINE r == [NewProc EXCEPT !.pc = place, !.committed = proc[p].committed]
           S == Seq(Entry)
<1>1. proc[p].committed \in S /\ 1 \in DOMAIN Plan[p]
  BY Plans DEF TypeOK, Proc
<1>2. /\ DOMAIN r = ProcFields /\ r = [x \in ProcFields |-> r[x]]
      /\ r.pc = place /\ r.tries = 0 /\ r.seen = NoProcess /\ r.moved = NoProcess
      /\ r.expected = Nothing /\ r.op = 1 /\ r.existed \in BOOLEAN
      /\ r.committed = proc[p].committed /\ r.incomplete = FALSE
      /\ r.incomplete \in BOOLEAN
  BY DEF NewProc, ProcFields
<1> HIDE DEF S, r
<1>3. r \in Proc
  BY <1>1, <1>2, NothingType, FieldsType DEF S
<1> QED BY <1>1, <1>2, <1>3 DEF r

\* The step of a process to r leaves every other one where it is.
LEMMA Others ==
  ASSUME TypeOK, NEW p \in Process, NEW r, Becomes(p, r)
  PROVE  proc'[p] = r /\ \A q \in Process \ {p} : proc'[q] = proc[q]
BY DEF TypeOK, Becomes

\* A process moves on and nothing else of the state leaves its type.
LEMMA ProcStep ==
  ASSUME TypeOK, NEW p \in Process, NEW r \in Proc, r.op \in DOMAIN Plan[p], Becomes(p, r),
         target' \in [Path -> Content], lock' \in Process \cup {NoProcess},
         staging' \in [Process -> Staging], UNCHANGED edits, base' \in [Path -> Content],
         torn' \subseteq Path
  PROVE  TypeOK'
BY ProcTypes DEF TypeOK

LEMMA GoStep ==
  ASSUME TypeOK, NEW p \in Process, NEW place \in Place, Goto(p, place),
         target' \in [Path -> Content], lock' \in Process \cup {NoProcess},
         staging' \in [Process -> Staging], UNCHANGED edits, base' \in [Path -> Content],
         torn' \subseteq Path
  PROVE  TypeOK'
<1> DEFINE r == [proc[p] EXCEPT !.pc = place]
<1>1. r \in Proc /\ r.op \in DOMAIN Plan[p]
  BY PlacedType
<1>2. Becomes(p, r)
  BY GotoBecomes DEF TypeOK
<1> HIDE DEF r
<1> QED BY <1>1, <1>2, ProcStep

\* A process gives up, and the copies it had may be gone.
LEMMA QuitStep ==
  ASSUME TypeOK, NEW p \in Process, NEW place \in Place, Quit(p, place),
         target' \in [Path -> Content], lock' \in Process \cup {NoProcess},
         staging' \in [Process -> Staging], UNCHANGED edits, base' \in [Path -> Content],
         torn' \subseteq Path
  PROVE  TypeOK'
<1> DEFINE r == [NewProc EXCEPT !.pc = place, !.incomplete = proc[p].incomplete]
<1>1. r \in Proc /\ r.op \in DOMAIN Plan[p]
  BY QuitType
<1>2. Becomes(p, r)
  BY DEF Quit, Becomes
<1> HIDE DEF r
<1> QED BY <1>1, <1>2, ProcStep

LEMMA StopStep ==
  ASSUME TypeOK, NEW p \in Process, NEW place \in Place, Stop(p, place),
         target' \in [Path -> Content], lock' \in Process \cup {NoProcess},
         staging' \in [Process -> Staging], UNCHANGED edits, base' \in [Path -> Content],
         torn' \subseteq Path
  PROVE  TypeOK'
<1> DEFINE r == [NewProc EXCEPT !.pc = place, !.committed = proc[p].committed]
<1>1. r \in Proc /\ r.op \in DOMAIN Plan[p]
  BY StopType
<1>2. Becomes(p, r)
  BY DEF Stop, Becomes
<1> HIDE DEF r
<1> QED BY <1>1, <1>2, ProcStep

LEMMA AgainStep ==
  ASSUME TypeOK, NEW p \in Process, Again(p),
         lock' \in Process \cup {NoProcess}, UNCHANGED <<target, staging, edits, history>>
  PROVE  TypeOK'
<1> DEFINE r == [proc[p] EXCEPT !.pc = "link", !.tries = 1, !.seen = NoProcess,
                           !.moved = NoProcess]
<1>1. r \in Proc /\ r.op \in DOMAIN Plan[p]
  <2>1. 1 \in 0 .. 1 /\ "link" \in Place
    BY DEF Place
  <2> QED BY <2>1 DEF TypeOK, Proc
<1>2. Becomes(p, r)
  BY DEF Again, Becomes, TypeOK
<1> HIDE DEF r
<1> QED BY <1>1, <1>2, ProcStep DEF TypeOK, history

LEMMA TypeInit == Init => TypeOK
<1> SUFFICES ASSUME Init PROVE TypeOK
  OBVIOUS
<1>1. NewProc \in Proc
  <2> DEFINE none == << >>
             S == Seq(Entry)
  <2>1. none \in S
    OBVIOUS
  <2>2. /\ DOMAIN NewProc = ProcFields /\ NewProc = [x \in ProcFields |-> NewProc[x]]
        /\ NewProc.pc \in Place /\ NewProc.tries = 0 /\ NewProc.seen = NoProcess
        /\ NewProc.moved = NoProcess /\ NewProc.expected = Nothing /\ NewProc.op = 1
        /\ NewProc.existed \in BOOLEAN
        /\ NewProc.committed = none /\ NewProc.incomplete \in BOOLEAN
    BY DEF NewProc, ProcFields, Place
  <2> HIDE DEF none, S
  <2> QED BY <2>1, <2>2, NothingType, FieldsType DEF S
<1>2. Empty \in Staging
  BY NothingType DEF Empty, Staging
<1>3. target \in [Path -> Content]
  BY DEF Init, Content
<1>4. \A p \in Process : NewProc.op \in DOMAIN Plan[p]
  BY Plans DEF NewProc
<1> QED BY <1>1, <1>2, <1>3, <1>4, TransactionAssumption DEF Init, TypeOK

LEMMA TypeLock ==
  ASSUME TypeOK, NEW p \in Process,
         \/ Begin(p) \/ Link(p) \/ ReadLock(p) \/ Judge(p) \/ MoveLock(p) \/ Compare(p)
         \/ PutBack(p) \/ Release(p) \/ Unlock(p)
  PROVE  TypeOK'
<1>0. {"read", "judge", "move", "compare", "putback", "ended", "dead", "unlock"} \subseteq Place
  BY DEF Place, Locked
<1>a. /\ proc[p] \in Proc /\ lock \in Process \cup {NoProcess} /\ target \in [Path -> Content]
      /\ proc[p].moved \in Process \cup {NoProcess}
  BY DEF TypeOK, Proc
<1>b. /\ staging \in [Process -> Staging] /\ base \in [Path -> Content] /\ torn \subseteq Path
  BY DEF TypeOK
<1>1. CASE Begin(p)
  <2>1. PICK f : /\ f \in [Path -> Content]
                 /\ Becomes(p, [proc[p] EXCEPT !.pc = "link", !.expected = f])
    <3> DEFINE checked == {Plan[p][i].path : i \in {j \in DOMAIN Plan[p] : Plan[p][j].checked}}
               g == [q \in Path |-> IF q \in checked THEN target[q] ELSE Absent]
    <3>1. g \in [Path -> Content]
      BY <1>a DEF Content
    <3>2. Becomes(p, [proc[p] EXCEPT !.pc = "link", !.expected = g])
      BY <1>1 DEF Begin, Becomes, TypeOK
    <3> HIDE DEF g
    <3> QED BY <3>1, <3>2
  <2> DEFINE r == [proc[p] EXCEPT !.pc = "link", !.expected = f]
  <2>2. r \in Proc /\ r.op \in DOMAIN Plan[p]
    <3>1. f \in [Path -> Content] /\ "link" \in Place
      BY <2>1 DEF Place
    <3>2. proc[p] \in Proc /\ proc[p].op \in DOMAIN Plan[p]
      BY DEF TypeOK
    <3> QED BY <3>1, <3>2 DEF Proc
  <2>3. Becomes(p, r)
    BY <2>1
  <2> HIDE DEF r
  <2> QED BY <1>1, <2>2, <2>3, ProcStep DEF TypeOK, Begin, history
<1>2. CASE Link(p)
  <2>1. CASE lock = NoProcess
    <3> DEFINE r == [NewProc EXCEPT !.pc = "quarantine", !.expected = proc[p].expected]
    <3>1. r \in Proc /\ r.op \in DOMAIN Plan[p]
      BY LinkedType
    <3>2. Becomes(p, r)
      BY <1>2, <2>1 DEF Link, Becomes
    <3> HIDE DEF r
    <3> QED BY <1>2, <2>1, <3>1, <3>2, ProcStep DEF TypeOK, Link, history
  <2>2. CASE lock # NoProcess
    BY <1>0, <1>2, <1>a, <2>2, GoStep, QuitStep DEF TypeOK, Link, history
  <2> QED BY <2>1, <2>2
<1>3. CASE ReadLock(p)
  <2>1. CASE lock = NoProcess
    BY <1>3, <2>1, <1>a, AgainStep DEF ReadLock
  <2>2. CASE lock # NoProcess
    <3> DEFINE r == [proc[p] EXCEPT !.pc = "judge", !.seen = lock]
    <3>1. r \in Proc /\ r.op \in DOMAIN Plan[p]
      BY <1>a DEF TypeOK, Proc, Place
    <3>2. Becomes(p, r)
      BY <1>3, <2>2 DEF ReadLock, Becomes, TypeOK
    <3> HIDE DEF r
    <3> QED BY <1>3, <2>2, <3>1, <3>2, ProcStep DEF TypeOK, ReadLock, history
  <2> QED BY <2>1, <2>2
<1>4. CASE Judge(p)
  BY <1>0, <1>4, <1>a, GoStep, QuitStep DEF TypeOK, Judge, history
<1>5. CASE MoveLock(p)
  <2>1. CASE lock = NoProcess
    BY <1>5, <2>1, <1>a, AgainStep DEF MoveLock
  <2>2. CASE lock # NoProcess
    <3> DEFINE r == [proc[p] EXCEPT !.pc = "compare", !.moved = lock]
    <3>1. r \in Proc /\ r.op \in DOMAIN Plan[p]
      BY <1>a DEF TypeOK, Proc, Place
    <3>2. Becomes(p, r)
      BY <1>5, <2>2 DEF MoveLock, Becomes, TypeOK
    <3> HIDE DEF r
    <3> QED BY <1>5, <2>2, <3>1, <3>2, ProcStep DEF TypeOK, MoveLock, history
  <2> QED BY <2>1, <2>2
<1>6. CASE Compare(p)
  BY <1>0, <1>6, <1>a, GoStep, AgainStep DEF TypeOK, Compare, history
<1>7. CASE PutBack(p) \/ Unlock(p)
  BY <1>0, <1>7, <1>a, <1>b, QuitStep DEF PutBack, Unlock, history
<1>8. CASE Release(p)
  BY <1>0, <1>8, <1>a, GoStep, QuitStep DEF TypeOK, Release, history
<1> QED BY <1>1, <1>2, <1>3, <1>4, <1>5, <1>6, <1>7, <1>8

\* The next operation, or the next stage.
LEMMA Advances ==
  ASSUME TypeOK, NEW p \in Process, NEW place \in Place, NEW r, r = Advance(p, place)
  PROVE  /\ r \in Proc /\ r.op \in DOMAIN Plan[p]
         /\ LastOp(p) => r.pc = place /\ r.op = 1
         /\ ~ LastOp(p) => r.pc = proc[p].pc /\ r.op = proc[p].op + 1
         /\ r.expected = proc[p].expected /\ r.committed = proc[p].committed
         /\ r.incomplete = proc[p].incomplete
<1>1. proc[p] \in Proc /\ proc[p].op \in 1 .. Len(Plan[p]) /\ Len(Plan[p]) \in Nat
  BY Plans DEF TypeOK
<1>2. CASE LastOp(p)
  <2>1. 1 \in 1 .. Len(Plan[p])
    BY <1>1, Plans
  <2> DEFINE first == 1
  <2>2. r = [proc[p] EXCEPT !.pc = place, !.op = first] /\ first \in Nat
    BY <1>2 DEF Advance
  <2> HIDE DEF first
  <2>3. /\ r \in Proc /\ r.op = first /\ r.pc = place
        /\ r.expected = proc[p].expected /\ r.committed = proc[p].committed
        /\ r.incomplete = proc[p].incomplete
    BY <1>1, <2>2 DEF Proc
  <2>4. DOMAIN Plan[p] = 1 .. Len(Plan[p])
    BY Plans
  <2> QED BY <1>2, <2>1, <2>3, <2>4 DEF first
<1>3. CASE ~ LastOp(p)
  <2> DEFINE n == proc[p].op + 1
  <2>1. n \in 1 .. Len(Plan[p]) /\ n \in Nat
    BY <1>1, <1>3 DEF LastOp
  <2>2. r = [proc[p] EXCEPT !.op = n]
    BY <1>3 DEF Advance
  <2>3. DOMAIN Plan[p] = 1 .. Len(Plan[p])
    BY Plans
  <2> HIDE DEF n
  <2>4. /\ r \in Proc /\ r.op = n /\ r.pc = proc[p].pc
        /\ r.expected = proc[p].expected /\ r.committed = proc[p].committed
        /\ r.incomplete = proc[p].incomplete
    BY <1>1, <2>1, <2>2 DEF Proc
  <2> QED BY <1>3, <2>1, <2>3, <2>4 DEF n
<1> QED BY <1>2, <1>3

LEMMA DoneType ==
  ASSUME TypeOK, NEW p \in Process
  PROVE  Done(p) \in Entry /\ Op(p).path \in Path
<1>1. Op(p).path \in Path
  BY Plans DEF TypeOK, Op, PathOf
<1>2. Displaced(p) \in BOOLEAN /\ proc[p].existed \in BOOLEAN /\ target[Op(p).path] \in Content
  BY <1>1 DEF Displaced, TypeOK, Proc
<1> QED BY <1>1, <1>2 DEF Done, Entry

LEMMA Recorded ==
  ASSUME TypeOK, NEW p \in Process, Record(p)
  PROVE  /\ proc'[p] \in Proc /\ proc'[p].op \in DOMAIN Plan[p]
         /\ Becomes(p, proc'[p])
         /\ LastOp(p) => proc'[p].pc = "validate" /\ proc'[p].op = 1
         /\ ~ LastOp(p) => proc'[p].pc = "check" /\ proc'[p].op = proc[p].op + 1
         /\ proc'[p].expected = proc[p].expected
         /\ proc'[p].committed = Append(proc[p].committed, Done(p))
         /\ proc'[p].incomplete = proc[p].incomplete
<1> DEFINE v == Advance(p, "validate")
           d == Done(p)
           list == Append(proc[p].committed, d)
           S == Seq(Entry)
<1>0. "validate" \in Place /\ "check" \in Place
  BY DEF Place, Locked
<1>1. /\ v \in Proc /\ v.op \in DOMAIN Plan[p]
      /\ LastOp(p) => v.pc = "validate" /\ v.op = 1
      /\ ~ LastOp(p) => v.pc = proc[p].pc /\ v.op = proc[p].op + 1
      /\ v.expected = proc[p].expected /\ v.committed = proc[p].committed
      /\ v.incomplete = proc[p].incomplete
  BY <1>0, Advances
<1>2. list \in S
  <2>1. proc[p].committed \in Seq(Entry) /\ d \in Entry
    BY DoneType DEF TypeOK, Proc
  <2> HIDE DEF d
  <2> QED BY <2>1
<1>3. Record(p) =>
        proc' = [proc EXCEPT ![p] =
                   IF LastOp(p) THEN [v EXCEPT !.committed = Append(@, d)]
                   ELSE [[v EXCEPT !.committed = Append(@, d)] EXCEPT !.pc = "check"]]
  BY DEF Record
<1> HIDE DEF v, d
<1> DEFINE r == IF LastOp(p) THEN [v EXCEPT !.committed = list]
                ELSE [[v EXCEPT !.committed = list] EXCEPT !.pc = "check"]
<1>4. Becomes(p, r)
  BY <1>1, <1>3 DEF Becomes, Proc
<1> HIDE DEF list, S
<1>5. /\ r \in Proc /\ r.op = v.op
      /\ r.pc = (IF LastOp(p) THEN v.pc ELSE "check")
      /\ r.expected = v.expected /\ r.committed = list /\ r.incomplete = v.incomplete
  BY <1>0, <1>1, <1>2 DEF Proc, S
<1>6. proc'[p] = r
  BY <1>4, Others
<1> HIDE DEF r
<1> QED BY <1>1, <1>4, <1>5, <1>6 DEF list, d

LEMMA StagingStep ==
  ASSUME TypeOK, NEW p \in Process, NEW path \in Path, NEW c \in Content
  PROVE  /\ [staging EXCEPT ![p].backups[path] = c] \in [Process -> Staging]
         /\ [staging EXCEPT ![p].removed[path] = c] \in [Process -> Staging]
         /\ [staging EXCEPT ![p].place = "txn"] \in [Process -> Staging]
         /\ [staging EXCEPT ![p] = Empty] \in [Process -> Staging]
         /\ [target EXCEPT ![path] = c] \in [Path -> Content]
<1>1. Empty \in Staging
  BY NothingType DEF Empty, Staging
<1> QED BY <1>1 DEF TypeOK, Staging

\* What is left of copies is of the same kind.
LEMMA LeftType ==
  ASSUME NEW copies \in [Path -> Content], NEW gone, NEW part
  PROVE  /\ Left(copies, gone, part) \in [Path -> Content]
         /\ \A q \in Path : q \notin gone \cup part => Left(copies, gone, part)[q] = copies[q]
<1>1. Absent \in Content /\ Remnant \in Content
  BY DEF Content
<1> QED BY <1>1 DEF Left

\* A removal that is broken off leaves anything of the copies, or nothing.
LEMMA CopiesType ==
  ASSUME TypeOK, NEW p \in Process, NEW b \in [Path -> Content], NEW r \in [Path -> Content],
         staging' = [staging EXCEPT ![p].backups = b, ![p].removed = r]
  PROVE  /\ staging' \in [Process -> Staging]
         /\ staging'[p].place = staging[p].place /\ staging'[p].backups = b
         /\ staging'[p].removed = r
         /\ \A q \in Process \ {p} : staging'[q] = staging[q]
<1>1. staging \in [Process -> Staging] /\ staging[p] \in Staging
  BY DEF TypeOK
<1>2. staging' = [staging EXCEPT ![p] = [staging[p] EXCEPT !.backups = b, !.removed = r]]
  BY <1>1 DEF Staging
<1> DEFINE s == [staging[p] EXCEPT !.backups = b, !.removed = r]
<1>3. s \in Staging /\ s.place = staging[p].place /\ s.backups = b /\ s.removed = r
  BY <1>1 DEF Staging
<1>4. staging' = [staging EXCEPT ![p] = s]
  BY <1>2
<1> HIDE DEF s
<1> QED BY <1>1, <1>3, <1>4

LEMMA BrokenOffType ==
  ASSUME TypeOK, NEW p \in Process, BrokenOff(p)
  PROVE  /\ staging' \in [Process -> Staging]
         /\ \A q \in Process \ {p} : staging'[q] = staging[q]
BY NothingType, CopiesType DEF BrokenOff

LEMMA CarriedType ==
  ASSUME TypeOK, NEW p \in Process, Carried(p)
  PROVE  base' \in [Path -> Content] /\ torn' \subseteq Path
BY DEF Carried, TypeOK

\* What becomes of a process that looked at its path once more.
LEMMA CheckBecomes ==
  ASSUME TypeOK, NEW p \in Process, Check(p)
  PROVE  \E existed \in BOOLEAN, place \in {"displace", "install"} :
           /\ Becomes(p, [proc[p] EXCEPT !.existed = existed, !.pc = place])
           /\ existed <=> target[Op(p).path] # Absent
           /\ place = "displace" => Op(p).kind = "put" /\ existed
<1>1. PICK existed \in BOOLEAN : existed = (target[Op(p).path] # Absent)
  OBVIOUS
<1>2. PICK place \in {"displace", "install"} :
        place = IF Op(p).path \in Tree /\ Op(p).kind = "put" /\ existed
                  THEN "displace" ELSE "install"
  OBVIOUS
<1>3. proc' = [proc EXCEPT ![p].existed = existed, ![p].pc = place]
  BY <1>1, <1>2 DEF Check
<1>4. Becomes(p, [proc[p] EXCEPT !.existed = existed, !.pc = place])
  BY <1>3 DEF Becomes, TypeOK, Proc
<1> QED BY <1>1, <1>2, <1>4

LEMMA CheckedType ==
  ASSUME TypeOK, NEW p \in Process, NEW existed \in BOOLEAN, NEW place \in Place
  PROVE  LET r == [proc[p] EXCEPT !.existed = existed, !.pc = place]
         IN  /\ r \in Proc /\ r.op \in DOMAIN Plan[p] /\ r.pc = place /\ r.existed = existed
             /\ r.op = proc[p].op /\ r.committed = proc[p].committed
             /\ r.incomplete = proc[p].incomplete
<1>1. proc[p] \in Proc /\ proc[p].op \in DOMAIN Plan[p]
  BY DEF TypeOK
<1> QED BY <1>1 DEF Proc

LEMMA TypePlan ==
  ASSUME TypeOK, NEW p \in Process,
         \/ Quarantine(p) \/ Verify(p) \/ Snapshot(p) \/ Check(p) \/ Displace(p)
         \/ Install(p) \/ Record(p) \/ Validate(p) \/ RollbackEnds(p) \/ Clean(p)
  PROVE  TypeOK'
<1>0. /\ {"verify", "snapshot", "check", "displace", "install", "record", "validate",
          "rollback", "clean", "release"} \subseteq Place
      /\ Absent \in Content /\ p \in Content /\ Op(p).path \in Path
  BY DoneType DEF Place, Locked, Content
<1>a. /\ proc[p] \in Proc /\ lock \in Process \cup {NoProcess} /\ target \in [Path -> Content]
      /\ staging \in [Process -> Staging] /\ base \in [Path -> Content] /\ torn \subseteq Path
  BY DEF TypeOK, Proc
<1>1. CASE Quarantine(p)
  <2>1. staging' \in [Process -> Staging]
    BY <1>a, <1>1 DEF Quarantine, Staging
  <2> QED BY <1>0, <1>a, <1>1, <2>1, GoStep DEF Quarantine, history
<1>2. CASE Verify(p)
  <2>1. staging' \in [Process -> Staging]
    BY <1>0, <1>2, StagingStep DEF Verify
  <2> QED BY <1>0, <1>a, <1>2, <2>1, GoStep DEF Verify, history
<1>3. CASE Snapshot(p)
  <2>1. staging' \in [Process -> Staging]
    BY <1>0, <1>3, <1>a, StagingStep DEF Snapshot
  <2> DEFINE r == Advance(p, "check")
  <2>2. r \in Proc /\ r.op \in DOMAIN Plan[p]
    BY <1>0, Advances
  <2>3. Becomes(p, r)
    BY <1>3 DEF Snapshot, Becomes
  <2> HIDE DEF r
  <2> QED BY <1>a, <1>3, <2>1, <2>2, <2>3, ProcStep DEF Snapshot, history
<1>4. CASE Check(p)
  <2>1. PICK existed \in BOOLEAN, place \in {"displace", "install"} :
          Becomes(p, [proc[p] EXCEPT !.existed = existed, !.pc = place])
    BY <1>4, CheckBecomes
  <2> DEFINE r == [proc[p] EXCEPT !.existed = existed, !.pc = place]
  <2>2. r \in Proc /\ r.op \in DOMAIN Plan[p]
    <3>1. place \in Place
      BY <1>0
    <3> QED BY <3>1, CheckedType
  <2>3. Becomes(p, r)
    BY <2>1
  <2> HIDE DEF r
  <2> QED BY <1>a, <1>4, <2>2, <2>3, ProcStep DEF Check, history
<1>5. CASE Displace(p)
  <2>1. staging' \in [Process -> Staging] /\ target' \in [Path -> Content]
    BY <1>0, <1>5, <1>a, StagingStep DEF Displace
  <2> QED BY <1>0, <1>a, <1>5, <2>1, GoStep DEF Displace, history
<1>6. CASE Install(p)
  <2>1. staging' \in [Process -> Staging] /\ target' \in [Path -> Content]
    <3>1. CASE Op(p).kind = "remove"
      <4>1. target[Op(p).path] \in Content
        BY <1>0, <1>a
      <4>2. /\ staging' = [staging EXCEPT ![p].removed[Op(p).path] = target[Op(p).path]]
            /\ target' = [target EXCEPT ![Op(p).path] = Absent]
        BY <1>6, <3>1 DEF Install
      <4> QED BY <1>0, <4>1, <4>2, StagingStep
    <3>2. CASE Op(p).kind # "remove"
      <4>1. staging' = staging /\ target' = [target EXCEPT ![Op(p).path] = p]
        BY <1>6, <3>2 DEF Install
      <4> QED BY <1>0, <1>a, <4>1, StagingStep
    <3> QED BY <3>1, <3>2
  <2>2. torn' \subseteq Path
    BY <1>0, <1>6, <1>a DEF Install
  <2> QED BY <1>0, <1>a, <1>6, <2>1, <2>2, GoStep DEF Install
<1>7. CASE Record(p)
  <2>1. proc'[p] \in Proc /\ proc'[p].op \in DOMAIN Plan[p] /\ Becomes(p, proc'[p])
    BY <1>7, Recorded
  <2> QED BY <1>a, <1>7, <2>1, ProcStep DEF Record, history
<1>8. CASE Validate(p)
  <2>1. staging' \in [Process -> Staging] /\ base' \in [Path -> Content] /\ torn' \subseteq Path
    BY <1>0, <1>8, StagingStep, CarriedType DEF Validate
  <2> QED BY <1>0, <1>a, <1>8, <2>1, StopStep DEF Validate
<1>9. CASE RollbackEnds(p)
  BY <1>0, <1>a, <1>9, GoStep DEF RollbackEnds, history
<1>10. CASE Clean(p)
  <2>1. staging' \in [Process -> Staging]
    BY <1>0, <1>10, <1>a, StagingStep DEF Clean
  <2> QED BY <1>0, <1>a, <1>10, <2>1, GoStep DEF Clean, history
<1> QED BY <1>1, <1>2, <1>3, <1>4, <1>5, <1>6, <1>7, <1>8, <1>9, <1>10

LEMMA TypeThrow ==
  ASSUME TypeOK, NEW p \in Process,
         Throw(p) \/ ThrowAtInstall(p) \/ ThrowAtRecord(p) \/ ThrowAtValidate(p)
  PROVE  TypeOK'
<1>0. "rollback" \in Place /\ Absent \in Content /\ Op(p).path \in Path
  BY DoneType DEF Place, Locked, Content
<1>a. /\ lock \in Process \cup {NoProcess} /\ target \in [Path -> Content]
      /\ staging \in [Process -> Staging] /\ base \in [Path -> Content] /\ torn \subseteq Path
  BY DEF TypeOK
<1>1. CASE Throw(p)
  BY <1>0, <1>a, <1>1, StopStep DEF Throw, history
<1>2. CASE ThrowAtInstall(p)
  <2>1. staging[p].removed[Op(p).path] \in Content
    BY <1>0, <1>a DEF Staging
  <2>2. /\ staging' \in [Process -> Staging] /\ target' \in [Path -> Content]
        /\ torn' \subseteq Path
    <3>1. \/ /\ staging' = [staging EXCEPT ![p].removed[Op(p).path] = Absent]
             /\ target' = [target EXCEPT ![Op(p).path] = staging[p].removed[Op(p).path]]
          \/ UNCHANGED <<target, staging>>
      BY <1>2 DEF ThrowAtInstall
    <3>2. torn' = torn \/ torn' = torn \cup {Op(p).path}
      BY <1>2 DEF ThrowAtInstall
    <3>3. PICK x \in Path, c \in Content : x = Op(p).path /\ c = staging[p].removed[x]
      BY <1>0, <2>1
    <3>4. \/ /\ staging' = [staging EXCEPT ![p].removed[x] = Absent]
             /\ target' = [target EXCEPT ![x] = c]
          \/ UNCHANGED <<target, staging>>
      BY <3>1, <3>3
    <3>5. CASE UNCHANGED <<target, staging>>
      BY <1>0, <1>a, <3>2, <3>5
    <3>6. CASE /\ staging' = [staging EXCEPT ![p].removed[x] = Absent]
               /\ target' = [target EXCEPT ![x] = c]
      <4>1. staging' \in [Process -> Staging]
        BY <1>0, <3>6, StagingStep
      <4>2. target' \in [Path -> Content]
        BY <3>6, StagingStep
      <4> QED BY <1>0, <1>a, <3>2, <4>1, <4>2
    <3> QED BY <3>4, <3>5, <3>6
  <2> QED BY <1>0, <1>a, <1>2, <2>2, StopStep DEF ThrowAtInstall
<1>3. CASE ThrowAtRecord(p)
  BY <1>0, <1>a, <1>3, StopStep DEF ThrowAtRecord
<1>4. CASE ThrowAtValidate(p)
  <2>1. PICK gone \in SUBSET Copied(p), part \in SUBSET Copied(p) :
          /\ staging' = [staging EXCEPT ![p].backups = Left(@, gone, part),
                                       ![p].removed = Left(@, gone, part)]
          /\ torn' = torn \cup gone \cup part
    BY <1>4 DEF ThrowAtValidate
  <2>2. torn' \subseteq Path
    BY <1>a, <2>1 DEF Copied
  <2>3. staging' \in [Process -> Staging]
    <3> DEFINE b == Left(staging[p].backups, gone, part)
               r == Left(staging[p].removed, gone, part)
    <3>1. b \in [Path -> Content] /\ r \in [Path -> Content]
      BY <1>a, LeftType DEF Staging
    <3>2. staging' = [staging EXCEPT ![p].backups = b, ![p].removed = r]
      BY <1>a, <2>1 DEF Staging
    <3> HIDE DEF b, r
    <3> QED BY <3>1, <3>2, CopiesType
  <2> QED BY <1>0, <1>a, <1>4, <2>2, <2>3, StopStep DEF ThrowAtValidate
<1> QED BY <1>1, <1>2, <1>3, <1>4

LEMMA TypeQuit ==
  ASSUME TypeOK, NEW p \in Process, CleanFails(p) \/ Die(p)
  PROVE  TypeOK'
<1>0. "ended" \in Place /\ "dead" \in Place
  BY DEF Place
<1>a. /\ lock \in Process \cup {NoProcess} /\ target \in [Path -> Content]
      /\ staging \in [Process -> Staging] /\ base \in [Path -> Content] /\ torn \subseteq Path
  BY DEF TypeOK
<1>1. CASE CleanFails(p)
  BY <1>0, <1>a, <1>1, QuitStep, BrokenOffType DEF CleanFails, history
<1>2. CASE Die(p)
  <2>1. /\ staging' \in [Process -> Staging] /\ base' \in [Path -> Content]
        /\ torn' \subseteq Path
    BY <1>a, <1>2, BrokenOffType, CarriedType DEF Die, history
  <2> QED BY <1>0, <1>a, <1>2, <2>1, QuitStep DEF Die
<1> QED BY <1>1, <1>2

\* Of the records, the last one and the ones before it.
LEMMA LastEntry ==
  ASSUME TypeOK, NEW p \in Process, proc[p].committed # << >>
  PROVE  LET list == proc[p].committed
             n == Len(list)
         IN  /\ n \in Nat \ {0} /\ n \in DOMAIN list /\ Undo(p) = list[n] /\ Undo(p) \in Entry
             /\ Front(list) \in Seq(Entry) /\ Len(Front(list)) = n - 1
             /\ \A i \in 1 .. n - 1 : Front(list)[i] = list[i]
<1> DEFINE list == proc[p].committed
<1>1. list \in Seq(Entry) /\ list # << >>
  BY DEF TypeOK, Proc
<1>2. Undo(p) = list[Len(list)] /\ Front(list) = SubSeq(list, 1, Len(list) - 1)
  BY DEF Undo, Last, Front
<1> HIDE DEF list
<1>3. Len(list) \in Nat \ {0} /\ DOMAIN list = 1 .. Len(list)
  BY <1>1
<1>4. Len(list) \in DOMAIN list /\ list[Len(list)] \in Entry
  BY <1>1, <1>3
<1>5. /\ Front(list) \in Seq(Entry) /\ Len(Front(list)) = Len(list) - 1
      /\ \A i \in 1 .. Len(list) - 1 : Front(list)[i] = list[i]
  BY <1>1, <1>2, <1>3
<1> QED BY <1>2, <1>3, <1>4, <1>5 DEF list

LEMMA CopyType ==
  ASSUME TypeOK, NEW p \in Process, Undo(p) \in Entry
  PROVE  Copy(p) \in Content /\ Undo(p).path \in Path
<1>1. staging[p] \in Staging /\ Undo(p).path \in Path
  BY DEF TypeOK, Entry
<1>2. /\ staging[p].removed[Undo(p).path] \in Content
      /\ staging[p].backups[Undo(p).path] \in Content
  BY <1>1 DEF Staging
<1> QED BY <1>1, <1>2 DEF Copy

LEMMA UndoneType ==
  ASSUME TypeOK, NEW p \in Process, Undo(p) \in Entry, Undone(p)
  PROVE  target' \in [Path -> Content] /\ staging' \in [Process -> Staging]
<1>1. Copy(p) \in Content /\ Undo(p).path \in Path /\ Absent \in Content
  BY CopyType DEF Content
<1>2. \E c \in Content : target' = [target EXCEPT ![Undo(p).path] = c]
  BY <1>1 DEF Undone
<1>3. \/ staging' = staging
      \/ staging' = [staging EXCEPT ![p].removed[Undo(p).path] = Absent]
      \/ staging' = [staging EXCEPT ![p].backups[Undo(p).path] = Absent]
  BY DEF Undone
<1>4. PICK x \in Path : x = Undo(p).path
  BY <1>1
<1>5. staging' \in [Process -> Staging]
  <2>1. \/ staging' = staging
        \/ staging' = [staging EXCEPT ![p].removed[x] = Absent]
        \/ staging' = [staging EXCEPT ![p].backups[x] = Absent]
    BY <1>3, <1>4
  <2>2. CASE staging' = staging
    BY <2>2 DEF TypeOK
  <2>3. CASE staging' = [staging EXCEPT ![p].removed[x] = Absent]
    BY <1>1, <2>3, StagingStep
  <2>4. CASE staging' = [staging EXCEPT ![p].backups[x] = Absent]
    BY <1>1, <2>4, StagingStep
  <2> QED BY <2>1, <2>2, <2>3, <2>4
<1>6. target' \in [Path -> Content]
  <2>1. PICK c \in Content : target' = [target EXCEPT ![x] = c]
    BY <1>2, <1>4
  <2> QED BY <2>1, StagingStep
<1> QED BY <1>5, <1>6

LEMMA RolledBack ==
  ASSUME TypeOK, NEW p \in Process, proc[p].committed # << >>, NEW r,
         r = Remaining(p) \/ r = [Remaining(p) EXCEPT !.incomplete = TRUE]
  PROVE  /\ r \in Proc /\ r.op \in DOMAIN Plan[p] /\ r.pc = proc[p].pc /\ r.op = proc[p].op
         /\ r.committed = Front(proc[p].committed)
         /\ r = Remaining(p) => r.incomplete = proc[p].incomplete
         /\ r # Remaining(p) => r.incomplete = TRUE
<1> DEFINE f == Front(proc[p].committed)
           S == Seq(Entry)
<1>1. f \in S /\ proc[p] \in Proc /\ proc[p].op \in DOMAIN Plan[p]
  BY LastEntry DEF TypeOK
<1>2. Remaining(p) = [proc[p] EXCEPT !.committed = f]
  BY <1>1 DEF Remaining, Proc
<1> HIDE DEF f, S
<1>3. CASE r = Remaining(p)
  BY <1>1, <1>2, <1>3 DEF Proc, S, f
<1>4. CASE r = [Remaining(p) EXCEPT !.incomplete = TRUE]
  BY <1>1, <1>2, <1>4 DEF Proc, S, f
<1> QED BY <1>3, <1>4

LEMMA TypeRollback ==
  ASSUME TypeOK, NEW p \in Process, Rollback(p) \/ RollbackFails(p)
  PROVE  TypeOK'
<1>0. Undo(p) \in Entry /\ Undo(p).path \in Path
  BY LastEntry, CopyType DEF Rollback, RollbackFails
<1>1. PICK r : /\ r = Remaining(p) \/ r = [Remaining(p) EXCEPT !.incomplete = TRUE]
               /\ Becomes(p, r)
  BY DEF Rollback, RollbackFails, Becomes
<1>2. r \in Proc /\ r.op \in DOMAIN Plan[p]
  BY <1>1, RolledBack DEF Rollback, RollbackFails
<1>3. target' \in [Path -> Content] /\ staging' \in [Process -> Staging]
  <2>1. CASE Undone(p)
    BY <1>0, <2>1, UndoneType
  <2>2. CASE ~ Undone(p)
    <3>1. /\ staging' = staging
          /\ \/ target' = target
             \/ \E rest \in Content : target' = [target EXCEPT ![Undo(p).path] = rest]
      BY <2>2 DEF Rollback, RollbackFails, Content
    <3> QED BY <1>0, <3>1, StagingStep DEF TypeOK
  <2> QED BY <2>1, <2>2
<1> QED BY <1>1, <1>2, <1>3, ProcStep DEF TypeOK, Rollback, RollbackFails, history

LEMMA TypeNext == TypeOK /\ [Next]_vars => TypeOK'
<1> SUFFICES ASSUME TypeOK, [Next]_vars PROVE TypeOK'
  OBVIOUS
<1>1. CASE UNCHANGED vars
  BY <1>1 DEF vars, history, TypeOK
<1>2. CASE Edit
  <2>1. edits' \in 0 .. MaxEdits
    BY <1>2, TransactionAssumption DEF Edit, TypeOK
  <2>2. /\ target' \in [Path -> Content] /\ base' \in [Path -> Content]
        /\ torn' \subseteq Path
    BY <1>2 DEF Edit, TypeOK, Content
  <2> QED BY <1>2, <2>1, <2>2 DEF Edit, TypeOK
<1>3. ASSUME NEW p \in Process, Begin(p) \/ Step(p) \/ Die(p) PROVE TypeOK'
  BY <1>3, TypeLock, TypePlan, TypeThrow, TypeQuit, TypeRollback DEF Step
<1> QED BY <1>1, <1>2, <1>3 DEF Next

\* The files, the lock, the staging directories and the processes keep their
\* shapes, whoever dies, throws or edits.
THEOREM TypeCorrect == Spec => []TypeOK
<1> QED BY TypeInit, TypeNext, PTL DEF Spec

-----------------------------------------------------------------------------
(* One at a time.                                                          *)

LEMMA PastIsNot ==
  ASSUME NEW p \in Process, Past(p)
  PROVE  proc[p].pc \notin Contending
BY Places DEF Past

LEMMA LockInit == Init => LInv
<1> SUFFICES ASSUME Init PROVE LInv
  OBVIOUS
<1>1. TypeOK
  BY TypeInit
<1>2. \A p \in Process : proc[p].pc = "new"
  BY DEF Init, NewProc
<1>3. Inside = {}
  BY <1>2 DEF Inside, Locked
<1> QED BY <1>1, <1>2, <1>3 DEF LInv, Sees, OneMutates, Init

\* The place of a process is one of three kinds.
LEMMA Kinds ==
  ASSUME TypeOK, NEW p \in Process
  PROVE  /\ proc[p].pc \in Contending \cup Locked \cup Over
         /\ p \in Inside <=> proc[p].pc \in Locked
  BY Places DEF TypeOK, Proc, Inside

\* A step that leaves the lock file alone and lets nobody in.
LEMMA LockStep ==
  ASSUME LInv, TypeOK', NEW p \in Process, NEW r, Becomes(p, r), lock' = lock,
         proc[p].pc \notin Over,
         proc[p].pc \in Locked => r.pc \in Locked \cup Over,
         proc[p].pc \notin Locked => r.pc \notin Locked,
         Sees(r),
         proc[p].pc \in {"compare", "putback"} =>
           \/ r.pc \in Over
           \/ r.pc \in {"compare", "putback"} /\ r.moved = proc[p].moved /\ r.seen = proc[p].seen
           \/ proc[p].moved \notin Inside
  PROVE  LInv'
<1>1. proc'[p] = r /\ \A q \in Process \ {p} : proc'[q] = proc[q]
  BY Others DEF LInv
<1>2. \A q \in Process : Past(q) => Past(q)'
  BY <1>1 DEF Past
<1>3. \A q \in Process : proc[q].pc \in Over => proc'[q].pc \in Over
  BY <1>1
<1>4. Inside' \subseteq Inside
  BY <1>1, Places DEF Inside
<1>5. \A q \in Process : Sees(proc[q])'
  <2> SUFFICES ASSUME NEW q \in Process PROVE Sees(proc[q])'
    OBVIOUS
  <2>1. Sees(proc'[q])
    BY <1>1 DEF LInv
  <2> QED BY <1>2, <1>3, <2>1 DEF Sees
<1>6. ASSUME NEW i \in Inside', lock # i
      PROVE  \E q, d \in Process : Moved(i, q, d)'
  <2>1. i \in Inside /\ i \in Process
    BY <1>4 DEF Inside
  <2>2. PICK q, d \in Process : Moved(i, q, d)
    BY <1>6, <2>1 DEF LInv
  <2>3. Moved(i, q, d)'
    <3>1. CASE q = p
      BY <1>1, <1>3, <2>1, <2>2, <3>1 DEF Moved
    <3>2. CASE q # p
      BY <1>1, <1>3, <2>2, <3>2 DEF Moved
    <3> QED BY <3>1, <3>2
  <2> QED BY <2>3
<1>7. lock # NoProcess => Past(lock)'
  BY <1>2 DEF LInv, TypeOK
<1>8. OneMutates'
  BY <1>4 DEF LInv, OneMutates
<1> QED BY <1>5, <1>6, <1>7, <1>8 DEF LInv

LEMMA LockGoto ==
  ASSUME LInv, TypeOK', NEW p \in Process, NEW place, Goto(p, place), lock' = lock,
         proc[p].pc \in Locked, place \in Locked
  PROVE  LInv'
<1> DEFINE r == [proc[p] EXCEPT !.pc = place]
<1>0. proc \in [Process -> Proc] /\ proc[p] \in Proc
  BY DEF LInv, TypeOK
<1>1. Becomes(p, r) /\ r.pc = place
  <2>1. Becomes(p, r)
    BY <1>0, GotoBecomes
  <2>2. r.pc = place
    BY <1>0 DEF Proc
  <2> QED BY <2>1, <2>2
<1>2. Sees(r)
  BY <1>1 DEF Sees, Locked
<1>3. proc[p].pc \notin {"compare", "putback"} \cup Over
  BY DEF Locked, Over
<1> HIDE DEF r
<1> QED BY <1>1, <1>2, <1>3, LockStep

LEMMA LockQuit ==
  ASSUME LInv, TypeOK', NEW p \in Process, NEW place \in Over, Quit(p, place), lock' = lock,
         proc[p].pc \notin Over
  PROVE  LInv'
<1> DEFINE r == [NewProc EXCEPT !.pc = place, !.incomplete = proc[p].incomplete]
<1>1. Becomes(p, r) /\ r.pc = place
  BY DEF Quit, Becomes, NewProc
<1>2. Sees(r)
  BY <1>1 DEF Sees, Over
<1>3. place \notin Locked
  BY DEF Locked, Over
<1> HIDE DEF r
<1> QED BY <1>1, <1>2, <1>3, LockStep

LEMMA BeginBecomes ==
  ASSUME TypeOK, NEW p \in Process, Begin(p)
  PROVE  \E r : Becomes(p, r) /\ r.pc = "link" /\ r.incomplete = proc[p].incomplete
<1> DEFINE checked == {Plan[p][i].path : i \in {j \in DOMAIN Plan[p] : Plan[p][j].checked}}
           f == [q \in Path |-> IF q \in checked THEN target[q] ELSE Absent]
           r == [proc[p] EXCEPT !.pc = "link", !.expected = f]
<1>1. Becomes(p, r)
  BY DEF Begin, Becomes, TypeOK
<1>2. r.pc = "link" /\ r.incomplete = proc[p].incomplete
  BY DEF TypeOK, Proc
<1> HIDE DEF r
<1> QED BY <1>1, <1>2

\* The steps outside that move no lock file.
LEMMA LockLooks ==
  ASSUME LInv, TypeOK', NEW p \in Process,
         \/ Begin(p) \/ ReadLock(p) \/ Judge(p) \/ Compare(p)
         \/ (Link(p) /\ lock # NoProcess) \/ (MoveLock(p) /\ lock = NoProcess)
  PROVE  LInv'
<1>0. proc \in [Process -> Proc] /\ lock \in Process \cup {NoProcess}
  BY DEF LInv, TypeOK
<1>1. /\ Again(p) => \E r : Becomes(p, r) /\ r.pc = "link"
      /\ \A place : Goto(p, place) =>
           \E r : /\ Becomes(p, r) /\ r.pc = place
                  /\ r.seen = proc[p].seen /\ r.moved = proc[p].moved
  <2>1. ASSUME Again(p) PROVE \E r : Becomes(p, r) /\ r.pc = "link"
    <3> DEFINE r == [proc[p] EXCEPT !.pc = "link", !.tries = 1, !.seen = NoProcess,
                             !.moved = NoProcess]
    <3>1. Becomes(p, r)
      BY <1>0, <2>1 DEF Again, Becomes
    <3>2. r.pc = "link"
      BY <1>0 DEF Proc
    <3> HIDE DEF r
    <3> QED BY <3>1, <3>2
  <2>2. ASSUME NEW place, Goto(p, place)
        PROVE  \E r : /\ Becomes(p, r) /\ r.pc = place
                      /\ r.seen = proc[p].seen /\ r.moved = proc[p].moved
    <3> DEFINE r == [proc[p] EXCEPT !.pc = place]
    <3>1. Becomes(p, r)
      BY <1>0, <2>2, GotoBecomes
    <3>2. r.pc = place /\ r.seen = proc[p].seen /\ r.moved = proc[p].moved
      BY <1>0 DEF Proc
    <3> HIDE DEF r
    <3> QED BY <3>1, <3>2
  <2> QED BY <2>1, <2>2
<1>2. CASE Begin(p)
  <2>1. PICK r : Becomes(p, r) /\ r.pc = "link"
    BY <1>2, BeginBecomes DEF LInv
  <2> QED BY <1>2, <2>1, LockStep DEF Begin, At, Locked, Over, Sees
<1>3. CASE Link(p) /\ lock # NoProcess
  <2>1. CASE Goto(p, "read")
    <3>1. PICK r : Becomes(p, r) /\ r.pc = "read"
      BY <1>1, <2>1
    <3> QED BY <1>3, <3>1, LockStep DEF Link, At, Locked, Over, Sees
  <2>2. CASE Quit(p, "ended")
    BY <1>3, <2>2, LockQuit DEF Link, At, Over
  <2> QED BY <1>3, <2>1, <2>2 DEF Link
<1>4. CASE ReadLock(p)
  <2>1. CASE lock = NoProcess
    <3>1. PICK r : Becomes(p, r) /\ r.pc = "link"
      BY <1>1, <1>4, <2>1 DEF ReadLock
    <3> QED BY <1>4, <3>1, LockStep DEF ReadLock, At, Locked, Over, Sees
  <2>2. CASE lock # NoProcess
    <3> DEFINE r == [proc[p] EXCEPT !.pc = "judge", !.seen = lock]
    <3>0. Becomes(p, r)
      BY <1>4, <2>2 DEF ReadLock, Becomes
    <3>1. r.pc = "judge" /\ r.seen = lock
      <4>1. proc[p] \in Proc
        BY <1>0
      <4> QED BY <4>1 DEF Proc
    <3>2. lock \in Process /\ Past(lock)
      BY <1>0, <2>2 DEF LInv
    <3> HIDE DEF r
    <3>3. Sees(r)
      BY <3>1, <3>2 DEF Sees
    <3> QED BY <1>4, <3>0, <3>1, <3>3, LockStep DEF ReadLock, At, Locked, Over
  <2> QED BY <2>1, <2>2
<1>5. CASE Judge(p)
  <2>1. CASE Quit(p, "ended")
    BY <1>5, <2>1, LockQuit DEF Judge, At, Over
  <2>2. CASE ~ Alive(proc[p].seen) /\ Goto(p, "move")
    <3>1. PICK r : Becomes(p, r) /\ r.pc = "move" /\ r.seen = proc[p].seen
      BY <1>1, <1>5, <2>2 DEF Judge
    <3>2. proc[p].seen \in Process /\ Past(proc[p].seen)
      BY <1>5 DEF Judge, At, LInv, Sees
    <3>3. proc[proc[p].seen].pc \in Over
      BY <2>2, <3>2 DEF Alive, Past, Over, Locked
    <3>4. Sees(r)
      BY <3>1, <3>2, <3>3 DEF Sees
    <3> QED BY <1>5, <3>1, <3>4, LockStep DEF Judge, At, Locked, Over
  <2> QED BY <1>5, <2>1, <2>2 DEF Judge
<1>6. CASE MoveLock(p) /\ lock = NoProcess
  <2>1. PICK r : Becomes(p, r) /\ r.pc = "link"
    BY <1>1, <1>6 DEF MoveLock
  <2> QED BY <1>6, <2>1, LockStep DEF MoveLock, At, Locked, Over, Sees
<1>7. CASE Compare(p)
  <2>1. /\ proc[p].seen \in Process /\ proc[proc[p].seen].pc \in Over
        /\ proc[p].moved \in Process /\ Past(proc[p].moved)
    BY <1>7 DEF Compare, At, LInv, Sees
  <2>2. CASE proc[p].moved = proc[p].seen
    <3>1. PICK r : Becomes(p, r) /\ r.pc = "link"
      BY <1>1, <1>7, <2>2 DEF Compare
    <3>2. proc[p].moved \notin Inside
      BY <2>1, <2>2 DEF Inside, Locked, Over
    <3> QED BY <1>7, <3>1, <3>2, LockStep DEF Compare, At, Locked, Over, Sees
  <2>3. CASE proc[p].moved # proc[p].seen
    <3>1. PICK r : /\ Becomes(p, r) /\ r.pc = "putback"
                   /\ r.seen = proc[p].seen /\ r.moved = proc[p].moved
      BY <1>1, <1>7, <2>3 DEF Compare
    <3>2. Sees(r)
      BY <2>1, <2>3, <3>1 DEF Sees
    <3> QED BY <1>7, <3>1, <3>2, LockStep DEF Compare, At, Locked, Over
  <2> QED BY <2>2, <2>3
<1> QED BY <1>2, <1>3, <1>4, <1>5, <1>6, <1>7

\* A process gets in only when nobody is: else a fourth was in its way.
LEMMA LockLinks ==
  ASSUME Few, LInv, TypeOK', NEW p \in Process, Link(p), lock = NoProcess
  PROVE  LInv' /\ Inside = {}
<1> DEFINE r == [NewProc EXCEPT !.pc = "quarantine", !.expected = proc[p].expected]
<1>1. Becomes(p, r) /\ r.pc = "quarantine" /\ lock' = p /\ proc[p].pc = "link"
  BY DEF Link, Becomes, NewProc, At
<1> HIDE DEF r
<1>2. proc'[p] = r /\ \A q \in Process \ {p} : proc'[q] = proc[q]
  BY <1>1, Others DEF LInv
<1>3. Inside = {}
  <2> SUFFICES ASSUME NEW i \in Inside PROVE FALSE
    OBVIOUS
  <2>1. i \in Process /\ proc[i].pc \in Locked /\ i # NoProcess
    BY TransactionAssumption DEF Inside
  <2>2. PICK q, d \in Process : Moved(i, q, d)
    BY <2>1 DEF LInv
  <2>3. q # i /\ d # i /\ q # d /\ p # i /\ p # d /\ p # q
    BY <1>1, <2>1, <2>2 DEF Moved, Locked, Over
  <2> QED BY <2>1, <2>3 DEF Few
<1>4. Inside' \subseteq {p}
  BY <1>2, <1>3 DEF Inside
<1>5. \A q \in Process : Past(q) => Past(q)'
  BY <1>1, <1>2 DEF Past, Locked
<1>6. \A q \in Process : proc[q].pc \in Over => proc'[q].pc \in Over
  BY <1>1, <1>2 DEF Over
<1>7. \A q \in Process : Sees(proc[q])'
  <2> SUFFICES ASSUME NEW q \in Process PROVE Sees(proc[q])'
    OBVIOUS
  <2>1. Sees(proc'[q])
    BY <1>1, <1>2 DEF LInv, Sees
  <2> QED BY <1>5, <1>6, <2>1 DEF Sees
<1>8. Past(lock)'
  BY <1>1, <1>2 DEF Past, Locked
<1>9. OneMutates'
  BY <1>4 DEF OneMutates
<1> QED BY <1>1, <1>3, <1>4, <1>7, <1>8, <1>9 DEF LInv

\* Whose lock is moved aside is in the way of a fourth, until it is put back.
LEMMA LockMoves ==
  ASSUME LInv, TypeOK', NEW p \in Process, MoveLock(p), lock # NoProcess
  PROVE  LInv'
<1> DEFINE r == [proc[p] EXCEPT !.pc = "compare", !.moved = lock]
<1>0. proc \in [Process -> Proc] /\ lock \in Process
  BY DEF LInv, TypeOK
<1>1. /\ Becomes(p, r) /\ r.pc = "compare" /\ r.moved = lock /\ r.seen = proc[p].seen
      /\ lock' = NoProcess /\ proc[p].pc = "move"
  BY <1>0 DEF MoveLock, Becomes, At, Proc
<1> HIDE DEF r
<1>2. proc'[p] = r /\ \A q \in Process \ {p} : proc'[q] = proc[q]
  BY <1>1, Others DEF LInv
<1>3. proc[p].seen \in Process /\ proc[proc[p].seen].pc \in Over
  BY <1>1 DEF LInv, Sees
<1>4. /\ \A q \in Process : Past(q) => Past(q)'
      /\ \A q \in Process : proc[q].pc \in Over => proc'[q].pc \in Over
  BY <1>1, <1>2 DEF Past, Locked, Over
<1>5. Inside' = Inside
  BY <1>1, <1>2 DEF Inside, Locked
<1>6. \A q \in Process : Sees(proc[q])'
  <2> SUFFICES ASSUME NEW q \in Process PROVE Sees(proc[q])'
    OBVIOUS
  <2>1. Past(lock)
    BY DEF LInv
  <2>2. Sees(proc'[q])
    BY <1>0, <1>1, <1>2, <1>3, <2>1 DEF LInv, Sees
  <2> QED BY <1>4, <2>2 DEF Sees
<1>7. ASSUME NEW i \in Inside'
      PROVE  \E q, d \in Process : Moved(i, q, d)'
  <2>1. i \in Inside /\ i \in Process /\ proc[i].pc \in Locked
    BY <1>5 DEF Inside
  <2>2. CASE lock = i
    <3>1. PICK d : d = proc[p].seen
      OBVIOUS
    <3>2. /\ d \in Process /\ p # i /\ d # i /\ p # d /\ d # p /\ proc'[d].pc \in Over
      BY <1>1, <1>2, <1>3, <1>4, <2>1, <3>1 DEF Locked, Over
    <3>3. proc'[p].pc \in {"compare", "putback"} /\ proc'[p].moved = i /\ proc'[p].seen = d
      BY <1>1, <1>2, <2>2, <3>1
    <3>4. Moved(i, p, d)'
      BY <3>2, <3>3 DEF Moved
    <3> QED BY <3>2, <3>4
  <2>3. CASE lock # i
    <3>1. PICK q, d \in Process : Moved(i, q, d)
      BY <2>1, <2>3 DEF LInv
    <3>2. q # p /\ d # p
      BY <1>1, <3>1 DEF Moved, Over
    <3>3. Moved(i, q, d)'
      BY <1>2, <3>1, <3>2 DEF Moved
    <3> QED BY <3>3
  <2> QED BY <2>2, <2>3
<1>8. OneMutates'
  BY <1>5 DEF LInv, OneMutates
<1> QED BY <1>1, <1>6, <1>7, <1>8 DEF LInv

LEMMA LockPutBack ==
  ASSUME Few, LInv, TypeOK', NEW p \in Process, PutBack(p), lock' = proc[p].moved
  PROVE  LInv'
<1> DEFINE r == [NewProc EXCEPT !.pc = "ended", !.incomplete = proc[p].incomplete]
           m == proc[p].moved
           e == proc[p].seen
<1>1. Becomes(p, r) /\ r.pc = "ended" /\ lock' = m /\ proc[p].pc = "putback"
  BY DEF PutBack, Quit, Becomes, NewProc, At
<1> HIDE DEF r
<1>2. proc'[p] = r /\ \A q \in Process \ {p} : proc'[q] = proc[q]
  BY <1>1, Others DEF LInv
<1>3. m \in Process /\ Past(m) /\ e \in Process /\ proc[e].pc \in Over /\ m # e
  BY <1>1 DEF LInv, Sees
<1> HIDE DEF m, e
<1>4. /\ \A q \in Process : Past(q) => Past(q)'
      /\ \A q \in Process : proc[q].pc \in Over => proc'[q].pc \in Over
  BY <1>1, <1>2 DEF Past, Locked, Over
<1>5. Inside' = Inside
  BY <1>1, <1>2 DEF Inside, Locked
<1>6. \A q \in Process : Sees(proc[q])'
  <2> SUFFICES ASSUME NEW q \in Process PROVE Sees(proc[q])'
    OBVIOUS
  <2>1. Sees(proc'[q])
    BY <1>1, <1>2 DEF LInv, Sees
  <2> QED BY <1>4, <2>1 DEF Sees
<1>7. ASSUME NEW i \in Inside', m # i PROVE FALSE
  <2>1. i \in Inside /\ i \in Process /\ proc[i].pc \in Locked
    BY <1>5 DEF Inside
  <2>2. CASE lock = i
    <3>1. p # i /\ p # e /\ p # m /\ i # e
      BY <1>1, <1>3, <2>1 DEF Past, Locked, Over
    <3> QED BY <1>3, <1>7, <2>1, <3>1 DEF Few
  <2>3. CASE lock # i
    <3>1. PICK q, d \in Process : Moved(i, q, d)
      BY <2>1, <2>3 DEF LInv
    <3>2. q # p
      BY <1>1, <1>7, <3>1 DEF Moved, Over, m
    <3>3. p # i /\ p # d
      BY <1>1, <2>1, <3>1 DEF Moved, Locked, Over
    <3> QED BY <2>1, <3>1, <3>2, <3>3 DEF Few, Moved
  <2> QED BY <2>2, <2>3
<1>8. OneMutates'
  BY <1>5 DEF LInv, OneMutates
<1>9. Past(lock)'
  BY <1>1, <1>3, <1>4
<1> QED BY <1>1, <1>6, <1>7, <1>8, <1>9 DEF LInv

LEMMA LockUnlock ==
  ASSUME LInv, TypeOK', NEW p \in Process, Unlock(p), lock' = NoProcess
  PROVE  LInv'
<1> DEFINE r == [NewProc EXCEPT !.pc = "ended", !.incomplete = proc[p].incomplete]
<1>1. Becomes(p, r) /\ r.pc = "ended" /\ lock' = NoProcess /\ proc[p].pc = "unlock"
  BY DEF Unlock, Quit, Becomes, NewProc, At
<1> HIDE DEF r
<1>2. proc'[p] = r /\ \A q \in Process \ {p} : proc'[q] = proc[q]
  BY <1>1, Others DEF LInv
<1>3. p \in Inside
  BY <1>1 DEF Inside, Locked
<1>4. Inside' = {}
  <2> SUFFICES ASSUME NEW i \in Inside' PROVE FALSE
    OBVIOUS
  <2>1. i # p
    BY <1>1, <1>2 DEF Inside, Locked
  <2>2. i \in Inside
    BY <1>2, <2>1 DEF Inside
  <2> QED BY <1>3, <2>1, <2>2 DEF LInv, OneMutates
<1>5. /\ \A q \in Process : Past(q) => Past(q)'
      /\ \A q \in Process : proc[q].pc \in Over => proc'[q].pc \in Over
  BY <1>1, <1>2 DEF Past, Locked, Over
<1>6. \A q \in Process : Sees(proc[q])'
  <2> SUFFICES ASSUME NEW q \in Process PROVE Sees(proc[q])'
    OBVIOUS
  <2>1. Sees(proc'[q])
    BY <1>1, <1>2 DEF LInv, Sees
  <2> QED BY <1>5, <2>1 DEF Sees
<1> QED BY <1>1, <1>4, <1>6 DEF LInv, OneMutates

LEMMA CheckStep ==
  ASSUME TypeOK, NEW p \in Process, Check(p)
  PROVE  \E r : Becomes(p, r) /\ r.pc \in Locked
<1>1. PICK existed \in BOOLEAN, place \in {"displace", "install"} :
        Becomes(p, [proc[p] EXCEPT !.existed = existed, !.pc = place])
  BY CheckBecomes
<1> DEFINE r == [proc[p] EXCEPT !.existed = existed, !.pc = place]
<1>2. r.pc = place /\ place \in Locked
  BY DEF TypeOK, Proc, Locked
<1>3. Becomes(p, r)
  BY <1>1
<1> HIDE DEF r
<1> QED BY <1>2, <1>3

LEMMA StopBecomes ==
  ASSUME TypeOK, NEW p \in Process, NEW place \in Place, Stop(p, place)
  PROVE  \E r : Becomes(p, r) /\ r.pc = place
<1> DEFINE r == [NewProc EXCEPT !.pc = place, !.committed = proc[p].committed]
<1>1. Becomes(p, r) /\ r.pc = place
  BY StopType DEF Stop, Becomes
<1> HIDE DEF r
<1> QED BY <1>1

\* A step inside goes on inside, or rolls back.
LEMMA LockInside ==
  ASSUME LInv, TypeOK', NEW p \in Process,
         \/ Quarantine(p) \/ Verify(p) \/ Snapshot(p) \/ Check(p) \/ Displace(p)
         \/ Install(p) \/ Record(p) \/ Validate(p)
         \/ Throw(p) \/ ThrowAtInstall(p) \/ ThrowAtRecord(p) \/ ThrowAtValidate(p)
         \/ Rollback(p) \/ RollbackFails(p) \/ RollbackEnds(p) \/ Clean(p)
  PROVE  LInv'
<1>0. TypeOK /\ proc[p].pc \in Locked /\ lock' = lock
  BY DEF LInv, Quarantine, Verify, Snapshot, Check, Displace, Install, Record, Validate,
         Throw, ThrowAtInstall, ThrowAtRecord, ThrowAtValidate, Rollback, RollbackFails,
         RollbackEnds, Clean, At, Locked
<1>1. ASSUME NEW r, Becomes(p, r), r.pc \in Locked PROVE LInv'
  <2>1. Sees(r) /\ proc[p].pc \notin {"compare", "putback"} \cup Over
    BY <1>0, <1>1 DEF Sees, Locked, Over
  <2> QED BY <1>0, <1>1, <2>1, LockStep
<1>2. CASE \/ Quarantine(p) \/ Verify(p) \/ Displace(p) \/ Install(p)
           \/ RollbackEnds(p) \/ Clean(p)
  <2>1. \E place \in Locked : Goto(p, place)
    BY <1>2 DEF Quarantine, Verify, Displace, Install, RollbackEnds, Clean, Locked
  <2> QED BY <1>0, <2>1, LockGoto
<1>3. CASE Snapshot(p)
  <2> DEFINE r == Advance(p, "check")
  <2>1. "check" \in Place /\ "check" \in Locked
    BY DEF Place, Locked
  <2>2. Becomes(p, r)
    BY <1>3 DEF Snapshot, Becomes
  <2>3. r.pc \in Locked
    BY <1>0, <2>1, Advances
  <2> HIDE DEF r
  <2> QED BY <1>1, <2>2, <2>3
<1>4. CASE Check(p)
  BY <1>0, <1>1, <1>4, CheckStep
<1>5. CASE Record(p)
  <2>1. Becomes(p, proc'[p]) /\ proc'[p].pc \in {"validate", "check"}
    BY <1>0, <1>5, Recorded
  <2>2. PICK r : r = proc'[p]
    OBVIOUS
  <2>3. Becomes(p, r) /\ r.pc \in Locked
    BY <2>1, <2>2 DEF Locked
  <2> QED BY <1>1, <2>3
<1>6. CASE \/ Validate(p) \/ Throw(p) \/ ThrowAtInstall(p) \/ ThrowAtRecord(p)
           \/ ThrowAtValidate(p)
  <2>1. Stop(p, "release") \/ Stop(p, "rollback")
    BY <1>6 DEF Validate, Throw, ThrowAtInstall, ThrowAtRecord, ThrowAtValidate
  <2>2. {"release", "rollback"} \subseteq Place \cap Locked
    BY DEF Place, Locked
  <2>3. \E r : Becomes(p, r) /\ r.pc \in Locked
    BY <1>0, <2>1, <2>2, StopBecomes
  <2> QED BY <1>1, <2>3
<1>7. CASE Rollback(p) \/ RollbackFails(p)
  <2>1. PICK r : /\ r = Remaining(p) \/ r = [Remaining(p) EXCEPT !.incomplete = TRUE]
                 /\ Becomes(p, r)
    BY <1>7 DEF Rollback, RollbackFails, Becomes
  <2>2. r.pc \in Locked
    BY <1>0, <1>7, <2>1, RolledBack DEF Rollback, RollbackFails
  <2> QED BY <1>1, <2>1, <2>2
<1> QED BY <1>2, <1>3, <1>4, <1>5, <1>6, <1>7

LEMMA LockNext == Few /\ LInv /\ [Next]_vars => LInv'
<1> SUFFICES ASSUME Few, LInv, [Next]_vars PROVE LInv'
  OBVIOUS
<1>0. TypeOK'
  BY TypeNext DEF LInv
<1>1. CASE UNCHANGED vars
  BY <1>1, <1>0 DEF vars, history, LInv, Past, Sees, Inside, Moved, OneMutates
<1>2. CASE Edit
  BY <1>2, <1>0 DEF Edit, LInv, Past, Sees, Inside, Moved, OneMutates
<1>3. ASSUME NEW p \in Process, Begin(p) \/ Step(p) \/ Die(p) PROVE LInv'
  <2>1. CASE Begin(p) \/ ReadLock(p) \/ Judge(p) \/ Compare(p)
    BY <1>0, <2>1, LockLooks
  <2>2. CASE Link(p)
    BY <1>0, <2>2, LockLooks, LockLinks
  <2>3. CASE MoveLock(p)
    BY <1>0, <2>3, LockLooks, LockMoves
  <2>4. CASE PutBack(p)
    <3>1. CASE lock' = proc[p].moved
      BY <1>0, <2>4, <3>1, LockPutBack
    <3>2. CASE lock' = lock
      BY <1>0, <2>4, <3>2, LockQuit DEF PutBack, At, Over
    <3> QED BY <2>4, <3>1, <3>2 DEF PutBack
  <2>5. CASE Unlock(p)
    <3>1. CASE lock' = NoProcess
      BY <1>0, <2>5, <3>1, LockUnlock
    <3>2. CASE lock' = lock
      BY <1>0, <2>5, <3>2, LockQuit DEF Unlock, At, Over
    <3> QED BY <2>5, <3>1, <3>2 DEF Unlock
  <2>6. CASE Release(p)
    <3>1. proc[p].pc \in Locked /\ proc[p].pc \notin Over /\ lock' = lock
      BY <2>6 DEF Release, At, Locked, Over
    <3>2. Goto(p, "unlock") \/ Quit(p, "ended")
      BY <2>6 DEF Release
    <3>3. "unlock" \in Locked /\ "ended" \in Over
      BY DEF Locked, Over
    <3> QED BY <1>0, <3>1, <3>2, <3>3, LockGoto, LockQuit
  <2>7. CASE Die(p) \/ CleanFails(p)
    <3>1. /\ Quit(p, "dead") \/ Quit(p, "ended")
          /\ lock' = lock /\ proc[p].pc \notin Over
      BY <2>7 DEF Die, CleanFails, Alive, At, Over
    <3>2. "dead" \in Over /\ "ended" \in Over
      BY DEF Over
    <3> QED BY <1>0, <3>1, <3>2, LockQuit
  <2>8. CASE \/ Quarantine(p) \/ Verify(p) \/ Snapshot(p) \/ Check(p) \/ Displace(p)
             \/ Install(p) \/ Record(p) \/ Validate(p)
             \/ Throw(p) \/ ThrowAtInstall(p) \/ ThrowAtRecord(p) \/ ThrowAtValidate(p)
             \/ Rollback(p) \/ RollbackFails(p) \/ RollbackEnds(p) \/ Clean(p)
    BY <1>0, <2>8, LockInside
  <2> QED BY <1>3, <2>1, <2>2, <2>3, <2>4, <2>5, <2>6, <2>7, <2>8 DEF Step
<1> QED BY <1>1, <1>2, <1>3 DEF Next

\* Of at most three processes, one at a time changes the paths: two may race to
\* clear the lock file of a dead one, or of one about to end, in any order of
\* their steps.
THEOREM OneCorrect ==
  ASSUME Few
  PROVE  Spec => []OneMutates
<1>1. Init => LInv
  BY LockInit
<1>2. LInv /\ [Next]_vars => LInv'
  BY LockNext
<1>3. LInv => OneMutates
  BY DEF LInv
<1> QED BY <1>1, <1>2, <1>3, PTL DEF Spec

-----------------------------------------------------------------------------
(* What the paths held.                                                    *)

\* A step leaves the path alone, ...
Alike(path) == base'[path] = base[path] /\ target'[path] = target[path]

\* ... the copies of it in a directory, ...
HeldAt(s, path) ==
  /\ staging[s].place # "none" => staging'[s].place # "none"
  /\ staging'[s].backups[path] = staging[s].backups[path]
  /\ staging'[s].removed[path] = staging[s].removed[path]

\* ... and the records of it.
KeptAt(p, path) == Made(p, path)' = Made(p, path)

LEMMA PathsInit == Init => PInv
<1> SUFFICES ASSUME Init PROVE PInv
  OBVIOUS
<1>1. \A p \in Process : proc[p].pc = "new" /\ ~ proc[p].incomplete /\ staging[p] = Empty
  BY DEF Init, NewProc
<1>2. \A p \in Process : ~ Working(p)
  BY <1>1 DEF Working, Locked
<1>3. \A path \in Path : Settled(path)
  BY DEF Init, Settled, Found
<1> QED BY <1>1, <1>2, <1>3 DEF PInv

\* A process at work is the only one inside.
LEMMA Alone ==
  ASSUME LInv, NEW p \in Process, Working(p)
  PROVE  \A q \in Process \ {p} : proc[q].pc \notin Locked
BY DEF LInv, OneMutates, Inside, Working

LEMMA GoesTo ==
  ASSUME TypeOK, NEW p \in Process, NEW place, Goto(p, place)
  PROVE  /\ proc'[p].pc = place /\ proc'[p].existed = proc[p].existed
         /\ proc'[p].op = proc[p].op /\ proc'[p].committed = proc[p].committed
         /\ proc'[p].incomplete = proc[p].incomplete
         /\ \A q \in Process \ {p} : proc'[q] = proc[q]
<1>1. proc[p] \in Proc /\ proc \in [Process -> Proc]
  BY DEF TypeOK
<1>2. proc'[p] = [proc[p] EXCEPT !.pc = place]
  BY <1>1 DEF Goto
<1>3. \A q \in Process \ {p} : proc'[q] = proc[q]
  BY <1>1 DEF Goto
<1> QED BY <1>1, <1>2, <1>3 DEF Proc

LEMMA StopsAt ==
  ASSUME TypeOK, NEW p \in Process, NEW place \in Place, Stop(p, place)
  PROVE  /\ proc'[p].pc = place /\ proc'[p].committed = proc[p].committed
         /\ ~ proc'[p].incomplete
         /\ \A q \in Process \ {p} : proc'[q] = proc[q]
<1> DEFINE r == [NewProc EXCEPT !.pc = place, !.committed = proc[p].committed]
<1>1. r.pc = place /\ r.committed = proc[p].committed /\ r.incomplete = FALSE
  BY StopType
<1>2. Becomes(p, r)
  BY DEF Stop, Becomes
<1> HIDE DEF r
<1>3. proc'[p] = r /\ \A q \in Process \ {p} : proc'[q] = proc[q]
  BY <1>2, Others
<1> QED BY <1>1, <1>3

LEMMA QuitsAt ==
  ASSUME TypeOK, NEW p \in Process, NEW place, Quit(p, place)
  PROVE  /\ proc'[p].pc = place /\ proc'[p].incomplete = proc[p].incomplete
         /\ \A q \in Process \ {p} : proc'[q] = proc[q]
BY DEF TypeOK, Quit, NewProc

LEMMA RecordsDomain ==
  ASSUME TypeOK, NEW p \in Process, Len(proc[p].committed) <= Len(Plan[p])
  PROVE  /\ Len(proc[p].committed) \in Nat
         /\ DOMAIN proc[p].committed = 1 .. Len(proc[p].committed)
         /\ DOMAIN proc[p].committed \subseteq DOMAIN Plan[p]
<1>1. proc[p].committed \in Seq(Entry)
  BY DEF TypeOK, Proc
<1>2. Len(proc[p].committed) \in Nat /\ DOMAIN proc[p].committed = 1 .. Len(proc[p].committed)
  BY <1>1
<1> QED BY <1>2, Plans

\* The operation that a process is at, among those of its plan.
LEMMA OpAt ==
  ASSUME TypeOK, NEW p \in Process
  PROVE  /\ proc[p].op \in DOMAIN Plan[p] /\ proc[p].op \in 1 .. Len(Plan[p])
         /\ Len(Plan[p]) \in Nat /\ Op(p).path = PathOf(p, proc[p].op) /\ Op(p).path \in Path
         /\ \A i \in DOMAIN Plan[p] : /\ i \in 1 .. Len(Plan[p]) /\ PathOf(p, i) \in Path
                                      /\ PathOf(p, i) = Op(p).path => i = proc[p].op
BY Plans DEF TypeOK, Op, PathOf

LEMMA KeepsStays ==
  ASSUME NEW s \in Process, NEW path \in Path, base'[path] = base[path], HeldAt(s, path)
  PROVE  Keeps(s, path) => Keeps(s, path)'
BY DEF Keeps, HeldAt

LEMMA FoundStays ==
  ASSUME NEW path \in Path, Alike(path), \A s \in Process : HeldAt(s, path)
  PROVE  Found(path) => Found(path)'
BY KeepsStays DEF Found, Alike

\* What is elsewhere stays there.
LEMMA SpareStays ==
  ASSUME NEW p \in Process, NEW path \in Path, base'[path] = base[path],
         Undisturbed' => Undisturbed, \A s \in Process \ {p} : HeldAt(s, path)
  PROVE  Spare(p, path) => Spare(p, path)'
BY KeepsStays DEF Spare, Elsewhere

LEMMA Disturbing ==
  ASSUME NEW p \in Process, \A q \in Process \ {p} : proc'[q] = proc[q],
         proc[p].pc # "dead", proc[p].incomplete => proc'[p].incomplete
  PROVE  Undisturbed' => Undisturbed
BY DEF Undisturbed, At

LEMMA SpareKept ==
  ASSUME NEW p \in Process, Working(p), \A q \in Process \ {p} : proc'[q] = proc[q],
         proc[p].incomplete => proc'[p].incomplete, NEW path \in Path,
         \A q \in Process \ {p} : HeldAt(q, path), base'[path] = base[path]
  PROVE  Spare(p, path) => Spare(p, path)'
<1>1. proc[p].pc # "dead"
  BY DEF Working, Locked
<1>2. Undisturbed' => Undisturbed
  BY <1>1, Disturbing
<1> QED BY <1>2, SpareStays

\* Where the directory stays, so does what an operation replaced.
LEMMA PreviousStays ==
  ASSUME NEW p \in Process, NEW e, HeldAt(p, e.path)
  PROVE  Previous(p, e)' = Previous(p, e)
BY DEF Previous, HeldAt

LEMMA MadeOf ==
  ASSUME NEW p \in Process, NEW path \in Path, Records(p)
  PROVE  /\ \A e \in Made(p, path) : e.path = path /\ e.state \in {p, Absent}
         /\ Made(p, path) # {} => proc[p].committed # << >> /\ staging[p].place # "none"
<1>1. \A i \in DOMAIN proc[p].committed :
        LET e == proc[p].committed[i] IN e.path = PathOf(p, i) /\ e.state \in {p, Absent}
  BY DEF Records, EntryOK
<1>2. Made(p, path) # {} => proc[p].committed # << >>
  BY DEF Made
<1>3. proc[p].committed # << >> => staging[p].place # "none"
  BY DEF Records
<1> QED BY <1>1, <1>2, <1>3 DEF Made

LEMMA KeptSame ==
  ASSUME NEW p \in Process, NEW path \in Path, proc'[p].committed = proc[p].committed
  PROVE  KeptAt(p, path)
BY DEF KeptAt, Made

\* What was replaced can be found again, whatever step comes next.
LEMMA WorkFound ==
  ASSUME NEW p \in Process, NEW path \in Path, Records(p), PathOK(p, path)
  PROVE  Found(path)
<1>0. Spare(p, path) => Found(path)
  BY DEF Spare, Elsewhere, Found
<1>1. ASSUME NEW e, e.path = path, staging[p].place # "none"
      PROVE  Well(p, path, Previous(p, e)) => Found(path)
  <2>1. base[path] = Previous(p, e) => base[path] = Absent \/ Keeps(p, path)
    BY <1>1 DEF Previous, Keeps
  <2> QED BY <1>0, <2>1 DEF Well, Found
<1>2. CASE Made(p, path) # {}
  <2>1. PICK e \in Made(p, path) : TRUE
    BY <1>2
  <2>2. e.path = path /\ staging[p].place # "none"
    BY <2>1, MadeOf
  <2>3. Touched(p, e)
    BY <2>1 DEF PathOK
  <2> QED BY <1>1, <2>2, <2>3 DEF Touched, Found
<1>3. CASE Away(p, path)
  <2>1. staging[p].place # "none"
    BY <1>3 DEF Away, Records, Committing
  <2>2. base[path] = staging[p].removed[path] => Keeps(p, path)
    BY <2>1 DEF Keeps
  <2> QED BY <1>0, <1>3, <2>2 DEF PathOK, Well, Found
<1>4. CASE Live(p, path)
  <2>1. staging[p].place # "none"
    BY <1>4 DEF Live, Records, Committing
  <2>2. PICK d : d = Done(p)
    OBVIOUS
  <2>3. d.path = path
    BY <1>4, <2>2 DEF Done, Live
  <2>4. Well(p, path, Previous(p, d))
    BY <1>4, <2>2 DEF PathOK
  <2> QED BY <1>1, <2>1, <2>3, <2>4
<1>5. CASE Made(p, path) = {} /\ ~ Away(p, path) /\ ~ Live(p, path)
  BY <1>0, <1>5 DEF PathOK, Well, Found
<1> QED BY <1>2, <1>3, <1>4, <1>5

\* A step of a process at work that leaves a path alone, which is not the one
\* that the process is just changing.
LEMMA PathLeft ==
  ASSUME NEW p \in Process, NEW path \in Path, Working(p), Records(p), PathOK(p, path),
         \A q \in Process \ {p} : proc'[q] = proc[q] /\ HeldAt(q, path),
         Alike(path), proc[p].incomplete => proc'[p].incomplete, KeptAt(p, path),
         HeldAt(p, path) \/ (proc[p].committed = << >> /\ ~ proc'[p].incomplete),
         ~ Away(p, path), ~ Live(p, path), ~ Away(p, path)', ~ Live(p, path)'
  PROVE  PathOK(p, path)'
<1>1. Spare(p, path) => Spare(p, path)'
  BY SpareKept DEF Alike
<1>2. ASSUME NEW e \in Made(p, path)' PROVE Touched(p, e)'
  <2>1. e \in Made(p, path)
    BY DEF KeptAt
  <2>2. e.path = path /\ Touched(p, e) /\ proc[p].committed # << >>
    BY <2>1, MadeOf DEF PathOK
  <2>3. HeldAt(p, path)
    BY <2>2
  <2>4. Previous(p, e)' = Previous(p, e)
    BY <2>2, <2>3, PreviousStays
  <2> QED BY <1>1, <2>2, <2>4 DEF Touched, Well, Alike
<1>3. Made(p, path)' = Made(p, path)
  BY DEF KeptAt
<1>4. proc'[p].incomplete => Found(path)'
  <2>1. SUFFICES ASSUME proc'[p].incomplete PROVE Found(path)'
    OBVIOUS
  <2>2. \A s \in Process : HeldAt(s, path)
    BY <2>1
  <2> QED BY <2>2, WorkFound, FoundStays
<1>5. CASE proc'[p].incomplete
  BY <1>2, <1>4, <1>5 DEF PathOK
<1>6. CASE ~ proc'[p].incomplete
  <2>1. Made(p, path) = {} => Well(p, path, target[path])
    BY <1>6 DEF PathOK
  <2>2. Made(p, path)' = {} => Well(p, path, target[path])'
    BY <1>1, <1>3, <2>1 DEF Well, Alike
  <2> QED BY <1>2, <1>6, <2>2 DEF PathOK
<1> QED BY <1>5, <1>6

\* A step that is of no concern to a process at work.
LEMMA RecordsStay ==
  ASSUME TypeOK, NEW q \in Process, Records(q), proc'[q] = proc[q], staging'[q] = staging[q],
         proc[q].pc \in {"displace", "install", "record"} =>
           target'[Op(q).path] = target[Op(q).path]
  PROVE  Records(q)'
<1>1. Op(q)' = Op(q) /\ (Displaced(q)' <=> Displaced(q))
  BY DEF Op, Displaced
<1>2. \A i : EntryOK(q, i)' <=> EntryOK(q, i)
  BY DEF EntryOK
<1>3. OpOK(q)'
  BY <1>1 DEF Records, OpOK
<1> QED BY <1>2, <1>3 DEF Records

\* A step of a process that is not at work, and does not begin to be.
LEMMA PathsOutside ==
  ASSUME TypeOK, PInv, NEW p \in Process, \A q \in Process \ {p} : proc'[q] = proc[q],
         UNCHANGED <<target, staging, base, torn>>, ~ Working(p), ~ Working(p)',
         proc[p].pc # "dead", proc'[p].incomplete = proc[p].incomplete,
         proc'[p].pc \in Contending => proc[p].pc \in Contending
  PROVE  PInv'
<1>1. Undisturbed' => Undisturbed
  BY Disturbing
<1>2. \A q \in Process :
        proc'[q].pc \in Contending => staging'[q] = Empty /\ ~ proc'[q].incomplete
  BY DEF PInv
<1>0. \A s \in Process : \A path \in Path : HeldAt(s, path) /\ Alike(path)
  BY DEF HeldAt, Alike
<1>3. ASSUME NEW q \in Process, Working(q)'
      PROVE  Records(q)' /\ \A path \in Path \ torn' : PathOK(q, path)'
  <2>1. q # p /\ proc'[q] = proc[q]
    BY <1>3
  <2>2. Working(q)
    BY <1>3, <2>1 DEF Working
  <2>3. Records(q) /\ \A path \in Path \ torn : PathOK(q, path)
    BY <2>2 DEF PInv
  <2>4. Records(q)'
    BY <2>1, <2>3, RecordsStay
  <2>5. ASSUME NEW path \in Path \ torn PROVE PathOK(q, path)'
    <3>1. Spare(q, path) => Spare(q, path)'
      BY <1>0, <1>1, SpareStays DEF Alike
    <3>2. /\ Made(q, path)' = Made(q, path)
          /\ Away(q, path)' <=> Away(q, path)
          /\ Live(q, path)' <=> Live(q, path)
      BY <2>1 DEF Made, Away, Live, Op, Displaced
    <3>3. Found(path) => Found(path)'
      BY <1>0, FoundStays
    <3>4. \A e : Previous(q, e)' = Previous(q, e)
      BY DEF Previous
    <3>5. Done(q)' = Done(q)
      BY <2>1 DEF Done, Op, Displaced
    <3>6. Live(q, path) => \A e \in {Done(q)} : Well(q, path, Previous(q, e))'
      BY <2>3, <3>1, <3>4 DEF PathOK, Well
    <3>7. ASSUME NEW e \in Made(q, path) PROVE Touched(q, e)'
      <4>1. Touched(q, e) /\ e.path = path
        BY <2>3, MadeOf DEF PathOK
      <4> QED BY <3>1, <3>4, <4>1 DEF Touched, Well
    <3>8. Away(q, path) => Well(q, path, staging[q].removed[path])'
      BY <2>3, <3>1 DEF PathOK, Well
    <3>9. Made(q, path) = {} /\ ~ Away(q, path) /\ ~ Live(q, path) =>
             IF proc[q].incomplete THEN Found(path)' ELSE Well(q, path, target[path])'
      BY <2>3, <3>1, <3>3 DEF PathOK, Well
    <3> QED BY <2>1, <3>2, <3>5, <3>6, <3>7, <3>8, <3>9 DEF PathOK
  <2> QED BY <2>4, <2>5
<1>4. ASSUME \A q \in Process : ~ Working(q)', NEW path \in Path \ torn' PROVE Settled(path)'
  <2>1. \A q \in Process : ~ Working(q)
    BY <1>4 DEF Working
  <2>2. Settled(path)
    BY <2>1 DEF PInv
  <2>3. Found(path) => Found(path)'
    BY <1>0, FoundStays
  <2> QED BY <1>1, <2>2, <2>3 DEF Settled
<1> QED BY <1>2, <1>3, <1>4 DEF PInv

\* The steps outside, and the last ones inside.
LEMMA PathsLook ==
  ASSUME TypeOK, PInv, NEW p \in Process,
         \/ Begin(p) \/ ReadLock(p) \/ Judge(p) \/ MoveLock(p) \/ Compare(p) \/ PutBack(p)
         \/ Release(p) \/ Unlock(p) \/ (Link(p) /\ lock # NoProcess)
         \/ (Die(p) /\ ~ Working(p) /\ UNCHANGED <<staging, history>>)
  PROVE  PInv'
<1>0. proc[p] \in Proc /\ proc \in [Process -> Proc]
  BY DEF TypeOK
<1>1. ASSUME NEW place, Goto(p, place),
             place \in (Contending \cup {"unlock"}),
             proc[p].pc \in Contending \cup {"release"},
             place \in Contending => proc[p].pc \in Contending,
             UNCHANGED <<target, staging, base, torn>>
      PROVE  PInv'
  <2>1. ~ Working(p) /\ ~ Working(p)' /\ proc[p].pc # "dead"
    BY <1>1, GoesTo DEF Working, Contending, Locked
  <2> QED BY <1>1, <2>1, GoesTo, PathsOutside
<1>2. ASSUME NEW place \in Over, Quit(p, place), ~ Working(p), proc[p].pc # "dead",
             UNCHANGED <<target, staging, base, torn>>
      PROVE  PInv'
  <2>1. ~ Working(p)' /\ proc'[p].pc \notin Contending
    BY <1>2, QuitsAt DEF Working, Contending, Over, Locked
  <2> QED BY <1>2, <2>1, QuitsAt, PathsOutside
<1>3. ASSUME NEW r, Becomes(p, r), r.pc \in Contending, r.incomplete = proc[p].incomplete,
             proc[p].pc \in Contending, UNCHANGED <<target, staging, base, torn>>
      PROVE  PInv'
  <2>1. proc'[p] = r /\ \A q \in Process \ {p} : proc'[q] = proc[q]
    BY <1>3, Others
  <2>2. ~ Working(p) /\ ~ Working(p)' /\ proc[p].pc # "dead"
    BY <1>3, <2>1 DEF Working, Contending, Locked
  <2> QED BY <1>3, <2>1, <2>2, PathsOutside
<1>4. ASSUME Again(p), proc[p].pc \in Contending, UNCHANGED <<target, staging, base, torn>>
      PROVE  PInv'
  <2> DEFINE r == [proc[p] EXCEPT !.pc = "link", !.tries = 1, !.seen = NoProcess,
                           !.moved = NoProcess]
  <2>1. Becomes(p, r)
    BY <1>4 DEF Again, Becomes
  <2>2. r.pc \in Contending /\ r.incomplete = proc[p].incomplete
    BY <1>0 DEF Proc, Contending
  <2> HIDE DEF r
  <2> QED BY <1>3, <1>4, <2>1, <2>2
<1>5. CASE Begin(p)
  <2>1. PICK r : Becomes(p, r) /\ r.pc = "link" /\ r.incomplete = proc[p].incomplete
    BY <1>5, BeginBecomes
  <2>2. r.pc \in Contending
    BY <2>1 DEF Contending
  <2>3. proc[p].pc \in Contending /\ UNCHANGED <<target, staging, base, torn>>
    BY <1>5 DEF Begin, At, Contending, history
  <2> QED BY <1>3, <2>1, <2>2, <2>3
<1>6. CASE ReadLock(p)
  <2>1. proc[p].pc \in Contending /\ UNCHANGED <<target, staging, base, torn>>
    BY <1>6 DEF ReadLock, At, Contending, history
  <2>2. CASE lock = NoProcess
    BY <1>4, <1>6, <2>1, <2>2 DEF ReadLock
  <2>3. CASE lock # NoProcess
    <3> DEFINE r == [proc[p] EXCEPT !.pc = "judge", !.seen = lock]
    <3>1. Becomes(p, r)
      BY <1>6, <2>3 DEF ReadLock, Becomes
    <3>2. r.pc \in Contending /\ r.incomplete = proc[p].incomplete
      BY <1>0 DEF Proc, Contending
    <3> HIDE DEF r
    <3> QED BY <1>3, <2>1, <3>1, <3>2
  <2> QED BY <2>2, <2>3
<1>7. CASE MoveLock(p)
  <2>1. proc[p].pc \in Contending /\ UNCHANGED <<target, staging, base, torn>>
    BY <1>7 DEF MoveLock, At, Contending, history
  <2>2. CASE lock = NoProcess
    BY <1>4, <1>7, <2>1, <2>2 DEF MoveLock
  <2>3. CASE lock # NoProcess
    <3> DEFINE r == [proc[p] EXCEPT !.pc = "compare", !.moved = lock]
    <3>1. Becomes(p, r)
      BY <1>7, <2>3 DEF MoveLock, Becomes
    <3>2. r.pc \in Contending /\ r.incomplete = proc[p].incomplete
      BY <1>0 DEF Proc, Contending
    <3> HIDE DEF r
    <3> QED BY <1>3, <2>1, <3>1, <3>2
  <2> QED BY <2>2, <2>3
<1>8. CASE Judge(p) \/ Compare(p) \/ PutBack(p) \/ (Link(p) /\ lock # NoProcess)
  <2>1. /\ proc[p].pc \in Contending /\ UNCHANGED <<target, staging, base, torn>>
        /\ ~ Working(p) /\ proc[p].pc # "dead"
    BY <1>8 DEF Judge, Compare, PutBack, Link, At, Contending, Working, Locked, history
  <2>2. \/ Goto(p, "move") \/ Goto(p, "putback") \/ Goto(p, "read")
        \/ Again(p) \/ Quit(p, "ended")
    BY <1>8 DEF Judge, Compare, PutBack, Link
  <2>3. {"move", "putback", "read"} \subseteq Contending /\ "ended" \in Over
    BY DEF Contending, Over
  <2> QED BY <1>1, <1>2, <1>4, <2>1, <2>2, <2>3
<1>9. CASE Release(p) \/ Unlock(p)
  <2>1. /\ UNCHANGED <<target, staging, base, torn>> /\ ~ Working(p) /\ proc[p].pc # "dead"
        /\ proc[p].pc \in {"release", "unlock"}
    BY <1>9 DEF Release, Unlock, At, Working, history
  <2>2. Quit(p, "ended") \/ (Goto(p, "unlock") /\ proc[p].pc = "release")
    BY <1>9 DEF Release, Unlock, At
  <2>3. "ended" \in Over /\ "unlock" \notin Contending
    BY DEF Contending, Over
  <2> QED BY <1>1, <1>2, <2>1, <2>2, <2>3
<1>10. CASE Die(p) /\ ~ Working(p) /\ UNCHANGED <<staging, history>>
  <2>1. "dead" \in Over
    BY DEF Over
  <2> QED BY <1>2, <1>10, <2>1 DEF Die, Alive, history
<1> QED BY <1>5, <1>6, <1>7, <1>8, <1>9, <1>10

\* Who dies at work leaves what can be found.
LEMMA PathsDie ==
  ASSUME TypeOK, LInv, PInv, NEW p \in Process, Die(p), Working(p),
         UNCHANGED <<staging, history>>
  PROVE  PInv'
<1>1. /\ proc'[p].pc = "dead" /\ \A q \in Process \ {p} : proc'[q] = proc[q]
      /\ UNCHANGED <<target, staging, base, torn>>
  BY QuitsAt DEF Die, history
<1>2. \A q \in Process : ~ Working(q)' /\ (proc'[q].pc \in Contending => q # p)
  BY <1>1, Alone DEF Working, Locked, Contending
<1>3. ASSUME NEW path \in Path \ torn PROVE Settled(path)'
  <2>1. Found(path)
    BY WorkFound DEF PInv
  <2>2. Found(path)'
    BY <1>1, <2>1, FoundStays DEF Alike, HeldAt
  <2>3. ~ Undisturbed'
    BY <1>1 DEF Undisturbed, At
  <2> QED BY <2>2, <2>3 DEF Settled
<1> QED BY <1>1, <1>2, <1>3 DEF PInv

LEMMA PathsLink ==
  ASSUME TypeOK, PInv, Inside = {}, NEW p \in Process, Link(p), lock = NoProcess
  PROVE  PInv'
<1> DEFINE r == [NewProc EXCEPT !.pc = "quarantine", !.expected = proc[p].expected]
           none == << >>
<1>1. /\ Becomes(p, r) /\ proc[p].pc = "link" /\ UNCHANGED <<target, staging, base, torn>>
      /\ r.pc = "quarantine" /\ r.op = 1 /\ r.committed = none /\ ~ r.incomplete
  BY DEF Link, Becomes, NewProc, At, history
<1> HIDE DEF r
<1>2. proc'[p] = r /\ \A q \in Process \ {p} : proc'[q] = proc[q]
  BY <1>1, Others
<1>3. \A q \in Process : ~ Working(q)
  BY DEF Inside, Working
<1>4. staging[p] = Empty /\ ~ proc[p].incomplete
  BY <1>1 DEF PInv, Contending
<1>5. Undisturbed' => Undisturbed
  BY <1>1, <1>2, <1>4, Disturbing
<1>6. none = << >> /\ Len(none) = 0 /\ DOMAIN none = {}
  OBVIOUS
<1> HIDE DEF none
<1>7. Records(p)'
  <2>1. \A i \in DOMAIN proc'[p].committed : EntryOK(p, i)'
    BY <1>1, <1>2, <1>6
  <2>2. Len(proc'[p].committed) <= Len(Plan[p])
    BY <1>1, <1>2, <1>6, Plans
  <2> QED BY <1>1, <1>2, <1>4, <1>6, <2>1, <2>2 DEF Records, OpOK, Committing
<1>8. ASSUME NEW path \in Path \ torn PROVE PathOK(p, path)'
  <2>1. Settled(path)
    BY <1>3 DEF PInv
  <2>2. Made(p, path)' = {} /\ ~ Away(p, path)' /\ ~ Live(p, path)'
    BY <1>1, <1>2, <1>6 DEF Made, Away, Live
  <2>3. ~ Keeps(p, path)
    BY <1>4 DEF Keeps, Empty
  <2>4. base[path] = target[path] \/ Spare(p, path)
    BY <2>1, <2>3 DEF Settled, Found, Spare, Elsewhere
  <2>5. Spare(p, path) => Spare(p, path)'
    BY <1>1, <1>5, SpareStays DEF HeldAt
  <2> QED BY <1>1, <1>2, <2>2, <2>4, <2>5 DEF PathOK, Well
<1>9. Working(p)'
  BY <1>1, <1>2 DEF Working, Locked
<1>10. \A q \in Process : Working(q)' => q = p
  BY <1>2, <1>3 DEF Working
<1>11. \A q \in Process :
         proc'[q].pc \in Contending => staging'[q] = Empty /\ ~ proc'[q].incomplete
  BY <1>1, <1>2 DEF PInv, Contending
<1> QED BY <1>1, <1>7, <1>8, <1>9, <1>10, <1>11 DEF PInv

\* An edit leaves the paths that a process is about to change alone.
LEMMA PathsEdit ==
  ASSUME TypeOK, PInv, Edit
  PROVE  PInv'
<1>0. UNCHANGED <<staging, proc>>
  BY DEF Edit
<1>1. PICK x \in Path :
        /\ \A p \in Process :
             proc[p].pc \in {"displace", "install", "record"} => Op(p).path # x
        /\ target' = [target EXCEPT ![x] = Edited]
        /\ base' = [base EXCEPT ![x] = Edited]
        /\ torn' = torn \ {x}
  BY DEF Edit
<1>2. /\ target'[x] = Edited /\ base'[x] = Edited
      /\ \A path \in Path \ {x} : Alike(path)
      /\ \A s \in Process : \A path \in Path : HeldAt(s, path)
      /\ \A path \in Path \ torn' : path = x \/ path \in Path \ torn
  BY <1>0, <1>1 DEF TypeOK, Alike, HeldAt
<1>3. Undisturbed' <=> Undisturbed
  BY <1>0 DEF Undisturbed, At
<1>5. ASSUME NEW p \in Process, Working(p)
      PROVE  Records(p)' /\ \A path \in Path \ torn' : PathOK(p, path)'
  <2>0. Records(p) /\ \A path \in Path \ torn : PathOK(p, path)
    BY <1>5 DEF PInv
  <2>1. proc[p].pc \in {"displace", "install", "record"} =>
          target'[Op(p).path] = target[Op(p).path]
    BY <1>1, <1>2, OpAt DEF Alike
  <2>2. Records(p)'
    BY <1>0, <2>0, <2>1, RecordsStay
  <2>3. ASSUME NEW path \in Path \ torn' PROVE PathOK(p, path)'
    <3>1. /\ Made(p, path)' = Made(p, path)
          /\ Away(p, path)' <=> Away(p, path)
          /\ Live(p, path)' <=> Live(p, path)
      BY <1>0 DEF Made, Away, Live, Op, Displaced
    <3>2. CASE path = x
      <4>1. ~ Away(p, x) /\ ~ Live(p, x)
        BY <1>1 DEF Away, Live
      <4>2. \A e \in Made(p, x) : Touched(p, e)'
        BY <1>2, <2>0, MadeOf DEF Touched
      <4> QED BY <1>2, <3>1, <3>2, <4>1, <4>2 DEF PathOK, Well, Found
    <3>3. CASE path # x
      <4>0. path \in Path \ torn /\ Alike(path) /\ PathOK(p, path)
        BY <1>2, <2>0, <3>3
      <4>1. Spare(p, path) => Spare(p, path)'
        BY <1>2, <1>3, <4>0, SpareStays DEF Alike
      <4>2. Found(path) => Found(path)'
        BY <1>2, <4>0, FoundStays
      <4>3. \A e : Previous(p, e)' = Previous(p, e)
        BY <1>0 DEF Previous
      <4>4. \A e \in Made(p, path) : Touched(p, e)'
        BY <2>0, <4>0, <4>1, <4>3, MadeOf DEF PathOK, Touched, Well, Alike
      <4>5. Live(p, path) => Done(p)' = Done(p)
        BY <1>0, <4>0 DEF Done, Live, Op, Displaced, Alike
      <4>6. Live(p, path) => \A e \in {Done(p)} : Well(p, path, Previous(p, e))'
        BY <4>0, <4>1, <4>3 DEF PathOK, Well, Alike
      <4>7. Away(p, path) => Well(p, path, staging[p].removed[path])'
        BY <1>0, <4>0, <4>1 DEF PathOK, Well, Alike
      <4>8. Made(p, path) = {} /\ ~ Away(p, path) /\ ~ Live(p, path) =>
              IF proc[p].incomplete THEN Found(path)' ELSE Well(p, path, target[path])'
        BY <4>0, <4>1, <4>2 DEF PathOK, Well, Alike
      <4> QED BY <1>0, <3>1, <4>4, <4>5, <4>6, <4>7, <4>8 DEF PathOK
    <3> QED BY <3>2, <3>3
  <2> QED BY <2>2, <2>3
<1>6. ASSUME \A p \in Process : ~ Working(p), NEW path \in Path \ torn' PROVE Settled(path)'
  <2>1. CASE path = x
    BY <1>2, <2>1 DEF Settled, Found
  <2>2. CASE path # x
    <3>1. path \in Path \ torn /\ Alike(path) /\ Settled(path)
      BY <1>2, <1>6, <2>2 DEF PInv
    <3>2. Found(path)'
      BY <1>2, <3>1, FoundStays DEF Settled
    <3> QED BY <1>3, <3>1, <3>2 DEF Settled, Alike
  <2> QED BY <2>1, <2>2
<1> QED BY <1>0, <1>5, <1>6 DEF PInv, Working

\* A step of a process that stays at work.
LEMMA PathsWork ==
  ASSUME LInv, PInv, NEW p \in Process, Working(p), Working(p)',
         \A q \in Process \ {p} : proc'[q] = proc[q],
         \A q \in Process \ {p} : staging[q] = Empty => staging'[q] = Empty,
         Records(p)', \A path \in Path \ torn' : PathOK(p, path)'
  PROVE  PInv'
<1>1. \A q \in Process : Working(q)' => q = p
  BY Alone DEF Working
<1>2. \A q \in Process :
        proc'[q].pc \in Contending => staging'[q] = Empty /\ ~ proc'[q].incomplete
  BY Places DEF PInv, Working
<1> QED BY <1>1, <1>2 DEF PInv

LEMMA HeldSame ==
  ASSUME NEW s \in Process, NEW path \in Path, staging'[s] = staging[s]
  PROVE  HeldAt(s, path)
BY DEF HeldAt

\* Nothing is recorded before the first operation is committed.
LEMMA NoRecords ==
  ASSUME NEW p \in Process, proc[p].committed = << >>
  PROVE  /\ \A path : Made(p, path) = {}
         /\ \A i \in DOMAIN proc[p].committed : FALSE
         /\ Len(proc[p].committed) = 0
BY DEF Made

\* The records are as good as before where they are the same ones.
LEMMA SameEntries ==
  ASSUME NEW p \in Process, Records(p), proc'[p].committed = proc[p].committed
  PROVE  /\ \A i \in DOMAIN proc'[p].committed : EntryOK(p, i)'
         /\ Len(proc'[p].committed) <= Len(Plan[p])
BY DEF Records, EntryOK

LEMMA PathsQuarantine ==
  ASSUME TypeOK, LInv, PInv, NEW p \in Process, Quarantine(p)
  PROVE  PInv'
<1>1. /\ proc[p].pc = "quarantine" /\ proc'[p].pc = "verify" /\ proc'[p].op = proc[p].op
      /\ proc'[p].committed = proc[p].committed /\ proc'[p].incomplete = proc[p].incomplete
      /\ \A q \in Process \ {p} : proc'[q] = proc[q]
      /\ UNCHANGED <<target, base, torn>>
  BY GoesTo DEF Quarantine, At, history
<1>2. Working(p) /\ Working(p)'
  BY <1>1 DEF Working, Locked
<1>3. staging'[p] = staging[p]
  BY DEF Quarantine
<1>4. ASSUME NEW q \in Process \ {p}
      PROVE  /\ staging[q] = Empty => staging'[q] = Empty
             /\ \A path \in Path : HeldAt(q, path)
  <2>1. staging'[q] = IF staging[q].place = "txn"
                        THEN [staging[q] EXCEPT !.place = "recovery"] ELSE staging[q]
    BY DEF Quarantine
  <2>2. staging[q] \in Staging
    BY DEF TypeOK
  <2>3. /\ staging'[q].backups = staging[q].backups /\ staging'[q].removed = staging[q].removed
        /\ staging[q].place # "none" => staging'[q].place # "none"
    BY <2>1, <2>2 DEF Staging
  <2> QED BY <2>1, <2>3 DEF Empty, HeldAt
<1>5. Records(p) /\ \A path \in Path \ torn : PathOK(p, path)
  BY <1>2 DEF PInv
<1>6. proc[p].committed = << >> /\ ~ proc[p].incomplete
  BY <1>1, <1>5 DEF Records
<1>7. Records(p)'
  BY <1>1, <1>3, <1>5, <1>6, SameEntries DEF Records, OpOK, Committing
<1>8. ASSUME NEW path \in Path \ torn' PROVE PathOK(p, path)'
  <2>1. KeptAt(p, path) /\ Alike(path) /\ HeldAt(p, path)
    BY <1>1, <1>3, KeptSame, HeldSame DEF Alike
  <2>2. ~ Away(p, path) /\ ~ Live(p, path) /\ ~ Away(p, path)' /\ ~ Live(p, path)'
    BY <1>1 DEF Away, Live
  <2> QED BY <1>1, <1>2, <1>4, <1>5, <2>1, <2>2, PathLeft
<1> QED BY <1>1, <1>2, <1>4, <1>7, <1>8, PathsWork

LEMMA PathsVerify ==
  ASSUME TypeOK, LInv, PInv, NEW p \in Process, Verify(p)
  PROVE  PInv'
<1>1. /\ proc[p].pc = "verify" /\ proc'[p].pc = "snapshot" /\ proc'[p].op = proc[p].op
      /\ proc'[p].committed = proc[p].committed /\ proc'[p].incomplete = proc[p].incomplete
      /\ \A q \in Process \ {p} : proc'[q] = proc[q]
      /\ UNCHANGED <<target, base, torn>>
  BY GoesTo DEF Verify, At, history
<1>2. Working(p) /\ Working(p)'
  BY <1>1 DEF Working, Locked
<1>3. Records(p) /\ \A path \in Path \ torn : PathOK(p, path)
  BY <1>2 DEF PInv
<1>4. proc[p].committed = << >> /\ ~ proc[p].incomplete /\ staging[p] = Empty
  BY <1>1, <1>3 DEF Records
<1>5. /\ staging'[p].place = "txn" /\ staging'[p].removed = Nothing
      /\ staging'[p].backups = Nothing
      /\ \A q \in Process \ {p} : staging'[q] = staging[q]
  <2>1. staging \in [Process -> Staging]
    BY DEF TypeOK
  <2>2. staging' = [staging EXCEPT ![p].place = "txn"]
    BY DEF Verify
  <2> QED BY <1>4, <2>1, <2>2 DEF Empty, Staging
<1>6. Records(p)'
  BY <1>1, <1>3, <1>4, <1>5, SameEntries DEF Records, OpOK, Committing
<1>7. ASSUME NEW path \in Path \ torn' PROVE PathOK(p, path)'
  <2>1. KeptAt(p, path) /\ Alike(path) /\ HeldAt(p, path)
    BY <1>1, <1>4, <1>5, KeptSame DEF Alike, HeldAt, Empty
  <2>2. ~ Away(p, path) /\ ~ Live(p, path) /\ ~ Away(p, path)' /\ ~ Live(p, path)'
    BY <1>1 DEF Away, Live
  <2> QED BY <1>1, <1>2, <1>3, <1>5, <2>1, <2>2, HeldSame, PathLeft
<1> QED BY <1>1, <1>2, <1>5, <1>6, <1>7, PathsWork

\* From here on only the records matter.
LEMMA PathsStop ==
  ASSUME TypeOK, LInv, PInv, NEW p \in Process, Working(p), Stop(p, "rollback"),
         ~ proc[p].incomplete, staging'[p].place = staging[p].place,
         \A q \in Process \ {p} : staging'[q] = staging[q],
         \A path \in Path \ torn' :
           \/ PathOK(p, path)'
           \/ path \notin torn /\ Alike(path) /\ HeldAt(p, path)
                /\ ~ Away(p, path) /\ ~ Live(p, path)
  PROVE  PInv'
<1>1. /\ proc'[p].pc = "rollback" /\ proc'[p].committed = proc[p].committed
      /\ ~ proc'[p].incomplete /\ \A q \in Process \ {p} : proc'[q] = proc[q]
  <2>1. "rollback" \in Place
    BY DEF Place, Locked
  <2> QED BY <2>1, StopsAt
<1>2. Working(p)'
  BY <1>1 DEF Working, Locked
<1>3. Records(p) /\ \A path \in Path \ torn : PathOK(p, path)
  BY DEF PInv
<1>4. Records(p)'
  BY <1>1, <1>3, SameEntries DEF Records, OpOK, Committing
<1>5. ASSUME NEW path \in Path \ torn' PROVE PathOK(p, path)'
  <2>1. CASE path \notin torn /\ Alike(path) /\ HeldAt(p, path)
               /\ ~ Away(p, path) /\ ~ Live(p, path)
    <3>1. KeptAt(p, path) /\ ~ Away(p, path)' /\ ~ Live(p, path)'
      BY <1>1, KeptSame DEF Away, Live
    <3> QED BY <1>1, <1>3, <2>1, <3>1, HeldSame, PathLeft
  <2> QED BY <2>1
<1> QED BY <1>1, <1>2, <1>4, <1>5, PathsWork

LEMMA PathsThrow ==
  ASSUME TypeOK, LInv, PInv, NEW p \in Process, Throw(p)
  PROVE  PInv'
<1>1. /\ proc[p].pc \in {"quarantine", "verify", "snapshot", "check", "displace", "validate"}
      /\ Stop(p, "rollback") /\ UNCHANGED <<target, staging, base, torn>>
  BY DEF Throw, history
<1>2. Working(p)
  BY <1>1 DEF Working, Locked
<1>3. ~ proc[p].incomplete
  BY <1>1, <1>2 DEF PInv, Records
<1>4. \A path \in Path : /\ Alike(path) /\ HeldAt(p, path)
                         /\ ~ Away(p, path) /\ ~ Live(p, path)
  BY <1>1 DEF Alike, HeldAt, Away, Live
<1> QED BY <1>1, <1>2, <1>3, <1>4, PathsStop

LEMMA PathsRollbackEnds ==
  ASSUME TypeOK, LInv, PInv, NEW p \in Process, RollbackEnds(p)
  PROVE  PInv'
<1>1. /\ proc[p].pc = "rollback" /\ proc'[p].pc = "clean" /\ proc[p].committed = << >>
      /\ proc'[p].committed = proc[p].committed /\ proc'[p].incomplete = proc[p].incomplete
      /\ \A q \in Process \ {p} : proc'[q] = proc[q]
      /\ UNCHANGED <<target, base, torn, staging>>
  BY GoesTo DEF RollbackEnds, At, history
<1>2. Working(p) /\ Working(p)'
  BY <1>1 DEF Working, Locked
<1>3. Records(p) /\ \A path \in Path \ torn : PathOK(p, path)
  BY <1>2 DEF PInv
<1>4. Records(p)'
  BY <1>1, <1>3, SameEntries DEF Records, OpOK, Committing
<1>5. ASSUME NEW path \in Path \ torn' PROVE PathOK(p, path)'
  <2>1. KeptAt(p, path) /\ Alike(path) /\ HeldAt(p, path)
    BY <1>1, KeptSame DEF Alike, HeldAt
  <2>2. ~ Away(p, path) /\ ~ Live(p, path) /\ ~ Away(p, path)' /\ ~ Live(p, path)'
    BY <1>1 DEF Away, Live
  <2> QED BY <1>1, <1>2, <1>3, <2>1, <2>2, HeldSame, PathLeft
<1> QED BY <1>1, <1>2, <1>4, <1>5, PathsWork

LEMMA PathsCheck ==
  ASSUME TypeOK, LInv, PInv, NEW p \in Process, Check(p)
  PROVE  PInv'
<1>a. PICK existed \in BOOLEAN, place \in {"displace", "install"} :
        /\ Becomes(p, [proc[p] EXCEPT !.existed = existed, !.pc = place])
        /\ existed <=> target[Op(p).path] # Absent
        /\ place = "displace" => Op(p).kind = "put" /\ existed
  BY CheckBecomes
<1> DEFINE r == [proc[p] EXCEPT !.existed = existed, !.pc = place]
<1>b. /\ r.pc = place /\ r.existed = existed /\ r.op = proc[p].op
      /\ r.committed = proc[p].committed /\ r.incomplete = proc[p].incomplete
  <2>1. proc[p] \in Proc
    BY DEF TypeOK
  <2> QED BY <2>1 DEF Proc
<1>c. Becomes(p, r)
  BY <1>a
<1> HIDE DEF r
<1>1. /\ proc[p].pc = "check" /\ proc'[p].pc = place
      /\ proc'[p].op = proc[p].op /\ proc'[p].existed = existed
      /\ proc'[p].committed = proc[p].committed /\ proc'[p].incomplete = proc[p].incomplete
      /\ \A q \in Process \ {p} : proc'[q] = proc[q]
      /\ UNCHANGED <<target, base, torn, staging>>
  BY <1>b, <1>c, Others DEF Check, At, history
<1>2. Working(p) /\ Working(p)'
  BY <1>1 DEF Working, Locked
<1>3. Records(p) /\ \A path \in Path \ torn : PathOK(p, path)
  BY <1>2 DEF PInv
<1>4. staging[p].removed[Op(p).path] = Absent
  BY <1>1, <1>3 DEF Records, OpOK
<1>5. Op(p)' = Op(p) /\ ~ Displaced(p)'
  BY <1>1, <1>4 DEF Op, Displaced
<1>6. OpOK(p)'
  BY <1>a, <1>1, <1>4, <1>5 DEF OpOK
<1>7. Records(p)'
  BY <1>1, <1>3, <1>6, SameEntries DEF Records, Committing
<1>8. ASSUME NEW path \in Path \ torn' PROVE PathOK(p, path)'
  <2>1. KeptAt(p, path) /\ Alike(path) /\ HeldAt(p, path)
    BY <1>1, KeptSame DEF Alike, HeldAt
  <2>2. ~ Away(p, path) /\ ~ Live(p, path) /\ ~ Away(p, path)' /\ ~ Live(p, path)'
    BY <1>1, <1>5 DEF Away, Live
  <2> QED BY <1>1, <1>2, <1>3, <2>1, <2>2, HeldSame, PathLeft
<1> QED BY <1>1, <1>2, <1>7, <1>8, PathsWork

\* A staging directory with one thing more, or less.
LEMMA RemovedAt ==
  ASSUME TypeOK, NEW p \in Process, NEW path \in Path, NEW c,
         staging' = [staging EXCEPT ![p].removed[path] = c]
  PROVE  /\ staging'[p].removed[path] = c
         /\ \A x \in Path \ {path} : staging'[p].removed[x] = staging[p].removed[x]
         /\ staging'[p].backups = staging[p].backups /\ staging'[p].place = staging[p].place
         /\ \A q \in Process \ {p} : staging'[q] = staging[q]
<1>1. staging \in [Process -> Staging] /\ staging[p] \in Staging
  BY DEF TypeOK
<1>2. staging'[p] = [staging[p] EXCEPT !.removed[path] = c]
  BY <1>1
<1>3. \A q \in Process \ {p} : staging'[q] = staging[q]
  BY <1>1
<1> QED BY <1>1, <1>2, <1>3 DEF Staging

LEMMA BackedAt ==
  ASSUME TypeOK, NEW p \in Process, NEW path \in Path, NEW c,
         staging' = [staging EXCEPT ![p].backups[path] = c]
  PROVE  /\ staging'[p].backups[path] = c
         /\ \A x \in Path \ {path} : staging'[p].backups[x] = staging[p].backups[x]
         /\ staging'[p].removed = staging[p].removed /\ staging'[p].place = staging[p].place
         /\ \A q \in Process \ {p} : staging'[q] = staging[q]
<1>1. staging \in [Process -> Staging] /\ staging[p] \in Staging
  BY DEF TypeOK
<1>2. staging'[p] = [staging[p] EXCEPT !.backups[path] = c]
  BY <1>1
<1>3. \A q \in Process \ {p} : staging'[q] = staging[q]
  BY <1>1
<1> QED BY <1>1, <1>2, <1>3 DEF Staging

LEMMA PathsSnapshot ==
  ASSUME TypeOK, TypeOK', LInv, PInv, NEW p \in Process, Snapshot(p)
  PROVE  PInv'
<1> DEFINE n == proc[p].op
           x == Op(p).path
<1>0. proc[p].pc = "snapshot" /\ UNCHANGED <<target, base, torn>>
  BY DEF Snapshot, At, history
<1>1. /\ LastOp(p) => proc'[p].pc = "check" /\ proc'[p].op = 1
      /\ ~ LastOp(p) => proc'[p].pc = "snapshot" /\ proc'[p].op = n + 1
      /\ proc'[p].committed = proc[p].committed /\ proc'[p].incomplete = proc[p].incomplete
      /\ \A q \in Process \ {p} : proc'[q] = proc[q]
  <2> DEFINE r == Advance(p, "check")
  <2>1. Becomes(p, r) /\ "check" \in Place
    BY DEF Snapshot, Becomes, Place, Locked
  <2>2. proc'[p] = r /\ \A q \in Process \ {p} : proc'[q] = proc[q]
    BY <2>1, Others
  <2>3. /\ LastOp(p) => r.pc = "check" /\ r.op = 1
        /\ ~ LastOp(p) => r.pc = proc[p].pc /\ r.op = proc[p].op + 1
        /\ r.committed = proc[p].committed /\ r.incomplete = proc[p].incomplete
    BY <2>1, Advances
  <2> HIDE DEF r
  <2> QED BY <1>0, <2>2, <2>3
<1>2. Working(p) /\ Working(p)'
  BY <1>0, <1>1 DEF Working, Locked
<1>3. Records(p) /\ \A path \in Path \ torn : PathOK(p, path)
  BY <1>2 DEF PInv
<1>4. /\ proc[p].committed = << >> /\ ~ proc[p].incomplete /\ staging[p].place # "none"
      /\ staging[p].removed = Nothing
  BY <1>0, <1>3 DEF Records
<1>5. /\ staging'[p].removed = staging[p].removed /\ staging'[p].place = staging[p].place
      /\ \A q \in Process \ {p} : staging'[q] = staging[q]
  <2>1. x \in Path /\ staging' = [staging EXCEPT ![p].backups[x] = target[x]]
    BY OpAt DEF Snapshot
  <2> HIDE DEF x
  <2>2. PICK c : c = target[x]
    OBVIOUS
  <2> QED BY <2>1, <2>2, BackedAt
<1>6. Len(proc'[p].committed) = 0
  BY <1>1, <1>4, NoRecords
<1>7. \A y \in Path : staging'[p].removed[y] = Absent
  BY <1>4, <1>5 DEF Nothing
<1>8. OpOK(p)'
  <2>1. Op(p)'.path \in Path
    BY Plans DEF TypeOK, Op, PathOf
  <2> QED BY <1>1, <1>0, <1>7, <2>1 DEF OpOK
<1>9. Records(p)'
  <2>1. CASE ~ LastOp(p)
    BY <1>0, <1>1, <1>3, <1>4, <1>5, <1>8, <2>1, SameEntries DEF Records, Committing
  <2>2. CASE LastOp(p)
    <3>1. \A i \in DOMAIN Plan[p] : staging'[p].removed[PathOf(p, i)] = Absent
      BY <1>7, OpAt
    <3> QED BY <1>1, <1>3, <1>4, <1>5, <1>6, <1>8, <2>2, <3>1, SameEntries
         DEF Records, Committing
  <2> QED BY <2>1, <2>2
<1>10. ASSUME NEW path \in Path \ torn' PROVE PathOK(p, path)'
  <2>1. KeptAt(p, path) /\ Alike(path)
    BY <1>0, <1>1, KeptSame DEF Alike
  <2>2. ~ Away(p, path) /\ ~ Live(p, path) /\ ~ Away(p, path)' /\ ~ Live(p, path)'
    BY <1>0, <1>1 DEF Away, Live
  <2> QED BY <1>0, <1>1, <1>2, <1>3, <1>4, <1>5, <2>1, <2>2, HeldSame, PathLeft
<1> QED BY <1>1, <1>2, <1>5, <1>9, <1>10, PathsWork

\* An operation is recorded once, after it was committed.
LEMMA NotMade ==
  ASSUME TypeOK, NEW p \in Process, Records(p), proc[p].pc \in Committing
  PROVE  LET n == proc[p].op
             x == Op(p).path
         IN  /\ x \in Path /\ staging[p].place # "none" /\ ~ proc[p].incomplete
             /\ Len(proc[p].committed) = n - 1 /\ Len(proc[p].committed) <= Len(Plan[p])
             /\ DOMAIN proc[p].committed = 1 .. n - 1
             /\ DOMAIN proc[p].committed \subseteq DOMAIN Plan[p]
             /\ \A i \in DOMAIN proc[p].committed : EntryOK(p, i)
             /\ \A i \in DOMAIN Plan[p] : i > n => staging[p].removed[PathOf(p, i)] = Absent
             /\ Made(p, x) = {}
<1> DEFINE n == proc[p].op
           x == Op(p).path
<1>1. /\ staging[p].place # "none" /\ ~ proc[p].incomplete
      /\ Len(proc[p].committed) = n - 1 /\ Len(proc[p].committed) <= Len(Plan[p])
      /\ \A i \in DOMAIN proc[p].committed : EntryOK(p, i)
      /\ \A i \in DOMAIN Plan[p] : i > n => staging[p].removed[PathOf(p, i)] = Absent
  BY DEF Records, Committing
<1>2. /\ DOMAIN proc[p].committed = 1 .. n - 1
      /\ DOMAIN proc[p].committed \subseteq DOMAIN Plan[p] /\ x \in Path
  BY <1>1, RecordsDomain, OpAt
<1>3. ASSUME NEW i \in DOMAIN proc[p].committed, PathOf(p, i) = x PROVE FALSE
  <2>1. i = n
    BY <1>2, <1>3, OpAt
  <2> QED BY <1>2, <2>1, OpAt
<1>4. Made(p, x) = {}
  BY <1>3 DEF Made
<1> QED BY <1>1, <1>2, <1>4

LEMMA PathsDisplace ==
  ASSUME TypeOK, LInv, PInv, NEW p \in Process, Displace(p)
  PROVE  PInv'
<1> DEFINE n == proc[p].op
           x == Op(p).path
<1>1. /\ proc[p].pc = "displace" /\ proc'[p].pc = "install"
      /\ proc'[p].op = proc[p].op /\ proc'[p].existed = proc[p].existed
      /\ proc'[p].committed = proc[p].committed /\ proc'[p].incomplete = proc[p].incomplete
      /\ \A q \in Process \ {p} : proc'[q] = proc[q]
      /\ base' = base /\ torn' = torn
  BY GoesTo DEF Displace, At, history
<1>2. Working(p) /\ Working(p)'
  BY <1>1 DEF Working, Locked
<1>3. Records(p) /\ \A path \in Path \ torn : PathOK(p, path)
  BY <1>2 DEF PInv
<1>4. /\ x \in Path /\ ~ proc[p].incomplete /\ Made(p, x) = {}
      /\ staging[p].removed[x] = Absent /\ Op(p).kind = "put" /\ proc[p].existed
      /\ target[x] # Absent
  BY <1>1, <1>3, NotMade DEF Committing, Records, OpOK
<1>5. Op(p)' = Op(p)
  BY <1>1 DEF Op
<1>6. /\ staging'[p].removed[x] = target[x]
      /\ \A y \in Path \ {x} : staging'[p].removed[y] = staging[p].removed[y]
      /\ staging'[p].backups = staging[p].backups /\ staging'[p].place = staging[p].place
      /\ \A q \in Process \ {p} : staging'[q] = staging[q]
  <2>1. staging' = [staging EXCEPT ![p].removed[x] = target[x]]
    BY DEF Displace
  <2> HIDE DEF x
  <2>2. PICK c : c = target[x]
    OBVIOUS
  <2> QED BY <1>4, <2>1, <2>2, RemovedAt
<1>7. target'[x] = Absent /\ \A y \in Path \ {x} : target'[y] = target[y]
  BY <1>4 DEF Displace, TypeOK
<1>8. Displaced(p)'
  BY <1>4, <1>5, <1>6 DEF Displaced
<1>9. Records(p)'
  <2>1. OpOK(p)'
    BY <1>1, <1>4, <1>8 DEF OpOK
  <2>2. ASSUME NEW i \in DOMAIN Plan[p], i > proc'[p].op
        PROVE  staging'[p].removed[PathOf(p, i)] = Absent
    <3>1. i > n => PathOf(p, i) \in Path \ {x}
      BY OpAt
    <3>2. i > n => staging[p].removed[PathOf(p, i)] = Absent
      BY <1>1, <1>3, <2>2 DEF Records, Committing
    <3> QED BY <1>1, <1>6, <2>2, <3>1, <3>2
  <2> QED BY <1>1, <1>3, <1>6, <2>1, <2>2, SameEntries DEF Records, Committing
<1>10. ASSUME NEW path \in Path \ torn' PROVE PathOK(p, path)'
  <2>1. KeptAt(p, path) /\ ~ Away(p, path) /\ ~ Live(p, path) /\ ~ Live(p, path)'
    BY <1>1, KeptSame DEF Away, Live
  <2>2. CASE path # x
    <3>1. ~ Away(p, path)' /\ Alike(path) /\ HeldAt(p, path)
      BY <1>1, <1>5, <1>6, <1>7, <2>2 DEF Away, Alike, HeldAt
    <3> QED BY <1>1, <1>2, <1>3, <1>6, <2>1, <3>1, HeldSame, PathLeft
  <2>3. CASE path = x
    <3>1. Spare(p, path) => Spare(p, path)'
      BY <1>1, <1>2, <1>6, HeldSame, SpareKept
    <3>2. Well(p, path, target[path])
      BY <1>1, <1>3, <1>4, <2>1, <2>3 DEF PathOK
    <3>3. base'[path] = target[path] \/ Spare(p, path)'
      BY <1>1, <3>1, <3>2 DEF Well
    <3>4. Well(p, path, staging[p].removed[path])'
      BY <1>6, <2>3, <3>3 DEF Well
    <3>5. Made(p, path)' = {} /\ Away(p, path)'
      BY <1>1, <1>4, <1>5, <1>8, <2>1, <2>3 DEF KeptAt, Away
    <3> QED BY <2>1, <3>4, <3>5 DEF PathOK
  <2> QED BY <2>2, <2>3
<1> QED BY <1>1, <1>2, <1>6, <1>9, <1>10, PathsWork

LEMMA PathsInstall ==
  ASSUME TypeOK, LInv, PInv, NEW p \in Process, Install(p)
  PROVE  PInv'
<1> DEFINE n == proc[p].op
           x == Op(p).path
<1>1. /\ proc[p].pc = "install" /\ proc'[p].pc = "record"
      /\ proc'[p].op = proc[p].op /\ proc'[p].existed = proc[p].existed
      /\ proc'[p].committed = proc[p].committed /\ proc'[p].incomplete = proc[p].incomplete
      /\ \A q \in Process \ {p} : proc'[q] = proc[q]
      /\ base' = base
  BY GoesTo DEF Install, At
<1>2. Working(p) /\ Working(p)'
  BY <1>1 DEF Working, Locked
<1>3. Records(p) /\ \A path \in Path \ torn : PathOK(p, path)
  BY <1>2 DEF PInv
<1>4. /\ x \in Path /\ ~ proc[p].incomplete /\ Made(p, x) = {}
      /\ proc[p].existed <=> Displaced(p) \/ target[x] # Absent
  BY <1>1, <1>3, NotMade DEF Committing, Records, OpOK
<1>5. Op(p)' = Op(p)
  BY <1>1 DEF Op
<1>6. PICK c \in {p, Absent} :
        /\ target' = [target EXCEPT ![x] = c]
        /\ \/ staging' = staging
           \/ Op(p).kind # "put" /\ staging' = [staging EXCEPT ![p].removed[x] = target[x]]
  BY DEF Install
<1>7. /\ \A y \in Path \ {x} : staging'[p].removed[y] = staging[p].removed[y]
      /\ Op(p).kind = "put" => staging'[p].removed[x] = staging[p].removed[x]
      /\ staging'[p].backups = staging[p].backups /\ staging'[p].place = staging[p].place
      /\ \A q \in Process \ {p} : staging'[q] = staging[q]
  <2>1. CASE staging' = staging
    BY <2>1
  <2>2. CASE Op(p).kind # "put" /\ staging' = [staging EXCEPT ![p].removed[x] = target[x]]
    <3>1. PICK old : old = target[x]
      OBVIOUS
    <3>2. x \in Path
      BY <1>4
    <3> HIDE DEF x
    <3> QED BY <2>2, <3>1, <3>2, RemovedAt
  <2> QED BY <1>6, <2>1, <2>2
<1>8. target'[x] = c /\ \A y \in Path \ {x} : target'[y] = target[y]
  BY <1>4, <1>6 DEF TypeOK
<1>9. Displaced(p)' <=> Displaced(p)
  BY <1>5, <1>7 DEF Displaced
<1>10. Records(p)'
  <2>1. OpOK(p)'
    BY <1>1, <1>4, <1>5, <1>8, <1>9 DEF OpOK
  <2>2. ASSUME NEW i \in DOMAIN Plan[p], i > proc'[p].op
        PROVE  staging'[p].removed[PathOf(p, i)] = Absent
    <3>1. i > n => PathOf(p, i) \in Path \ {x}
      BY OpAt
    <3>2. i > n => staging[p].removed[PathOf(p, i)] = Absent
      BY <1>1, <1>3, <2>2 DEF Records, Committing
    <3> QED BY <1>1, <1>7, <2>2, <3>1, <3>2
  <2> QED BY <1>1, <1>3, <1>7, <2>1, <2>2, SameEntries DEF Records, Committing
<1>11. \A path \in Path \ torn' : path \notin torn /\ (path = x => ~ Unseen(p))
  BY DEF Install
<1>12. ASSUME NEW path \in Path \ torn' PROVE PathOK(p, path)'
  <2>1. /\ KeptAt(p, path) /\ ~ Live(p, path) /\ ~ Away(p, path)'
        /\ path \in Path \ torn /\ PathOK(p, path)
    BY <1>1, <1>3, <1>11, KeptSame DEF Away, Live
  <2>2. CASE path # x
    <3>1. ~ Away(p, path) /\ ~ Live(p, path)' /\ Alike(path) /\ HeldAt(p, path)
      BY <1>1, <1>5, <1>7, <1>8, <2>2 DEF Away, Live, Alike, HeldAt
    <3> QED BY <1>1, <1>2, <1>3, <1>7, <2>1, <3>1, HeldSame, PathLeft
  <2>3. CASE path = x
    <3>1. Spare(p, path) => Spare(p, path)'
      BY <1>1, <1>2, <1>7, HeldSame, SpareKept
    <3>2. ~ Unseen(p) /\ (Away(p, path) <=> Displaced(p))
      BY <1>1, <1>11, <2>3 DEF Away
    <3> DEFINE old == IF Displaced(p) THEN staging[p].removed[x] ELSE target[x]
    <3>3. Well(p, path, old)
      BY <1>4, <2>1, <2>3, <3>2 DEF PathOK
    <3>4. \A e : e = Done(p)' => Previous(p, e)' = old
      <4> SUFFICES ASSUME NEW e, e = Done(p)' PROVE Previous(p, e)' = old
        OBVIOUS
      <4>1. /\ e.path = x /\ e.existed = proc[p].existed
            /\ e.displaced <=> Displaced(p)
        BY <1>1, <1>5, <1>9 DEF Done
      <4>2. CASE Displaced(p)
        <5>1. staging'[p].removed[x] = staging[p].removed[x]
          BY <1>7, <4>2 DEF Displaced
        <5> QED BY <1>4, <4>1, <4>2, <5>1 DEF Previous
      <4>3. CASE ~ Displaced(p)
        <5>1. proc[p].existed => target[x] = staging'[p].backups[x]
          BY <1>7, <3>2, <4>3 DEF Unseen
        <5>2. ~ proc[p].existed => target[x] = Absent
          BY <1>4, <4>3
        <5> QED BY <4>1, <4>3, <5>1, <5>2 DEF Previous
      <4> QED BY <4>2, <4>3
    <3> HIDE DEF old
    <3>5. base'[path] = old \/ Spare(p, path)'
      BY <1>1, <3>1, <3>3 DEF Well
    <3>6. \A e : e = Done(p)' => Well(p, path, Previous(p, e))'
      BY <3>4, <3>5 DEF Well
    <3>7. Made(p, path)' = {} /\ Live(p, path)'
      BY <1>1, <1>4, <1>5, <2>1, <2>3 DEF KeptAt, Live
    <3> QED BY <2>1, <3>6, <3>7 DEF PathOK
  <2> QED BY <2>2, <2>3
<1> QED BY <1>1, <1>2, <1>7, <1>10, <1>12, PathsWork

\* The records, when one is added.
LEMMA OneMore ==
  ASSUME NEW list \in Seq(Entry), NEW d \in Entry
  PROVE  LET more == Append(list, d)
             n == Len(list) + 1
         IN  /\ Len(list) \in Nat /\ DOMAIN list = 1 .. Len(list)
             /\ Len(more) = n /\ DOMAIN more = 1 .. n /\ more[n] = d
             /\ \A i \in 1 .. Len(list) : more[i] = list[i]
  OBVIOUS

LEMMA PathsRecord ==
  ASSUME TypeOK, TypeOK', LInv, PInv, NEW p \in Process, Record(p)
  PROVE  PInv'
<1> DEFINE n == proc[p].op
           x == Op(p).path
<1>d. PICK d : d = Done(p)
  OBVIOUS
<1>0. proc[p].pc = "record" /\ UNCHANGED <<target, staging, base, torn>>
  BY DEF Record, At, history
<1>1. /\ LastOp(p) => proc'[p].pc = "validate" /\ proc'[p].op = 1
      /\ ~ LastOp(p) => proc'[p].pc = "check" /\ proc'[p].op = n + 1
      /\ proc'[p].committed = Append(proc[p].committed, d)
      /\ proc'[p].incomplete = proc[p].incomplete
      /\ \A q \in Process \ {p} : proc'[q] = proc[q]
  <2>1. PICK r : r = proc'[p]
    OBVIOUS
  <2>2. Becomes(p, r)
    BY <2>1, Recorded
  <2> QED BY <1>d, <2>2, Recorded, Others
<1>2. Working(p) /\ Working(p)'
  BY <1>0, <1>1 DEF Working, Locked
<1>3. Records(p) /\ \A path \in Path \ torn : PathOK(p, path)
  BY <1>2 DEF PInv
<1>4. /\ x \in Path /\ staging[p].place # "none" /\ ~ proc[p].incomplete
      /\ Len(proc[p].committed) = n - 1 /\ Len(proc[p].committed) <= Len(Plan[p])
      /\ DOMAIN proc[p].committed = 1 .. n - 1
      /\ DOMAIN proc[p].committed \subseteq DOMAIN Plan[p]
      /\ \A i \in DOMAIN proc[p].committed : EntryOK(p, i)
      /\ \A i \in DOMAIN Plan[p] : i > n => staging[p].removed[PathOf(p, i)] = Absent
      /\ Made(p, x) = {} /\ target[x] \in {p, Absent}
  BY <1>0, <1>3, NotMade DEF Committing, Records, OpOK
<1>5. d.path = x /\ d.state \in {p, Absent}
  BY <1>d, <1>4 DEF Done
<1>6. /\ DOMAIN proc'[p].committed = 1 .. n /\ proc'[p].committed[n] = d
      /\ Len(proc'[p].committed) = n
      /\ \A i \in 1 .. n - 1 : proc'[p].committed[i] = proc[p].committed[i]
  <2>1. proc[p].committed \in Seq(Entry) /\ n \in Nat /\ d \in Entry
    BY <1>d, OpAt, DoneType DEF TypeOK, Proc
  <2> QED BY <1>1, <1>4, <2>1, OneMore
<1>7. /\ n \in DOMAIN Plan[p] /\ n \in 1 .. Len(Plan[p]) /\ Len(Plan[p]) \in Nat
      /\ x = PathOf(p, n) /\ DOMAIN Plan[p] = 1 .. Len(Plan[p])
      /\ \A i \in DOMAIN Plan[p] : PathOf(p, i) \in Path /\ (PathOf(p, i) = x => i = n)
  BY OpAt, Plans
<1>8. ASSUME NEW i \in 1 .. n PROVE EntryOK(p, i)'
  <2>1. CASE i = n
    BY <1>5, <1>6, <1>7, <2>1 DEF EntryOK
  <2>2. CASE i # n
    <3>1. i \in DOMAIN proc[p].committed /\ i \in 1 .. n - 1
      BY <1>4, <1>7, <2>2
    <3> QED BY <1>4, <1>6, <3>1 DEF EntryOK
  <2> QED BY <2>1, <2>2
<1>9. Records(p)'
  <2>1. CASE LastOp(p)
    BY <1>0, <1>1, <1>4, <1>6, <1>7, <1>8, <2>1 DEF Records, Committing, LastOp, OpOK
  <2>2. CASE ~ LastOp(p)
    <3>1. n + 1 \in DOMAIN Plan[p] /\ Len(proc'[p].committed) = proc'[p].op - 1
      BY <1>1, <1>6, <1>7, <2>2 DEF LastOp
    <3>2. Op(p)'.path = PathOf(p, n + 1)
      BY <1>1, <2>2 DEF Op, PathOf
    <3>3. OpOK(p)'
      BY <1>0, <1>1, <1>4, <1>7, <2>2, <3>1, <3>2 DEF OpOK
    <3>4. ASSUME NEW i \in DOMAIN Plan[p], i > proc'[p].op
          PROVE  staging'[p].removed[PathOf(p, i)] = Absent
      BY <1>0, <1>1, <1>4, <1>7, <2>2, <3>4
    <3> QED BY <1>0, <1>1, <1>4, <1>6, <1>7, <1>8, <2>2, <3>1, <3>3, <3>4
         DEF Records, Committing
  <2> QED BY <2>1, <2>2
<1>10. ASSUME NEW path \in Path \ torn' PROVE PathOK(p, path)'
  <2>1. ~ Away(p, path) /\ ~ Live(p, path)' /\ ~ Away(p, path)'
    BY <1>0, <1>1 DEF Away, Live
  <2>2. CASE path # x
    <3>1. \A i \in 1 .. n : PathOf(p, i) = path => i \in 1 .. n - 1
      BY <1>7, <2>2
    <3>2. KeptAt(p, path)
      <4> DEFINE old == {j \in 1 .. n - 1 : PathOf(p, j) = path}
                 new == {j \in 1 .. n : PathOf(p, j) = path}
      <4>1. old = new
        BY <1>7, <3>1
      <4>2. \A j \in old : proc'[p].committed[j] = proc[p].committed[j]
        BY <1>6
      <4>3. Made(p, path) = {proc[p].committed[j] : j \in old}
        BY <1>4 DEF Made
      <4>4. Made(p, path)' = {proc'[p].committed[j] : j \in new}
        BY <1>6 DEF Made
      <4> HIDE DEF old, new
      <4> QED BY <4>1, <4>2, <4>3, <4>4 DEF KeptAt
    <3>3. ~ Live(p, path) /\ Alike(path) /\ HeldAt(p, path)
      BY <1>0, <2>2 DEF Live, Alike, HeldAt
    <3> QED BY <1>0, <1>1, <1>2, <1>3, <2>1, <3>2, <3>3, HeldSame, PathLeft
  <2>3. CASE path = x
    <3>1. Spare(p, path) => Spare(p, path)'
      BY <1>0, <1>1, <1>2, HeldSame, SpareKept
    <3>2. Well(p, path, Previous(p, d))
      BY <1>0, <1>3, <1>d, <2>3 DEF PathOK, Live
    <3>3. Touched(p, d)'
      BY <1>0, <1>5, <2>3, <3>1, <3>2 DEF Touched, Well, Previous
    <3>4. Made(p, path)' = {d}
      <4>1. {j \in 1 .. n : PathOf(p, j) = path} = {n}
        BY <1>7, <2>3
      <4> QED BY <1>6, <4>1 DEF Made
    <3> QED BY <2>1, <3>3, <3>4 DEF PathOK
  <2> QED BY <2>2, <2>3
<1> QED BY <1>0, <1>1, <1>2, <1>9, <1>10, PathsWork

LEMMA PathsThrowAtInstall ==
  ASSUME TypeOK, LInv, PInv, NEW p \in Process, ThrowAtInstall(p)
  PROVE  PInv'
<1> DEFINE x == Op(p).path
<1>1. proc[p].pc = "install" /\ base' = base /\ Stop(p, "rollback")
  BY DEF ThrowAtInstall, At
<1>2. Working(p)
  BY <1>1 DEF Working, Locked
<1>3. Records(p) /\ \A path \in Path \ torn : PathOK(p, path)
  BY <1>2 DEF PInv
<1>4. x \in Path /\ ~ proc[p].incomplete /\ Made(p, x) = {}
  BY <1>1, <1>3, NotMade DEF Committing
<1>5. \A path : ~ Live(p, path) /\ (Away(p, path) <=> path = x /\ Displaced(p))
  BY <1>1 DEF Live, Away
<1>6. CASE ~ Displaced(p) \/ (Displaced(p) /\ torn' = torn \cup {x}
                                /\ UNCHANGED <<target, staging>>)
  <2>1. UNCHANGED <<target, staging>> /\ torn \subseteq torn' /\ (Displaced(p) => x \in torn')
    BY <1>6 DEF ThrowAtInstall
  <2>2. \A path \in Path \ torn' :
          path \notin torn /\ Alike(path) /\ HeldAt(p, path) /\ ~ Away(p, path) /\ ~ Live(p, path)
    BY <1>1, <1>5, <2>1 DEF Alike, HeldAt
  <2> QED BY <1>1, <1>2, <1>4, <2>1, <2>2, PathsStop
<1>7. CASE Displaced(p) /\ target' = [target EXCEPT ![x] = staging[p].removed[x]]
             /\ staging' = [staging EXCEPT ![p].removed[x] = Absent] /\ UNCHANGED torn
  <2>1. /\ \A y \in Path \ {x} : staging'[p].removed[y] = staging[p].removed[y]
        /\ staging'[p].backups = staging[p].backups /\ staging'[p].place = staging[p].place
        /\ \A q \in Process \ {p} : staging'[q] = staging[q]
    <3> HIDE DEF x
    <3> QED BY <1>4, <1>7, RemovedAt
  <2>2. /\ target'[x] = staging[p].removed[x]
        /\ \A y \in Path \ {x} : target'[y] = target[y]
    BY <1>4, <1>7 DEF TypeOK
  <2>3. ASSUME NEW path \in Path \ torn', path # x
        PROVE  path \notin torn /\ Alike(path) /\ HeldAt(p, path)
                 /\ ~ Away(p, path) /\ ~ Live(p, path)
    BY <1>1, <1>5, <1>7, <2>1, <2>2, <2>3 DEF Alike, HeldAt
  <2>4. ASSUME NEW path \in Path \ torn', path = x PROVE PathOK(p, path)'
    <3>0. "rollback" \in Place
      BY DEF Place, Locked
    <3>1. /\ proc'[p].pc = "rollback" /\ proc'[p].committed = proc[p].committed
          /\ ~ proc'[p].incomplete /\ \A q \in Process \ {p} : proc'[q] = proc[q]
      BY <1>1, <3>0, StopsAt
    <3>2. Well(p, path, staging[p].removed[path])
      BY <1>3, <1>5, <1>7, <2>4 DEF PathOK
    <3>3. Spare(p, path) => Spare(p, path)'
      BY <1>1, <1>2, <1>4, <2>1, <3>1, HeldSame, SpareKept
    <3>4. Well(p, path, target[path])'
      BY <1>1, <2>2, <2>4, <3>2, <3>3 DEF Well
    <3>5. Made(p, path)' = {}
      BY <1>4, <2>4, <3>1, KeptSame DEF KeptAt
    <3> QED BY <3>1, <3>4, <3>5 DEF PathOK, Away, Live
  <2> QED BY <1>1, <1>2, <1>4, <2>1, <2>3, <2>4, PathsStop
<1> QED BY <1>6, <1>7 DEF ThrowAtInstall

LEMMA PathsThrowAtRecord ==
  ASSUME TypeOK, LInv, PInv, NEW p \in Process, ThrowAtRecord(p)
  PROVE  PInv'
<1>1. /\ proc[p].pc = "record" /\ Stop(p, "rollback") /\ UNCHANGED <<target, staging, base>>
      /\ torn' = torn \cup {Op(p).path}
  BY DEF ThrowAtRecord, At
<1>2. Working(p)
  BY <1>1 DEF Working, Locked
<1>3. ~ proc[p].incomplete
  BY <1>1, <1>2 DEF PInv, Records
<1>4. \A path \in Path \ torn' :
        path \notin torn /\ Alike(path) /\ HeldAt(p, path) /\ ~ Away(p, path) /\ ~ Live(p, path)
  BY <1>1 DEF Alike, HeldAt, Away, Live
<1> QED BY <1>1, <1>2, <1>3, <1>4, PathsStop

LEMMA PathsThrowAtValidate ==
  ASSUME TypeOK, LInv, PInv, NEW p \in Process, ThrowAtValidate(p)
  PROVE  PInv'
<1>1. proc[p].pc = "validate" /\ Stop(p, "rollback") /\ UNCHANGED <<target, base>>
  BY DEF ThrowAtValidate, At
<1>2. Working(p)
  BY <1>1 DEF Working, Locked
<1>3. ~ proc[p].incomplete
  BY <1>1, <1>2 DEF PInv, Records
<1>4. staging \in [Process -> Staging] /\ staging[p] \in Staging
  BY DEF TypeOK
<1>5. PICK gone, part :
        /\ staging' = [staging EXCEPT ![p].backups = Left(@, gone, part),
                                     ![p].removed = Left(@, gone, part)]
        /\ torn' = torn \cup gone \cup part
  BY DEF ThrowAtValidate
<1> DEFINE backups == Left(staging[p].backups, gone, part)
           removed == Left(staging[p].removed, gone, part)
<1>6. /\ staging' = [staging EXCEPT ![p].backups = backups, ![p].removed = removed]
      /\ staging[p].backups \in [Path -> Content] /\ staging[p].removed \in [Path -> Content]
  BY <1>4, <1>5 DEF Staging
<1>7. /\ backups \in [Path -> Content] /\ removed \in [Path -> Content]
      /\ \A path \in Path : path \notin gone \cup part =>
           backups[path] = staging[p].backups[path] /\ removed[path] = staging[p].removed[path]
  BY <1>6, LeftType
<1>a. PICK b \in [Path -> Content], r \in [Path -> Content] : b = backups /\ r = removed
  BY <1>7
<1>b. staging' = [staging EXCEPT ![p].backups = b, ![p].removed = r]
  BY <1>6, <1>a
<1> HIDE DEF backups, removed
<1>8. /\ staging' \in [Process -> Staging]
      /\ staging'[p].place = staging[p].place /\ staging'[p].backups = b
      /\ staging'[p].removed = r
      /\ \A q \in Process \ {p} : staging'[q] = staging[q]
  BY <1>b, CopiesType
<1>9. ASSUME NEW path \in Path \ torn'
      PROVE  path \notin torn /\ Alike(path) /\ HeldAt(p, path)
               /\ ~ Away(p, path) /\ ~ Live(p, path)
  BY <1>1, <1>5, <1>7, <1>8, <1>a DEF Alike, HeldAt, Away, Live
<1> QED BY <1>1, <1>2, <1>3, <1>8, <1>9, PathsStop

\* What a process that rolls an operation back knows of its path.
LEMMA AtRollback ==
  ASSUME TypeOK, NEW p \in Process, Records(p), proc[p].committed # << >>
  PROVE  LET n == Len(proc[p].committed)
             e == Undo(p)
         IN  /\ n \in Nat \ {0} /\ n \in DOMAIN Plan[p] /\ n <= Len(Plan[p])
             /\ DOMAIN proc[p].committed = 1 .. n /\ 1 .. n \subseteq DOMAIN Plan[p]
             /\ e.path \in Path /\ e.path = PathOf(p, n) /\ e.state \in {p, Absent}
             /\ staging[p].place # "none" /\ e \in Made(p, e.path)
             /\ \A i \in DOMAIN proc[p].committed : EntryOK(p, i)
             /\ \A i \in DOMAIN Plan[p] : PathOf(p, i) = e.path => i = n
<1> DEFINE n == Len(proc[p].committed)
           e == Undo(p)
<1>1. n \in Nat \ {0} /\ n \in DOMAIN proc[p].committed /\ e = proc[p].committed[n]
  BY LastEntry
<1>2. /\ staging[p].place # "none" /\ n <= Len(Plan[p])
      /\ \A i \in DOMAIN proc[p].committed : EntryOK(p, i)
  BY DEF Records
<1>3. DOMAIN proc[p].committed = 1 .. n /\ 1 .. n \subseteq DOMAIN Plan[p]
  BY <1>2, RecordsDomain
<1>4. e.path = PathOf(p, n) /\ e.state \in {p, Absent}
  BY <1>1, <1>2 DEF EntryOK
<1>5. e.path \in Path /\ \A i \in DOMAIN Plan[p] : PathOf(p, i) = e.path => i = n
  BY <1>1, <1>3, <1>4, Plans
<1>6. e \in Made(p, e.path)
  BY <1>1, <1>4 DEF Made
<1> QED BY <1>1, <1>2, <1>3, <1>4, <1>5, <1>6

\* One record less.
LEMMA PathsUndo ==
  ASSUME TypeOK, LInv, PInv, NEW p \in Process, proc[p].pc = "rollback",
         proc[p].committed # << >>,
         proc'[p].pc = "rollback", proc'[p].committed = Front(proc[p].committed),
         proc[p].incomplete => proc'[p].incomplete,
         \A q \in Process \ {p} : proc'[q] = proc[q],
         \A q \in Process \ {p} : staging'[q] = staging[q],
         staging'[p].place = staging[p].place, UNCHANGED <<base, torn>>,
         NEW e, e = Undo(p),
         \A y \in Path \ {e.path} : target'[y] = target[y] /\ HeldAt(p, y),
         \/ target[e.path] = e.state /\ target'[e.path] = Previous(p, e)
         \/ /\ proc'[p].incomplete /\ HeldAt(p, e.path)
            /\ target[e.path] = e.state \/ target'[e.path] = target[e.path]
  PROVE  PInv'
<1> DEFINE n == Len(proc[p].committed)
<1>1. Working(p) /\ Working(p)'
  BY DEF Working, Locked
<1>2. Records(p) /\ \A path \in Path \ torn : PathOK(p, path)
  BY <1>1 DEF PInv
<1>3. /\ n \in Nat \ {0} /\ n \in DOMAIN Plan[p] /\ n <= Len(Plan[p])
      /\ DOMAIN proc[p].committed = 1 .. n /\ 1 .. n \subseteq DOMAIN Plan[p]
      /\ e.path \in Path /\ e.path = PathOf(p, n) /\ e.state \in {p, Absent}
      /\ staging[p].place # "none" /\ e \in Made(p, e.path)
      /\ \A i \in DOMAIN proc[p].committed : EntryOK(p, i)
      /\ \A i \in DOMAIN Plan[p] : PathOf(p, i) = e.path => i = n
  BY <1>2, AtRollback
<1>4. /\ Len(proc'[p].committed) = n - 1 /\ DOMAIN proc'[p].committed = 1 .. n - 1
      /\ \A i \in 1 .. n - 1 : proc'[p].committed[i] = proc[p].committed[i]
  <2>1. DOMAIN proc'[p].committed = 1 .. Len(proc'[p].committed)
    BY LastEntry
  <2> QED BY <1>3, <2>1, LastEntry
<1>5. ASSUME NEW i \in DOMAIN proc'[p].committed PROVE EntryOK(p, i)'
  <2>1. i \in DOMAIN proc[p].committed /\ i \in 1 .. n - 1
    BY <1>3, <1>4
  <2>2. EntryOK(p, i) /\ proc'[p].committed[i] = proc[p].committed[i]
    BY <1>3, <1>4, <2>1
  <2> QED BY <2>2 DEF EntryOK
<1>6. Records(p)'
  BY <1>3, <1>4, <1>5, Plans DEF Records, Committing, OpOK
<1>7. ASSUME NEW path \in Path \ torn' PROVE PathOK(p, path)'
  <2>1. /\ ~ Away(p, path) /\ ~ Away(p, path)' /\ ~ Live(p, path) /\ ~ Live(p, path)'
        /\ path \in Path \ torn /\ PathOK(p, path)
    BY <1>2 DEF Away, Live
  <2> DEFINE old == {j \in 1 .. n : PathOf(p, j) = path}
             new == {j \in 1 .. n - 1 : PathOf(p, j) = path}
  <2>2. /\ Made(p, path) = {proc[p].committed[j] : j \in old}
        /\ Made(p, path)' = {proc'[p].committed[j] : j \in new}
    BY <1>3, <1>4 DEF Made
  <2>3. CASE path # e.path
    <3>1. old = new
      BY <1>3, <2>3
    <3>2. \A j \in new : proc'[p].committed[j] = proc[p].committed[j]
      BY <1>4
    <3>3. KeptAt(p, path)
      <4> HIDE DEF old, new
      <4> QED BY <2>2, <3>1, <3>2 DEF KeptAt
    <3>4. Alike(path) /\ HeldAt(p, path)
      BY <2>3 DEF Alike
    <3> QED BY <1>1, <1>2, <2>1, <3>3, <3>4, HeldSame, PathLeft
  <2>4. CASE path = e.path
    <3>1. Made(p, path)' = {}
      <4>1. new = {}
        BY <1>3, <2>4
      <4> QED BY <2>2, <4>1
    <3>2. Spare(p, path) => Spare(p, path)'
      BY <1>1, HeldSame, SpareKept
    <3>3. Spare(p, path)' => Found(path)'
      BY DEF Spare, Elsewhere, Found
    <3>4. \/ Well(p, path, Previous(p, e))
          \/ base[path] = target[path] /\ target[path] = Edited
      BY <1>3, <2>1, <2>4 DEF PathOK, Touched
    <3>5. e.state # Edited
      BY <1>3, TransactionAssumption
    <3>6. CASE target[e.path] = e.state /\ target'[e.path] = Previous(p, e)
      <4>1. Well(p, path, Previous(p, e))
        BY <2>4, <3>4, <3>5, <3>6
      <4>2. base'[path] = target'[path] \/ Spare(p, path)'
        BY <2>4, <3>2, <3>6, <4>1 DEF Well
      <4> QED BY <2>1, <3>1, <3>3, <4>2 DEF PathOK, Well, Found
    <3>7. CASE /\ proc'[p].incomplete /\ HeldAt(p, e.path)
               /\ target[e.path] = e.state \/ target'[e.path] = target[e.path]
      <4>1. base[path] = Previous(p, e) => base[path] = Absent \/ Keeps(p, path)
        BY <1>3, <2>4 DEF Previous, Keeps
      <4>2. Keeps(p, path) => Keeps(p, path)'
        BY <2>4, <3>7, KeepsStays
      <4>3. base[path] = Previous(p, e) => Found(path)'
        BY <4>1, <4>2 DEF Found
      <4>4. base[path] = target[path] /\ target[path] = Edited => Found(path)'
        BY <2>4, <3>5, <3>7 DEF Found
      <4>5. Found(path)'
        BY <3>2, <3>3, <3>4, <4>3, <4>4 DEF Well
      <4> QED BY <2>1, <3>1, <3>7, <4>5 DEF PathOK
    <3> QED BY <3>6, <3>7
  <2> QED BY <2>3, <2>4
<1> QED BY <1>1, <1>6, <1>7, PathsWork

\* What undoing an operation does to the paths and the copies.
LEMMA UndoneAt ==
  ASSUME TypeOK, NEW p \in Process, NEW e, e = Undo(p), e \in Entry, Undone(p)
  PROVE  /\ target[e.path] = e.state /\ target'[e.path] = Previous(p, e)
         /\ \A y \in Path \ {e.path} : target'[y] = target[y] /\ HeldAt(p, y)
         /\ staging'[p].place = staging[p].place
         /\ \A q \in Process \ {p} : staging'[q] = staging[q]
<1> DEFINE x == e.path
<1>1. x \in Path /\ target[x] = e.state
  BY DEF Entry, Undone
<1>2. target' = [target EXCEPT ![x] = Previous(p, e)]
  <2>1. CASE e.existed
    <3>1. Copy(p) = Previous(p, e)
      BY <2>1 DEF Copy, Previous
    <3> QED BY <2>1, <3>1 DEF Undone
  <2>2. CASE ~ e.existed
    BY <2>2 DEF Undone, Previous
  <2> QED BY <2>1, <2>2
<1>3. target'[x] = Previous(p, e) /\ \A y \in Path \ {x} : target'[y] = target[y]
  <2>1. PICK c : c = Previous(p, e)
    OBVIOUS
  <2> QED BY <1>1, <1>2, <2>1 DEF TypeOK
<1>4. \/ staging' = staging
      \/ staging' = [staging EXCEPT ![p].removed[x] = Absent]
      \/ staging' = [staging EXCEPT ![p].backups[x] = Absent]
  BY DEF Undone
<1>5. /\ staging'[p].place = staging[p].place
      /\ \A y \in Path \ {x} : /\ staging'[p].removed[y] = staging[p].removed[y]
                               /\ staging'[p].backups[y] = staging[p].backups[y]
      /\ \A q \in Process \ {p} : staging'[q] = staging[q]
  <2> HIDE DEF x
  <2>1. CASE staging' = staging
    BY <2>1
  <2>2. CASE staging' = [staging EXCEPT ![p].removed[x] = Absent]
    BY <1>1, <2>2, RemovedAt
  <2>3. CASE staging' = [staging EXCEPT ![p].backups[x] = Absent]
    BY <1>1, <2>3, BackedAt
  <2> QED BY <1>4, <2>1, <2>2, <2>3
<1> QED BY <1>1, <1>3, <1>5 DEF HeldAt

LEMMA PathsRollback ==
  ASSUME TypeOK, LInv, PInv, NEW p \in Process, Rollback(p) \/ RollbackFails(p)
  PROVE  PInv'
<1>e. PICK e : e = Undo(p)
  OBVIOUS
<1>1. proc[p].pc = "rollback" /\ proc[p].committed # << >> /\ UNCHANGED <<base, torn>>
  BY DEF Rollback, RollbackFails, At, history
<1>2. PICK r : /\ \/ r = Remaining(p) /\ Rollback(p)
                  \/ r = [Remaining(p) EXCEPT !.incomplete = TRUE] /\ RollbackFails(p)
               /\ Becomes(p, r)
  BY DEF Rollback, RollbackFails, Becomes
<1>3. /\ r.pc = proc[p].pc /\ r.committed = Front(proc[p].committed)
      /\ proc[p].incomplete => r.incomplete
      /\ Rollback(p) \/ (RollbackFails(p) /\ r.incomplete)
  <2>1. CASE r = Remaining(p) /\ Rollback(p)
    BY <1>1, <2>1, RolledBack
  <2>2. CASE r = [Remaining(p) EXCEPT !.incomplete = TRUE] /\ RollbackFails(p)
    <3>1. r.incomplete
      <4>1. proc[p] \in Proc
        BY DEF TypeOK
      <4> QED BY <2>2, <4>1 DEF Remaining, Proc
    <3> QED BY <1>1, <2>2, <3>1, RolledBack
  <2> QED BY <1>2, <2>1, <2>2
<1>4. proc'[p] = r /\ \A q \in Process \ {p} : proc'[q] = proc[q]
  BY <1>2, Others
<1>5. e \in Entry /\ e.path \in Path
  BY <1>1, <1>e, LastEntry DEF Entry
<1>6. CASE Undone(p)
  BY <1>1, <1>3, <1>4, <1>5, <1>6, <1>e, UndoneAt, PathsUndo
<1>7. CASE ~ Undone(p)
  <2>1. RollbackFails(p) /\ r.incomplete
    BY <1>3, <1>7 DEF Rollback
  <2>2. /\ staging' = staging
        /\ \A y \in Path \ {e.path} : target'[y] = target[y]
        /\ target[e.path] = e.state \/ target'[e.path] = target[e.path]
    BY <1>5, <1>7, <1>e, <2>1 DEF RollbackFails, TypeOK
  <2>3. \A y \in Path : HeldAt(p, y)
    BY <2>2, HeldSame
  <2> QED BY <1>1, <1>3, <1>4, <1>5, <1>e, <2>1, <2>2, <2>3, PathsUndo
<1> QED BY <1>6, <1>7

\* Nobody is at work any more, and all is settled.
LEMMA PathsEnd ==
  ASSUME LInv, PInv, NEW p \in Process, Working(p), ~ Working(p)',
         proc'[p].pc \notin Contending,
         \A q \in Process \ {p} : proc'[q] = proc[q],
         \A q \in Process \ {p} : staging'[q] = staging[q],
         \A path \in Path \ torn' : Settled(path)'
  PROVE  PInv'
<1>1. \A q \in Process : ~ Working(q)'
  BY Alone DEF Working
<1>2. \A q \in Process :
        proc'[q].pc \in Contending => staging'[q] = Empty /\ ~ proc'[q].incomplete
  BY DEF PInv
<1> QED BY <1>1, <1>2 DEF PInv

\* What is well without the staging directory of a process is so when it is gone.
LEMMA WellSettled ==
  ASSUME NEW p \in Process, NEW path \in Path, Alike(path), Well(p, path, target[path]),
         \A q \in Process \ {p} : HeldAt(q, path), Undisturbed' => Undisturbed
  PROVE  Settled(path)'
<1>1. Spare(p, path) => Found(path)'
  BY KeepsStays DEF Spare, Elsewhere, Found, Alike
<1>2. Found(path)'
  BY <1>1 DEF Well, Found, Alike
<1>3. Undisturbed' => base'[path] = target'[path]
  BY DEF Well, Spare, Alike
<1> QED BY <1>2, <1>3 DEF Settled

\* A plan that is carried out settles its paths.
LEMMA CarriedSettled ==
  ASSUME TypeOK, PInv, NEW p \in Process, proc[p].pc = "validate", Carried(p),
         target' = target, Undisturbed' => Undisturbed,
         \A q \in Process \ {p} : staging'[q] = staging[q]
  PROVE  \A path \in Path \ torn' : Settled(path)'
<1>1. Records(p) /\ \A path \in Path \ torn : PathOK(p, path)
  BY DEF PInv, Working, Locked
<1>2. /\ ~ proc[p].incomplete /\ Len(proc[p].committed) = Len(Plan[p])
      /\ Len(proc[p].committed) <= Len(Plan[p])
  BY <1>1 DEF Records
<1>3. DOMAIN proc[p].committed \subseteq DOMAIN Plan[p]
  BY <1>2, RecordsDomain
<1>4. ASSUME NEW path \in Path \ torn' PROVE Settled(path)'
  <2>1. CASE path \in Paths(p)
    <3>1. base'[path] = target[path]
      BY <2>1 DEF Carried
    <3> QED BY <3>1 DEF Settled, Found
  <2>2. CASE path \notin Paths(p)
    <3>1. path \in Path \ torn /\ Alike(path)
      BY <2>2 DEF Carried, Alike
    <3>2. Made(p, path) = {} /\ ~ Away(p, path) /\ ~ Live(p, path)
      <4>1. \A i \in DOMAIN Plan[p] : PathOf(p, i) # path
        BY <2>2 DEF Paths, PathOf
      <4> QED BY <1>3, <4>1 DEF Made, Away, Live
    <3>3. Well(p, path, target[path])
      BY <1>1, <1>2, <3>1, <3>2 DEF PathOK
    <3> QED BY <3>1, <3>3, HeldSame, WellSettled
  <2> QED BY <2>1, <2>2
<1> QED BY <1>4

\* So does one that is rolled back.
LEMMA CleanSettled ==
  ASSUME TypeOK, PInv, NEW p \in Process, proc[p].pc = "clean", ~ proc[p].incomplete,
         UNCHANGED <<target, base, torn>>, Undisturbed' => Undisturbed,
         \A q \in Process \ {p} : staging'[q] = staging[q]
  PROVE  \A path \in Path \ torn' : Settled(path)'
<1>1. Records(p) /\ \A path \in Path \ torn : PathOK(p, path)
  BY DEF PInv, Working, Locked
<1>2. \A path : Made(p, path) = {} /\ ~ Away(p, path) /\ ~ Live(p, path)
  BY <1>1, NoRecords DEF Records, Away, Live
<1>3. ASSUME NEW path \in Path \ torn PROVE Settled(path)'
  <2>1. Well(p, path, target[path]) /\ Alike(path)
    BY <1>1, <1>2 DEF PathOK, Alike
  <2> QED BY <2>1, HeldSame, WellSettled
<1> QED BY <1>3

LEMMA PathsValidate ==
  ASSUME TypeOK, LInv, PInv, NEW p \in Process, Validate(p)
  PROVE  PInv'
<1>0. proc[p].pc = "validate" /\ target' = target /\ Carried(p) /\ "release" \in Place
  BY DEF Validate, At, Place, Locked
<1>1. /\ proc'[p].pc = "release" /\ ~ proc'[p].incomplete
      /\ \A q \in Process \ {p} : proc'[q] = proc[q]
  BY <1>0, StopsAt DEF Validate
<1>2. Working(p) /\ ~ Working(p)' /\ proc'[p].pc \notin Contending
  BY <1>0, <1>1 DEF Working, Locked, Contending
<1>3. ~ proc[p].incomplete
  BY <1>0, <1>2 DEF PInv, Records
<1>4. \A q \in Process \ {p} : staging'[q] = staging[q]
  BY DEF Validate, TypeOK
<1>5. Undisturbed' => Undisturbed
  BY <1>0, <1>1, <1>3, Disturbing
<1> QED BY <1>0, <1>1, <1>2, <1>4, <1>5, CarriedSettled, PathsEnd

LEMMA PathsClean ==
  ASSUME TypeOK, LInv, PInv, NEW p \in Process, Clean(p)
  PROVE  PInv'
<1>1. /\ proc[p].pc = "clean" /\ proc'[p].pc = "release"
      /\ proc'[p].incomplete = proc[p].incomplete
      /\ \A q \in Process \ {p} : proc'[q] = proc[q]
      /\ UNCHANGED <<target, base, torn>>
  BY GoesTo DEF Clean, At, history
<1>2. Working(p) /\ ~ Working(p)' /\ proc'[p].pc \notin Contending
  BY <1>1 DEF Working, Locked, Contending
<1>4. \A q \in Process \ {p} : staging'[q] = staging[q]
  BY DEF Clean, TypeOK
<1>5. Undisturbed' => Undisturbed
  BY <1>1, Disturbing
<1>6. CASE ~ proc[p].incomplete
  BY <1>1, <1>2, <1>4, <1>5, <1>6, CleanSettled, PathsEnd
<1>7. CASE proc[p].incomplete
  <2>1. Records(p) /\ \A path \in Path \ torn : PathOK(p, path)
    BY <1>2 DEF PInv
  <2>2. ~ Undisturbed' /\ staging' = staging
    BY <1>1, <1>7 DEF Undisturbed, Clean
  <2>3. ASSUME NEW path \in Path \ torn' PROVE Settled(path)'
    <3>1. Found(path)
      BY <1>1, <2>1, WorkFound
    <3>2. Found(path)'
      BY <1>1, <2>2, <3>1, HeldSame, FoundStays DEF Alike
    <3> QED BY <2>2, <3>2 DEF Settled
  <2> QED BY <1>1, <1>2, <1>4, <2>3, PathsEnd
<1> QED BY <1>6, <1>7

\* A removal of the staging that is broken off by a failure, or by death.
LEMMA PathsBrokenOff ==
  ASSUME TypeOK, LInv, PInv, NEW p \in Process, BrokenOff(p), target' = target,
         Quit(p, "ended") \/ Quit(p, "dead"),
         \/ proc[p].pc = "validate" /\ Carried(p)
         \/ proc[p].pc = "clean" /\ ~ proc[p].incomplete /\ UNCHANGED history
  PROVE  PInv'
<1>1. /\ proc'[p].pc \in {"ended", "dead"} /\ proc'[p].incomplete = proc[p].incomplete
      /\ \A q \in Process \ {p} : proc'[q] = proc[q]
  BY QuitsAt
<1>2. Working(p) /\ ~ Working(p)' /\ proc'[p].pc \notin Contending /\ proc[p].pc # "dead"
  BY <1>1 DEF Working, Locked, Contending
<1>3. \A q \in Process \ {p} : staging'[q] = staging[q]
  BY BrokenOffType
<1>4. Undisturbed' => Undisturbed
  BY <1>1, <1>2, Disturbing
<1>5. \A path \in Path \ torn' : Settled(path)'
  BY <1>3, <1>4, CarriedSettled, CleanSettled DEF history
<1> QED BY <1>1, <1>2, <1>3, <1>5, PathsEnd

LEMMA PathsNext == Few /\ LInv /\ PInv /\ [Next]_vars => PInv'
<1> SUFFICES ASSUME Few, LInv, PInv, [Next]_vars PROVE PInv'
  OBVIOUS
<1>0. TypeOK /\ TypeOK'
  BY TypeNext DEF LInv
<1>1. CASE UNCHANGED vars
  <2>1. UNCHANGED <<target, staging, proc, base, torn>>
    BY <1>1 DEF vars, history
  <2>2. \A p \in Process : Records(p)' <=> Records(p)
    BY <2>1 DEF Records, EntryOK, OpOK, Displaced, Op
  <2>3. /\ Undisturbed' <=> Undisturbed
        /\ \A path \in Path : Found(path)' <=> Found(path)
        /\ \A p \in Process : \A path \in Path :
             /\ Spare(p, path)' <=> Spare(p, path)
             /\ Made(p, path)' = Made(p, path)
             /\ Live(p, path)' <=> Live(p, path)
             /\ Away(p, path)' <=> Away(p, path)
    <3>1. Undisturbed' <=> Undisturbed
      BY <2>1 DEF Undisturbed, At
    <3>2. \A s \in Process : \A path \in Path : Keeps(s, path)' <=> Keeps(s, path)
      BY <2>1 DEF Keeps
    <3>3. /\ \A path \in Path : Found(path)' <=> Found(path)
          /\ \A p \in Process : \A path \in Path : Spare(p, path)' <=> Spare(p, path)
      BY <2>1, <3>1, <3>2 DEF Found, Spare, Elsewhere
    <3>4. \A p \in Process : \A path \in Path :
            /\ Made(p, path)' = Made(p, path)
            /\ Live(p, path)' <=> Live(p, path)
            /\ Away(p, path)' <=> Away(p, path)
      BY <2>1 DEF Made, Away, Live, Op, Displaced
    <3> QED BY <3>1, <3>3, <3>4
  <2>4. ASSUME NEW p \in Process, Working(p), NEW path \in Path \ torn
        PROVE  PathOK(p, path)'
    <3>0. PathOK(p, path) /\ Records(p)
      BY <2>4 DEF PInv
    <3>1. \A e : Previous(p, e)' = Previous(p, e)
      BY <2>1 DEF Previous
    <3>2. Done(p)' = Done(p)
      BY <2>1 DEF Done, Op, Displaced
    <3>3. \A c : Well(p, path, c) => base'[path] = c \/ Spare(p, path)'
      BY <2>1, <2>3 DEF Well
    <3>4. ASSUME NEW e \in Made(p, path) PROVE Touched(p, e)'
      <4>1. Touched(p, e) /\ e.path = path
        BY <3>0, MadeOf DEF PathOK
      <4> QED BY <2>1, <3>1, <3>3, <4>1 DEF Touched, Well
    <3>5. Live(p, path) => \A e \in {Done(p)} : Well(p, path, Previous(p, e))'
      BY <3>0, <3>1, <3>3 DEF PathOK, Well
    <3>6. Away(p, path) => Well(p, path, staging[p].removed[path])'
      BY <2>1, <3>0, <3>3 DEF PathOK, Well
    <3>7. Made(p, path) = {} /\ ~ Away(p, path) /\ ~ Live(p, path) =>
            IF proc[p].incomplete THEN Found(path)' ELSE Well(p, path, target[path])'
      BY <2>1, <2>3, <3>0, <3>3 DEF PathOK, Well
    <3> QED BY <2>1, <2>3, <3>2, <3>4, <3>5, <3>6, <3>7 DEF PathOK
  <2>5. \A path \in Path : Settled(path)' <=> Settled(path)
    BY <2>1, <2>3 DEF Settled
  <2>6. \A p \in Process : Working(p)' <=> Working(p)
    BY <2>1 DEF Working
  <2> QED BY <2>1, <2>2, <2>4, <2>5, <2>6 DEF PInv
<1>2. CASE Edit
  BY <1>0, <1>2, PathsEdit
<1>3. ASSUME NEW p \in Process, Begin(p) \/ Step(p) \/ Die(p) PROVE PInv'
  <2>1. CASE \/ Begin(p) \/ ReadLock(p) \/ Judge(p) \/ MoveLock(p) \/ Compare(p)
             \/ PutBack(p) \/ Release(p) \/ Unlock(p)
    BY <1>0, <2>1, PathsLook
  <2>2. CASE Link(p)
    <3>1. CASE lock # NoProcess
      BY <1>0, <2>2, <3>1, PathsLook
    <3>2. CASE lock = NoProcess
      BY <1>0, <2>2, <3>2, LockLinks, PathsLink
    <3> QED BY <3>1, <3>2
  <2>3. CASE Die(p)
    <3>1. CASE UNCHANGED <<staging, history>>
      BY <1>0, <2>3, <3>1, PathsLook, PathsDie
    <3>2. CASE \/ At(p, "validate") /\ BrokenOff(p) /\ Carried(p)
               \/ At(p, "clean") /\ ~ proc[p].incomplete /\ BrokenOff(p)
                    /\ UNCHANGED history
      BY <1>0, <2>3, <3>2, PathsBrokenOff DEF Die, At
    <3> QED BY <2>3, <3>1, <3>2 DEF Die
  <2>4. CASE Quarantine(p) \/ Verify(p) \/ Snapshot(p) \/ Check(p) \/ Displace(p)
    BY <1>0, <2>4, PathsQuarantine, PathsVerify, PathsSnapshot, PathsCheck, PathsDisplace
  <2>5. CASE Install(p) \/ Record(p) \/ Validate(p) \/ Throw(p) \/ RollbackEnds(p)
    BY <1>0, <2>5, PathsInstall, PathsRecord, PathsValidate, PathsThrow, PathsRollbackEnds
  <2>6. CASE ThrowAtInstall(p) \/ ThrowAtRecord(p) \/ ThrowAtValidate(p)
    BY <1>0, <2>6, PathsThrowAtInstall, PathsThrowAtRecord, PathsThrowAtValidate
  <2>7. CASE Rollback(p) \/ RollbackFails(p) \/ Clean(p)
    BY <1>0, <2>7, PathsRollback, PathsClean
  <2>8. CASE CleanFails(p)
    BY <1>0, <2>8, PathsBrokenOff DEF CleanFails, At
  <2> QED BY <1>3, <2>1, <2>2, <2>3, <2>4, <2>5, <2>6, <2>7, <2>8 DEF Step
<1> QED BY <1>1, <1>2, <1>3 DEF Next

LEMMA PathsSafe == LInv /\ PInv => NothingLost /\ AllOrNothing
<1> SUFFICES ASSUME LInv, PInv PROVE NothingLost /\ AllOrNothing
  OBVIOUS
<1>1. ASSUME NEW path \in Path \ torn PROVE Found(path)
  <2>1. CASE \E p \in Process : Working(p)
    BY <2>1, WorkFound DEF PInv
  <2>2. CASE \A p \in Process : ~ Working(p)
    BY <2>2 DEF PInv, Settled
  <2> QED BY <2>1, <2>2
<1>2. NothingLost
  BY <1>1 DEF NothingLost, Found, Keeps
<1>3. ASSUME Inside = {}, Undisturbed PROVE \A path \in Path \ torn : target[path] = base[path]
  <2>1. \A p \in Process : ~ Working(p)
    BY <1>3 DEF Inside, Working
  <2> QED BY <1>3, <2>1 DEF PInv, Settled
<1> QED BY <1>2, <1>3 DEF AllOrNothing, Undisturbed

\* What a path held when last nobody was changing it is there or in a staging or
\* recovery directory, whoever dies, throws or edits at whatever step and whether
\* or not the rollback succeeds: all but the paths that are torn, of which the
\* code gives up the copies when the wrong one of its calls throws (the state of
\* what it just installed, the move of a tree back, the removal of the staging),
\* or replaces what it never looked at.
THEOREM LostCorrect ==
  ASSUME Few
  PROVE  Spec => []NothingLost
<1>1. Init => LInv /\ PInv
  BY LockInit, PathsInit
<1>2. LInv /\ PInv /\ [Next]_vars => LInv' /\ PInv'
  BY LockNext, PathsNext
<1>3. LInv /\ PInv => NothingLost
  BY PathsSafe
<1> QED BY <1>1, <1>2, <1>3, PTL DEF Spec

\* A plan is carried out whole or not at all, unless a process died or said that
\* its rollback is incomplete: all but the paths that are torn.
THEOREM WholeCorrect ==
  ASSUME Few
  PROVE  Spec => []AllOrNothing
<1>1. Init => LInv /\ PInv
  BY LockInit, PathsInit
<1>2. LInv /\ PInv /\ [Next]_vars => LInv' /\ PInv'
  BY LockNext, PathsNext
<1>3. LInv /\ PInv => AllOrNothing
  BY PathsSafe
<1> QED BY <1>1, <1>2, <1>3, PTL DEF Spec

=============================================================================
