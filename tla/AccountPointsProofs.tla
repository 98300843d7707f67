------------------------ MODULE AccountPointsProofs ------------------------
(***************************************************************************)
(* The ledgers, for any number of requests, nodes and events, any leases   *)
(* and any number of refused and failed calls, lost replies and crashes.   *)
(* The leases are not needed for any of it: the arguments are about the    *)
(* ETags of the two ledgers, and once about the semaphore.                 *)
(*                                                                         *)
(* First, no entry of a deposit or a withdrawal is lost as long as no      *)
(* reply of a write is.  Then types, and what the balance is, which needs  *)
(* facts about sums over finite sets.  Last, how often an entry gets into  *)
(* the sink.                                                               *)
(***************************************************************************)
EXTENDS AccountPoints, FiniteSetTheorems, TLAPS

-----------------------------------------------------------------------------
(* The invariant.                                                          *)

Fields == {"pc", "tries", "retries", "exp", "leased", "object", "good", "saved",
           "source", "sink", "expired"}

EntryFields == {"began", "dep", "wd", "spend", "due"}

Shape ==
  /\ DOMAIN req = Req
  /\ \A q \in Req : DOMAIN req[q] = Fields /\ req[q].pc \in PC
  /\ DOMAIN fresh = {"acct", "source", "sink"}
  /\ lost \in Nat

SourceOK(led) ==
  /\ DOMAIN led = {"balance", "entry", "gone"}
  /\ DOMAIN led.entry = Event
  /\ \A e \in Event : DOMAIN led.entry[e] = EntryFields

SinkOK(snk) == snk.credits \in [Event -> Nat]

\* The events that a ledger has an entry of.
Present(led) == {e \in Event : led.entry[e].began # "none"}

\* Were snk the sink, no entry would be missing, not even once the requests
\* that are about to debit the source have done so, r apart.
Safe(snk, r) ==
  \A e \in Event :
    /\ Known(e) => e \in Present(source) \/ snk.credits[e] > 0
    /\ \A q \in Req \ {r} : req[q].pc = "debit" /\ e \in req[q].expired => snk.credits[e] > 0

\* The places of a request that has fetched the ledgers and written neither.
Before == {"wait", "relock", "relocking", "credit"}

\* A copy of the source may have got dates.
CopyOK(q) ==
  /\ req[q].pc \in Before \cup {"debit", "write"} /\ q \in fresh.source =>
       SourceOK(req[q].source) /\ Present(req[q].source) = Present(source)
  /\ req[q].pc \in Before /\ q \in fresh.sink => req[q].sink = sink
  /\ req[q].pc \in {"debit", "rollback"} /\ q \in fresh.sink =>
       SinkOK(req[q].sink) /\ Safe(req[q].sink, q)

Sound ==
  /\ SourceOK(source)
  /\ SinkOK(sink)
  /\ \A q \in Req : CopyOK(q)
  /\ Safe(sink, NoReq)

PInv == Shape /\ (lost = 0 => Sound)

LEMMA InitPoints == Init => PInv
<1> SUFFICES ASSUME Init PROVE PInv
  OBVIOUS
<1>1. /\ Opening \in [Event -> Entry] /\ NoReq \notin Req
      /\ \A e \in Event : /\ DOMAIN Opening[e] = EntryFields
  BY PointsAssumption DEF Entry, EntryFields
<1>2. /\ DOMAIN source = {"balance", "entry", "gone"} /\ source.entry = Opening
      /\ sink.credits = [e \in Event |-> 0]
  BY DEF Init, Opened, Empty
<1>3. /\ DOMAIN req = Req
      /\ \A q \in Req : DOMAIN req[q] = Fields /\ req[q].pc = "idle" /\ ~req[q].saved
  BY DEF Init, IdleRequest, Fields
<1>4. Shape
  BY <1>3 DEF Shape, Init, PC
<1>5. SourceOK(source) /\ SinkOK(sink)
  BY <1>1, <1>2 DEF SourceOK, SinkOK
<1>7. \A q \in Req : CopyOK(q)
  BY <1>3 DEF CopyOK, Before
<1>8. Safe(sink, NoReq)
  BY <1>2, <1>3 DEF Safe, Known, Saved, Opens, Present
<1> QED BY <1>4, <1>5, <1>7, <1>8 DEF PInv, Sound

LEMMA DatedFacts ==
  ASSUME NEW led, SourceOK(led)
  PROVE  SourceOK(Dated(led)) /\ Present(Dated(led)) = Present(led)
<1> DEFINE new == Dated(led)
<1>1. /\ DOMAIN new = {"balance", "entry", "gone"}
      /\ new.entry = [e \in Event |->
           IF led.entry[e].began # "none" /\ led.entry[e].due = 0
           THEN [led.entry[e] EXCEPT !.due = TypeDate(now)] ELSE led.entry[e]]
  BY DEF Dated, SourceOK
<1> HIDE DEF new
<1>2. \A e \in Event : DOMAIN new.entry[e] = EntryFields
                       /\ new.entry[e].began = led.entry[e].began
  BY <1>1 DEF SourceOK, EntryFields
<1>3. SourceOK(new) /\ Present(new) = Present(led)
  BY <1>1, <1>2 DEF SourceOK, Present
<1> QED BY <1>3 DEF new

LEMMA DebitedFacts ==
  ASSUME NEW led, SourceOK(led), NEW E
  PROVE  SourceOK(Debited(led, E)) /\ Present(Debited(led, E)) = Present(led) \ E
<1> DEFINE new == Debited(led, E)
<1>1. /\ DOMAIN new = {"balance", "entry", "gone"}
      /\ new.entry = [e \in Event |-> IF e \in E THEN NoEntry ELSE led.entry[e]]
  BY DEF Debited
<1> HIDE DEF new
<1>2. SourceOK(new) /\ Present(new) = Present(led) \ E
  BY <1>1 DEF SourceOK, Present, NoEntry, EntryFields
<1> QED BY <1>2 DEF new

-----------------------------------------------------------------------------
(* Steps that change neither ledger.                                       *)

\* The places where a request has no copies that it will use.
Away == PC \ (Before \cup {"debit", "rollback", "write"})

\* A request moves on to one of them,
Leaves(q) == req'[q].pc \in Away

\* keeps its copies,
Holds(q) ==
  /\ req'[q].source = req[q].source /\ req'[q].sink = req[q].sink
  /\ req'[q].expired = req[q].expired
  /\ q \in fresh'.source => q \in fresh.source
  /\ q \in fresh'.sink => q \in fresh.sink
  /\ \/ req'[q].pc = req[q].pc
     \/ req[q].pc \in Before /\ req'[q].pc \in Before
     \/ req[q].pc = "debit" /\ req'[q].pc = "rollback"

\* or takes new ones.
Takes(q) ==
  /\ req'[q].source \in {source, Dated(source)}
  /\ \/ req'[q].pc = "write"
     \/ /\ req'[q].pc \in Before
        /\ req'[q].sink = sink

Quiet(q) == req'[q].saved = req[q].saved /\ (Leaves(q) \/ Holds(q) \/ Takes(q))

\* A request of which nothing changes.
Same(q) ==
  /\ req'[q] = req[q]
  /\ q \in fresh'.source => q \in fresh.source
  /\ q \in fresh'.sink => q \in fresh.sink

LEMMA SameIsQuiet == ASSUME NEW q \in Req, Same(q) PROVE Quiet(q)
BY DEF Same, Quiet, Holds

LEMMA QuietKeeps ==
  ASSUME Sound, UNCHANGED <<source, sink>>, \A q \in Req : Quiet(q)
  PROVE  Sound'
<1>1. \A e \in Event : Known(e)' => Known(e)
  BY DEF Known, Saved, Opens, Quiet
<1>2. \A q \in Req : req'[q].pc = "debit" =>
                       req[q].pc = "debit" /\ req'[q].expired = req[q].expired
  BY DEF Quiet, Leaves, Holds, Takes, Before, Away, PC, EndPC
<1>3. ASSUME NEW snk, NEW r, Safe(snk, r)
      PROVE  \A e \in Event :
               /\ Known(e)' => e \in Present(source)' \/ snk.credits[e] > 0
               /\ \A q \in Req \ {r} : req'[q].pc = "debit" /\ e \in req'[q].expired
                                         => snk.credits[e] > 0
  BY <1>1, <1>2, <1>3 DEF Safe, Present
<1>4. Safe(sink, NoReq)'
  BY <1>3 DEF Sound, Safe
<1>5. ASSUME NEW q \in Req PROVE CopyOK(q)'
  <2>1. Quiet(q) /\ CopyOK(q)
    BY DEF Sound
  <2>2. CASE Leaves(q)
    BY <2>2 DEF Leaves, Away, CopyOK
  <2>3. CASE Takes(q)
    <3>1. /\ SourceOK(req'[q].source) /\ Present(req'[q].source) = Present(source)
      BY <2>3, DatedFacts DEF Sound, Takes
    <3> QED BY <2>3, <3>1 DEF Takes, CopyOK, Before, Present
  <2>4. CASE Holds(q)
    <3>1. req'[q].pc \in {"debit", "rollback"} /\ q \in fresh'.sink =>
            SinkOK(req'[q].sink) /\ Safe(req[q].sink, q)'
      <4> SUFFICES ASSUME req'[q].pc \in {"debit", "rollback"}, q \in fresh'.sink
                   PROVE  SinkOK(req'[q].sink) /\ Safe(req[q].sink, q)'
        OBVIOUS
      <4>1. req[q].pc \in {"debit", "rollback"} /\ q \in fresh.sink /\ req'[q].sink = req[q].sink
        BY <2>4 DEF Holds, Before
      <4>2. SinkOK(req[q].sink) /\ Safe(req[q].sink, q)
        BY <2>1, <4>1 DEF CopyOK
      <4> QED BY <1>3, <4>1, <4>2 DEF Safe
    <3>2. /\ req'[q].pc \in Before => req[q].pc \in Before
          /\ req'[q].pc = "debit" => req[q].pc = "debit"
          /\ req'[q].pc = "write" => req[q].pc = "write"
      BY <2>4 DEF Holds, Before
    <3> QED BY <2>1, <2>4, <3>1, <3>2 DEF Holds, CopyOK, SinkOK, SourceOK, Present
  <2> QED BY <2>1, <2>2, <2>3, <2>4 DEF Quiet
<1>6. SourceOK(source)'
  BY DEF Sound, SourceOK
<1> QED BY <1>4, <1>5, <1>6 DEF Sound, SinkOK

-----------------------------------------------------------------------------
(* What a step makes of a request.                                         *)

LEMMA AtFacts ==
  ASSUME NEW q, DOMAIN q = Fields, NEW pc
  PROVE  /\ DOMAIN At(q, pc) = Fields
         /\ At(q, pc).pc = pc /\ At(q, pc).saved = q.saved
         /\ pc \notin EndPC => /\ At(q, pc).source = q.source
                               /\ At(q, pc).sink = q.sink
                               /\ At(q, pc).expired = q.expired
<1>1. CASE pc \in EndPC
  BY <1>1 DEF At, IdleRequest, Fields
<1>2. CASE pc \notin EndPC
  BY <1>2 DEF At, Fields
<1> QED BY <1>1, <1>2

LEMMA ForgetFacts ==
  ASSUME NEW q \in Req, DOMAIN req[q] = Fields, NEW pc
  PROVE  /\ DOMAIN Forget(q, pc) = Fields
         /\ Forget(q, pc).pc = pc /\ Forget(q, pc).saved = req[q].saved
<1> DEFINE p == [req[q] EXCEPT !.source = Opened, !.sink = Empty, !.expired = {}]
<1>1. DOMAIN p = Fields /\ p.saved = req[q].saved
  BY DEF Fields
<1>2. Forget(q, pc) = At(p, pc)
  BY DEF Forget
<1> HIDE DEF p
<1> QED BY <1>1, <1>2, AtFacts

LEMMA ResumedFacts ==
  ASSUME NEW q \in Req, DOMAIN req[q] = Fields, NEW ok
  PROVE  /\ DOMAIN Resumed(q, ok) = Fields
         /\ Resumed(q, ok).pc \in {"done", "check", "failed", "release"}
         /\ Resumed(q, ok).saved = req[q].saved
<1> DEFINE next == IF ~ok THEN Bail(q) ELSE IF Kind[q] = "read" THEN "done" ELSE "check"
           p == Forget(q, next)
<1>1. next \in {"done", "check", "failed", "release"}
  BY DEF Bail
<1>2. DOMAIN p = Fields /\ p.pc = next /\ p.saved = req[q].saved
  BY ForgetFacts
<1>3. Resumed(q, ok) = [p EXCEPT !.tries = 0, !.retries = 0, !.exp = 0,
                                 !.object = "own", !.good = FALSE]
  BY DEF Resumed
<1> HIDE DEF p, next
<1> QED BY <1>1, <1>2, <1>3 DEF Fields

\* Where fresh goes, when a request drops or gets copies or an account is written.
LEMMA FreshFacts ==
  ASSUME Shape, NEW r \in Req
  PROVE  /\ DOMAIN Dropped(r) = {"acct", "source", "sink"}
         /\ Dropped(r).source = fresh.source \ {r} /\ Dropped(r).sink = fresh.sink \ {r}
         /\ \A S : LET f == [fresh EXCEPT !.acct = S]
                   IN  /\ DOMAIN f = {"acct", "source", "sink"}
                       /\ f.source = fresh.source /\ f.sink = fresh.sink
BY DEF Shape, Dropped

\* The step of a request that changes neither ledger.
Stirs(r) ==
  /\ \E p : req' = [req EXCEPT ![r] = p] /\ DOMAIN p = Fields /\ p.pc \in PC \ {"debit"}
  /\ DOMAIN fresh' = {"acct", "source", "sink"}
  /\ fresh'.source \subseteq fresh.source \cup {r}
  /\ fresh'.sink \subseteq fresh.sink \cup {r}
  /\ UNCHANGED <<source, sink>>
  /\ Quiet(r)

LEMMA StirsKeeps ==
  ASSUME PInv, NEW r \in Req, Stirs(r), lost' = lost
  PROVE  PInv'
<1>0. PICK p : req' = [req EXCEPT ![r] = p] /\ DOMAIN p = Fields /\ p.pc \in PC
  BY DEF Stirs
<1>1. Shape'
  BY <1>0 DEF PInv, Shape, Stirs
<1>2. ASSUME lost = 0 PROVE Sound'
  <2>1. \A q \in Req \ {r} : Same(q)
    BY <1>0 DEF Same, PInv, Shape, Stirs
  <2>2. \A q \in Req : Quiet(q)
    BY <2>1, SameIsQuiet DEF Stirs
  <2> QED BY <1>2, <2>2, QuietKeeps DEF PInv, Stirs
<1> QED BY <1>1, <1>2 DEF PInv

\* A request leaves for a place where it has no copies.
LEMMA LeaveStep ==
  ASSUME Shape, NEW r \in Req, NEW p,
         req' = [req EXCEPT ![r] = p], DOMAIN p = Fields,
         DOMAIN fresh' = {"acct", "source", "sink"},
         fresh'.source \subseteq fresh.source \cup {r},
         fresh'.sink \subseteq fresh.sink \cup {r},
         UNCHANGED <<source, sink>>,
         p.saved = req[r].saved, p.pc \in Away
  PROVE  Stirs(r)
<1>1. req'[r] = p
  BY DEF Shape
<1> QED BY <1>1 DEF Stirs, Quiet, Leaves, Away

\* A request keeps its copies.
LEMMA HoldStep ==
  ASSUME Shape, NEW r \in Req, NEW p,
         req' = [req EXCEPT ![r] = p], DOMAIN p = Fields,
         DOMAIN fresh' = {"acct", "source", "sink"},
         fresh'.source = fresh.source, fresh'.sink = fresh.sink,
         UNCHANGED <<source, sink>>,
         p.saved = req[r].saved, p.source = req[r].source, p.sink = req[r].sink,
         p.expired = req[r].expired, p.pc # "debit",
         \/ p.pc = req[r].pc
         \/ req[r].pc \in Before /\ p.pc \in Before
         \/ req[r].pc = "debit" /\ p.pc = "rollback"
  PROVE  Stirs(r)
<1>1. req'[r] = p
  BY DEF Shape
<1>2. p.pc \in PC
  BY DEF Shape, Before, PC
<1> QED BY <1>1, <1>2 DEF Stirs, Quiet, Holds

LEMMA GoStep ==
  ASSUME Shape, NEW r \in Req, NEW pc,
         req' = [req EXCEPT ![r] = At(req[r], pc)],
         DOMAIN fresh' = {"acct", "source", "sink"},
         fresh'.source \subseteq fresh.source \cup {r},
         fresh'.sink \subseteq fresh.sink \cup {r},
         UNCHANGED <<source, sink>>,
         pc \in Away
  PROVE  Stirs(r)
<1> DEFINE p == At(req[r], pc)
<1>1. DOMAIN p = Fields /\ p.pc = pc /\ p.saved = req[r].saved
  BY AtFacts DEF Shape
<1>2. req' = [req EXCEPT ![r] = p]
  OBVIOUS
<1> HIDE DEF p
<1> QED BY <1>1, <1>2, LeaveStep

LEMMA ForgetStep ==
  ASSUME Shape, NEW r \in Req, NEW pc,
         req' = [req EXCEPT ![r] = Forget(r, pc)],
         DOMAIN fresh' = {"acct", "source", "sink"},
         fresh'.source \subseteq fresh.source \cup {r},
         fresh'.sink \subseteq fresh.sink \cup {r},
         UNCHANGED <<source, sink>>,
         pc \in Away
  PROVE  Stirs(r)
<1> DEFINE p == Forget(r, pc)
<1>1. DOMAIN p = Fields /\ p.pc = pc /\ p.saved = req[r].saved
  BY ForgetFacts DEF Shape
<1>2. req' = [req EXCEPT ![r] = p]
  OBVIOUS
<1> HIDE DEF p
<1> QED BY <1>1, <1>2, LeaveStep

LEMMA TakingStirs ==
  ASSUME Shape, NEW r \in Req, Load(r) \/ Taking(r)
  PROVE  Stirs(r)
<1>0. /\ Shape /\ DOMAIN req[r] = Fields /\ DOMAIN fresh = {"acct", "source", "sink"}
      /\ UNCHANGED <<source, sink>>
  BY DEF Shape, Load, Taking, LockFetch, LockRefused, LockGivenUp, LockWrite,
         LockConflict
<1>1. CASE Load(r)
  <2>1. PICK pc \in {"fetch", "lock"} : req' = [req EXCEPT ![r] = At(req[r], pc)]
    BY <1>1 DEF Load, Go, Set
  <2>2. /\ DOMAIN fresh' = {"acct", "source", "sink"}
        /\ fresh'.source = fresh.source /\ fresh'.sink = fresh.sink
    BY <1>0, <1>1 DEF Load
  <2>3. pc \in Away
    BY DEF Before, Away, PC, EndPC
  <2> QED BY <1>0, <2>1, <2>2, <2>3, GoStep
<1>2. CASE LockFetch(r)
  <2> DEFINE p == [req[r] EXCEPT !.pc = IF @ = "lock" THEN "locking" ELSE "relocking",
                                 !.exp = now + Lease[Locking(r)]]
  <2>1. /\ DOMAIN p = Fields /\ p.saved = req[r].saved /\ p.source = req[r].source
        /\ p.sink = req[r].sink /\ p.expired = req[r].expired
        /\ p.pc = IF req[r].pc = "lock" THEN "locking" ELSE "relocking"
    BY <1>0 DEF Fields
  <2>2. req' = [req EXCEPT ![r] = p] /\ req[r].pc \in {"lock", "relock"}
    BY <1>2 DEF LockFetch, Set
  <2>3. /\ DOMAIN fresh' = {"acct", "source", "sink"}
        /\ fresh'.source = fresh.source /\ fresh'.sink = fresh.sink
    BY <1>0, <1>2 DEF LockFetch
  <2> HIDE DEF p
  <2>4. CASE req[r].pc = "lock"
    <3>1. p.pc \in Away
      BY <2>1, <2>4 DEF Before, Away, PC, EndPC
    <3> QED BY <1>0, <2>1, <2>2, <2>3, <3>1, LeaveStep
  <2>5. CASE req[r].pc = "relock"
    <3>1. req[r].pc \in Before /\ p.pc \in Before
      BY <2>1, <2>5 DEF Before
    <3> QED BY <1>0, <2>1, <2>2, <2>3, <3>1, HoldStep
  <2> QED BY <2>2, <2>4, <2>5
<1>3. CASE LockRefused(r)
  <2> DEFINE p == [req[r] EXCEPT !.tries = @ + 1]
  <2>1. /\ DOMAIN p = Fields /\ p.saved = req[r].saved /\ p.source = req[r].source
        /\ p.sink = req[r].sink /\ p.expired = req[r].expired /\ p.pc = req[r].pc
    BY <1>0 DEF Fields
  <2>2. /\ req' = [req EXCEPT ![r] = p] /\ fresh' = fresh
        /\ req[r].pc \in {"lock", "relock"}
    BY <1>3 DEF LockRefused, Set
  <2> HIDE DEF p
  <2> QED BY <1>0, <2>1, <2>2, HoldStep
<1>4. CASE LockGivenUp(r)
  <2>1. CASE req[r].pc = "lock"
    <3>1. req' = [req EXCEPT ![r] = At(req[r], "failed")] /\ fresh' = fresh
      BY <1>4, <2>1 DEF LockGivenUp, Go, Set
    <3>2. "failed" \in Away
      BY DEF Before, Away, PC, EndPC
    <3> QED BY <1>0, <3>1, <3>2, GoStep
  <2>2. CASE req[r].pc # "lock"
    <3>1. req' = [req EXCEPT ![r] = Forget(r, Bail(r))] /\ fresh' = Dropped(r)
      BY <1>4, <2>2 DEF LockGivenUp, Set
    <3>2. Bail(r) \in Away
      BY DEF Bail, Before, Away, PC, EndPC
    <3>3. /\ DOMAIN fresh' = {"acct", "source", "sink"}
          /\ fresh'.source \subseteq fresh.source \cup {r}
          /\ fresh'.sink \subseteq fresh.sink \cup {r}
      BY <1>0, <3>1, FreshFacts
    <3> QED BY <1>0, <3>1, <3>2, <3>3, ForgetStep
  <2> QED BY <2>1, <2>2
<1>5. CASE LockWrite(r)
  <2>1. /\ DOMAIN fresh' = {"acct", "source", "sink"}
        /\ fresh'.source = fresh.source /\ fresh'.sink = fresh.sink
    BY <1>0, <1>5 DEF LockWrite, WriteAcct
  <2>2. CASE req[r].pc = "locking"
    <3> DEFINE p == [req[r] EXCEPT !.pc = "fetch", !.tries = 0, !.exp = 0,
                                   !.leased = req[r].exp]
    <3>1. DOMAIN p = Fields /\ p.saved = req[r].saved /\ p.pc = "fetch"
      BY <1>0 DEF Fields
    <3>2. req' = [req EXCEPT ![r] = p]
      BY <1>5, <2>2 DEF LockWrite, Set
    <3> HIDE DEF p
    <3> QED BY <1>0, <2>1, <3>1, <3>2, LeaveStep DEF Before, Away, PC, EndPC
  <2>3. CASE req[r].pc = "relocking"
    <3> DEFINE p == [req[r] EXCEPT !.pc = "credit", !.exp = 0, !.object = "exp"]
    <3>1. /\ DOMAIN p = Fields /\ p.saved = req[r].saved /\ p.source = req[r].source
          /\ p.sink = req[r].sink /\ p.expired = req[r].expired /\ p.pc = "credit"
      BY <1>0 DEF Fields
    <3>2. req' = [req EXCEPT ![r] = p]
      BY <1>5, <2>3 DEF LockWrite, Set
    <3> HIDE DEF p
    <3> QED BY <1>0, <2>1, <2>3, <3>1, <3>2, HoldStep DEF Before
  <2> QED BY <1>5, <2>2, <2>3 DEF LockWrite
<1>6. CASE LockConflict(r)
  <2>1. req' = [req EXCEPT ![r] = At(req[r], Thrown(r))] /\ fresh' = fresh
    BY <1>6 DEF LockConflict, Go, Set
  <2>2. Thrown(r) \in Away
    BY DEF Thrown, Before, Away, PC, EndPC
  <2> QED BY <1>0, <2>1, <2>2, GoStep
<1> QED BY <1>1, <1>2, <1>3, <1>4, <1>5, <1>6 DEF Taking

LEMMA GoodFacts ==
  ASSUME Shape, NEW r \in Req, NEW p, p = [Forget(r, "unlock") EXCEPT !.good = TRUE]
  PROVE  DOMAIN p = Fields /\ p.pc = "unlock" /\ p.saved = req[r].saved
<1> DEFINE f == Forget(r, "unlock")
<1>1. DOMAIN f = Fields /\ f.pc = "unlock" /\ f.saved = req[r].saved
  BY ForgetFacts DEF Shape
<1>2. p = [f EXCEPT !.good = TRUE]
  OBVIOUS
<1> HIDE DEF f
<1> QED BY <1>1, <1>2 DEF Fields

LEMMA ResumedStep ==
  ASSUME Shape, NEW r \in Req, NEW ok,
         req' = [req EXCEPT ![r] = Resumed(r, ok)],
         DOMAIN fresh' = {"acct", "source", "sink"},
         fresh'.source \subseteq fresh.source \cup {r},
         fresh'.sink \subseteq fresh.sink \cup {r},
         UNCHANGED <<source, sink>>
  PROVE  Stirs(r)
<1> DEFINE p == Resumed(r, ok)
<1>1. /\ DOMAIN p = Fields /\ p.pc \in {"done", "check", "failed", "release"}
      /\ p.saved = req[r].saved
  BY ResumedFacts DEF Shape
<1>2. req' = [req EXCEPT ![r] = p]
  OBVIOUS
<1>3. p.pc \in Away
  BY <1>1 DEF Before, Away, PC, EndPC
<1> HIDE DEF p
<1> QED BY <1>1, <1>2, <1>3, LeaveStep

\* A request fetches the ledgers.
LEMMA TakeStep ==
  ASSUME Shape, NEW r \in Req, NEW pc \in {"wait", "credit"},
         req' = [req EXCEPT ![r] = Fetched(r, pc)],
         fresh' = [fresh EXCEPT !.source = @ \cup {r}, !.sink = @ \cup {r}],
         UNCHANGED <<source, sink>>
  PROVE  Stirs(r)
<1> DEFINE p == Fetched(r, pc)
<1>1. /\ DOMAIN p = Fields /\ p.pc = pc /\ p.saved = req[r].saved
      /\ p.source = Dated(source) /\ p.sink = sink
  BY DEF Shape, Fetched, Fields
<1>2. req' = [req EXCEPT ![r] = p] /\ req'[r] = p
  BY DEF Shape
<1>3. /\ DOMAIN fresh' = {"acct", "source", "sink"}
      /\ fresh'.source \subseteq fresh.source \cup {r}
      /\ fresh'.sink \subseteq fresh.sink \cup {r}
  BY DEF Shape
<1> HIDE DEF p
<1>4. Quiet(r)
  BY <1>1, <1>2 DEF Quiet, Takes, Before
<1> QED BY <1>1, <1>2, <1>3, <1>4 DEF Stirs, PC

LEMMA RefusedStirs ==
  ASSUME Shape, NEW r \in Req, Refused(r)
  PROVE  Stirs(r)
<1>0. /\ Shape /\ DOMAIN req[r] = Fields /\ UNCHANGED <<source, sink, fresh>>
  BY DEF Shape, Refused
<1>1. CASE req[r].retries + 1 < Retries
  <2> DEFINE p == [req[r] EXCEPT !.pc = "refetch", !.retries = @ + 1]
  <2>1. DOMAIN p = Fields /\ p.saved = req[r].saved /\ p.pc = "refetch"
    BY <1>0 DEF Fields
  <2>2. req' = [req EXCEPT ![r] = p]
    BY <1>1 DEF Refused, Set
  <2> HIDE DEF p
  <2> QED BY <1>0, <2>1, <2>2, LeaveStep DEF Before, Away, PC, EndPC, Shape
<1>2. CASE ~(req[r].retries + 1 < Retries)
  <2>1. req' = [req EXCEPT ![r] = Forget(r, "unlock")]
    BY <1>2 DEF Refused, Set
  <2>2. "unlock" \in Away
    BY DEF Before, Away, PC, EndPC
  <2> QED BY <1>0, <2>1, <2>2, ForgetStep DEF Shape
<1> QED BY <1>1, <1>2

LEMMA ExpiringStirs ==
  ASSUME Shape, NEW r \in Req,
         Fetch(r) \/ Wait(r) \/ Refetch(r) \/ Unlock(r) \/ UnlockConflict(r)
  PROVE  Stirs(r)
<1>0. /\ Shape /\ DOMAIN req[r] = Fields /\ DOMAIN fresh = {"acct", "source", "sink"}
      /\ UNCHANGED <<source, sink>>
  BY DEF Shape, Fetch, Wait, Refetch, Unlock, UnlockConflict
<1>9. ASSUME fresh' = Dropped(r) \/ \E S : fresh' = [Dropped(r) EXCEPT !.acct = S]
      PROVE  /\ DOMAIN fresh' = {"acct", "source", "sink"}
             /\ fresh'.source \subseteq fresh.source \cup {r}
             /\ fresh'.sink \subseteq fresh.sink \cup {r}
  <2> DEFINE d == Dropped(r)
  <2>1. /\ DOMAIN d = {"acct", "source", "sink"}
        /\ d.source = fresh.source \ {r} /\ d.sink = fresh.sink \ {r}
    BY <1>0, FreshFacts
  <2>2. fresh' = d \/ \E S : fresh' = [d EXCEPT !.acct = S]
    BY <1>9
  <2> HIDE DEF d
  <2> QED BY <2>1, <2>2
<1>1. CASE Fetch(r)
  <2>1. CASE Expired(Dated(source)) = {}
    <3>1. PICK pc \in {"done", "check"} : req' = [req EXCEPT ![r] = At(req[r], pc)]
      BY <1>1, <2>1 DEF Fetch, Go, Set
    <3>2. fresh' = fresh /\ pc \in Away
      BY <1>1, <2>1 DEF Fetch, Before, Away, PC, EndPC
    <3> QED BY <1>0, <3>1, <3>2, GoStep
  <2>2. CASE Expired(Dated(source)) # {}
    BY <1>0, <1>1, <2>2, TakeStep DEF Fetch, Set
  <2> QED BY <2>1, <2>2
<1>2. CASE Wait(r)
  <2> DEFINE p == At(req[r], "relock")
  <2>1. /\ DOMAIN p = Fields /\ p.saved = req[r].saved /\ p.source = req[r].source
        /\ p.sink = req[r].sink /\ p.expired = req[r].expired /\ p.pc = "relock"
    BY <1>0, AtFacts DEF EndPC
  <2>2. req' = [req EXCEPT ![r] = p] /\ fresh' = fresh /\ req[r].pc = "wait"
    BY <1>2 DEF Wait, Go, Set
  <2> HIDE DEF p
  <2> QED BY <1>0, <2>1, <2>2, HoldStep DEF Before
<1>3. CASE Refetch(r)
  <2>1. CASE Expired(Dated(source)) = {}
    <3> DEFINE p == [Forget(r, "unlock") EXCEPT !.good = TRUE]
    <3>1. DOMAIN p = Fields /\ p.pc = "unlock" /\ p.saved = req[r].saved
      BY <1>0, GoodFacts
    <3>2. req' = [req EXCEPT ![r] = p] /\ fresh' = Dropped(r)
      BY <1>3, <2>1 DEF Refetch, Set
    <3> HIDE DEF p
    <3> QED BY <1>0, <1>9, <3>1, <3>2, LeaveStep DEF Before, Away, PC, EndPC
  <2>2. CASE Expired(Dated(source)) # {}
    BY <1>0, <1>3, <2>2, TakeStep DEF Refetch, Set
  <2> QED BY <2>1, <2>2
<1>4. CASE Unlock(r) \/ UnlockConflict(r)
  <2>1. PICK ok : req' = [req EXCEPT ![r] = Resumed(r, ok)]
    BY <1>4 DEF Unlock, UnlockConflict, Set
  <2>2. fresh' = Dropped(r) \/ \E S : fresh' = [Dropped(r) EXCEPT !.acct = S]
    BY <1>4 DEF Unlock, UnlockConflict
  <2> QED BY <1>0, <1>9, <2>1, <2>2, ResumedStep
<1> QED BY <1>1, <1>2, <1>3, <1>4

LEMMA SavingStirs ==
  ASSUME Shape, NEW r \in Req, Check(r) \/ Read(r) \/ Release(r)
  PROVE  Stirs(r)
<1>0. /\ Shape /\ DOMAIN req[r] = Fields /\ DOMAIN fresh = {"acct", "source", "sink"}
      /\ UNCHANGED <<source, sink>>
  BY DEF Shape, Check, Read, Release
<1>1. CASE Check(r)
  <2>1. PICK pc \in {"release", "read"} : req' = [req EXCEPT ![r] = At(req[r], pc)]
    BY <1>1 DEF Check, Go, Set
  <2>2. fresh' = fresh /\ pc \in Away
    BY <1>1 DEF Check, Before, Away, PC, EndPC
  <2> QED BY <1>0, <2>1, <2>2, GoStep
<1>2. CASE Read(r)
  <2>1. CASE req' = [req EXCEPT ![r] = At(req[r], "release")] /\ fresh' = fresh
    <3>1. "release" \in Away
      BY DEF Before, Away, PC, EndPC
    <3> QED BY <1>0, <2>1, <3>1, GoStep
  <2>2. CASE /\ req' = [req EXCEPT ![r] = [req[r] EXCEPT !.pc = "write", !.source = source]]
             /\ fresh' = [fresh EXCEPT !.source = @ \cup {r}]
    <3> DEFINE p == [req[r] EXCEPT !.pc = "write", !.source = source]
    <3>1. DOMAIN p = Fields /\ p.pc = "write" /\ p.saved = req[r].saved /\ p.source = source
      BY <1>0 DEF Fields
    <3>2. req' = [req EXCEPT ![r] = p] /\ req'[r] = p
      BY <1>0, <2>2 DEF Shape
    <3>3. /\ DOMAIN fresh' = {"acct", "source", "sink"}
          /\ fresh'.source \subseteq fresh.source \cup {r}
          /\ fresh'.sink \subseteq fresh.sink \cup {r}
      BY <1>0, <2>2
    <3> HIDE DEF p
    <3>4. Quiet(r)
      BY <3>1, <3>2 DEF Quiet, Takes
    <3> QED BY <1>0, <3>1, <3>2, <3>3, <3>4 DEF Stirs, PC
  <2> QED BY <1>2, <2>1, <2>2 DEF Read, Go, Set
<1>3. CASE Release(r)
  <2>1. PICK pc \in {"done", "failed"} : req' = [req EXCEPT ![r] = At(req[r], pc)]
    BY <1>3 DEF Release, Go, Set
  <2>2. /\ DOMAIN fresh' = {"acct", "source", "sink"}
        /\ fresh'.source = fresh.source /\ fresh'.sink = fresh.sink
    BY <1>0, <1>3 DEF Release, WriteAcct
  <2>3. pc \in Away
    BY DEF Before, Away, PC, EndPC
  <2> QED BY <1>0, <2>1, <2>2, <2>3, GoStep
<1> QED BY <1>1, <1>2, <1>3

-----------------------------------------------------------------------------
(* The writes of the ledgers.                                              *)

\* What a write has in common: the request and the copies of the others.
LEMMA WriteStep ==
  ASSUME PInv, NEW r \in Req, NEW p,
         req' = [req EXCEPT ![r] = p], DOMAIN p = Fields, p.pc \in PC, lost' = lost,
         DOMAIN fresh' = {"acct", "source", "sink"},
         lost = 0 => Sound'
  PROVE  PInv'
<1>1. Shape'
  BY DEF PInv, Shape
<1> QED BY <1>1 DEF PInv

\* Who saved what, when the writer saved nothing with this write.
LEMMA SavedSame ==
  ASSUME Shape, NEW r \in Req, NEW p, req' = [req EXCEPT ![r] = p],
         p.saved = req[r].saved
  PROVE  /\ \A q \in Req : req'[q].saved = req[q].saved
         /\ \A e \in Event : Known(e)' => Known(e)
         /\ req'[r] = p /\ \A q \in Req \ {r} : req'[q] = req[q]
<1>1. /\ \A q \in Req : req'[q].saved = req[q].saved
      /\ req'[r] = p /\ \A q \in Req \ {r} : req'[q] = req[q]
  BY DEF Shape
<1>2. \A e \in Event : Known(e)' => Known(e)
  BY <1>1 DEF Known, Saved, Opens
<1> QED BY <1>1, <1>2

LEMMA CreditKeeps ==
  ASSUME PInv, NEW r \in Req, Credit(r), Accepted(r, fresh.sink)
  PROVE  PInv'
<1> DEFINE p == At(req[r], "debit")
<1>1. /\ Shape /\ req[r].pc = "credit" /\ r \in fresh.sink
      /\ sink' = CreditSink(r) /\ source' = source /\ lost' = lost
      /\ req' = [req EXCEPT ![r] = p] /\ fresh' = [fresh EXCEPT !.sink = {r}]
  BY DEF PInv, Credit, Accepted, Go, Set, faults
<1>2. /\ DOMAIN p = Fields /\ p.pc = "debit" /\ p.saved = req[r].saved
      /\ p.source = req[r].source /\ p.sink = req[r].sink /\ p.expired = req[r].expired
  BY <1>1, AtFacts DEF Shape, EndPC
<1> HIDE DEF p
<1>3. /\ DOMAIN fresh' = {"acct", "source", "sink"}
      /\ fresh'.source = fresh.source /\ fresh'.sink = {r}
  BY <1>1 DEF Shape
<1>4. /\ \A q \in Req : req'[q].saved = req[q].saved
      /\ \A e \in Event : Known(e)' => Known(e)
      /\ req'[r] = p /\ \A q \in Req \ {r} : req'[q] = req[q]
  BY <1>1, <1>2, SavedSame
<1>5. ASSUME lost = 0 PROVE Sound'
  <2>0. Sound /\ CopyOK(r) /\ NoReq \notin Req
    BY <1>5, PointsAssumption DEF PInv, Sound
  <2>1. req[r].sink = sink /\ SinkOK(sink)
    BY <1>1, <2>0 DEF CopyOK, Before, Sound
  <2>9. Present(source)' = Present(source) /\ SourceOK(source)'
    BY <1>1, <2>0 DEF Present, Sound, SourceOK
  <2>2. /\ SinkOK(sink')
        /\ \A e \in Event : /\ sink.credits[e] > 0 => sink'.credits[e] > 0
                            /\ e \in req[r].expired => sink'.credits[e] > 0
    <3>1. sink'.credits = [e \in Event |->
                             sink.credits[e] + IF e \in req[r].expired THEN 1 ELSE 0]
      BY <1>1, <2>1 DEF CreditSink, Credited
    <3> QED BY <2>1, <3>1 DEF SinkOK
  <2>3. Safe(sink, NoReq)
    BY <2>0 DEF Sound
  <2>4. Safe(sink, NoReq)'
    BY <1>1, <1>2, <1>4, <2>0, <2>2, <2>3, <2>9 DEF Safe
  <2>5. Safe(req[r].sink, r)'
    <3>1. \A e \in Event :
            /\ Known(e)' => e \in Present(source)' \/ sink.credits[e] > 0
            /\ \A q \in Req \ {r} : req'[q].pc = "debit" /\ e \in req'[q].expired
                                      => sink.credits[e] > 0
      BY <1>1, <1>4, <2>0, <2>3, <2>9 DEF Safe
    <3>2. req'[r].sink = sink
      BY <1>2, <1>4, <2>1
    <3> QED BY <3>1, <3>2 DEF Safe
  <2>6. CopyOK(r)'
    BY <1>1, <1>2, <1>3, <1>4, <2>0, <2>1, <2>5, <2>9 DEF CopyOK, Before, SourceOK, Present, SinkOK
  <2>7. ASSUME NEW q \in Req \ {r} PROVE CopyOK(q)'
    <3>1. CopyOK(q) /\ req'[q] = req[q] /\ q \notin fresh'.sink
      BY <1>3, <1>4, <2>0 DEF Sound
    <3> QED BY <1>1, <1>3, <2>9, <3>1 DEF CopyOK, SourceOK, Present
  <2> QED BY <1>1, <2>0, <2>2, <2>4, <2>6, <2>7, <2>9 DEF Sound, SinkOK
<1> QED BY <1>1, <1>2, <1>3, <1>5, WriteStep DEF PC

LEMMA DebitKeeps ==
  ASSUME PInv, NEW r \in Req, Debit(r), Accepted(r, fresh.source)
  PROVE  PInv'
<1> DEFINE p == [Forget(r, "unlock") EXCEPT !.good = TRUE]
           E == req[r].expired
<1>1. /\ Shape /\ req[r].pc = "debit" /\ r \in fresh.source
      /\ source' = DebitSource(r) /\ sink' = sink /\ lost' = lost
      /\ req' = [req EXCEPT ![r] = p] /\ fresh' = [Dropped(r) EXCEPT !.source = {}]
  BY DEF PInv, Debit, Accepted, Set, faults
<1>2. DOMAIN p = Fields /\ p.pc = "unlock" /\ p.saved = req[r].saved
  BY <1>1, GoodFacts
<1> HIDE DEF p
<1>3. /\ DOMAIN fresh' = {"acct", "source", "sink"}
      /\ fresh'.source = {} /\ fresh'.sink = fresh.sink \ {r}
  <2> DEFINE d == Dropped(r)
  <2>1. DOMAIN d = {"acct", "source", "sink"} /\ d.sink = fresh.sink \ {r}
    BY <1>1, FreshFacts
  <2>2. fresh' = [d EXCEPT !.source = {}]
    BY <1>1
  <2> HIDE DEF d
  <2> QED BY <2>1, <2>2
<1>4. /\ \A q \in Req : req'[q].saved = req[q].saved
      /\ \A e \in Event : Known(e)' => Known(e)
      /\ req'[r] = p /\ \A q \in Req \ {r} : req'[q] = req[q]
  BY <1>1, <1>2, SavedSame
<1>5. ASSUME lost = 0 PROVE Sound'
  <2>0. Sound /\ CopyOK(r) /\ NoReq \notin Req
    BY <1>5, PointsAssumption DEF PInv, Sound
  <2>1. SourceOK(req[r].source) /\ Present(req[r].source) = Present(source)
    BY <1>1, <2>0 DEF CopyOK
  <2>2. SourceOK(source') /\ Present(source') = Present(source) \ E
    BY <1>1, <2>1, DebitedFacts DEF DebitSource
  <2>3. SourceOK(source)' /\ Present(source)' = Present(source) \ E
    BY <2>2 DEF SourceOK, Present
  <2>4. ASSUME NEW snk, NEW q, Safe(snk, q), q # r
        PROVE  \A e \in Event :
                 /\ Known(e)' => e \in Present(source)' \/ snk.credits[e] > 0
                 /\ \A v \in Req \ {q} : req'[v].pc = "debit" /\ e \in req'[v].expired
                                           => snk.credits[e] > 0
    <3> SUFFICES ASSUME NEW e \in Event
                 PROVE  /\ Known(e)' => e \in Present(source)' \/ snk.credits[e] > 0
                        /\ \A v \in Req \ {q} : req'[v].pc = "debit" /\ e \in req'[v].expired
                                                  => snk.credits[e] > 0
      OBVIOUS
    <3>1. e \in E => snk.credits[e] > 0
      BY <1>1, <2>4 DEF Safe
    <3>2. e \in Present(source) => e \in E \/ e \in Present(source)'
      BY <2>3
    <3>3. Known(e)' => e \in Present(source) \/ snk.credits[e] > 0
      BY <1>4, <2>4 DEF Safe
    <3>4. \A v \in Req \ {q} : req'[v].pc = "debit" => v # r /\ req'[v] = req[v]
      BY <1>2, <1>4
    <3> QED BY <2>4, <3>1, <3>2, <3>3, <3>4 DEF Safe
  <2>5. Safe(sink, NoReq)'
    <3>1. Safe(sink, NoReq)
      BY <2>0 DEF Sound
    <3> QED BY <1>1, <2>0, <2>4, <3>1 DEF Safe
  <2>6. CopyOK(r)'
    BY <1>2, <1>4 DEF CopyOK, Before
  <2>7. ASSUME NEW q \in Req \ {r} PROVE CopyOK(q)'
    <3>1. CopyOK(q) /\ req'[q] = req[q] /\ q \notin fresh'.source
      BY <1>3, <1>4, <2>0 DEF Sound
    <3>2. q \in fresh'.sink => q \in fresh.sink
      BY <1>3
    <3>3. Safe(req[q].sink, q) => Safe(req[q].sink, q)'
      BY <2>4, <3>1 DEF Safe
    <3> QED BY <1>1, <3>1, <3>2, <3>3 DEF CopyOK
  <2> QED BY <1>1, <2>0, <2>3, <2>5, <2>6, <2>7 DEF Sound, SinkOK
<1> QED BY <1>1, <1>2, <1>3, <1>5, WriteStep DEF PC

LEMMA RollbackKeeps ==
  ASSUME PInv, NEW r \in Req, Rollback(r), Accepted(r, fresh.sink)
  PROVE  PInv'
<1> DEFINE p == Forget(r, "unlock")
<1>1. /\ Shape /\ req[r].pc = "rollback"
      /\ source' = source /\ lost' = lost
      /\ req' = [req EXCEPT ![r] = p]
  BY DEF PInv, Rollback, Set, faults
<1>2. DOMAIN p = Fields /\ p.pc = "unlock" /\ p.saved = req[r].saved
  BY <1>1, ForgetFacts DEF Shape
<1>0. /\ DOMAIN Dropped(r) = {"acct", "source", "sink"}
      /\ Dropped(r).source = fresh.source \ {r} /\ Dropped(r).sink = fresh.sink \ {r}
  BY <1>1, FreshFacts
<1>3. /\ r \in fresh.sink /\ sink' = req[r].sink
      /\ fresh' = [Dropped(r) EXCEPT !.sink = {}]
  BY DEF Rollback, Accepted
<1>4. /\ DOMAIN fresh' = {"acct", "source", "sink"}
      /\ fresh'.source \subseteq fresh.source /\ fresh'.sink = {}
  <2> DEFINE d == Dropped(r)
  <2>1. fresh' = [d EXCEPT !.sink = {}] /\ d = Dropped(r)
    BY <1>3
  <2> HIDE DEF d
  <2> QED BY <1>0, <2>1
<1> HIDE DEF p
<1>5. /\ \A q \in Req : req'[q].saved = req[q].saved
      /\ \A e \in Event : Known(e)' => Known(e)
      /\ req'[r] = p /\ \A q \in Req \ {r} : req'[q] = req[q]
  BY <1>1, <1>2, SavedSame
<1>6. ASSUME lost = 0 PROVE Sound'
  <2>0. Sound /\ CopyOK(r) /\ NoReq \notin Req
    BY <1>6, PointsAssumption DEF PInv, Sound
  <2>1. SinkOK(sink') /\ Safe(req[r].sink, r)
    BY <1>1, <1>3, <2>0 DEF CopyOK
  <2>5. Present(source)' = Present(source) /\ SourceOK(source)'
    BY <1>1, <2>0 DEF Present, Sound, SourceOK
  <2>2. Safe(sink, NoReq)'
    BY <1>1, <1>2, <1>3, <1>5, <2>0, <2>1, <2>5 DEF Safe
  <2>3. ASSUME NEW q \in Req PROVE CopyOK(q)'
    <3>1. q = r \/ (CopyOK(q) /\ req'[q] = req[q])
      BY <1>5, <2>0 DEF Sound
    <3>2. CASE q = r
      BY <1>2, <1>5, <3>2 DEF CopyOK, Before
    <3>3. CASE CopyOK(q) /\ req'[q] = req[q]
      BY <1>1, <1>4, <2>5, <3>3 DEF CopyOK, SourceOK, Present
    <3> QED BY <3>1, <3>2, <3>3
  <2> QED BY <1>1, <2>0, <2>1, <2>2, <2>3, <2>5 DEF Sound, SinkOK
<1> QED BY <1>1, <1>2, <1>4, <1>6, WriteStep DEF PC

\* What a deposit or a withdrawal does to a ledger.
LEMMA RecordedFacts ==
  ASSUME NEW r \in Req, NEW led, SourceOK(led)
  PROVE  /\ SourceOK(Recorded(led, r))
         /\ Present(Recorded(led, r)) = Present(led) \cup {EventOf[r]}
<1> DEFINE c == EventOf[r]
           old == led.entry[c]
           entry == IF old.began = "none" THEN NewEntry(r) ELSE Rewritten(old, r)
           new == Recorded(led, r)
<1>1. DOMAIN entry = EntryFields /\ entry.began # "none"
  <2>1. CASE old.began = "none"
    BY <2>1 DEF NewEntry, EntryFields
  <2>2. CASE old.began # "none"
    BY <2>2 DEF Rewritten, EntryFields
  <2> QED BY <2>1, <2>2
<1>2. /\ DOMAIN new = {"balance", "entry", "gone"}
      /\ new.entry = [led.entry EXCEPT ![c] = entry]
  BY DEF Recorded, SourceOK
<1>3. c \in Event
  BY PointsAssumption
<1> HIDE DEF entry, new, c
<1>4. /\ DOMAIN new.entry = Event /\ new.entry[c] = entry
      /\ \A e \in Event \ {c} : new.entry[e] = led.entry[e]
  BY <1>2, <1>3 DEF SourceOK
<1>5. SourceOK(new)
  BY <1>1, <1>2, <1>4 DEF SourceOK
<1>6. Present(new) = Present(led) \cup {c}
  BY <1>1, <1>3, <1>4 DEF Present
<1> QED BY <1>5, <1>6 DEF new, c

LEMMA SpentFacts ==
  ASSUME NEW led, SourceOK(led), NEW n
  PROVE  SourceOK(Spent(led, n)) /\ Present(Spent(led, n)) = Present(led)
<1> DEFINE new == Spent(led, n)
<1>1. /\ DOMAIN new = {"balance", "entry", "gone"}
      /\ new.entry = [e \in Event |-> [led.entry[e] EXCEPT !.spend = @ - Taken(led, e, n)]]
  BY DEF Spent, SourceOK
<1> HIDE DEF new
<1>2. \A e \in Event : DOMAIN new.entry[e] = EntryFields
                       /\ new.entry[e].began = led.entry[e].began
  BY <1>1 DEF SourceOK, EntryFields
<1>3. SourceOK(new) /\ Present(new) = Present(led)
  BY <1>1, <1>2 DEF SourceOK, Present
<1> QED BY <1>3 DEF new

LEMMA UpsertedFacts ==
  ASSUME NEW r \in Req, NEW led, SourceOK(led)
  PROVE  /\ SourceOK(Upserted(led, r))
         /\ Present(Upserted(led, r)) = Present(led) \cup {EventOf[r]}
<1> DEFINE new == Recorded(led, r)
<1>1. SourceOK(new) /\ Present(new) = Present(led) \cup {EventOf[r]}
  BY RecordedFacts
<1>2. Upserted(led, r) \in {new, Spent(new, Amount[r])}
  BY DEF Upserted
<1> HIDE DEF new
<1>3. SourceOK(Spent(new, Amount[r])) /\ Present(Spent(new, Amount[r])) = Present(new)
  BY <1>1, SpentFacts
<1> QED BY <1>1, <1>2, <1>3

LEMMA WriteKeeps ==
  ASSUME PInv, NEW r \in Req, Write(r), Accepted(r, fresh.source)
  PROVE  PInv'
<1>1. /\ Shape /\ req[r].pc = "write" /\ sink' = sink /\ lost' = lost
  BY DEF PInv, Write, faults
<1>2. /\ DOMAIN Dropped(r) = {"acct", "source", "sink"}
      /\ Dropped(r).source = fresh.source \ {r} /\ Dropped(r).sink = fresh.sink \ {r}
  BY <1>1, FreshFacts
<1> DEFINE f == Forget(r, "release")
           p == [f EXCEPT !.saved = TRUE]
<1>3. /\ r \in fresh.source /\ source' = Changed(r)
      /\ req' = [req EXCEPT ![r] = p]
      /\ fresh' = [Dropped(r) EXCEPT !.source = {}]
  BY DEF Write, Accepted, Set
<1>4. DOMAIN p = Fields /\ p.pc = "release" /\ p.saved = TRUE
  <2>1. DOMAIN f = Fields /\ f.pc = "release"
    BY <1>1, ForgetFacts DEF Shape
  <2> HIDE DEF f
  <2> QED BY <2>1 DEF Fields
<1>5. /\ DOMAIN fresh' = {"acct", "source", "sink"}
      /\ fresh'.source = {} /\ fresh'.sink = fresh.sink \ {r}
  <2> DEFINE d == Dropped(r)
  <2>1. fresh' = [d EXCEPT !.source = {}] /\ d = Dropped(r)
    BY <1>3
  <2> HIDE DEF d
  <2> QED BY <1>2, <2>1
<1> HIDE DEF p
<1>6. req'[r] = p /\ \A q \in Req \ {r} : req'[q] = req[q]
  BY <1>1, <1>3 DEF Shape
<1>7. ASSUME lost = 0 PROVE Sound'
  <2>0. Sound /\ CopyOK(r) /\ NoReq \notin Req
    BY <1>7, PointsAssumption DEF PInv, Sound
  <2>1. SourceOK(source)' /\ Present(source)' = Present(source) \cup {EventOf[r]}
    <3>1. SourceOK(req[r].source) /\ Present(req[r].source) = Present(source)
      BY <1>1, <1>3, <2>0 DEF CopyOK
    <3>2. SourceOK(source') /\ Present(source') = Present(source) \cup {EventOf[r]}
      BY <1>3, <3>1, UpsertedFacts DEF Changed
    <3> QED BY <3>2 DEF SourceOK, Present
  <2>2. \A e \in Event : Known(e)' => Known(e) \/ e \in Present(source)'
    BY <1>6, <2>1 DEF Known, Saved, Opens
  <2>3. \A q \in Req : req'[q].pc = "debit" => q # r /\ req'[q] = req[q]
    BY <1>4, <1>6
  <2>4. ASSUME NEW snk, NEW q, Safe(snk, q)
        PROVE  \A e \in Event :
                 /\ Known(e)' => e \in Present(source)' \/ snk.credits[e] > 0
                 /\ \A v \in Req \ {q} : req'[v].pc = "debit" /\ e \in req'[v].expired
                                           => snk.credits[e] > 0
    BY <2>1, <2>2, <2>3, <2>4 DEF Safe
  <2>5. Safe(sink, NoReq)'
    <3>1. Safe(sink, NoReq)
      BY <2>0 DEF Sound
    <3> QED BY <1>1, <2>4, <3>1 DEF Safe
  <2>6. CopyOK(r)'
    BY <1>4, <1>6 DEF CopyOK, Before
  <2>7. ASSUME NEW q \in Req \ {r} PROVE CopyOK(q)'
    <3>1. CopyOK(q) /\ req'[q] = req[q] /\ q \notin fresh'.source
      BY <1>5, <1>6, <2>0 DEF Sound
    <3>2. q \in fresh'.sink => q \in fresh.sink
      BY <1>5
    <3>3. Safe(req[q].sink, q) => Safe(req[q].sink, q)'
      BY <2>4, <3>1 DEF Safe
    <3> QED BY <1>1, <3>1, <3>2, <3>3 DEF CopyOK
  <2> QED BY <1>1, <2>0, <2>1, <2>5, <2>6, <2>7 DEF Sound, SinkOK
<1> QED BY <1>1, <1>3, <1>4, <1>5, <1>7, WriteStep DEF PC

-----------------------------------------------------------------------------
(* Failures.                                                               *)

\* Where a failed call takes a request.
LEMMA FailureFacts ==
  ASSUME Shape, NEW r \in Req, Calling(r), Failure(r)
  PROVE  \E p : /\ req' = [req EXCEPT ![r] = p]
                /\ DOMAIN p = Fields /\ p.saved = req[r].saved
                /\ \/ p.pc \in Away
                   \/ /\ req[r].pc = "debit" /\ p.pc = "rollback"
                      /\ p.source = req[r].source /\ p.sink = req[r].sink
                      /\ p.expired = req[r].expired
<1>0. DOMAIN req[r] = Fields
  BY DEF Shape
<1>1. /\ \A pc \in {"release", "unlock", "failed", "done", "check"} : pc \in Away
      /\ Bail(r) \in {"release", "failed"} /\ Thrown(r) \in {"failed", "unlock"}
  BY DEF Away, PC, EndPC, Before, Bail, Thrown
<1>2. ASSUME NEW pc \in {"release", "unlock", "failed"},
             req' = [req EXCEPT ![r] = At(req[r], pc)]
      PROVE  \E p : req' = [req EXCEPT ![r] = p] /\ DOMAIN p = Fields
                    /\ p.saved = req[r].saved /\ p.pc \in Away
  <2> DEFINE p == At(req[r], pc)
  <2>1. DOMAIN p = Fields /\ p.saved = req[r].saved /\ p.pc \in Away
    BY <1>0, <1>1, AtFacts
  <2>2. req' = [req EXCEPT ![r] = p]
    BY <1>2
  <2> HIDE DEF p
  <2> QED BY <2>1, <2>2
<1>3. ASSUME NEW pc \in {"release", "unlock"},
             req' = [req EXCEPT ![r] = Forget(r, pc)]
      PROVE  \E p : req' = [req EXCEPT ![r] = p] /\ DOMAIN p = Fields
                    /\ p.saved = req[r].saved /\ p.pc \in Away
  <2> DEFINE p == Forget(r, pc)
  <2>1. DOMAIN p = Fields /\ p.saved = req[r].saved /\ p.pc \in Away
    BY <1>0, <1>1, ForgetFacts
  <2>2. req' = [req EXCEPT ![r] = p]
    BY <1>3
  <2> HIDE DEF p
  <2> QED BY <2>1, <2>2
<1>4. CASE req[r].pc \in {"lock", "locking", "relock", "relocking"}
  <2>1. req' = [req EXCEPT ![r] = At(req[r], Thrown(r))]
    BY <1>4 DEF Failure, Go, Set
  <2> QED BY <1>1, <1>2, <2>1
<1>5. CASE req[r].pc \in {"fetch", "check", "read"}
  <2>1. req' = [req EXCEPT ![r] = At(req[r], Bail(r))]
    BY <1>5 DEF Failure, Go, Set
  <2> QED BY <1>1, <1>2, <2>1
<1>6. CASE req[r].pc = "write"
  <2>1. req' = [req EXCEPT ![r] = Forget(r, "release")]
    BY <1>6 DEF Failure, Go, Set
  <2> QED BY <1>3, <2>1
<1>7. CASE req[r].pc \in {"credit", "refetch", "rollback"}
  <2>1. req' = [req EXCEPT ![r] = Forget(r, "unlock")]
    BY <1>7 DEF Failure, Go, Set
  <2> QED BY <1>3, <2>1
<1>8. CASE req[r].pc = "debit"
  <2> DEFINE p == At(req[r], "rollback")
  <2>1. req' = [req EXCEPT ![r] = p]
    BY <1>8 DEF Failure, Go, Set
  <2>2. /\ DOMAIN p = Fields /\ p.saved = req[r].saved /\ p.source = req[r].source
        /\ p.sink = req[r].sink /\ p.expired = req[r].expired /\ p.pc = "rollback"
    BY <1>0, AtFacts DEF EndPC
  <2> HIDE DEF p
  <2> QED BY <1>8, <2>1, <2>2
<1>9. CASE req[r].pc = "unlock"
  <2> DEFINE p == Resumed(r, FALSE)
  <2>1. req' = [req EXCEPT ![r] = p]
    BY <1>9 DEF Failure, Go, Set
  <2>2. DOMAIN p = Fields /\ p.saved = req[r].saved /\ p.pc \in Away
    BY <1>0, <1>1, ResumedFacts
  <2> HIDE DEF p
  <2> QED BY <2>1, <2>2
<1>10. CASE req[r].pc = "release"
  <2>1. req' = [req EXCEPT ![r] = At(req[r], "failed")]
    BY <1>10 DEF Failure, Go, Set
  <2> QED BY <1>2, <2>1
<1>11. req[r].pc \in PC /\ req[r].pc \notin {"idle", "wait"} \cup EndPC
  BY DEF Shape, Calling
<1> QED BY <1>4, <1>5, <1>6, <1>7, <1>8, <1>9, <1>10, <1>11 DEF PC

LEMMA CallFailsStirs ==
  ASSUME Shape, NEW r \in Req, CallFails(r)
  PROVE  Stirs(r)
<1>0. /\ Shape /\ DOMAIN fresh' = {"acct", "source", "sink"}
      /\ UNCHANGED <<source, sink, fresh>> /\ Failure(r) /\ Calling(r)
  BY DEF Shape, CallFails
<1>1. PICK p : /\ req' = [req EXCEPT ![r] = p]
               /\ DOMAIN p = Fields /\ p.saved = req[r].saved
               /\ \/ p.pc \in Away
                  \/ /\ req[r].pc = "debit" /\ p.pc = "rollback"
                     /\ p.source = req[r].source /\ p.sink = req[r].sink
                     /\ p.expired = req[r].expired
  BY <1>0, FailureFacts
<1>2. CASE p.pc \in Away
  BY <1>0, <1>1, <1>2, LeaveStep
<1>3. CASE p.pc \notin Away
  BY <1>0, <1>1, <1>3, HoldStep
<1> QED BY <1>2, <1>3

LEMMA UnansweredKeeps ==
  ASSUME PInv, NEW r \in Req, WriteUnanswered(r)
  PROVE  PInv'
<1>0. /\ Shape /\ Failure(r) /\ lost' = lost + 1
  BY DEF PInv, WriteUnanswered
<1>1. DOMAIN fresh' = {"acct", "source", "sink"}
  BY <1>0 DEF Shape, WriteUnanswered, AcctUnanswered, LedgerUnanswered
<1>2. Calling(r)
  BY DEF WriteUnanswered, AcctUnanswered, LedgerUnanswered, Calling, EndPC
<1>3. PICK p : /\ req' = [req EXCEPT ![r] = p]
               /\ DOMAIN p = Fields
               /\ p.pc \in Away \cup {"rollback"}
  BY <1>0, <1>2, FailureFacts
<1>4. p.pc \in PC
  BY <1>3 DEF Away, PC
<1>5. Shape' /\ lost' # 0
  BY <1>0, <1>1, <1>3, <1>4 DEF Shape
<1> QED BY <1>5 DEF PInv

\* The requests of a node that dies leave, and the others go on.
LEMMA CrashKeeps ==
  ASSUME PInv, NEW n \in Node, Crash(n)
  PROVE  PInv'
<1>0. /\ Shape /\ UNCHANGED <<source, sink, lost>>
      /\ DOMAIN fresh' = {"acct", "source", "sink"}
      /\ fresh'.source \subseteq fresh.source /\ fresh'.sink \subseteq fresh.sink
      /\ DOMAIN req' = Req
  BY DEF PInv, Crash
<1>1. ASSUME NEW q \in Req
      PROVE  /\ DOMAIN req'[q] = Fields /\ req'[q].pc \in PC
             /\ Quiet(q)
  <2>1. DOMAIN req[q] = Fields /\ req[q].pc \in PC
    BY <1>0 DEF Shape
  <2>2. req'[q] = req[q] \/ req'[q] = Forget(q, "dead")
    BY DEF Crash
  <2>3. CASE req'[q] = req[q]
    BY <1>0, <2>1, <2>3, SameIsQuiet DEF Same
  <2>4. CASE req'[q] = Forget(q, "dead")
    <3>1. /\ DOMAIN req'[q] = Fields /\ req'[q].pc = "dead"
          /\ req'[q].saved = req[q].saved
      BY <2>1, <2>4, ForgetFacts
    <3> QED BY <3>1 DEF Quiet, Leaves, Away, PC, EndPC, Before
  <2> QED BY <2>2, <2>3, <2>4
<1>2. Shape'
  BY <1>0, <1>1 DEF Shape
<1>3. lost' = 0 => Sound'
  BY <1>0, <1>1, QuietKeeps DEF PInv
<1> QED BY <1>2, <1>3 DEF PInv

LEMMA StutterKeeps ==
  ASSUME PInv, UNCHANGED <<source, sink, fresh, req, lost>>
  PROVE  PInv'
<1>1. \A q \in Req : Quiet(q)
  BY SameIsQuiet DEF Same
<1>2. lost = 0 => Sound'
  BY <1>1, QuietKeeps DEF PInv
<1> QED BY <1>2 DEF PInv, Shape

-----------------------------------------------------------------------------
(* Nothing is lost.                                                        *)

\* The steps of a request that write no ledger.
Reading(r) ==
  \/ Load(r) \/ Taking(r)
  \/ Fetch(r) \/ Wait(r) \/ Refetch(r) \/ Unlock(r) \/ UnlockConflict(r)
  \/ Check(r) \/ Read(r) \/ Release(r)
  \/ CallFails(r) \/ Refused(r)
  \/ Rollback(r) /\ ~Accepted(r, fresh.sink)
  \/ Write(r) /\ ~Accepted(r, fresh.source)

LEMMA ReadingStirs ==
  ASSUME Shape, NEW r \in Req, Reading(r)
  PROVE  Stirs(r)
<1>1. ASSUME NEW pc \in {"unlock", "release"}, req' = [req EXCEPT ![r] = Forget(r, pc)],
             UNCHANGED <<source, sink>>, fresh' = Dropped(r)
      PROVE  Stirs(r)
  <2>1. /\ DOMAIN fresh' = {"acct", "source", "sink"}
        /\ fresh'.source \subseteq fresh.source \cup {r}
        /\ fresh'.sink \subseteq fresh.sink \cup {r}
    BY <1>1, FreshFacts
  <2>2. pc \in Away
    BY DEF Before, Away, PC, EndPC
  <2> QED BY <1>1, <2>1, <2>2, ForgetStep
<1>2. CASE Load(r) \/ Taking(r)
  BY <1>2, TakingStirs
<1>3. CASE Fetch(r) \/ Wait(r) \/ Refetch(r) \/ Unlock(r) \/ UnlockConflict(r)
  BY <1>3, ExpiringStirs
<1>4. CASE Check(r) \/ Read(r) \/ Release(r)
  BY <1>4, SavingStirs
<1>5. CASE CallFails(r) \/ Refused(r)
  BY <1>5, CallFailsStirs, RefusedStirs
<1>6. CASE Rollback(r) /\ ~Accepted(r, fresh.sink)
  BY <1>1, <1>6 DEF Rollback, Set
<1>7. CASE Write(r) /\ ~Accepted(r, fresh.source)
  BY <1>1, <1>7 DEF Write, Set
<1> QED BY <1>2, <1>3, <1>4, <1>5, <1>6, <1>7 DEF Reading

\* What can happen, sorted by what it writes.
Happens ==
  \/ \E r \in Req : Reading(r) /\ lost' = lost
                  /\ (UNCHANGED faults \/ Refused(r) \/ CallFails(r))
  \/ \E r \in Req : Credit(r) /\ Accepted(r, fresh.sink)
  \/ \E r \in Req : Debit(r) /\ Accepted(r, fresh.source)
  \/ \E r \in Req : Rollback(r) /\ Accepted(r, fresh.sink)
  \/ \E r \in Req : Write(r) /\ Accepted(r, fresh.source)
  \/ \E r \in Req : WriteUnanswered(r)
  \/ \E n \in Node : Crash(n)
  \/ Tick \/ UNCHANGED vars

LEMMA Steps == [Next]_vars => Happens
<1> SUFFICES ASSUME [Next]_vars PROVE Happens
  OBVIOUS
<1>0. ASSUME NEW r \in Req, Reading(r), UNCHANGED faults PROVE Happens
  BY <1>0 DEF Happens, faults
<1>1. ASSUME NEW r \in Req, Load(r) \/ Taking(r) PROVE Happens
  <2>1. Reading(r) /\ UNCHANGED faults
    BY <1>1 DEF Reading, Load, Taking, LockFetch, LockRefused, LockGivenUp, LockWrite,
                LockConflict
  <2> QED BY <1>0, <2>1
<1>2. ASSUME NEW r \in Req, Expiring(r) PROVE Happens
  <2>1. CASE Fetch(r) \/ Wait(r) \/ Refetch(r) \/ Unlock(r) \/ UnlockConflict(r)
    <3>1. Reading(r) /\ UNCHANGED faults
      BY <2>1 DEF Reading, Fetch, Wait, Refetch, Unlock, UnlockConflict
    <3> QED BY <1>0, <3>1
  <2>2. CASE Credit(r) \/ Debit(r)
    <3>1. \/ Credit(r) /\ Accepted(r, fresh.sink)
          \/ Debit(r) /\ Accepted(r, fresh.source)
          \/ Refused(r) /\ lost' = lost
      BY <2>2 DEF Credit, Debit, Refused
    <3> QED BY <3>1 DEF Happens, Reading
  <2>3. CASE Rollback(r)
    <3>1. Accepted(r, fresh.sink) \/ (Reading(r) /\ UNCHANGED faults)
      BY <2>3 DEF Reading, Rollback
    <3> QED BY <1>0, <2>3, <3>1 DEF Happens
  <2> QED BY <1>2, <2>1, <2>2, <2>3 DEF Expiring
<1>3. ASSUME NEW r \in Req, Saving(r) PROVE Happens
  <2>1. \/ Write(r) /\ Accepted(r, fresh.source)
        \/ Reading(r) /\ UNCHANGED faults
    BY <1>3 DEF Saving, Reading, Check, Read, Write, Release
  <2> QED BY <1>0, <2>1 DEF Happens
<1>4. ASSUME NEW r \in Req, CallFails(r) PROVE Happens
  <2>1. Reading(r) /\ lost' = lost
    BY <1>4 DEF Reading, CallFails
  <2> QED BY <1>4, <2>1 DEF Happens
<1> QED BY <1>1, <1>2, <1>3, <1>4 DEF Next, Happens

LEMMA NextPoints == PInv /\ [Next]_vars => PInv'
<1> SUFFICES ASSUME PInv, [Next]_vars PROVE PInv'
  OBVIOUS
<1>1. ASSUME NEW r \in Req, Reading(r), lost' = lost PROVE PInv'
  BY <1>1, ReadingStirs, StirsKeeps DEF PInv
<1>2. CASE Tick \/ UNCHANGED vars
  <2>1. UNCHANGED <<source, sink, fresh, req, lost>>
    BY <1>2 DEF Tick, vars, faults
  <2> QED BY <2>1, StutterKeeps
<1> QED BY <1>1, <1>2, Steps, CreditKeeps, DebitKeeps, RollbackKeeps, WriteKeeps,
           UnansweredKeeps, CrashKeeps DEF Happens

(***************************************************************************)
(* For any number of requests, nodes and events, and whatever is refused,  *)
(* fails or crashes (SaveLedgerExpirations, its retries and its rollback,  *)
(* UpsertLoyaltyAccountPointsAsync): as long as no reply of a write is     *)
(* lost, the entry of a deposit or withdrawal that was saved is in one of  *)
(* the two ledgers.                                                        *)
(***************************************************************************)
THEOREM EntriesCorrect == Spec => []EntriesKept
<1>1. Init => PInv
  BY InitPoints
<1>2. PInv => EntriesKept
  <2> SUFFICES ASSUME PInv, lost = 0, NEW e \in Event, Known(e)
               PROVE  source.entry[e].began # "none" \/ sink.credits[e] > 0
    BY DEF EntriesKept
  <2>1. Safe(sink, NoReq)
    BY DEF PInv, Sound
  <2> QED BY <2>1 DEF Safe, Present
<1> QED BY <1>1, <1>2, NextPoints, PTL DEF Spec

-----------------------------------------------------------------------------
(* Induction.                                                              *)

\* A set of naturals that is not empty has a least member.
LEMMA Least ==
  ASSUME NEW S, S \subseteq Nat, S # {}
  PROVE  \E m \in S : \A n \in S : m <= n
<1> DEFINE R == OpToRel(<, Nat)
<1>1. IsWellFoundedOn(R, Nat)
  BY NatLessThanWellFounded
<1>2. \A m, n \in Nat : n < m => <<n, m>> \in R
  BY DEF OpToRel
<1> HIDE DEF R
<1>3. \E m \in S : \A n \in S : <<n, m>> \notin R
  BY <1>1, WFMin
<1>4. PICK m \in S : \A n \in S : <<n, m>> \notin R
  BY <1>3
<1>5. \A n \in S : ~(n < m)
  BY <1>2, <1>4
<1> QED BY <1>4, <1>5

LEMMA Induct ==
  ASSUME NEW S, 0 \in S, \A n \in Nat : n \in S => n + 1 \in S
  PROVE  Nat \subseteq S
<1> SUFFICES ASSUME NEW k \in Nat \ S PROVE FALSE
  OBVIOUS
<1>1. PICK m \in Nat \ S : \A n \in Nat \ S : m <= n
  <2> DEFINE T == Nat \ S
  <2>1. T \subseteq Nat /\ T # {}
    OBVIOUS
  <2> HIDE DEF T
  <2>2. \E i \in T : \A n \in T : i <= n
    BY <2>1, Least
  <2> QED BY <2>2 DEF T
<1>2. m - 1 \in Nat /\ m = (m - 1) + 1
  BY <1>1
<1>3. m - 1 \in S
  BY <1>1, <1>2
<1> QED BY <1>1, <1>2, <1>3

LEMMA OneLess ==
  ASSUME NEW S, IsFiniteSet(S), NEW x \in S
  PROVE  /\ IsFiniteSet(S \ {x})
         /\ Cardinality(S) \in Nat \ {0}
         /\ Cardinality(S \ {x}) = Cardinality(S) - 1
<1>1. Cardinality(S) \in Nat /\ Cardinality(S) # 0
  BY FS_CardinalityType, FS_EmptySet
<1> QED BY <1>1, FS_RemoveElement

\* What holds of {}, and of a set with one member more when it holds of the
\* set, holds of a finite set.
LEMMA SetInduct ==
  ASSUME NEW S, IsFiniteSet(S), NEW P, {} \in P,
         \A s \in SUBSET S : \A x \in S \ s : s \in P => s \cup {x} \in P
  PROVE  S \in P
<1> DEFINE N == {n \in Nat : \A s \in SUBSET S : Cardinality(s) = n => s \in P}
<1>1. 0 \in N
  BY FS_Subset, FS_EmptySet
<1>2. ASSUME NEW n \in Nat, n \in N PROVE n + 1 \in N
  <2> SUFFICES ASSUME NEW s \in SUBSET S, Cardinality(s) = n + 1 PROVE s \in P
    OBVIOUS
  <2>1. IsFiniteSet(s) /\ s # {}
    BY FS_Subset, FS_EmptySet
  <2>2. PICK x : x \in s
    BY <2>1
  <2>3. Cardinality(s \ {x}) = n
    BY <2>1, <2>2, OneLess
  <2>4. s \ {x} \in P /\ s \ {x} \in SUBSET S /\ x \in S \ (s \ {x})
    BY <1>2, <2>2, <2>3
  <2>5. s = (s \ {x}) \cup {x}
    BY <2>2
  <2> QED BY <2>4, <2>5
<1> HIDE DEF N
<1>3. Nat \subseteq N
  BY <1>1, <1>2, Induct
<1>4. Cardinality(S) \in N
  BY <1>3, FS_CardinalityType
<1> QED BY <1>4 DEF N

-----------------------------------------------------------------------------
(* Sums.                                                                   *)

\* The sum over s, told by a function that has the sums over its subsets.
SumFrom(s, f, g) ==
  IF s = {} THEN 0 ELSE LET x == CHOOSE x \in s : TRUE IN f[x] + g[s \ {x}]

Sums(S, f) == CHOOSE g : g = [s \in SUBSET S |-> SumFrom(s, f, g)]

LEMMA TotalIsSum == ASSUME NEW S, NEW f PROVE Total(S, f) = Sums(S, f)[S]
BY DEF Total, MapThenSumSet, MapThenFoldSet, Sums, SumFrom

LEMMA SumsExist ==
  ASSUME NEW S, IsFiniteSet(S), NEW f
  PROVE  \A s \in SUBSET S : Sums(S, f)[s] = SumFrom(s, f, Sums(S, f))
<1> DEFINE D(n) == {s \in SUBSET S : Cardinality(s) <= n}
           N == {n \in Nat : \E g : g = [s \in D(n) |-> SumFrom(s, f, g)]}
<1>0. \A s \in SUBSET S : IsFiniteSet(s) /\ Cardinality(s) \in Nat
  BY FS_Subset, FS_CardinalityType
<1>1. 0 \in N
  <2> DEFINE g == [s \in D(0) |-> 0]
  <2>1. \A s \in D(0) : s = {}
    BY <1>0, FS_EmptySet
  <2>2. \A s \in D(0) : SumFrom(s, f, g) = 0
    BY <2>1 DEF SumFrom
  <2>3. g = [s \in D(0) |-> SumFrom(s, f, g)]
    BY <2>2
  <2> QED BY <2>3
<1>2. ASSUME NEW n \in Nat, n \in N PROVE n + 1 \in N
  <2>1. PICK g : g = [s \in D(n) |-> SumFrom(s, f, g)]
    BY <1>2
  <2> DEFINE h == [s \in D(n + 1) |-> SumFrom(s, f, g)]
  <2>2. D(n) \subseteq D(n + 1)
    BY <1>0
  <2>3. \A s \in D(n) : h[s] = g[s]
    BY <2>1, <2>2
  <2>4. ASSUME NEW s \in D(n + 1) PROVE SumFrom(s, f, h) = SumFrom(s, f, g)
    <3>1. CASE s = {}
      BY <3>1 DEF SumFrom
    <3>2. CASE s # {}
      <4> DEFINE x == CHOOSE x \in s : TRUE
      <4>1. x \in s
        BY <3>2
      <4> HIDE DEF x
      <4>2. s \ {x} \in D(n)
        BY <1>0, <4>1, OneLess
      <4>3. h[s \ {x}] = g[s \ {x}]
        BY <2>3, <4>2
      <4> HIDE DEF h
      <4> QED BY <3>2, <4>3 DEF SumFrom, x
    <3> QED BY <3>1, <3>2
  <2>5. h = [s \in D(n + 1) |-> SumFrom(s, f, h)]
    BY <2>4
  <2> HIDE DEF h
  <2>6. \E k : k = [s \in D(n + 1) |-> SumFrom(s, f, k)]
    BY <2>5
  <2> HIDE DEF D
  <2> QED BY <2>6
<1>3. Cardinality(S) \in N
  <2> HIDE DEF N
  <2>1. Nat \subseteq N
    BY <1>1, <1>2, Induct
  <2> QED BY <2>1, FS_CardinalityType
<1>4. D(Cardinality(S)) = SUBSET S
  BY FS_Subset
<1>5. \E g : g = [s \in SUBSET S |-> SumFrom(s, f, g)]
  BY <1>3, <1>4
<1> DEFINE g == Sums(S, f)
<1>6. g = [s \in SUBSET S |-> SumFrom(s, f, g)]
  BY <1>5 DEF Sums
<1> HIDE DEF g
<1>7. \A s \in SUBSET S : g[s] = SumFrom(s, f, g)
  BY <1>6
<1> QED BY <1>7 DEF g

\* The sums over subsets do not depend on the set they are taken in.
LEMMA SumsOfSubsets ==
  ASSUME NEW S, IsFiniteSet(S), NEW T \in SUBSET S, NEW f
  PROVE  Sums(S, f)[T] = Total(T, f)
<1> DEFINE P == {s \in SUBSET T : Sums(S, f)[s] = Sums(T, f)[s]}
           N == {n \in Nat : \A s \in SUBSET T : Cardinality(s) = n => s \in P}
<1>0. /\ IsFiniteSet(T)
      /\ \A s \in SUBSET T : IsFiniteSet(s) /\ Cardinality(s) \in Nat
      /\ SUBSET T \subseteq SUBSET S
  BY FS_Subset, FS_CardinalityType
<1>1. /\ \A s \in SUBSET T : Sums(T, f)[s] = SumFrom(s, f, Sums(T, f))
      /\ \A s \in SUBSET T : Sums(S, f)[s] = SumFrom(s, f, Sums(S, f))
  BY <1>0, SumsExist
<1>2. 0 \in N
  <2>1. {} \in P
    BY <1>1 DEF SumFrom
  <2> QED BY <1>0, <2>1, FS_EmptySet
<1>3. ASSUME NEW n \in Nat, n \in N PROVE n + 1 \in N
  <2> SUFFICES ASSUME NEW s \in SUBSET T, Cardinality(s) = n + 1
               PROVE  Sums(S, f)[s] = Sums(T, f)[s]
    OBVIOUS
  <2> DEFINE x == CHOOSE x \in s : TRUE
  <2>1. s # {} /\ x \in s
    BY FS_EmptySet
  <2> HIDE DEF x
  <2>2. s \ {x} \in P
    BY <1>0, <1>3, <2>1, OneLess
  <2> QED BY <1>1, <2>1, <2>2 DEF SumFrom, x
<1>4. Cardinality(T) \in N
  <2> HIDE DEF N
  <2>1. Nat \subseteq N
    BY <1>2, <1>3, Induct
  <2> QED BY <1>0, <2>1
<1> QED BY <1>4, TotalIsSum

LEMMA TotalEmpty == \A f : Total({}, f) = 0
BY FS_EmptySet, SumsExist, TotalIsSum DEF SumFrom

\* The first member is summed apart ...
LEMMA TotalFirst ==
  ASSUME NEW S, IsFiniteSet(S), S # {}, NEW f
  PROVE  \E x \in S : Total(S, f) = f[x] + Total(S \ {x}, f)
<1> DEFINE x == CHOOSE x \in S : TRUE
<1>1. x \in S
  OBVIOUS
<1>2. Total(S, f) = f[x] + Sums(S, f)[S \ {x}]
  BY SumsExist, TotalIsSum DEF SumFrom
<1> HIDE DEF x
<1>3. Sums(S, f)[S \ {x}] = Total(S \ {x}, f)
  BY SumsOfSubsets
<1> QED BY <1>1, <1>2, <1>3

LEMMA TotalType ==
  ASSUME NEW S, IsFiniteSet(S), NEW f, \A x \in S : f[x] \in Int
  PROVE  /\ Total(S, f) \in Int
         /\ (\A x \in S : f[x] >= 0) => Total(S, f) >= 0
<1> DEFINE Q(s) == Total(s, f) \in Int /\ ((\A x \in S : f[x] >= 0) => Total(s, f) >= 0)
           N == {n \in Nat : \A s \in SUBSET S : Cardinality(s) = n => Q(s)}
<1>0. \A s \in SUBSET S : IsFiniteSet(s) /\ Cardinality(s) \in Nat
  BY FS_Subset, FS_CardinalityType
<1>1. 0 \in N
  BY <1>0, FS_EmptySet, TotalEmpty
<1>2. ASSUME NEW n \in Nat, n \in N PROVE n + 1 \in N
  <2> SUFFICES ASSUME NEW s \in SUBSET S, Cardinality(s) = n + 1 PROVE Q(s)
    OBVIOUS
  <2>1. PICK c \in s : Total(s, f) = f[c] + Total(s \ {c}, f)
    BY <1>0, FS_EmptySet, TotalFirst
  <2>2. Cardinality(s \ {c}) = n
    BY <1>0, OneLess
  <2>3. Q(s \ {c})
    <3> HIDE DEF Q
    <3> QED BY <1>2, <2>2
  <2> QED BY <2>1, <2>3
<1>3. Cardinality(S) \in N
  <2> HIDE DEF N
  <2>1. Nat \subseteq N
    BY <1>1, <1>2, Induct
  <2> QED BY <1>0, <2>1
<1> QED BY <1>3

\* ... and so can any other be.
LEMMA TotalSplit ==
  ASSUME NEW S, IsFiniteSet(S), NEW f, \A x \in S : f[x] \in Int
  PROVE  \A x \in S : Total(S, f) = f[x] + Total(S \ {x}, f)
<1> DEFINE Q(s) == \A x \in s : Total(s, f) = f[x] + Total(s \ {x}, f)
           N == {n \in Nat : \A s \in SUBSET S : Cardinality(s) = n => Q(s)}
<1>0. \A s \in SUBSET S : IsFiniteSet(s) /\ Cardinality(s) \in Nat /\ Total(s, f) \in Int
  BY FS_Subset, FS_CardinalityType, TotalType
<1>1. 0 \in N
  BY <1>0, FS_EmptySet
<1>2. ASSUME NEW n \in Nat, n \in N PROVE n + 1 \in N
  <2> SUFFICES ASSUME NEW s \in SUBSET S, Cardinality(s) = n + 1 PROVE Q(s)
    OBVIOUS
  <2>1. \A x \in s : Q(s \ {x})
    <3>1. \A x \in s : Cardinality(s \ {x}) = n
      BY <1>0, OneLess
    <3> HIDE DEF Q
    <3> QED BY <1>2, <3>1
  <2> HIDE DEF N
  <2>2. PICK c \in s : Total(s, f) = f[c] + Total(s \ {c}, f)
    BY <1>0, FS_EmptySet, TotalFirst
  <2>3. ASSUME NEW x \in s, x # c PROVE Total(s, f) = f[x] + Total(s \ {x}, f)
    <3>1. Total(s \ {c}, f) = f[x] + Total((s \ {c}) \ {x}, f)
      BY <2>1, <2>3
    <3>2. Total(s \ {x}, f) = f[c] + Total((s \ {x}) \ {c}, f)
      BY <2>1, <2>3
    <3>3. (s \ {c}) \ {x} = (s \ {x}) \ {c}
      OBVIOUS
    <3> DEFINE rest == Total((s \ {c}) \ {x}, f)
    <3>4. rest \in Int /\ f[x] \in Int /\ f[c] \in Int
      BY <1>0
    <3>5. Total(s \ {c}, f) = f[x] + rest /\ Total(s \ {x}, f) = f[c] + rest
      BY <3>1, <3>2, <3>3
    <3> HIDE DEF rest
    <3> QED BY <2>2, <3>4, <3>5
  <2> QED BY <2>2, <2>3
<1>3. Cardinality(S) \in N
  <2> HIDE DEF N
  <2>1. Nat \subseteq N
    BY <1>1, <1>2, Induct
  <2> QED BY <1>0, <2>1
<1> QED BY <1>3

LEMMA TotalSame ==
  ASSUME NEW S, IsFiniteSet(S), NEW f, NEW g,
         \A x \in S : f[x] \in Int /\ g[x] = f[x]
  PROVE  Total(S, g) = Total(S, f)
<1> DEFINE P == {s \in SUBSET S : Total(s, g) = Total(s, f)}
<1>1. {} \in P
  BY TotalEmpty
<1>2. ASSUME NEW s \in SUBSET S, NEW x \in S \ s, s \in P PROVE s \cup {x} \in P
  <2>1. IsFiniteSet(s \cup {x}) /\ s = (s \cup {x}) \ {x}
    BY FS_Subset
  <2>2. /\ Total(s \cup {x}, g) = g[x] + Total(s, g)
        /\ Total(s \cup {x}, f) = f[x] + Total(s, f)
    BY <2>1, TotalSplit
  <2> QED BY <1>2, <2>2
<1> HIDE DEF P
<1>3. S \in P
  BY <1>1, <1>2, SetInduct
<1> QED BY <1>3 DEF P

LEMMA TotalSum ==
  ASSUME NEW S, IsFiniteSet(S), NEW f, NEW g, NEW h,
         \A x \in S : f[x] \in Int /\ g[x] \in Int /\ h[x] = f[x] + g[x]
  PROVE  Total(S, h) = Total(S, f) + Total(S, g)
<1> DEFINE P == {s \in SUBSET S : Total(s, h) = Total(s, f) + Total(s, g)}
<1>1. {} \in P
  BY TotalEmpty
<1>2. ASSUME NEW s \in SUBSET S, NEW x \in S \ s, s \in P PROVE s \cup {x} \in P
  <2>1. IsFiniteSet(s \cup {x}) /\ s = (s \cup {x}) \ {x} /\ IsFiniteSet(s)
    BY FS_Subset
  <2>2. /\ Total(s \cup {x}, g) = g[x] + Total(s, g)
        /\ Total(s \cup {x}, f) = f[x] + Total(s, f)
        /\ Total(s \cup {x}, h) = h[x] + Total(s, h)
    BY <2>1, TotalSplit
  <2>3. Total(s, f) \in Int /\ Total(s, g) \in Int
    BY <2>1, TotalType
  <2> QED BY <1>2, <2>2, <2>3
<1> HIDE DEF P
<1>3. S \in P
  BY <1>1, <1>2, SetInduct
<1> QED BY <1>3 DEF P

\* Members of which f is 0 need not be summed.
LEMMA TotalPart ==
  ASSUME NEW S, IsFiniteSet(S), NEW E \in SUBSET S, NEW f,
         \A x \in S : f[x] \in Int, \A x \in S \ E : f[x] = 0
  PROVE  Total(S, f) = Total(E, f)
<1> DEFINE T == S \ E
           P == {s \in SUBSET T : Total(E \cup s, f) = Total(E, f)}
<1>1. {} \in P
  BY TotalEmpty
<1>2. ASSUME NEW s \in SUBSET T, NEW x \in T \ s, s \in P PROVE s \cup {x} \in P
  <2>1. /\ IsFiniteSet(E \cup (s \cup {x})) /\ E \cup s = (E \cup (s \cup {x})) \ {x}
        /\ IsFiniteSet(E \cup s)
    BY FS_Subset
  <2>2. Total(E \cup (s \cup {x}), f) = f[x] + Total(E \cup s, f)
    BY <2>1, TotalSplit
  <2>3. Total(E \cup s, f) \in Int
    BY <2>1, TotalType
  <2> QED BY <1>2, <2>2, <2>3
<1>3. T \in P
  <2>1. IsFiniteSet(T)
    BY FS_Subset
  <2> HIDE DEF P
  <2> QED BY <1>1, <1>2, <2>1, SetInduct
<1> QED BY <1>3

\* A sum of which one member changes.
LEMMA TotalOne ==
  ASSUME NEW S, IsFiniteSet(S), NEW x \in S, NEW f, NEW g,
         \A y \in S : f[y] \in Int /\ g[y] \in Int, \A y \in S \ {x} : g[y] = f[y]
  PROVE  Total(S, g) = Total(S, f) + g[x] - f[x]
<1>1. Total(S, g) = g[x] + Total(S \ {x}, g) /\ Total(S, f) = f[x] + Total(S \ {x}, f)
  BY TotalSplit
<1>2. IsFiniteSet(S \ {x})
  BY OneLess
<1>3. Total(S \ {x}, g) = Total(S \ {x}, f) /\ Total(S \ {x}, f) \in Int
  BY <1>2, TotalSame, TotalType
<1> QED BY <1>1, <1>3

-----------------------------------------------------------------------------
(* Types of the ledgers and of what a step makes of a request.             *)

LEMMA PointsType ==
  ASSUME NEW led \in Source, NEW E \in SUBSET Event
  PROVE  /\ Points(led, E) \in Nat
         /\ Total(E, [e \in Event |-> led.entry[e].wd]) \in Nat
<1> DEFINE f == [e \in Event |-> led.entry[e].dep]
           g == [e \in Event |-> led.entry[e].wd]
<1>1. /\ IsFiniteSet(E)
      /\ \A e \in E : f[e] \in Int /\ f[e] >= 0 /\ g[e] \in Int /\ g[e] >= 0
  <2>1. \A e \in Event : led.entry[e].dep \in Nat /\ led.entry[e].wd \in Nat
    BY DEF Source, Entry
  <2>2. IsFiniteSet(E)
    BY PointsAssumption, FS_Subset
  <2>3. \A e \in E : f[e] = led.entry[e].dep /\ g[e] = led.entry[e].wd
    OBVIOUS
  <2> HIDE DEF f, g
  <2> QED BY <2>1, <2>2, <2>3
<1>2. Total(E, f) \in Int /\ Total(E, f) >= 0 /\ Total(E, g) \in Int /\ Total(E, g) >= 0
  <2> HIDE DEF f, g
  <2> QED BY <1>1, TotalType
<1> QED BY <1>2 DEF Points

LEMMA OpenedType == Opened \in Source /\ Empty \in Sink /\ IdleRequest \in Request
<1> DEFINE f == [e \in Event |-> Opening[e].dep - Opening[e].wd]
<1>1. IsFiniteSet(Event) /\ \A e \in Event : f[e] \in Int
  BY PointsAssumption DEF Entry
<1>2. Total(Event, f) \in Int
  <2> HIDE DEF f
  <2> QED BY <1>1, TotalType
<1>3. Opened \in Source /\ Empty \in Sink
  BY <1>2, PointsAssumption DEF Opened, Empty, Source, Sink
<1> QED BY <1>3 DEF IdleRequest, Request, PC, Object

LEMMA RequestType ==
  ASSUME NEW r \in Req
  PROVE  /\ Dep(r) \in Nat /\ Wd(r) \in Nat /\ Amount[r] \in Nat /\ DueOf[r] \in Nat
         /\ EventOf[r] \in Event /\ TypeDate(Earned[r]) \in Nat
<1>1. /\ Amount[r] \in Nat /\ DueOf[r] \in Nat /\ EventOf[r] \in Event /\ Earned[r] \in Nat
      /\ EndDate \in Nat /\ Days \in Nat
  BY PointsAssumption
<1> QED BY <1>1 DEF Dep, Wd, TypeDate

LEMMA DatedType ==
  ASSUME NEW led \in Source, now \in Nat
  PROVE  Dated(led) \in Source
<1>1. TypeDate(now) \in Nat
  BY PointsAssumption DEF TypeDate
<1>2. led.entry \in [Event -> Entry] /\ led.balance \in Int /\ led.gone \in Nat
  BY DEF Source
<1>3. \A e \in Event : [led.entry[e] EXCEPT !.due = TypeDate(now)] \in Entry
  BY <1>1, <1>2 DEF Entry
<1> QED BY <1>2, <1>3 DEF Dated, Source

\* The entry of a deposit or withdrawal, before and after it.
Old(led, r) == led.entry[EventOf[r]]

New(led, r) == IF Old(led, r).began = "none" THEN NewEntry(r) ELSE Rewritten(Old(led, r), r)

LEMMA NewType ==
  ASSUME NEW led \in Source, NEW r \in Req
  PROVE  /\ Old(led, r) \in Entry /\ New(led, r) \in Entry
         /\ New(led, r).dep = Dep(r) /\ New(led, r).wd = Wd(r)
         /\ Adjustment(Old(led, r), r) \in Int
<1> DEFINE old == Old(led, r)
<1>1. /\ Dep(r) \in Nat /\ Wd(r) \in Nat /\ Amount[r] \in Nat /\ DueOf[r] \in Nat
      /\ EventOf[r] \in Event /\ TypeDate(Earned[r]) \in Nat
  BY RequestType
<1>2. old \in Entry
  BY <1>1 DEF Old, Source
<1>3. New(led, r) = IF old.began = "none" THEN NewEntry(r) ELSE Rewritten(old, r)
  BY DEF New
<1> HIDE DEF old
<1>4. /\ old.dep \in Nat /\ old.wd \in Nat /\ old.spend \in Int /\ old.due \in Nat
      /\ old.began \in {"none", "deposit", "withdraw"}
  BY <1>2 DEF Entry
<1>5. Adjustment(old, r) \in Int
  BY <1>1, <1>4 DEF Adjustment
<1>6. /\ NewEntry(r) \in Entry
      /\ NewEntry(r).dep = Dep(r) /\ NewEntry(r).wd = Wd(r)
  BY <1>1 DEF NewEntry, Entry
<1>7. /\ Rewritten(old, r) \in Entry
      /\ Rewritten(old, r).dep = Dep(r) /\ Rewritten(old, r).wd = Wd(r)
  <2>1. (IF old.began = "deposit" THEN old.spend + Adjustment(old, r) ELSE old.spend) \in Int
    BY <1>4, <1>5
  <2>2. (IF old.due = 0 THEN TypeDate(Earned[r]) ELSE old.due) \in Nat
    BY <1>1, <1>4
  <2> QED BY <1>1, <1>4, <2>1, <2>2 DEF Rewritten, Entry
<1> QED BY <1>2, <1>3, <1>5, <1>6, <1>7 DEF old

LEMMA RecordedIs ==
  ASSUME NEW led \in Source, NEW r \in Req
  PROVE  Recorded(led, r) = [balance |-> led.balance + Adjustment(Old(led, r), r),
                             entry   |-> [led.entry EXCEPT ![EventOf[r]] = New(led, r)],
                             gone    |-> led.gone]
<1> DEFINE e == EventOf[r]
           n == Adjustment(Old(led, r), r)
           new == New(led, r)
<1>1. led = [balance |-> led.balance, entry |-> led.entry, gone |-> led.gone]
  BY DEF Source
<1>2. Recorded(led, r) = [led EXCEPT !.balance = @ + n, !.entry[e] = new]
  BY DEF Recorded, Old, New
<1> HIDE DEF e, n, new
<1> DEFINE balance == led.balance
           entry == led.entry
           gone == led.gone
<1>3. led = [balance |-> balance, entry |-> entry, gone |-> gone]
  BY <1>1
<1> HIDE DEF balance, entry, gone
<1>4. Recorded(led, r) = [balance |-> balance + n, entry |-> [entry EXCEPT ![e] = new],
                          gone |-> gone]
  BY <1>2, <1>3
<1> QED BY <1>4 DEF balance, entry, gone, n, e, new

LEMMA RecordedType ==
  ASSUME NEW led \in Source, NEW r \in Req
  PROVE  Recorded(led, r) \in Source
<1>1. led.entry \in [Event -> Entry] /\ led.balance \in Int /\ led.gone \in Nat
  BY DEF Source
<1>2. New(led, r) \in Entry /\ Adjustment(Old(led, r), r) \in Int
  BY NewType
<1> QED BY <1>1, <1>2, RecordedIs DEF Source

LEMMA TakenType ==
  ASSUME NEW led \in Source, NEW e \in Event, NEW n \in Nat
  PROVE  Taken(led, e, n) \in Int
<1> DEFINE f == [g \in Event |-> led.entry[g].spend]
<1>1. IsFiniteSet(Event) /\ \A g \in Event : f[g] \in Int
  BY PointsAssumption DEF Source, Entry
<1>2. ASSUME NEW E \in SUBSET Event PROVE Total(E, f) \in Int
  <2> HIDE DEF f
  <2> QED BY <1>1, FS_Subset, TotalType
<1>3. SpendableBefore(led, e) \in Int
  BY <1>2 DEF SpendableBefore
<1>4. led.entry[e].spend \in Int
  BY DEF Source, Entry
<1> QED BY <1>3, <1>4 DEF Taken

LEMMA SpentType ==
  ASSUME NEW led \in Source, NEW n \in Nat
  PROVE  Spent(led, n) \in Source
<1>1. /\ led.balance \in Int /\ led.entry \in [Event -> Entry] /\ led.gone \in Nat
      /\ led = [balance |-> led.balance, entry |-> led.entry, gone |-> led.gone]
  BY DEF Source
<1>2. \A f \in Event : [led.entry[f] EXCEPT !.spend = @ - Taken(led, f, n)] \in Entry
  BY <1>1, TakenType DEF Entry
<1> QED BY <1>1, <1>2 DEF Spent, Source

LEMMA UpsertedType ==
  ASSUME NEW led \in Source, NEW r \in Req
  PROVE  Upserted(led, r) \in Source
<1>1. Recorded(led, r) \in Source /\ Amount[r] \in Nat
  BY RecordedType, RequestType
<1>2. Spent(Recorded(led, r), Amount[r]) \in Source
  BY <1>1, SpentType
<1> QED BY <1>1, <1>2 DEF Upserted

LEMMA CreditedType ==
  ASSUME NEW snk \in Sink, NEW led \in Source, NEW E \in SUBSET Event
  PROVE  Credited(snk, led, E) \in Sink
<1>1. Points(led, E) \in Nat
  BY PointsType
<1> QED BY <1>1 DEF Credited, Sink

LEMMA DebitedType ==
  ASSUME NEW led \in Source, NEW E \in SUBSET Event
  PROVE  Debited(led, E) \in Source
<1>1. /\ Points(led, E) \in Nat /\ NoEntry \in Entry
      /\ Total(E, [e \in Event |-> led.entry[e].wd]) \in Nat
  BY PointsType DEF NoEntry, Entry
<1>2. led.balance \in Int /\ led.entry \in [Event -> Entry] /\ led.gone \in Nat
  BY DEF Source
<1> QED BY <1>1, <1>2 DEF Debited, Source

LEMMA AtType ==
  ASSUME NEW q \in Request, NEW pc \in PC
  PROVE  At(q, pc) \in Request
BY OpenedType DEF At, Request

LEMMA ForgetType ==
  ASSUME TypeOK, NEW r \in Req, NEW pc \in PC
  PROVE  Forget(r, pc) \in Request
<1> DEFINE p == [req[r] EXCEPT !.source = Opened, !.sink = Empty, !.expired = {}]
<1>1. p \in Request
  BY OpenedType DEF Request, TypeOK
<1> HIDE DEF p
<1> QED BY <1>1, AtType DEF Forget, p

LEMMA BailType ==
  ASSUME NEW r \in Req
  PROVE  Bail(r) \in PC /\ Thrown(r) \in PC
BY DEF Bail, Thrown, PC, EndPC

LEMMA ResumedType ==
  ASSUME TypeOK, NEW r \in Req, NEW ok
  PROVE  Resumed(r, ok) \in Request
<1> DEFINE next == IF ~ok THEN Bail(r) ELSE IF Kind[r] = "read" THEN "done" ELSE "check"
           p == Forget(r, next)
<1>1. next \in PC
  BY BailType DEF PC, EndPC
<1> HIDE DEF next
<1>2. p \in Request
  BY <1>1, ForgetType
<1>3. Resumed(r, ok) = [p EXCEPT !.tries = 0, !.retries = 0, !.exp = 0,
                                 !.object = "own", !.good = FALSE]
  BY DEF Resumed, next
<1> HIDE DEF p
<1>4. [p EXCEPT !.tries = 0, !.retries = 0] \in Request
  BY <1>2 DEF Request
<1> DEFINE o == [p EXCEPT !.tries = 0, !.retries = 0]
<1>5. Resumed(r, ok) = [o EXCEPT !.exp = 0, !.object = "own", !.good = FALSE]
  BY <1>3
<1> HIDE DEF o
<1> QED BY <1>4, <1>5 DEF Request, Object, o

LEMMA FetchedType ==
  ASSUME TypeOK, NEW r \in Req, NEW pc \in PC
  PROVE  Fetched(r, pc) \in Request
<1>1. Dated(source) \in Source
  BY DatedType DEF TypeOK
<1>2. Expired(Dated(source)) \in SUBSET Event
  BY DEF Expired
<1> QED BY <1>1, <1>2 DEF Fetched, Request, TypeOK

LEMMA GoodType ==
  ASSUME TypeOK, NEW r \in Req, NEW pc \in PC
  PROVE  /\ [Forget(r, pc) EXCEPT !.good = TRUE] \in Request
         /\ [Forget(r, pc) EXCEPT !.saved = TRUE] \in Request
<1> DEFINE p == Forget(r, pc)
<1>1. p \in Request
  BY ForgetType
<1> HIDE DEF p
<1>2. [p EXCEPT !.good = TRUE] \in Request /\ [p EXCEPT !.saved = TRUE] \in Request
  BY <1>1 DEF Request
<1> QED BY <1>2 DEF p

LEMMA ChangedType ==
  ASSUME TypeOK, NEW r \in Req
  PROVE  /\ Changed(r) \in Source /\ DebitSource(r) \in Source /\ CreditSink(r) \in Sink
<1>1. req[r].source \in Source /\ req[r].sink \in Sink /\ req[r].expired \in SUBSET Event
  BY DEF TypeOK, Request
<1> QED BY <1>1, UpsertedType, CreditedType, DebitedType
        DEF Changed, DebitSource, CreditSink

-----------------------------------------------------------------------------
(* Types of the steps.                                                     *)

ReqType == req' \in [Req -> Request]

FreshSet == [acct: SUBSET (Req \X Object), source: SUBSET Req, sink: SUBSET Req]

LEMMA SetType ==
  ASSUME TypeOK, NEW r \in Req, NEW p \in Request, Set(r, p)
  PROVE  ReqType
BY DEF TypeOK, Set, ReqType

LEMMA GoType ==
  ASSUME TypeOK, NEW r \in Req, NEW pc \in PC, Go(r, pc)
  PROVE  ReqType
<1>1. At(req[r], pc) \in Request
  BY AtType DEF TypeOK
<1> QED BY <1>1, SetType DEF Go

LEMMA FailureType ==
  ASSUME TypeOK, NEW r \in Req, Failure(r), Calling(r)
  PROVE  ReqType
<1>1. req[r].pc \in PC
  BY DEF TypeOK, Request
<1>2. CASE req[r].pc \in {"lock", "locking", "relock", "relocking"}
  <2>1. Go(r, Thrown(r))
    BY <1>2 DEF Failure
  <2> QED BY <2>1, GoType, BailType
<1>3. CASE req[r].pc \in {"fetch", "check", "read"}
  <2>1. Go(r, Bail(r))
    BY <1>3 DEF Failure
  <2> QED BY <2>1, GoType, BailType
<1>4. CASE req[r].pc = "write"
  <2>1. Set(r, Forget(r, "release")) /\ "release" \in PC
    BY <1>4 DEF Failure, PC
  <2> QED BY <2>1, SetType, ForgetType
<1>5. CASE req[r].pc \in {"credit", "refetch", "rollback"}
  <2>1. Set(r, Forget(r, "unlock")) /\ "unlock" \in PC
    BY <1>5 DEF Failure, PC
  <2> QED BY <2>1, SetType, ForgetType
<1>6. CASE req[r].pc = "debit"
  <2>1. Go(r, "rollback") /\ "rollback" \in PC
    BY <1>6 DEF Failure, PC
  <2> QED BY <2>1, GoType
<1>7. CASE req[r].pc = "unlock"
  <2>1. Set(r, Resumed(r, FALSE))
    BY <1>7 DEF Failure
  <2> QED BY <2>1, SetType, ResumedType
<1>8. CASE req[r].pc = "release"
  <2>1. Go(r, "failed") /\ "failed" \in PC
    BY <1>8 DEF Failure, PC, EndPC
  <2> QED BY <2>1, GoType
<1> QED BY <1>1, <1>2, <1>3, <1>4, <1>5, <1>6, <1>7, <1>8 DEF Calling, PC

\* The rest of the type invariant.
Stored ==
  /\ acct \in [key: Keys, exp: Nat]
  /\ source \in Source
  /\ sink \in Sink
  /\ fresh \in FreshSet
  /\ sem \in [Node -> Req \cup {NoReq}]
  /\ now \in Nat
  /\ conflicts \in Nat /\ failed \in Nat /\ lost \in Nat /\ crashes \in Nat

LEMMA TypeParts ==
  /\ TypeOK <=> Stored /\ req \in [Req -> Request]
  /\ TypeOK' <=> Stored' /\ ReqType
BY DEF TypeOK, Stored, FreshSet, ReqType

\* Who may hold copies after a step of r.
LEMMA FreshType ==
  ASSUME TypeOK, NEW r \in Req
  PROVE  /\ Dropped(r) \in FreshSet
         /\ \A S \in SUBSET (Req \X Object) : [fresh EXCEPT !.acct = S] \in FreshSet
         /\ [Dropped(r) EXCEPT !.acct = {}] \in FreshSet
         /\ [Dropped(r) EXCEPT !.source = {}] \in FreshSet
         /\ [Dropped(r) EXCEPT !.sink = {}] \in FreshSet
         /\ [fresh EXCEPT !.source = {}] \in FreshSet
         /\ [fresh EXCEPT !.sink = {}] \in FreshSet
         /\ [fresh EXCEPT !.sink = {r}] \in FreshSet
         /\ [fresh EXCEPT !.source = @ \cup {r}] \in FreshSet
         /\ [fresh EXCEPT !.source = @ \cup {r}, !.sink = @ \cup {r}] \in FreshSet
         /\ GivenBack(r) \in [Node -> Req \cup {NoReq}]
<1>1. fresh \in FreshSet
  BY DEF TypeOK, FreshSet
<1>2. Dropped(r) \in FreshSet
  BY <1>1 DEF Dropped, FreshSet
<1> DEFINE d == Dropped(r)
<1>3. /\ [d EXCEPT !.acct = {}] \in FreshSet
      /\ [d EXCEPT !.source = {}] \in FreshSet
      /\ [d EXCEPT !.sink = {}] \in FreshSet
  <2> HIDE DEF d
  <2>1. d \in FreshSet
    BY <1>2 DEF d
  <2> QED BY <2>1 DEF FreshSet
<1>4. /\ \A S \in SUBSET (Req \X Object) : [fresh EXCEPT !.acct = S] \in FreshSet
      /\ [fresh EXCEPT !.source = {}] \in FreshSet
      /\ [fresh EXCEPT !.sink = {}] \in FreshSet
      /\ [fresh EXCEPT !.sink = {r}] \in FreshSet
  BY <1>1 DEF FreshSet
<1>5. /\ [fresh EXCEPT !.source = @ \cup {r}] \in FreshSet
      /\ [fresh EXCEPT !.source = @ \cup {r}, !.sink = @ \cup {r}] \in FreshSet
  BY <1>1 DEF FreshSet
<1>6. GivenBack(r) \in [Node -> Req \cup {NoReq}]
  BY DEF GivenBack, TypeOK
<1> QED BY <1>2, <1>3, <1>4, <1>5, <1>6

LEMMA StartType == Init => TypeOK
<1> SUFFICES ASSUME Init PROVE TypeOK
  OBVIOUS
<1>1. Opened \in Source /\ Empty \in Sink /\ IdleRequest \in Request
  BY OpenedType
<1>2. Unlocked \in [key: Keys, exp: Nat]
  BY DEF Unlocked, Keys
<1> QED BY <1>1, <1>2 DEF Init, TypeOK

LEMMA TakingType ==
  ASSUME TypeOK, NEW r \in Req, Load(r) \/ Taking(r)
  PROVE  TypeOK'
<1>0. /\ req[r] \in Request /\ Locking(r) \in Object /\ Stored
      /\ fresh.acct \in SUBSET (Req \X Object)
  BY TypeParts DEF TypeOK, Locking, Object
<1>9. /\ fresh.acct \cup {<<r, Locking(r)>>} \in SUBSET (Req \X Object)
      /\ fresh.acct \cup {<<r, "own">>} \in SUBSET (Req \X Object)
      /\ <<r, Locking(r)>> \in Keys
  BY <1>0 DEF Object, Keys
<1>1. CASE Load(r)
  <2>1. ReqType
    <3>1. PICK pc \in {"fetch", "lock"} : Go(r, pc)
      BY <1>1 DEF Load
    <3> QED BY <3>1, GoType DEF PC
  <2>2. fresh' \in FreshSet
    BY <1>0, <1>1, <1>9, FreshType DEF Load, Stored
  <2> QED BY <1>0, <1>1, <2>1, <2>2, TypeParts DEF Load, Stored, faults
<1>2. CASE LockFetch(r)
  <2> DEFINE p == [req[r] EXCEPT !.pc = IF @ = "lock" THEN "locking" ELSE "relocking",
                                 !.exp = now + Lease[Locking(r)]]
  <2>1. now + Lease[Locking(r)] \in Nat
    BY <1>0, PointsAssumption DEF TypeOK
  <2>2. p \in Request
    BY <1>0, <2>1 DEF Request, PC
  <2>3. ReqType
    BY <1>2, <2>2, SetType DEF LockFetch
  <2>4. fresh' \in FreshSet
    BY <1>2, <1>9, FreshType DEF LockFetch
  <2> QED BY <1>0, <1>2, <2>3, <2>4, TypeParts DEF LockFetch, Stored, faults
<1>3. CASE LockRefused(r)
  <2>1. [req[r] EXCEPT !.tries = @ + 1] \in Request
    BY <1>0 DEF Request
  <2>2. ReqType
    BY <1>3, <2>1, SetType DEF LockRefused
  <2> QED BY <1>0, <1>3, <2>2, TypeParts DEF LockRefused, Stored, faults
<1>4. CASE LockGivenUp(r)
  <2>1. ReqType
    <3>1. Go(r, "failed") \/ Set(r, Forget(r, Bail(r)))
      BY <1>4 DEF LockGivenUp
    <3> QED BY <3>1, GoType, SetType, BailType, ForgetType DEF PC, EndPC
  <2>2. fresh' \in FreshSet /\ sem' \in [Node -> Req \cup {NoReq}]
    BY <1>0, <1>4, FreshType DEF LockGivenUp, Stored
  <2> QED BY <1>0, <1>4, <2>1, <2>2, TypeParts DEF LockGivenUp, Stored, faults
<1>5. CASE LockWrite(r)
  <2>1. /\ [req[r] EXCEPT !.pc = "fetch", !.tries = 0, !.exp = 0, !.leased = req[r].exp]
             \in Request
        /\ [req[r] EXCEPT !.pc = "credit", !.exp = 0, !.object = "exp"] \in Request
    BY <1>0 DEF Request, PC, Object
  <2>2. ReqType
    BY <1>5, <2>1, SetType DEF LockWrite
  <2>3. {<<r, Locking(r)>>} \in SUBSET (Req \X Object)
    BY <1>0
  <2>4. fresh' \in FreshSet
    BY <1>5, <2>3, FreshType DEF LockWrite, WriteAcct
  <2>5. acct' \in [key: Keys, exp: Nat]
    BY <1>0, <1>5, <1>9 DEF LockWrite, WriteAcct, Request
  <2> QED BY <1>0, <1>5, <2>2, <2>4, <2>5, TypeParts DEF LockWrite, Stored, faults
<1>6. CASE LockConflict(r)
  <2>1. ReqType
    BY <1>6, GoType, BailType DEF LockConflict
  <2> QED BY <1>0, <1>6, <2>1, TypeParts DEF LockConflict, Stored, faults
<1> QED BY <1>1, <1>2, <1>3, <1>4, <1>5, <1>6 DEF Taking

LEMMA RefusedType ==
  ASSUME TypeOK, NEW r \in Req, Refused(r), UNCHANGED <<acct, sem, now>>
  PROVE  TypeOK'
<1>1. req[r] \in Request /\ Stored
  BY TypeParts DEF TypeOK
<1>2. [req[r] EXCEPT !.pc = "refetch", !.retries = @ + 1] \in Request
  <2>1. req[r].retries + 1 \in Nat /\ "refetch" \in PC
    BY <1>1 DEF Request, PC
  <2> QED BY <1>1, <2>1 DEF Request
<1>3. Forget(r, "unlock") \in Request
  BY ForgetType DEF PC
<1>4. ReqType
  BY <1>2, <1>3, SetType DEF Refused
<1> QED BY <1>1, <1>4, TypeParts DEF Refused, Stored

LEMMA ExpiringType ==
  ASSUME TypeOK, NEW r \in Req, Expiring(r)
  PROVE  TypeOK'
<1>0. req[r] \in Request /\ Stored
  BY TypeParts DEF TypeOK
<1>1. CASE Fetch(r)
  <2>1. ReqType
    <3>1. Go(r, "done") \/ Go(r, "check") \/ Set(r, Fetched(r, "wait"))
      BY <1>1 DEF Fetch
    <3> QED BY <3>1, GoType, SetType, FetchedType DEF PC, EndPC
  <2>2. fresh' \in FreshSet
    BY <1>0, <1>1, FreshType DEF Fetch, Stored
  <2> QED BY <1>0, <1>1, <2>1, <2>2, TypeParts DEF Fetch, Stored, faults
<1>2. CASE Wait(r)
  <2>1. ReqType
    BY <1>2, GoType DEF Wait, PC
  <2>2. sem' \in [Node -> Req \cup {NoReq}]
    BY <1>0, <1>2 DEF Wait, Stored
  <2> QED BY <1>0, <1>2, <2>1, <2>2, TypeParts DEF Wait, Stored, faults
<1>3. CASE Credit(r)
  <2>1. CASE Accepted(r, fresh.sink)
    <3>1. ReqType
      BY <1>3, <2>1, GoType DEF Credit, PC
    <3>2. fresh' \in FreshSet /\ sink' \in Sink
      BY <1>3, <2>1, FreshType, ChangedType DEF Credit
    <3> QED BY <1>0, <1>3, <2>1, <3>1, <3>2, TypeParts DEF Credit, Stored, faults
  <2>2. CASE ~Accepted(r, fresh.sink)
    BY <1>3, <2>2, RefusedType DEF Credit
  <2> QED BY <2>1, <2>2
<1>4. CASE Debit(r)
  <2>1. CASE Accepted(r, fresh.source)
    <3>1. ReqType
      BY <1>4, <2>1, SetType, GoodType DEF Debit, PC
    <3>2. fresh' \in FreshSet /\ source' \in Source
      BY <1>4, <2>1, FreshType, ChangedType DEF Debit
    <3> QED BY <1>0, <1>4, <2>1, <3>1, <3>2, TypeParts DEF Debit, Stored, faults
  <2>2. CASE ~Accepted(r, fresh.source)
    BY <1>4, <2>2, RefusedType DEF Debit
  <2> QED BY <2>1, <2>2
<1>5. CASE Refetch(r)
  <2>1. ReqType
    <3>1. Set(r, [Forget(r, "unlock") EXCEPT !.good = TRUE]) \/ Set(r, Fetched(r, "credit"))
      BY <1>5 DEF Refetch
    <3> QED BY <3>1, SetType, FetchedType, GoodType DEF PC
  <2>2. fresh' \in FreshSet
    BY <1>5, FreshType DEF Refetch
  <2> QED BY <1>0, <1>5, <2>1, <2>2, TypeParts DEF Refetch, Stored, faults
<1>6. CASE Rollback(r)
  <2>1. ReqType
    BY <1>6, SetType, ForgetType DEF Rollback, PC
  <2>2. fresh' \in FreshSet
    BY <1>6, FreshType DEF Rollback
  <2>3. sink' \in Sink
    BY <1>0, <1>6 DEF Rollback, Stored, Request
  <2> QED BY <1>0, <1>6, <2>1, <2>2, <2>3, TypeParts DEF Rollback, Stored, faults
<1>7. CASE Unlock(r)
  <2>1. ReqType
    BY <1>7, SetType, ResumedType DEF Unlock
  <2>2. fresh' \in FreshSet /\ sem' \in [Node -> Req \cup {NoReq}]
    BY <1>7, FreshType DEF Unlock
  <2>3. acct' \in [key: Keys, exp: Nat]
    BY <1>7 DEF Unlock, Unlocked, Keys
  <2> QED BY <1>0, <1>7, <2>1, <2>2, <2>3, TypeParts DEF Unlock, Stored, faults
<1>8. CASE UnlockConflict(r)
  <2>1. ReqType
    BY <1>8, SetType, ResumedType DEF UnlockConflict
  <2>2. fresh' \in FreshSet
    BY <1>8, FreshType DEF UnlockConflict
  <2> QED BY <1>0, <1>8, <2>1, <2>2, TypeParts DEF UnlockConflict, Stored, faults
<1> QED BY <1>1, <1>2, <1>3, <1>4, <1>5, <1>6, <1>7, <1>8 DEF Expiring

LEMMA SavingType ==
  ASSUME TypeOK, NEW r \in Req, Saving(r)
  PROVE  TypeOK'
<1>0. req[r] \in Request /\ Stored
  BY TypeParts DEF TypeOK
<1>1. CASE Check(r)
  <2>1. ReqType
    <3>1. Go(r, "release") \/ Go(r, "read")
      BY <1>1 DEF Check
    <3> QED BY <3>1, GoType DEF PC
  <2> QED BY <1>0, <1>1, <2>1, TypeParts DEF Check, Stored, faults
<1>2. CASE Read(r)
  <2>1. [req[r] EXCEPT !.pc = "write", !.source = source] \in Request
    BY <1>0 DEF Request, PC, Stored
  <2>2. ReqType
    BY <1>2, <2>1, GoType, SetType DEF Read, PC
  <2>3. fresh' \in FreshSet
    BY <1>0, <1>2, FreshType DEF Read, Stored
  <2> QED BY <1>0, <1>2, <2>2, <2>3, TypeParts DEF Read, Stored, faults
<1>3. CASE Write(r)
  <2>1. ReqType
    BY <1>3, SetType, ForgetType, GoodType DEF Write, PC
  <2>2. fresh' \in FreshSet /\ source' \in Source
    BY <1>0, <1>3, FreshType, ChangedType DEF Write, Stored
  <2> QED BY <1>0, <1>3, <2>1, <2>2, TypeParts DEF Write, Stored, faults
<1>4. CASE Release(r)
  <2>1. ReqType
    <3>1. Go(r, "done") \/ Go(r, "failed")
      BY <1>4 DEF Release
    <3> QED BY <3>1, GoType DEF PC, EndPC
  <2>2. fresh' \in FreshSet
    BY <1>0, <1>4, FreshType DEF Release, WriteAcct, Stored
  <2>3. acct' \in [key: Keys, exp: Nat]
    BY <1>0, <1>4 DEF Release, WriteAcct, Unlocked, Keys, Stored
  <2> QED BY <1>0, <1>4, <2>1, <2>2, <2>3, TypeParts DEF Release, Stored, faults
<1> QED BY <1>1, <1>2, <1>3, <1>4 DEF Saving

LEMMA FaultType ==
  ASSUME TypeOK, NEW r \in Req, CallFails(r) \/ WriteUnanswered(r)
  PROVE  TypeOK'
<1>0. req[r] \in Request /\ Stored
  BY TypeParts DEF TypeOK
<1>1. Failure(r) /\ Calling(r)
  BY DEF CallFails, WriteUnanswered, AcctUnanswered, LedgerUnanswered, Calling, EndPC
<1>2. ReqType
  BY <1>1, FailureType
<1>3. CASE CallFails(r)
  BY <1>0, <1>2, <1>3, TypeParts DEF CallFails, Stored
<1>4. CASE WriteUnanswered(r)
  <2>1. CASE AcctUnanswered(r)
    <3>1. fresh' \in FreshSet
      BY <2>1, FreshType DEF AcctUnanswered
    <3>2. acct' \in [key: Keys, exp: Nat]
      <4>1. <<r, Locking(r)>> \in Keys /\ req[r].exp \in Nat /\ Unlocked \in [key: Keys, exp: Nat]
        BY <1>0 DEF Keys, Locking, Object, Request, Unlocked
      <4> QED BY <2>1, <4>1 DEF AcctUnanswered
    <3> QED BY <1>0, <1>2, <1>4, <2>1, <3>1, <3>2, TypeParts
            DEF WriteUnanswered, AcctUnanswered, Stored
  <2>2. CASE LedgerUnanswered(r)
    <3>1. fresh' \in FreshSet
      BY <2>2, FreshType DEF LedgerUnanswered
    <3>2. source' \in Source /\ sink' \in Sink
      BY <1>0, <2>2, ChangedType DEF LedgerUnanswered, Stored, Request
    <3> QED BY <1>0, <1>2, <1>4, <2>2, <3>1, <3>2, TypeParts
            DEF WriteUnanswered, LedgerUnanswered, Stored
  <2> QED BY <1>4, <2>1, <2>2 DEF WriteUnanswered
<1> QED BY <1>3, <1>4

LEMMA CrashType ==
  ASSUME TypeOK, NEW n \in Node, Crash(n)
  PROVE  TypeOK'
<1>1. ReqType
  <2>1. \A q \in Req : req[q] \in Request /\ Forget(q, "dead") \in Request
    BY ForgetType DEF TypeOK, PC, EndPC
  <2> QED BY <2>1 DEF Crash, ReqType
<1>2. fresh' \in FreshSet
  BY DEF Crash, TypeOK, FreshSet
<1>3. sem' \in [Node -> Req \cup {NoReq}]
  BY DEF Crash, TypeOK
<1> QED BY <1>1, <1>2, <1>3, TypeParts DEF Crash, Stored

LEMMA NextType == TypeOK /\ [Next]_vars => TypeOK'
<1> SUFFICES ASSUME TypeOK, [Next]_vars PROVE TypeOK'
  OBVIOUS
<1>1. CASE UNCHANGED vars
  BY <1>1 DEF vars, faults, TypeOK
<1>2. CASE Tick
  BY <1>2 DEF Tick, faults, TypeOK
<1> QED BY <1>1, <1>2, TakingType, ExpiringType, SavingType, FaultType, CrashType DEF Next

-----------------------------------------------------------------------------
(* Ledgers in balance.                                                     *)

\* What the entries of a ledger add up to.
Sum(entry) == Total(Event, [e \in Event |-> entry[e].dep - entry[e].wd])

\* The balance is that sum, once the withdrawals that have expired are back.
Ledger(led) == led.balance + led.gone = Sum(led.entry)

LEMMA LedgerOpened == Ledger(Opened)
<1>1. Opened.balance \in Int /\ Opened.gone = 0 /\ Opened.balance = Sum(Opened.entry)
  BY OpenedType DEF Opened, Source, Sum
<1> QED BY <1>1 DEF Ledger

\* One entry changes, and the sum by the difference.
LEMMA SumOne ==
  ASSUME NEW old \in [Event -> Entry], NEW e \in Event, NEW new \in Entry
  PROVE  Sum([old EXCEPT ![e] = new])
           = Sum(old) + (new.dep - new.wd) - (old[e].dep - old[e].wd)
<1> DEFINE f == [x \in Event |-> old[x].dep - old[x].wd]
           next == [old EXCEPT ![e] = new]
           g == [x \in Event |-> next[x].dep - next[x].wd]
<1>1. next \in [Event -> Entry] /\ IsFiniteSet(Event)
  BY PointsAssumption
<1>2. \A x \in Event : f[x] \in Int /\ g[x] \in Int
  <2> HIDE DEF next
  <2> QED BY <1>1 DEF Entry
<1>3. \A x \in Event \ {e} : g[x] = f[x]
  OBVIOUS
<1>4. g[e] = new.dep - new.wd /\ f[e] = old[e].dep - old[e].wd
  OBVIOUS
<1>5. Total(Event, g) = Total(Event, f) + g[e] - f[e]
  <2> HIDE DEF f, g
  <2> QED BY <1>1, <1>2, <1>3, TotalOne
<1>6. Sum(old) = Total(Event, f) /\ Sum(next) = Total(Event, g)
  BY DEF Sum
<1>7. Total(Event, f) \in Int
  <2> HIDE DEF f
  <2> QED BY <1>1, <1>2, TotalType
<1>8. f[e] \in Int /\ g[e] \in Int
  BY <1>2
<1> HIDE DEF f, g, next
<1>9. Sum(next) = Sum(old) + (new.dep - new.wd) - (old[e].dep - old[e].wd)
  BY <1>4, <1>5, <1>6, <1>7, <1>8
<1> QED BY <1>9 DEF next

\* Entries with the same points have the same sum.
LEMMA SumSame ==
  ASSUME NEW old \in [Event -> Entry], NEW new \in [Event -> Entry],
         \A e \in Event : new[e].dep = old[e].dep /\ new[e].wd = old[e].wd
  PROVE  Sum(new) = Sum(old)
<1> DEFINE f == [x \in Event |-> old[x].dep - old[x].wd]
           g == [x \in Event |-> new[x].dep - new[x].wd]
<1>1. \A x \in Event : f[x] \in Int /\ g[x] = f[x]
  BY DEF Entry
<1>2. Total(Event, g) = Total(Event, f)
  <2> HIDE DEF f, g
  <2> QED BY <1>1, PointsAssumption, TotalSame
<1> QED BY <1>2 DEF Sum

LEMMA LedgerDated ==
  ASSUME NEW led \in Source, Ledger(led), now \in Nat
  PROVE  Ledger(Dated(led))
<1> DEFINE new == Dated(led)
<1>1. new.balance = led.balance /\ new.gone = led.gone
  BY DEF Dated, Source
<1>2. new.entry \in [Event -> Entry] /\ led.entry \in [Event -> Entry]
  BY DatedType DEF Source
<1>3. \A e \in Event : new.entry[e].dep = led.entry[e].dep /\ new.entry[e].wd = led.entry[e].wd
  <2>1. \A e \in Event : new.entry[e] = IF led.entry[e].began # "none" /\ led.entry[e].due = 0
                                       THEN [led.entry[e] EXCEPT !.due = TypeDate(now)]
                                       ELSE led.entry[e]
    BY DEF Dated, Source
  <2> HIDE DEF new
  <2> QED BY <1>2, <2>1 DEF Entry
<1> HIDE DEF new
<1>4. Sum(new.entry) = Sum(led.entry)
  BY <1>2, <1>3, SumSame
<1>5. Ledger(new)
  BY <1>1, <1>4 DEF Ledger
<1> QED BY <1>5 DEF new

LEMMA LedgerRecorded ==
  ASSUME NEW led \in Source, Ledger(led), NEW r \in Req
  PROVE  Ledger(Recorded(led, r))
<1> DEFINE c == EventOf[r]
           old == Old(led, r)
           new == New(led, r)
           next == [led.entry EXCEPT ![c] = new]
           n == Adjustment(old, r)
<1>1. /\ c \in Event /\ old \in Entry /\ new \in Entry
      /\ new.dep = Dep(r) /\ new.wd = Wd(r) /\ n \in Int /\ old = led.entry[c]
  BY NewType, RequestType DEF Old
<1>2. /\ led.entry \in [Event -> Entry] /\ led.balance \in Int /\ led.gone \in Nat
      /\ led.balance + led.gone = Sum(led.entry)
  BY DEF Source, Ledger
<1>3. n = (Dep(r) - old.dep) - (Wd(r) - old.wd)
  BY DEF Adjustment
<1>4. Recorded(led, r) = [balance |-> led.balance + n, entry |-> next, gone |-> led.gone]
  BY RecordedIs
<1>5. Sum(next) = Sum(led.entry) + (new.dep - new.wd) - (old.dep - old.wd)
  <2> HIDE DEF new, c, old
  <2> QED BY <1>1, <1>2, SumOne
<1>6. old.dep \in Nat /\ old.wd \in Nat /\ Dep(r) \in Nat /\ Wd(r) \in Nat
  BY <1>1, RequestType DEF Entry
<1> HIDE DEF n, next, new, old, c
<1>7. (led.balance + n) + led.gone = Sum(next)
  BY <1>1, <1>2, <1>3, <1>5, <1>6
<1> QED BY <1>4, <1>7 DEF Ledger

LEMMA LedgerSpent ==
  ASSUME NEW led \in Source, Ledger(led), NEW n \in Nat
  PROVE  Ledger(Spent(led, n))
<1> DEFINE rest == [x \in Event |-> [led.entry[x] EXCEPT !.spend = @ - Taken(led, x, n)]]
<1>1. /\ led.entry \in [Event -> Entry]
      /\ led = [balance |-> led.balance, entry |-> led.entry, gone |-> led.gone]
  BY DEF Source
<1>2. \A x \in Event : /\ rest[x] \in Entry /\ rest[x].dep = led.entry[x].dep
                       /\ rest[x].wd = led.entry[x].wd
  <2>1. \A x \in Event : led.entry[x].spend - Taken(led, x, n) \in Int
    BY <1>1, TakenType DEF Entry
  <2> QED BY <1>1, <2>1 DEF Entry
<1>3. Spent(led, n) = [balance |-> led.balance, entry |-> rest, gone |-> led.gone]
  BY <1>1 DEF Spent
<1>4. rest \in [Event -> Entry]
  BY <1>2
<1> HIDE DEF rest
<1>5. Sum(rest) = Sum(led.entry)
  BY <1>1, <1>2, <1>4, SumSame
<1> QED BY <1>3, <1>5 DEF Ledger

LEMMA LedgerUpserted ==
  ASSUME NEW led \in Source, Ledger(led), NEW r \in Req
  PROVE  Ledger(Upserted(led, r))
<1>1. Recorded(led, r) \in Source /\ Ledger(Recorded(led, r)) /\ Amount[r] \in Nat
  BY RecordedType, LedgerRecorded, RequestType
<1>2. Ledger(Spent(Recorded(led, r), Amount[r]))
  BY <1>1, LedgerSpent
<1> QED BY <1>1, <1>2 DEF Upserted

LEMMA LedgerDebited ==
  ASSUME NEW led \in Source, Ledger(led), NEW E \in SUBSET Event
  PROVE  Ledger(Debited(led, E))
<1> DEFINE f == [x \in Event |-> led.entry[x].dep - led.entry[x].wd]
           next == [e \in Event |-> IF e \in E THEN NoEntry ELSE led.entry[e]]
           g == [x \in Event |-> next[x].dep - next[x].wd]
           k == [x \in Event |-> IF x \in E THEN led.entry[x].dep - led.entry[x].wd ELSE 0]
           d == [x \in Event |-> led.entry[x].dep]
           w == [x \in Event |-> led.entry[x].wd]
<1>0. IsFiniteSet(Event) /\ IsFiniteSet(E)
  BY PointsAssumption, FS_Subset
<1>1. \A x \in Event : led.entry[x].dep \in Nat /\ led.entry[x].wd \in Nat
  BY DEF Source, Entry
<1>3. \A x \in Event : g[x] \in Int /\ k[x] \in Int /\ f[x] = g[x] + k[x] /\ f[x] \in Int
  <2> SUFFICES ASSUME NEW x \in Event
               PROVE  g[x] \in Int /\ k[x] \in Int /\ f[x] = g[x] + k[x] /\ f[x] \in Int
    OBVIOUS
  <2>1. CASE x \in E
    BY <1>1, <2>1 DEF NoEntry
  <2>2. CASE x \notin E
    BY <1>1, <2>2
  <2> QED BY <2>1, <2>2
<1>4. /\ \A x \in Event \ E : k[x] = 0
      /\ \A x \in E : k[x] \in Int /\ w[x] \in Int /\ d[x] = k[x] + w[x] /\ d[x] \in Int
  BY <1>1
<1>5. /\ Sum(led.entry) = Total(Event, f) /\ Sum(next) = Total(Event, g)
      /\ Points(led, E) = Total(E, d)
  BY DEF Sum, Points
<1>6. Debited(led, E) = [balance |-> led.balance - Points(led, E), entry |-> next,
                         gone |-> led.gone + Total(E, w)]
  BY DEF Debited
<1>7. led.balance \in Int /\ led.gone \in Nat /\ led.balance + led.gone = Sum(led.entry)
  BY DEF Source, Ledger
<1> HIDE DEF f, g, k, d, w, next
<1>8. Total(Event, f) = Total(Event, g) + Total(Event, k)
  BY <1>0, <1>3, TotalSum
<1>9. Total(Event, k) = Total(E, k)
  BY <1>0, <1>3, <1>4, TotalPart
<1>10. Total(E, d) = Total(E, k) + Total(E, w)
  BY <1>0, <1>4, TotalSum
<1>11. Total(Event, g) \in Int /\ Total(E, k) \in Int /\ Total(E, w) \in Int
  BY <1>0, <1>3, <1>4, TotalType
<1> DEFINE balance == led.balance
           gone == led.gone
           tg == Total(Event, g)
           tk == Total(E, k)
           tw == Total(E, w)
<1>12. /\ balance \in Int /\ gone \in Int /\ tg \in Int /\ tk \in Int /\ tw \in Int
       /\ balance + gone = tg + tk /\ Points(led, E) = tk + tw /\ Sum(next) = tg
  BY <1>5, <1>7, <1>8, <1>9, <1>10, <1>11
<1> HIDE DEF balance, gone, tg, tk, tw
<1>13. (balance - Points(led, E)) + (gone + tw) = Sum(next)
  BY <1>12
<1> QED BY <1>6, <1>13 DEF Ledger, balance, gone, tw

-----------------------------------------------------------------------------
(* What holds of each request.                                             *)

\* The places of a request that has the semaphore of its node,
Holding == {"relock", "relocking", "credit", "debit", "rollback", "refetch", "unlock"}

\* and those where only deposits and withdrawals get.
Changing == {"lock", "locking", "check", "read", "write", "release"}

Good(q, p) ==
  /\ Ledger(p.source)
  /\ p.pc \in Before \cup {"debit"} => p.expired \subseteq Present(p.source)
  /\ Kind[q] = "read" => p.pc \notin Changing
  /\ p.saved => p.pc \in {"release"} \cup EndPC

LInv ==
  /\ TypeOK
  /\ Ledger(source)
  /\ \A q \in Req : Good(q, req[q])
  /\ \A q \in Req : req[q].pc \in Holding => sem[NodeOf[q]] = q

LEMMA StartLocal == Init => LInv
<1> SUFFICES ASSUME Init PROVE LInv
  OBVIOUS
<1>1. \A q \in Req : req[q] = IdleRequest
  BY DEF Init
<1>2. ASSUME NEW q \in Req PROVE Good(q, IdleRequest)
  BY LedgerOpened DEF IdleRequest, Good, Before, Changing
<1>3. IdleRequest.pc = "idle"
  BY DEF IdleRequest
<1>4. TypeOK /\ Ledger(source)
  BY StartType, LedgerOpened DEF Init
<1> QED BY <1>1, <1>2, <1>3, <1>4 DEF LInv, Holding

LEMMA LocalStep ==
  ASSUME LInv, TypeOK', NEW r \in Req, NEW p, Set(r, p), Good(r, p), Ledger(source'),
         \/ sem' = sem /\ (p.pc \in Holding => req[r].pc \in Holding)
         \/ sem' = GivenBack(r) /\ req[r].pc \in Holding /\ p.pc \notin Holding
         \/ sem[NodeOf[r]] = NoReq /\ sem' = [sem EXCEPT ![NodeOf[r]] = r]
  PROVE  LInv'
<1>1. req'[r] = p /\ \A q \in Req \ {r} : req'[q] = req[q]
  BY DEF LInv, TypeOK, Set
<1>2. \A q \in Req : Good(q, req'[q])
  BY <1>1 DEF LInv
<1>3. ASSUME NEW q \in Req, req'[q].pc \in Holding PROVE sem'[NodeOf[q]] = q
  <2>1. /\ NodeOf[q] \in Node /\ NodeOf[r] \in Node /\ NoReq \notin Req
        /\ DOMAIN sem = Node
    BY PointsAssumption DEF LInv, TypeOK
  <2>2. q # r => sem[NodeOf[q]] = q
    BY <1>1, <1>3 DEF LInv
  <2>3. req[r].pc \in Holding => sem[NodeOf[r]] = r
    BY DEF LInv
  <2> QED BY <1>1, <1>3, <2>1, <2>2, <2>3 DEF GivenBack
<1>4. \A q \in Req : Good(q, req[q])'
  BY <1>2 DEF Good, Ledger, Sum
<1> QED BY <1>3, <1>4 DEF LInv, Ledger, Sum

\* Where only deposits and withdrawals get, and where saved points are.
Allowed(r, pc) ==
  /\ pc \in PC
  /\ Kind[r] = "read" => pc \notin Changing
  /\ req[r].saved => pc \in {"release"} \cup EndPC

LEMMA GoodAt ==
  ASSUME LInv, NEW r \in Req, NEW pc, Allowed(r, pc),
         pc \in Before \cup {"debit"} => req[r].pc \in Before \cup {"debit"}
  PROVE  Good(r, At(req[r], pc)) /\ At(req[r], pc).pc = pc
<1>1. Good(r, req[r]) /\ req[r] \in Request
  BY DEF LInv, TypeOK
<1>2. CASE pc \in EndPC
  <2> DEFINE p == At(req[r], pc)
  <2>1. p.pc = pc /\ p.source = Opened
    BY <1>2 DEF At, IdleRequest
  <2> HIDE DEF p
  <2> QED BY <1>2, <2>1, LedgerOpened DEF Good, Before, EndPC, Changing, p
<1>3. CASE pc \notin EndPC
  <2> DEFINE p == At(req[r], pc)
  <2>1. /\ p.pc = pc /\ p.source = req[r].source /\ p.expired = req[r].expired
        /\ p.saved = req[r].saved
    BY <1>1, <1>3 DEF At, Request
  <2> HIDE DEF p
  <2> QED BY <1>1, <1>3, <2>1 DEF Good, Allowed, p
<1> QED BY <1>2, <1>3

LEMMA GoodForget ==
  ASSUME LInv, NEW r \in Req, NEW pc, Allowed(r, pc)
  PROVE  /\ Good(r, Forget(r, pc)) /\ Forget(r, pc).pc = pc
         /\ Forget(r, pc).expired = {} /\ Forget(r, pc).source = Opened
         /\ Forget(r, pc).saved = req[r].saved
         /\ Forget(r, pc) \in Request
<1> DEFINE p == Forget(r, pc)
<1>1. req[r] \in Request /\ p \in Request
  BY ForgetType DEF LInv, TypeOK, Allowed
<1>2. p.pc = pc /\ p.source = Opened /\ p.expired = {} /\ p.saved = req[r].saved
  <2>1. CASE pc \in EndPC
    BY <1>1, <2>1 DEF Forget, At, IdleRequest, Request
  <2>2. CASE pc \notin EndPC
    BY <1>1, <2>2 DEF Forget, At, Request
  <2> QED BY <2>1, <2>2
<1> HIDE DEF p
<1>3. Good(r, p)
  BY <1>2, LedgerOpened DEF Good, Allowed
<1> QED BY <1>1, <1>2, <1>3 DEF p

LEMMA GoodResumed ==
  ASSUME LInv, NEW r \in Req, NEW ok, req[r].pc = "unlock"
  PROVE  /\ Good(r, Resumed(r, ok))
         /\ Resumed(r, ok).pc \in {"done", "check", "failed", "release"}
         /\ Resumed(r, ok).saved = req[r].saved
<1> DEFINE next == IF ~ok THEN Bail(r) ELSE IF Kind[r] = "read" THEN "done" ELSE "check"
           p == Forget(r, next)
           o == Resumed(r, ok)
<1>1. ~req[r].saved
  BY DEF LInv, Good, EndPC
<1>2. Allowed(r, next) /\ next \in {"done", "check", "failed", "release"}
  BY <1>1 DEF Bail, Allowed, PC, EndPC, Changing
<1>3. o = [p EXCEPT !.tries = 0, !.retries = 0, !.exp = 0, !.object = "own", !.good = FALSE]
  BY DEF Resumed
<1> HIDE DEF next
<1>4. /\ p \in Request /\ Good(r, p) /\ p.pc = next /\ p.expired = {} /\ p.source = Opened
      /\ p.saved = req[r].saved
  BY <1>2, GoodForget
<1> HIDE DEF p, o
<1>5. o.pc = p.pc /\ o.source = p.source /\ o.expired = p.expired /\ o.saved = p.saved
  BY <1>3, <1>4 DEF Request
<1> QED BY <1>2, <1>4, <1>5 DEF Good, o

\* A request with changed places, counters and leases only.
LEMMA GoodMove ==
  ASSUME LInv, NEW r \in Req, NEW p,
         p.source = req[r].source, p.expired = req[r].expired, p.saved = req[r].saved,
         Allowed(r, p.pc),
         p.pc \in Before \cup {"debit"} => req[r].pc \in Before \cup {"debit"}
  PROVE  Good(r, p)
BY DEF LInv, Good, Allowed

LEMMA GoodFetched ==
  ASSUME LInv, NEW r \in Req, NEW pc \in {"wait", "credit"}, req[r].pc \in {"fetch", "refetch"}
  PROVE  Good(r, Fetched(r, pc)) /\ Fetched(r, pc).pc = pc
<1> DEFINE p == Fetched(r, pc)
           led == Dated(source)
<1>1. req[r] \in Request /\ ~req[r].saved
  BY DEF LInv, TypeOK, Good, EndPC
<1>2. p.pc = pc /\ p.source = led /\ p.expired = Expired(led) /\ p.saved = req[r].saved
  BY <1>1 DEF Fetched, Request
<1>3. Ledger(led)
  BY LedgerDated DEF LInv, TypeOK
<1> HIDE DEF p, led
<1>4. \A e \in Expired(led) : e \in Present(led)
  BY DEF Expired, Present
<1>5. Good(r, p)
  BY <1>1, <1>2, <1>3, <1>4 DEF Good, Changing
<1> QED BY <1>2, <1>5 DEF p

LEMMA GoodUntil ==
  ASSUME LInv, NEW r \in Req, NEW pc, Allowed(r, pc)
  PROVE  LET p == [Forget(r, pc) EXCEPT !.good = TRUE]
         IN  Good(r, p) /\ p.pc = pc /\ p.expired = {} /\ p.saved = req[r].saved
<1> DEFINE f == Forget(r, pc)
           p == [f EXCEPT !.good = TRUE]
<1>1. /\ f \in Request /\ Good(r, f) /\ f.pc = pc /\ f.expired = {}
      /\ f.saved = req[r].saved
  BY GoodForget
<1> HIDE DEF f
<1>2. p.pc = f.pc /\ p.source = f.source /\ p.expired = f.expired /\ p.saved = f.saved
  BY <1>1 DEF Request
<1>3. Good(r, p)
  <2> HIDE DEF p
  <2> QED BY <1>1, <1>2 DEF Good
<1> QED BY <1>1, <1>2, <1>3 DEF f

LEMMA GoodSaved ==
  ASSUME LInv, NEW r \in Req, req[r].pc = "write"
  PROVE  LET p == [Forget(r, "release") EXCEPT !.saved = TRUE]
         IN  Good(r, p) /\ p.pc = "release" /\ p.expired = {} /\ p.saved
<1> DEFINE f == Forget(r, "release")
           p == [f EXCEPT !.saved = TRUE]
<1>1. Kind[r] # "read"
  BY DEF LInv, Good, Changing
<1>2. Allowed(r, "release")
  BY <1>1 DEF Allowed, PC
<1>3. f \in Request /\ Good(r, f) /\ f.pc = "release" /\ f.expired = {}
  BY <1>2, GoodForget
<1> HIDE DEF f
<1>4. p.pc = f.pc /\ p.source = f.source /\ p.expired = f.expired /\ p.saved
  BY <1>3 DEF Request
<1>5. Good(r, p)
  <2> HIDE DEF p
  <2> QED BY <1>3, <1>4 DEF Good
<1> QED BY <1>3, <1>4, <1>5 DEF f

\* The ledgers that a request writes.
LEMMA LedgerChanged ==
  ASSUME LInv, NEW r \in Req
  PROVE  Ledger(Changed(r)) /\ Ledger(DebitSource(r))
<1>1. req[r].source \in Source /\ req[r].expired \in SUBSET Event /\ Ledger(req[r].source)
  BY DEF LInv, TypeOK, Request, Good
<1> QED BY <1>1, LedgerUpserted, LedgerDebited DEF Changed, DebitSource

LEMMA TakingLocal ==
  ASSUME LInv, TypeOK', NEW r \in Req, Load(r) \/ Taking(r)
  PROVE  LInv'
<1>0. /\ req[r] \in Request /\ Good(r, req[r]) /\ Ledger(source) /\ source' = source
  BY DEF LInv, TypeOK, Load, Taking, LockFetch, LockRefused, LockGivenUp, LockWrite,
         LockConflict
<1>9. /\ req[r].saved => req[r].pc \in {"release"} \cup EndPC
      /\ Kind[r] = "read" => req[r].pc \notin Changing
  BY <1>0 DEF Good
<1>1. CASE Load(r)
  <2>1. PICK pc \in {"fetch", "lock"} : Go(r, pc) /\ (Kind[r] = "read" => pc = "fetch")
    BY <1>1 DEF Load
  <2>2. Allowed(r, pc) /\ pc \notin Before \cup {"debit"} /\ pc \notin Holding
    BY <1>1, <1>9, <2>1 DEF Allowed, Load, PC, EndPC, Changing, Before, Holding
  <2>3. Good(r, At(req[r], pc)) /\ At(req[r], pc).pc = pc
    BY <2>2, GoodAt
  <2> QED BY <1>0, <1>1, <2>1, <2>2, <2>3, LocalStep DEF Load, Go
<1>2. CASE LockFetch(r)
  <2> DEFINE p == [req[r] EXCEPT !.pc = IF @ = "lock" THEN "locking" ELSE "relocking",
                                 !.exp = now + Lease[Locking(r)]]
  <2>1. /\ p.source = req[r].source /\ p.expired = req[r].expired /\ p.saved = req[r].saved
        /\ p.pc = IF req[r].pc = "lock" THEN "locking" ELSE "relocking"
    BY <1>0 DEF Request
  <2>2. Set(r, p) /\ req[r].pc \in {"lock", "relock"} /\ sem' = sem
    BY <1>2 DEF LockFetch
  <2> HIDE DEF p
  <2>3. Allowed(r, p.pc)
    BY <1>9, <2>1, <2>2 DEF Allowed, PC, EndPC, Changing
  <2>4. /\ p.pc \in Before \cup {"debit"} => req[r].pc \in Before \cup {"debit"}
        /\ p.pc \in Holding => req[r].pc \in Holding
    BY <2>1, <2>2 DEF Before, Holding
  <2>5. Good(r, p)
    BY <2>1, <2>3, <2>4, GoodMove
  <2> QED BY <1>0, <2>2, <2>4, <2>5, LocalStep
<1>3. CASE LockRefused(r)
  <2> DEFINE p == [req[r] EXCEPT !.tries = @ + 1]
  <2>1. /\ p.source = req[r].source /\ p.expired = req[r].expired /\ p.saved = req[r].saved
        /\ p.pc = req[r].pc
    BY <1>0 DEF Request
  <2>2. Set(r, p) /\ sem' = sem
    BY <1>3 DEF LockRefused
  <2> HIDE DEF p
  <2>3. Good(r, p)
    BY <1>0, <2>1 DEF Good
  <2> QED BY <1>0, <2>1, <2>2, <2>3, LocalStep
<1>4. CASE LockGivenUp(r)
  <2>1. CASE req[r].pc = "lock"
    <3>1. Go(r, "failed") /\ sem' = sem
      BY <1>4, <2>1 DEF LockGivenUp
    <3>2. Allowed(r, "failed") /\ "failed" \notin Before \cup {"debit"} \cup Holding
      BY DEF Allowed, PC, EndPC, Changing, Before, Holding
    <3>3. Good(r, At(req[r], "failed")) /\ At(req[r], "failed").pc = "failed"
      BY <3>2, GoodAt
    <3> QED BY <1>0, <3>1, <3>2, <3>3, LocalStep DEF Go
  <2>2. CASE req[r].pc # "lock"
    <3>1. /\ Set(r, Forget(r, Bail(r))) /\ sem' = GivenBack(r)
          /\ req[r].pc \in Holding /\ ~req[r].saved
      BY <1>4, <1>9, <2>2 DEF LockGivenUp, Holding, EndPC
    <3>2. Allowed(r, Bail(r)) /\ Bail(r) \notin Holding
      BY <3>1 DEF Allowed, Bail, PC, EndPC, Changing, Holding
    <3> QED BY <1>0, <3>1, <3>2, GoodForget, LocalStep
  <2> QED BY <2>1, <2>2
<1>5. CASE LockWrite(r)
  <2>0. sem' = sem /\ ~req[r].saved
    BY <1>5, <1>9 DEF LockWrite, EndPC
  <2>1. CASE req[r].pc = "locking"
    <3> DEFINE p == [req[r] EXCEPT !.pc = "fetch", !.tries = 0, !.exp = 0,
                                   !.leased = req[r].exp]
    <3>1. /\ p.source = req[r].source /\ p.expired = req[r].expired
          /\ p.saved = req[r].saved /\ p.pc = "fetch"
      BY <1>0 DEF Request
    <3>2. Set(r, p)
      BY <1>5, <2>1 DEF LockWrite
    <3> HIDE DEF p
    <3>3. Good(r, p) /\ p.pc \notin Holding
      BY <2>0, <3>1, GoodMove DEF Allowed, PC, Changing, Before, Holding
    <3> QED BY <1>0, <2>0, <3>2, <3>3, LocalStep
  <2>2. CASE req[r].pc = "relocking"
    <3> DEFINE p == [req[r] EXCEPT !.pc = "credit", !.exp = 0, !.object = "exp"]
    <3>1. /\ p.source = req[r].source /\ p.expired = req[r].expired
          /\ p.saved = req[r].saved /\ p.pc = "credit"
      BY <1>0 DEF Request
    <3>2. Set(r, p)
      BY <1>5, <2>2 DEF LockWrite
    <3> HIDE DEF p
    <3>3. Good(r, p) /\ req[r].pc \in Holding
      BY <2>0, <2>2, <3>1, GoodMove DEF Allowed, PC, Changing, Before, Holding
    <3> QED BY <1>0, <2>0, <3>2, <3>3, LocalStep
  <2> QED BY <1>5, <2>1, <2>2 DEF LockWrite
<1>6. CASE LockConflict(r)
  <2>1. /\ Go(r, Thrown(r)) /\ sem' = sem /\ ~req[r].saved
        /\ Thrown(r) = "failed" \/ (Thrown(r) = "unlock" /\ req[r].pc \in Holding)
    BY <1>6, <1>9 DEF LockConflict, Thrown, Locking, Holding, EndPC
  <2>2. Allowed(r, Thrown(r)) /\ Thrown(r) \notin Before \cup {"debit"}
        /\ (Thrown(r) \in Holding => req[r].pc \in Holding)
    BY <2>1 DEF Allowed, PC, EndPC, Changing, Before, Holding
  <2>3. Good(r, At(req[r], Thrown(r))) /\ At(req[r], Thrown(r)).pc = Thrown(r)
    BY <2>2, GoodAt
  <2> QED BY <1>0, <2>1, <2>2, <2>3, LocalStep DEF Go
<1> QED BY <1>1, <1>2, <1>3, <1>4, <1>5, <1>6 DEF Taking

\* A refused ledger.
LEMMA RefusedLocal ==
  ASSUME LInv, TypeOK', NEW r \in Req, Refused(r), sem' = sem,
         req[r].pc \in {"credit", "debit"}
  PROVE  LInv'
<1>0. /\ req[r] \in Request /\ ~req[r].saved /\ req[r].pc \in Holding
      /\ Ledger(source')
  BY DEF LInv, TypeOK, Good, EndPC, Refused, Holding, Ledger, Sum
<1>1. CASE req[r].retries + 1 < Retries
  <2> DEFINE p == [req[r] EXCEPT !.pc = "refetch", !.retries = @ + 1]
  <2>1. /\ p.source = req[r].source /\ p.expired = req[r].expired
        /\ p.saved = req[r].saved /\ p.pc = "refetch"
    BY <1>0 DEF Request
  <2>2. Set(r, p)
    BY <1>1 DEF Refused
  <2> HIDE DEF p
  <2>3. Good(r, p)
    BY <1>0, <2>1, GoodMove DEF Allowed, PC, Changing, Before
  <2> QED BY <1>0, <2>2, <2>3, LocalStep
<1>2. CASE ~(req[r].retries + 1 < Retries)
  <2>1. Set(r, Forget(r, "unlock"))
    BY <1>2 DEF Refused
  <2>2. Allowed(r, "unlock")
    BY <1>0 DEF Allowed, PC, Changing
  <2> QED BY <1>0, <2>1, <2>2, GoodForget, LocalStep
<1> QED BY <1>1, <1>2

LEMMA ExpiringLocal ==
  ASSUME LInv, TypeOK', NEW r \in Req, Expiring(r)
  PROVE  LInv'
<1>0. /\ req[r] \in Request /\ Good(r, req[r]) /\ Ledger(source)
      /\ ~req[r].saved
  BY DEF LInv, TypeOK, Good, EndPC, Expiring, Fetch, Wait, Credit, Debit, Refetch, Rollback,
         Unlock, UnlockConflict
<1>9. Allowed(r, "unlock") /\ "unlock" \in Holding
  BY <1>0 DEF Allowed, PC, Changing, Holding
<1>1. CASE Fetch(r)
  <2>0. sem' = sem /\ source' = source
    BY <1>1 DEF Fetch
  <2>1. CASE Expired(Dated(source)) = {}
    <3>1. PICK pc \in {"done", "check"} : Go(r, pc) /\ (Kind[r] = "read" => pc = "done")
      BY <1>1, <2>1 DEF Fetch
    <3>2. Allowed(r, pc) /\ pc \notin Before \cup {"debit"} \cup Holding
      BY <1>0, <3>1 DEF Allowed, PC, EndPC, Changing, Before, Holding
    <3>3. Good(r, At(req[r], pc)) /\ At(req[r], pc).pc = pc
      BY <3>2, GoodAt
    <3> QED BY <1>0, <2>0, <3>1, <3>2, <3>3, LocalStep DEF Go
  <2>2. CASE Expired(Dated(source)) # {}
    <3>1. Set(r, Fetched(r, "wait")) /\ req[r].pc \in {"fetch", "refetch"}
      BY <1>1, <2>2 DEF Fetch
    <3>2. Good(r, Fetched(r, "wait")) /\ Fetched(r, "wait").pc = "wait"
      BY <3>1, GoodFetched
    <3>3. "wait" \notin Holding
      BY DEF Holding
    <3> QED BY <1>0, <2>0, <3>1, <3>2, <3>3, LocalStep
  <2> QED BY <2>1, <2>2
<1>2. CASE Wait(r)
  <2>1. /\ Go(r, "relock") /\ source' = source
        /\ sem[NodeOf[r]] = NoReq /\ sem' = [sem EXCEPT ![NodeOf[r]] = r]
    BY <1>2 DEF Wait
  <2>2. Allowed(r, "relock") /\ req[r].pc \in Before
    BY <1>0, <1>2 DEF Allowed, PC, Changing, Wait, Before
  <2>3. Good(r, At(req[r], "relock"))
    BY <2>2, GoodAt
  <2> QED BY <1>0, <2>1, <2>3, LocalStep DEF Go
<1>3. CASE Credit(r)
  <2>0. req[r].pc = "credit" /\ sem' = sem
    BY <1>3 DEF Credit
  <2>1. CASE Accepted(r, fresh.sink)
    <3>1. Go(r, "debit") /\ source' = source
      BY <1>3, <2>1 DEF Credit
    <3>2. Allowed(r, "debit") /\ req[r].pc \in Before /\ req[r].pc \in Holding
      BY <1>0, <2>0 DEF Allowed, PC, Changing, Before, Holding
    <3>3. Good(r, At(req[r], "debit"))
      BY <3>2, GoodAt
    <3> QED BY <1>0, <2>0, <3>1, <3>2, <3>3, LocalStep DEF Go
  <2>2. CASE ~Accepted(r, fresh.sink)
    BY <1>3, <2>0, <2>2, RefusedLocal DEF Credit
  <2> QED BY <2>1, <2>2
<1>4. CASE Debit(r)
  <2>0. req[r].pc = "debit" /\ sem' = sem /\ req[r].pc \in Holding
    BY <1>4 DEF Debit, Holding
  <2>1. CASE Accepted(r, fresh.source)
    <3>1. Set(r, [Forget(r, "unlock") EXCEPT !.good = TRUE]) /\ source' = DebitSource(r)
      BY <1>4, <2>1 DEF Debit
    <3>2. Ledger(source')
      BY <2>0, <3>1, LedgerChanged
    <3> QED BY <1>9, <2>0, <3>1, <3>2, GoodUntil, LocalStep
  <2>2. CASE ~Accepted(r, fresh.source)
    BY <1>4, <2>0, <2>2, RefusedLocal DEF Debit
  <2> QED BY <2>1, <2>2
<1>5. CASE Refetch(r)
  <2>0. sem' = sem /\ source' = source /\ req[r].pc = "refetch" /\ req[r].pc \in Holding
    BY <1>5 DEF Refetch, Holding
  <2>1. CASE Expired(Dated(source)) = {}
    <3>1. Set(r, [Forget(r, "unlock") EXCEPT !.good = TRUE])
      BY <1>5, <2>1 DEF Refetch
    <3> QED BY <1>0, <1>9, <2>0, <3>1, GoodUntil, LocalStep
  <2>2. CASE Expired(Dated(source)) # {}
    <3>1. Set(r, Fetched(r, "credit"))
      BY <1>5, <2>2 DEF Refetch
    <3>2. Good(r, Fetched(r, "credit"))
      BY <2>0, GoodFetched
    <3> QED BY <1>0, <2>0, <3>1, <3>2, LocalStep
  <2> QED BY <2>1, <2>2
<1>6. CASE Rollback(r)
  <2>1. Set(r, Forget(r, "unlock")) /\ sem' = sem /\ source' = source /\ req[r].pc \in Holding
    BY <1>6 DEF Rollback, Holding
  <2> QED BY <1>0, <1>9, <2>1, GoodForget, LocalStep
<1>7. CASE Unlock(r) \/ UnlockConflict(r)
  <2>1. PICK ok : Set(r, Resumed(r, ok))
    BY <1>7 DEF Unlock, UnlockConflict
  <2>2. /\ req[r].pc = "unlock" /\ source' = source /\ (sem' = sem \/ sem' = GivenBack(r))
        /\ req[r].pc \in Holding
    BY <1>7 DEF Unlock, UnlockConflict, Holding
  <2>3. Good(r, Resumed(r, ok)) /\ Resumed(r, ok).pc \notin Holding
    BY <2>2, GoodResumed DEF Holding
  <2> QED BY <1>0, <2>1, <2>2, <2>3, LocalStep
<1> QED BY <1>1, <1>2, <1>3, <1>4, <1>5, <1>6, <1>7 DEF Expiring

LEMMA SavingLocal ==
  ASSUME LInv, TypeOK', NEW r \in Req, Saving(r)
  PROVE  LInv'
<1>0. /\ req[r] \in Request /\ Good(r, req[r]) /\ Ledger(source) /\ Kind[r] # "read"
      /\ sem' = sem
  BY DEF LInv, TypeOK, Good, Saving, Check, Read, Write, Release, Changing
<1>1. CASE Check(r)
  <2>1. PICK pc \in {"release", "read"} : Go(r, pc)
    BY <1>1 DEF Check
  <2>2. /\ Allowed(r, pc) /\ pc \notin Before \cup {"debit"} \cup Holding
        /\ source' = source
    BY <1>0, <1>1 DEF Check, Good, Allowed, PC, EndPC, Changing, Before, Holding
  <2>3. Good(r, At(req[r], pc)) /\ At(req[r], pc).pc = pc
    BY <2>2, GoodAt
  <2> QED BY <1>0, <2>1, <2>2, <2>3, LocalStep DEF Go
<1>2. CASE Read(r)
  <2>0. source' = source /\ ~req[r].saved
    BY <1>0, <1>2 DEF Read, Good, EndPC
  <2>1. CASE Go(r, "release")
    <3>1. Allowed(r, "release") /\ "release" \notin Before \cup {"debit"} \cup Holding
      BY <1>0 DEF Allowed, PC, Before, Holding
    <3>2. Good(r, At(req[r], "release")) /\ At(req[r], "release").pc = "release"
      BY <3>1, GoodAt
    <3> QED BY <1>0, <2>0, <2>1, <3>1, <3>2, LocalStep DEF Go
  <2>2. CASE Set(r, [req[r] EXCEPT !.pc = "write", !.source = source])
    <3> DEFINE p == [req[r] EXCEPT !.pc = "write", !.source = source]
    <3>1. p.pc = "write" /\ p.source = source /\ p.saved = req[r].saved
      BY <1>0 DEF Request
    <3>2. Set(r, p)
      BY <2>2
    <3> HIDE DEF p
    <3>3. Good(r, p) /\ p.pc \notin Holding
      BY <1>0, <2>0, <3>1 DEF Good, Before, Holding
    <3> QED BY <1>0, <2>0, <3>2, <3>3, LocalStep
  <2> QED BY <1>2, <2>1, <2>2 DEF Read
<1>3. CASE Write(r)
  <2>0. req[r].pc = "write" /\ "release" \notin Holding
    BY <1>3 DEF Write, Holding
  <2>1. CASE Accepted(r, fresh.source)
    <3>1. Set(r, [Forget(r, "release") EXCEPT !.saved = TRUE]) /\ source' = Changed(r)
      BY <1>3, <2>1 DEF Write
    <3>2. Ledger(source')
      BY <2>0, <3>1, LedgerChanged
    <3> QED BY <1>0, <2>0, <3>1, <3>2, GoodSaved, LocalStep
  <2>2. CASE ~Accepted(r, fresh.source)
    <3>1. Set(r, Forget(r, "release")) /\ source' = source
      BY <1>3, <2>2 DEF Write
    <3>2. Allowed(r, "release")
      BY <1>0 DEF Allowed, PC
    <3> QED BY <1>0, <2>0, <3>1, <3>2, GoodForget, LocalStep
  <2> QED BY <2>1, <2>2
<1>4. CASE Release(r)
  <2>1. PICK pc \in {"done", "failed"} : Go(r, pc)
    BY <1>4 DEF Release
  <2>2. /\ Allowed(r, pc) /\ pc \notin Before \cup {"debit"} \cup Holding
        /\ source' = source
    BY <1>4 DEF Release, Allowed, PC, EndPC, Changing, Before, Holding
  <2>3. Good(r, At(req[r], pc)) /\ At(req[r], pc).pc = pc
    BY <2>2, GoodAt
  <2> QED BY <1>0, <2>1, <2>2, <2>3, LocalStep DEF Go
<1> QED BY <1>1, <1>2, <1>3, <1>4 DEF Saving

\* What a failed call makes of its request.
LEMMA FailureGood ==
  ASSUME LInv, NEW r \in Req, Failure(r), Calling(r)
  PROVE  \E p : /\ Set(r, p) /\ Good(r, p) /\ p.saved = req[r].saved
                /\ p.pc \in Holding => req[r].pc \in Holding
                /\ p.pc # "debit"
<1>0. /\ req[r].pc \in PC /\ Good(r, req[r])
      /\ req[r].saved => req[r].pc \in {"release"} \cup EndPC
      /\ DOMAIN req[r] = Fields
  BY DEF LInv, TypeOK, Request, Good, Fields
<1>9. ASSUME NEW pc, Go(r, pc), Allowed(r, pc), pc \notin Before \cup {"debit"},
             pc \in Holding => req[r].pc \in Holding
      PROVE  \E p : /\ Set(r, p) /\ Good(r, p) /\ p.saved = req[r].saved
                    /\ p.pc \in Holding => req[r].pc \in Holding
                    /\ p.pc # "debit"
  <2> DEFINE p == At(req[r], pc)
  <2>1. Good(r, p) /\ p.pc = pc /\ p.saved = req[r].saved /\ Set(r, p)
    BY <1>0, <1>9, GoodAt, AtFacts DEF Go
  <2> HIDE DEF p
  <2> QED BY <1>9, <2>1
<1>10. ASSUME NEW pc, Set(r, Forget(r, pc)), Allowed(r, pc), pc # "debit",
             pc \in Holding => req[r].pc \in Holding
      PROVE  \E p : /\ Set(r, p) /\ Good(r, p) /\ p.saved = req[r].saved
                    /\ p.pc \in Holding => req[r].pc \in Holding
                    /\ p.pc # "debit"
  <2> DEFINE p == Forget(r, pc)
  <2>1. Good(r, p) /\ p.pc = pc /\ p.saved = req[r].saved /\ Set(r, p)
    BY <1>10, GoodForget
  <2> HIDE DEF p
  <2> QED BY <1>10, <2>1
<1>1. CASE req[r].pc \in {"lock", "locking", "relock", "relocking"}
  <2>1. Go(r, Thrown(r))
    BY <1>1 DEF Failure
  <2>2. Thrown(r) = "failed" \/ (Thrown(r) = "unlock" /\ req[r].pc \in Holding)
    BY <1>1 DEF Thrown, Locking, Holding
  <2>3. Allowed(r, Thrown(r)) /\ Thrown(r) \notin Before \cup {"debit"}
        /\ (Thrown(r) \in Holding => req[r].pc \in Holding)
    BY <1>0, <1>1, <2>2 DEF Allowed, PC, EndPC, Changing, Before, Holding
  <2> QED BY <1>9, <2>1, <2>3
<1>2. CASE req[r].pc \in {"fetch", "check", "read"}
  <2>1. Go(r, Bail(r))
    BY <1>2 DEF Failure
  <2>2. Allowed(r, Bail(r)) /\ Bail(r) \notin Before \cup {"debit"} \cup Holding
    BY <1>0, <1>2 DEF Bail, Allowed, PC, EndPC, Changing, Before, Holding
  <2> QED BY <1>9, <2>1, <2>2
<1>3. CASE req[r].pc = "write"
  <2>1. Set(r, Forget(r, "release"))
    BY <1>3 DEF Failure
  <2>2. Allowed(r, "release") /\ "release" \notin {"debit"} \cup Holding
    BY <1>0, <1>3 DEF Good, Allowed, PC, Changing, Holding
  <2> QED BY <1>10, <2>1, <2>2
<1>4. CASE req[r].pc \in {"credit", "refetch", "rollback"}
  <2>1. Set(r, Forget(r, "unlock"))
    BY <1>4 DEF Failure
  <2>2. Allowed(r, "unlock") /\ req[r].pc \in Holding
    BY <1>0, <1>4 DEF Allowed, PC, EndPC, Changing, Holding
  <2> QED BY <1>10, <2>1, <2>2
<1>5. CASE req[r].pc = "debit"
  <2>1. Go(r, "rollback")
    BY <1>5 DEF Failure
  <2>2. /\ Allowed(r, "rollback") /\ req[r].pc \in Holding
        /\ "rollback" \notin Before \cup {"debit"}
    BY <1>0, <1>5 DEF Allowed, PC, EndPC, Changing, Holding, Before
  <2> QED BY <1>9, <2>1, <2>2
<1>6. CASE req[r].pc = "unlock"
  <2> DEFINE p == Resumed(r, FALSE)
  <2>1. Set(r, p)
    BY <1>6 DEF Failure
  <2>2. /\ Good(r, p) /\ p.saved = req[r].saved /\ p.pc \notin Holding /\ p.pc # "debit"
    BY <1>6, GoodResumed DEF Holding
  <2> HIDE DEF p
  <2> QED BY <2>1, <2>2
<1>7. CASE req[r].pc = "release"
  <2>1. Go(r, "failed")
    BY <1>7 DEF Failure
  <2>2. Allowed(r, "failed") /\ "failed" \notin Before \cup {"debit"} \cup Holding
    BY DEF Allowed, PC, EndPC, Changing, Before, Holding
  <2> QED BY <1>9, <2>1, <2>2
<1> QED BY <1>0, <1>1, <1>2, <1>3, <1>4, <1>5, <1>6, <1>7 DEF Calling, PC

LEMMA FaultLocal ==
  ASSUME LInv, TypeOK', NEW r \in Req, CallFails(r) \/ WriteUnanswered(r)
  PROVE  LInv'
<1>1. Failure(r) /\ Calling(r) /\ sem' = sem
  BY DEF CallFails, WriteUnanswered, AcctUnanswered, LedgerUnanswered, Calling, EndPC
<1>2. PICK p : /\ Set(r, p) /\ Good(r, p)
               /\ p.pc \in Holding => req[r].pc \in Holding
  BY <1>1, FailureGood
<1>3. Ledger(source')
  <2>1. Ledger(source) /\ (source' = source \/ LedgerUnanswered(r))
    BY DEF LInv, CallFails, WriteUnanswered, AcctUnanswered
  <2>2. ASSUME LedgerUnanswered(r)
        PROVE  \/ source' = source
               \/ req[r].pc = "debit" /\ source' = DebitSource(r)
               \/ req[r].pc = "write" /\ source' = Changed(r)
    BY <2>2 DEF LedgerUnanswered
  <2> QED BY <2>1, <2>2, LedgerChanged
<1> QED BY <1>1, <1>2, <1>3, LocalStep

LEMMA CrashLocal ==
  ASSUME LInv, TypeOK', NEW n \in Node, Crash(n)
  PROVE  LInv'
<1>1. Ledger(source') /\ sem' = [sem EXCEPT ![n] = NoReq]
  BY DEF LInv, Crash
<1>2. ASSUME NEW q \in Req
      PROVE  /\ req'[q] = req[q] \/ req'[q] = Forget(q, "dead")
             /\ NodeOf[q] = n => req'[q].pc \notin Holding
             /\ Good(q, req'[q])
             /\ req'[q] # req[q] => req'[q].pc \notin Holding
  <2>1. req'[q] = IF NodeOf[q] = n /\ req[q].pc \notin {"idle"} \cup EndPC
                  THEN Forget(q, "dead") ELSE req[q]
    BY DEF Crash
  <2>2. Allowed(q, "dead") /\ "dead" \notin Holding
    BY DEF Allowed, PC, EndPC, Changing, Holding
  <2>3. Good(q, Forget(q, "dead")) /\ Forget(q, "dead").pc = "dead"
    BY <2>2, GoodForget
  <2>4. Good(q, req[q]) /\ (req[q].pc \in {"idle"} \cup EndPC => req[q].pc \notin Holding)
    BY DEF LInv, EndPC, Holding
  <2> QED BY <2>1, <2>2, <2>3, <2>4
<1>3. ASSUME NEW q \in Req, req'[q].pc \in Holding PROVE sem'[NodeOf[q]] = q
  <2>1. NodeOf[q] # n /\ req'[q] = req[q]
    BY <1>2, <1>3
  <2>2. sem[NodeOf[q]] = q /\ DOMAIN sem = Node /\ NodeOf[q] \in Node
    BY <1>3, <2>1, PointsAssumption DEF LInv, TypeOK
  <2> QED BY <1>1, <2>1, <2>2
<1>4. \A q \in Req : Good(q, req[q])'
  BY <1>2 DEF Good, Ledger, Sum
<1> QED BY <1>1, <1>3, <1>4 DEF LInv, Ledger, Sum

LEMMA NextLocal == LInv /\ [Next]_vars => LInv'
<1> SUFFICES ASSUME LInv, [Next]_vars PROVE LInv'
  OBVIOUS
<1>1. TypeOK'
  BY NextType DEF LInv
<1>2. CASE Tick \/ UNCHANGED vars
  <2>1. UNCHANGED <<source, sem, req>>
    BY <1>2 DEF Tick, vars, faults
  <2> QED BY <1>1, <2>1 DEF LInv, Good, Ledger, Sum
<1> QED BY <1>1, <1>2, TakingLocal, ExpiringLocal, SavingLocal, FaultLocal, CrashLocal DEF Next

(***************************************************************************)
(* Whatever requests run, are refused, fail or crash, the documents and    *)
(* what a request holds of them have their types: no deposit or amount     *)
(* withdrawn gets negative, and no ledger gets an entry of another event   *)
(* (ExpirePoints, UpsertLoyaltyAccountPointsAsync).                        *)
(***************************************************************************)
THEOREM TypeCorrect == Spec => []TypeOK
<1>1. Init => TypeOK
  BY StartType
<1> QED BY <1>1, NextType, PTL DEF Spec

(***************************************************************************)
(* Whatever is refused, retried, fails, crashes or loses its reply, the    *)
(* balance of the source ledger is the points deposited in it less all     *)
(* that was withdrawn, expired or not: deposits, withdrawals and           *)
(* adjustments of UpsertLoyaltyAccountPointsAsync change the balance by    *)
(* what they change the entries by, and the debits of                      *)
(* SaveLedgerExpirations by the deposits among the entries they remove.    *)
(***************************************************************************)
THEOREM BalanceCorrect == Spec => []BalanceBacked
<1>1. Init => LInv
  BY StartLocal
<1>2. LInv => BalanceBacked
  BY DEF LInv, Ledger, Sum, BalanceBacked
<1> QED BY <1>1, <1>2, NextLocal, PTL DEF Spec

-----------------------------------------------------------------------------
(* How often an entry is credited to the sink.                             *)

\* What a copy with the stored ETag says of the ledger.
Copies(q) ==
  /\ req[q].pc \in Before \cup {"debit", "write"} /\ q \in fresh.source =>
       Present(req[q].source) = Present(source)
  /\ req[q].pc \in Before /\ q \in fresh.sink => req[q].sink = sink
  /\ req[q].pc \in {"debit", "rollback"} /\ q \in fresh.sink =>
       \A e \in Event : req[q].sink.credits[e] <= sink.credits[e]

\* Whether the source has an entry of e,
Landed(e) == IF e \in Present(source) THEN 1 ELSE 0

\* and who is about to take it out.
Debiting(e) == {q \in Req : req[q].pc = "debit" /\ e \in req[q].expired}

Excuses == conflicts + failed + lost + crashes

Bounded(e) ==
  sink.credits[e] + Landed(e) <= Arrivals(e) + Cardinality(Debiting(e)) + Excuses

CInv ==
  /\ LInv
  /\ \A q \in Req : Copies(q)
  /\ \A e \in Event : Bounded(e)

LEMMA SmallerByOne ==
  ASSUME NEW A, NEW B, IsFiniteSet(A), IsFiniteSet(B), NEW x, A \ {x} \subseteq B
  PROVE  /\ Cardinality(B) >= Cardinality(A) - 1
         /\ x \notin A => Cardinality(B) >= Cardinality(A)
         /\ x \in B \ A => Cardinality(B) >= Cardinality(A) + 1
<1>1. /\ IsFiniteSet(A \ {x}) /\ Cardinality(A) \in Nat /\ Cardinality(B) \in Nat
      /\ Cardinality(A \ {x}) = IF x \in A THEN Cardinality(A) - 1 ELSE Cardinality(A)
  BY FS_RemoveElement, FS_CardinalityType
<1>2. Cardinality(A \ {x}) <= Cardinality(B)
  BY FS_Subset
<1>3. ASSUME x \in B \ A PROVE Cardinality(B) >= Cardinality(A) + 1
  <2>1. A \subseteq B \ {x} /\ IsFiniteSet(B \ {x}) /\ Cardinality(B \ {x}) = Cardinality(B) - 1
    BY <1>3, OneLess
  <2>2. Cardinality(A) <= Cardinality(B \ {x})
    BY <2>1, FS_Subset
  <2> QED BY <1>1, <2>1, <2>2
<1> QED BY <1>1, <1>2, <1>3

CountOK ==
  /\ Excuses \in Nat
  /\ \A e \in Event : /\ Arrivals(e) \in Nat /\ Cardinality(Debiting(e)) \in Nat
                      /\ sink.credits[e] \in Nat /\ Landed(e) \in {0, 1}

LEMMA CountTypes == TypeOK => CountOK
<1> SUFFICES ASSUME TypeOK, NEW e \in Event
             PROVE  /\ Excuses \in Nat
                    /\ Arrivals(e) \in Nat /\ Cardinality(Debiting(e)) \in Nat
                    /\ sink.credits[e] \in Nat /\ Landed(e) \in {0, 1}
  BY DEF CountOK, TypeOK, Excuses
<1> DEFINE A == Saved(e)
<1>1. IsFiniteSet(A) /\ IsFiniteSet(Debiting(e))
  BY PointsAssumption, FS_Subset DEF Debiting, Saved
<1>2. Cardinality(A) \in Nat /\ Cardinality(Debiting(e)) \in Nat
  BY <1>1, FS_CardinalityType
<1>3. Arrivals(e) \in Nat
  <2>1. Arrivals(e) = Cardinality(A) + IF Opens(e) THEN 1 ELSE 0
    BY DEF Arrivals
  <2> HIDE DEF A
  <2> QED BY <1>2, <2>1
<1> QED BY <1>1, <1>2, <1>3 DEF TypeOK, Sink, Landed, Excuses

LEMMA CountTypesNext == TypeOK' => CountOK'
BY CountTypes, PTL

\* What the step of a request does to the counts.
LEMMA DebitingStep ==
  ASSUME TypeOK, NEW r \in Req, NEW p, Set(r, p), NEW e \in Event
  PROVE  /\ Cardinality(Debiting(e)') >= Cardinality(Debiting(e)) - 1
         /\ r \notin Debiting(e) => Cardinality(Debiting(e)') >= Cardinality(Debiting(e))
         /\ r \notin Debiting(e) /\ p.pc = "debit" /\ e \in p.expired =>
              Cardinality(Debiting(e)') >= Cardinality(Debiting(e)) + 1
<1> DEFINE A == Debiting(e)
           B == {q \in Req : req'[q].pc = "debit" /\ e \in req'[q].expired}
<1>1. Debiting(e)' = B
  BY DEF Debiting
<1>2. IsFiniteSet(A) /\ IsFiniteSet(B)
  BY PointsAssumption, FS_Subset DEF Debiting
<1>3. req'[r] = p /\ \A q \in Req \ {r} : req'[q] = req[q]
  BY DEF TypeOK, Set
<1>4. A \ {r} \subseteq B
  BY <1>3 DEF Debiting
<1>5. r \notin A /\ p.pc = "debit" /\ e \in p.expired => r \in B \ A
  BY <1>3
<1> HIDE DEF A, B
<1>6. /\ Cardinality(B) >= Cardinality(A) - 1
      /\ r \notin A => Cardinality(B) >= Cardinality(A)
      /\ r \in B \ A => Cardinality(B) >= Cardinality(A) + 1
  BY <1>2, <1>4, SmallerByOne
<1> QED BY <1>1, <1>5, <1>6 DEF A

LEMMA ArrivalsStep ==
  ASSUME TypeOK, NEW r \in Req, NEW p, Set(r, p), req[r].saved => p.saved, NEW e \in Event
  PROVE  /\ Arrivals(e)' >= Arrivals(e)
         /\ ~req[r].saved /\ p.saved /\ Kind[r] # "read" /\ EventOf[r] = e =>
              Arrivals(e)' >= Arrivals(e) + 1
<1> DEFINE A == Saved(e)
           B == {q \in Req : Kind[q] # "read" /\ EventOf[q] = e /\ req'[q].saved}
           o == IF Opens(e) THEN 1 ELSE 0
<1>1. Arrivals(e) = Cardinality(A) + o /\ Arrivals(e)' = Cardinality(B) + o /\ o \in Nat
  BY DEF Arrivals, Saved
<1>2. IsFiniteSet(A) /\ IsFiniteSet(B)
  BY PointsAssumption, FS_Subset DEF Saved
<1>3. req'[r] = p /\ \A q \in Req \ {r} : req'[q] = req[q]
  BY DEF TypeOK, Set
<1>4. A \subseteq B
  BY <1>3 DEF Saved
<1>5. ~req[r].saved /\ p.saved /\ Kind[r] # "read" /\ EventOf[r] = e => r \in B \ A
  BY <1>3 DEF Saved
<1> HIDE DEF A, B, o
<1>6. Cardinality(A) \in Nat /\ Cardinality(B) \in Nat /\ Cardinality(A) <= Cardinality(B)
  BY <1>2, <1>4, FS_CardinalityType, FS_Subset
<1>7. r \in B \ A => Cardinality(B) >= Cardinality(A) + 1
  BY <1>2, <1>4, SmallerByOne
<1> QED BY <1>1, <1>5, <1>6, <1>7

LEMMA StartCredit == Init => CInv
<1> SUFFICES ASSUME Init PROVE CInv
  OBVIOUS
<1>1. LInv /\ TypeOK
  BY StartLocal DEF LInv
<1>2. \A q \in Req : req[q].pc = "idle"
  BY DEF Init, IdleRequest
<1>3. \A q \in Req : Copies(q)
  BY <1>2 DEF Copies, Before
<1>4. ASSUME NEW e \in Event PROVE Bounded(e)
  <2> DEFINE A == Saved(e)
             o == IF Opens(e) THEN 1 ELSE 0
  <2>1. sink.credits[e] = 0 /\ Landed(e) = o
    BY DEF Init, Empty, Opened, Landed, Present, Opens
  <2>2. Arrivals(e) = Cardinality(A) + o /\ o \in Nat
    BY DEF Arrivals
  <2>3. Cardinality(A) \in Nat
    BY PointsAssumption, FS_Subset, FS_CardinalityType DEF Saved
  <2>4. Cardinality(Debiting(e)) \in Nat /\ Excuses \in Nat
    BY <1>1, CountTypes DEF CountOK
  <2> HIDE DEF A, o
  <2> QED BY <2>1, <2>2, <2>3, <2>4 DEF Bounded
<1> QED BY <1>1, <1>3, <1>4 DEF CInv

-----------------------------------------------------------------------------
(* Steps that write no ledger.                                             *)

LEMMA TypeShape == TypeOK => Shape
BY DEF TypeOK, Shape, Request, Fields

LEMMA SourceShape == \A led \in Source : SourceOK(led)
<1> SUFFICES ASSUME NEW led \in Source PROVE SourceOK(led)
  OBVIOUS
<1>1. DOMAIN led = {"balance", "entry", "gone"} /\ led.entry \in [Event -> Entry]
  BY DEF Source
<1> QED BY <1>1 DEF SourceOK, Entry, EntryFields

LEMMA QuietCopies ==
  ASSUME source \in Source, NEW q \in Req, Copies(q), UNCHANGED <<source, sink>>, Quiet(q)
  PROVE  Copies(q)'
<1>1. CASE Leaves(q)
  BY <1>1 DEF Leaves, Away, Copies
<1>2. CASE Holds(q)
  BY <1>2 DEF Holds, Copies, Before
<1>3. CASE Takes(q)
  <2>1. Present(Dated(source)) = Present(source)
    BY SourceShape, DatedFacts
  <2>2. Present(req'[q].source) = Present(source)
    BY <1>3, <2>1 DEF Takes
  <2>3. Copies(q)' <=>
          /\ req'[q].pc \in Before \cup {"debit", "write"} /\ q \in fresh'.source =>
               Present(req'[q].source) = Present(source)
          /\ req'[q].pc \in Before /\ q \in fresh'.sink => req'[q].sink = sink
          /\ req'[q].pc \in {"debit", "rollback"} /\ q \in fresh'.sink =>
               \A e \in Event : req'[q].sink.credits[e] <= sink.credits[e]
    BY DEF Copies, Present
  <2> QED BY <1>3, <2>2, <2>3 DEF Takes, Before
<1> QED BY <1>1, <1>2, <1>3 DEF Quiet

LEMMA ReadingExcuses ==
  ASSUME TypeOK, NEW r \in Req, Reading(r),
         UNCHANGED faults \/ Refused(r) \/ CallFails(r)
  PROVE  /\ Excuses' >= Excuses
         /\ req[r].pc = "debit" => Excuses' >= Excuses + 1
<1>0. conflicts \in Nat /\ failed \in Nat /\ lost \in Nat /\ crashes \in Nat
  BY DEF TypeOK
<1>1. CASE Refused(r) \/ CallFails(r)
  BY <1>0, <1>1 DEF Refused, CallFails, Excuses
<1>2. CASE UNCHANGED faults /\ ~CallFails(r) /\ ~Refused(r)
  <2>1. req[r].pc # "debit"
    BY <1>2 DEF Reading, Load, Taking, LockFetch, LockRefused, LockGivenUp, LockWrite,
                LockConflict, Fetch, Wait, Refetch, Unlock, UnlockConflict, Check, Read,
                Release, Rollback, Write
  <2> QED BY <1>0, <1>2, <2>1 DEF faults, Excuses
<1> QED BY <1>1, <1>2

\* How much more of a deposit is in the ledgers than there are new excuses.
Grows(e) == (sink'.credits[e] + Landed(e)' + Excuses) - (sink.credits[e] + Landed(e) + Excuses')

\* The deposit of a request is saved, or it goes on to take one out.
Arrives(r, p, e) == ~req[r].saved /\ p.saved /\ Kind[r] # "read" /\ EventOf[r] = e

LEMMA BoundedStep ==
  ASSUME CInv, TypeOK', NEW r \in Req, NEW p, Set(r, p), req[r].saved => p.saved,
         NEW e \in Event,
         \/ Grows(e) <= -1
         \/ Grows(e) <= 0 /\ r \notin Debiting(e)
         \/ Grows(e) <= 1 /\ r \notin Debiting(e)
              /\ (Arrives(r, p, e) \/ (p.pc = "debit" /\ e \in p.expired))
  PROVE  Bounded(e)'
<1>1. CountOK /\ CountOK'
  BY CountTypes, CountTypesNext DEF CInv, LInv
<1> DEFINE a == Arrivals(e)
           aa == Arrivals(e)'
           d == Cardinality(Debiting(e))
           dd == Cardinality(Debiting(e)')
           c == sink.credits[e]
           cc == sink'.credits[e]
           l == Landed(e)
           ll == Landed(e)'
           x == Excuses
           xx == Excuses'
<1>2. /\ a \in Nat /\ d \in Nat /\ c \in Nat /\ l \in Nat /\ x \in Nat
      /\ aa \in Nat /\ dd \in Nat /\ cc \in Nat /\ ll \in Nat /\ xx \in Nat
  BY <1>1 DEF CountOK
<1>3. /\ aa >= a
      /\ Arrives(r, p, e) => aa >= a + 1
  BY ArrivalsStep DEF CInv, LInv, Arrives
<1>4. /\ dd >= d - 1
      /\ r \notin Debiting(e) => dd >= d
      /\ r \notin Debiting(e) /\ p.pc = "debit" /\ e \in p.expired => dd >= d + 1
  BY DebitingStep DEF CInv, LInv
<1>5. c + l <= a + d + x /\ Grows(e) = (cc + ll + x) - (c + l + xx)
  BY DEF CInv, Bounded, Grows
<1>6. Bounded(e)' <=> cc + ll <= aa + dd + xx
  BY DEF Bounded
<1> HIDE DEF a, aa, d, dd, c, cc, l, ll, x, xx
<1> QED BY <1>2, <1>3, <1>4, <1>5, <1>6

LEMMA ReadingCredit ==
  ASSUME CInv, LInv', NEW r \in Req, Reading(r),
         UNCHANGED faults \/ Refused(r) \/ CallFails(r)
  PROVE  CInv'
<1>1. TypeOK /\ Shape /\ Stirs(r) /\ TypeOK'
  BY TypeShape, ReadingStirs DEF CInv, LInv
<1>2. PICK p : Set(r, p) /\ p.pc # "debit"
  BY <1>1 DEF Stirs, Set
<1>3. /\ req'[r] = p /\ \A q \in Req \ {r} : req'[q] = req[q]
      /\ req'[r].saved = req[r].saved
  BY <1>1, <1>2 DEF TypeOK, Set, Stirs, Quiet
<1>4. ASSUME NEW q \in Req PROVE Copies(q)'
  <2>1. q # r => Same(q)
    BY <1>1, <1>3 DEF Same, Stirs
  <2>2. Quiet(q)
    BY <1>1, <2>1, SameIsQuiet DEF Stirs
  <2> QED BY <1>1, <2>2, QuietCopies DEF CInv, Stirs, TypeOK
<1>5. ASSUME NEW e \in Event PROVE Bounded(e)'
  <2>1. sink'.credits[e] = sink.credits[e] /\ Landed(e)' = Landed(e)
    BY <1>1 DEF Stirs, Landed
  <2>2. /\ Excuses' >= Excuses
        /\ req[r].pc = "debit" => Excuses' >= Excuses + 1
    BY <1>1, ReadingExcuses
  <2>3. /\ sink.credits[e] \in Nat /\ Landed(e) \in Nat /\ Excuses \in Nat /\ Excuses' \in Nat
    BY <1>1, CountTypes, CountTypesNext DEF CountOK
  <2>4. /\ Grows(e) <= 0
        /\ req[r].pc = "debit" => Grows(e) <= -1
    BY <2>1, <2>2, <2>3 DEF Grows
  <2>5. req[r].pc # "debit" => r \notin Debiting(e)
    BY DEF Debiting
  <2> QED BY <1>1, <1>2, <1>3, <2>4, <2>5, BoundedStep
<1> QED BY <1>4, <1>5 DEF CInv

-----------------------------------------------------------------------------
(* Steps that write a ledger.                                              *)

\* The copies of the others survive the step of r.
LEMMA OtherCopies ==
  ASSUME NEW q \in Req, Copies(q), req'[q] = req[q],
         q \in fresh'.source => q \in fresh.source /\ source' = source,
         q \in fresh'.sink => q \in fresh.sink /\ sink' = sink
  PROVE  Copies(q)'
BY DEF Copies

LEMMA WritingCredit ==
  ASSUME CInv, LInv', NEW r \in Req, NEW p, Set(r, p), req[r].saved => p.saved,
         fresh'.source \subseteq fresh.source, source' = source \/ fresh'.source = {},
         fresh'.sink \subseteq fresh.sink, sink' = sink \/ fresh'.sink \subseteq {r},
         Copies(r)',
         \A e \in Event :
           \/ Grows(e) <= -1
           \/ Grows(e) <= 0 /\ r \notin Debiting(e)
           \/ Grows(e) <= 1 /\ r \notin Debiting(e)
                /\ (Arrives(r, p, e) \/ (p.pc = "debit" /\ e \in p.expired))
  PROVE  CInv'
<1>1. \A q \in Req \ {r} : req'[q] = req[q]
  BY DEF CInv, LInv, TypeOK, Set
<1>2. ASSUME NEW q \in Req \ {r} PROVE Copies(q)'
  BY <1>1, OtherCopies DEF CInv
<1>3. ASSUME NEW e \in Event PROVE Bounded(e)'
  BY BoundedStep DEF LInv
<1> QED BY <1>2, <1>3 DEF CInv

\* A place where a request has no copies that it will use.
LEMMA AwayCopies ==
  ASSUME TypeOK, NEW r \in Req, NEW p, Set(r, p), p.pc \in Away
  PROVE  Copies(r)'
<1>1. req'[r] = p
  BY DEF TypeOK, Set
<1> QED BY <1>1 DEF Copies, Away, Before

LEMMA CreditCredit ==
  ASSUME CInv, LInv', NEW r \in Req, Credit(r), Accepted(r, fresh.sink)
  PROVE  CInv'
<1> DEFINE p == At(req[r], "debit")
<1>1. /\ TypeOK /\ Shape /\ CountOK /\ CountOK' /\ Copies(r)
  BY TypeShape, CountTypes, CountTypesNext DEF CInv, LInv
<1>2. /\ req[r].pc = "credit" /\ r \in fresh.sink /\ Set(r, p) /\ source' = source
      /\ sink' = CreditSink(r) /\ fresh' = [fresh EXCEPT !.sink = {r}] /\ UNCHANGED faults
  BY DEF Credit, Accepted, Go
<1>3. /\ p.pc = "debit" /\ p.saved = req[r].saved /\ p.source = req[r].source
      /\ p.sink = req[r].sink /\ p.expired = req[r].expired
  BY <1>1, AtFacts DEF Shape, EndPC
<1> HIDE DEF p
<1>4. fresh'.source = fresh.source /\ fresh'.sink = {r} /\ req'[r] = p
  BY <1>1, <1>2 DEF TypeOK, Set
<1>5. req[r].sink = sink
  BY <1>1, <1>2 DEF Copies, Before
<1>6. \A e \in Event : sink'.credits[e] = sink.credits[e] + IF e \in req[r].expired THEN 1 ELSE 0
  BY <1>2, <1>5 DEF CreditSink, Credited
<1>7. Copies(r)'
  <2>1. \A e \in Event : sink.credits[e] <= sink'.credits[e]
    BY <1>1, <1>6 DEF CountOK
  <2> QED BY <1>1, <1>2, <1>3, <1>4, <1>5, <2>1 DEF Copies, Before
<1>8. ASSUME NEW e \in Event
      PROVE  r \notin Debiting(e) /\ Grows(e) <= IF e \in p.expired THEN 1 ELSE 0
  <2>1. Landed(e)' = Landed(e) /\ Excuses' = Excuses
    BY <1>2 DEF Landed, Excuses, faults
  <2>2. sink.credits[e] \in Nat /\ Landed(e) \in Nat /\ Excuses \in Nat
    BY <1>1 DEF CountOK
  <2> QED BY <1>2, <1>3, <1>6, <2>1, <2>2 DEF Debiting, Grows
<1> QED BY <1>2, <1>3, <1>4, <1>7, <1>8, WritingCredit

\* What is taken out of the source was there.
LEMMA DebitLands ==
  ASSUME CInv, NEW r \in Req, req[r].pc = "debit", r \in fresh.source,
         source' = DebitSource(r), NEW e \in Event
  PROVE  Landed(e)' = IF e \in req[r].expired THEN Landed(e) - 1 ELSE Landed(e)
<1>1. /\ Good(r, req[r]) /\ Present(req[r].source) = Present(source)
      /\ req[r].source \in Source
  BY DEF CInv, LInv, Copies, TypeOK, Request
<1>2. e \in req[r].expired => e \in Present(source)
  BY <1>1 DEF Good
<1>3. Present(source') = Present(source) \ req[r].expired
  <2>1. SourceOK(req[r].source)
    BY <1>1, SourceShape
  <2> QED BY <1>1, <2>1, DebitedFacts DEF DebitSource
<1>4. Landed(e)' = IF e \in Present(source') THEN 1 ELSE 0
  BY DEF Landed, Present
<1> QED BY <1>2, <1>3, <1>4 DEF Landed

LEMMA DebitCredit ==
  ASSUME CInv, LInv', NEW r \in Req, Debit(r), Accepted(r, fresh.source)
  PROVE  CInv'
<1> DEFINE p == [Forget(r, "unlock") EXCEPT !.good = TRUE]
<1>1. /\ TypeOK /\ Shape /\ CountOK /\ CountOK'
  BY TypeShape, CountTypes, CountTypesNext DEF CInv, LInv
<1>2. /\ req[r].pc = "debit" /\ r \in fresh.source /\ Set(r, p)
      /\ source' = DebitSource(r) /\ sink' = sink
      /\ fresh' = [Dropped(r) EXCEPT !.source = {}] /\ UNCHANGED faults
  BY DEF Debit, Accepted
<1>3. p.pc = "unlock" /\ p.saved = req[r].saved
  BY <1>1, GoodFacts
<1> HIDE DEF p
<1>4. fresh'.source = {} /\ fresh'.sink \subseteq fresh.sink
  BY <1>1, <1>2 DEF TypeOK, Dropped
<1>5. Copies(r)'
  BY <1>1, <1>2, <1>3, AwayCopies DEF Away, PC, EndPC, Before
<1>6. ASSUME NEW e \in Event
      PROVE  Grows(e) <= -1 \/ (Grows(e) <= 0 /\ r \notin Debiting(e))
  <2>1. /\ Landed(e)' = IF e \in req[r].expired THEN Landed(e) - 1 ELSE Landed(e)
        /\ Excuses' = Excuses /\ sink'.credits[e] = sink.credits[e]
    BY <1>2, DebitLands DEF Excuses, faults
  <2>2. sink.credits[e] \in Nat /\ Landed(e) \in Nat /\ Excuses \in Nat
    BY <1>1 DEF CountOK
  <2>3. /\ e \in req[r].expired => Grows(e) <= -1
        /\ e \notin req[r].expired => Grows(e) <= 0
    BY <2>1, <2>2 DEF Grows
  <2>4. e \notin req[r].expired => r \notin Debiting(e)
    BY DEF Debiting
  <2> QED BY <2>3, <2>4
<1> QED BY <1>2, <1>3, <1>4, <1>5, <1>6, WritingCredit

LEMMA RollbackCredit ==
  ASSUME CInv, LInv', NEW r \in Req, Rollback(r), Accepted(r, fresh.sink)
  PROVE  CInv'
<1> DEFINE p == Forget(r, "unlock")
<1>1. /\ TypeOK /\ Shape /\ CountOK /\ CountOK' /\ Copies(r)
  BY TypeShape, CountTypes, CountTypesNext DEF CInv, LInv
<1>2. /\ req[r].pc = "rollback" /\ r \in fresh.sink /\ Set(r, p)
      /\ source' = source /\ sink' = req[r].sink
      /\ fresh' = [Dropped(r) EXCEPT !.sink = {}] /\ UNCHANGED faults
  BY DEF Rollback, Accepted
<1>3. p.pc = "unlock" /\ p.saved = req[r].saved
  BY <1>1, ForgetFacts DEF Shape
<1> HIDE DEF p
<1>4. fresh'.sink = {} /\ fresh'.source \subseteq fresh.source
  BY <1>1, <1>2 DEF TypeOK, Dropped
<1>5. Copies(r)'
  BY <1>1, <1>2, <1>3, AwayCopies DEF Away, PC, EndPC, Before
<1>6. ASSUME NEW e \in Event PROVE Grows(e) <= 0 /\ r \notin Debiting(e)
  <2>1. /\ Landed(e)' = Landed(e) /\ Excuses' = Excuses
        /\ sink'.credits[e] <= sink.credits[e]
    BY <1>1, <1>2 DEF Copies, Landed, Excuses, faults
  <2>2. sink.credits[e] \in Nat /\ Landed(e) \in Nat /\ Excuses \in Nat /\ sink'.credits[e] \in Nat
    BY <1>1 DEF CountOK
  <2> QED BY <1>2, <2>1, <2>2 DEF Grows, Debiting
<1> QED BY <1>2, <1>3, <1>4, <1>5, <1>6, WritingCredit

\* A deposit or withdrawal brings at most its own entry.
LEMMA ChangedLands ==
  ASSUME CInv, NEW r \in Req, req[r].pc = "write", r \in fresh.source,
         source' = Changed(r), NEW e \in Event
  PROVE  /\ Landed(e)' <= Landed(e) + 1
         /\ EventOf[r] # e => Landed(e)' = Landed(e)
<1>1. Present(req[r].source) = Present(source) /\ req[r].source \in Source
  BY DEF CInv, LInv, Copies, TypeOK, Request
<1>2. Present(source') = Present(source) \cup {EventOf[r]}
  <2>1. SourceOK(req[r].source)
    BY <1>1, SourceShape
  <2> QED BY <1>1, <2>1, UpsertedFacts DEF Changed
<1>3. Landed(e)' = IF e \in Present(source') THEN 1 ELSE 0
  BY DEF Landed, Present
<1> QED BY <1>2, <1>3 DEF Landed

LEMMA WriteCredit ==
  ASSUME CInv, LInv', NEW r \in Req, Write(r), Accepted(r, fresh.source)
  PROVE  CInv'
<1> DEFINE p == [Forget(r, "release") EXCEPT !.saved = TRUE]
<1>1. /\ TypeOK /\ Shape /\ CountOK /\ CountOK' /\ Good(r, req[r])
  BY TypeShape, CountTypes, CountTypesNext DEF CInv, LInv
<1>2. /\ req[r].pc = "write" /\ r \in fresh.source /\ Set(r, p)
      /\ source' = Changed(r) /\ sink' = sink
      /\ fresh' = [Dropped(r) EXCEPT !.source = {}] /\ UNCHANGED faults
  BY DEF Write, Accepted
<1>3. p.pc = "release" /\ p.saved
  BY <1>2, GoodSaved DEF CInv
<1> HIDE DEF p
<1>4. fresh'.source = {} /\ fresh'.sink \subseteq fresh.sink
  BY <1>1, <1>2 DEF TypeOK, Dropped
<1>5. Copies(r)'
  BY <1>1, <1>2, <1>3, AwayCopies DEF Away, PC, EndPC, Before
<1>6. ~req[r].saved
  BY <1>1, <1>2 DEF Good, EndPC
<1>7. ASSUME NEW e \in Event
      PROVE  /\ r \notin Debiting(e)
             /\ Grows(e) <= 0 \/ (Grows(e) <= 1 /\ Arrives(r, p, e))
  <2>1. /\ Landed(e)' <= Landed(e) + 1
        /\ EventOf[r] # e => Landed(e)' = Landed(e)
        /\ Excuses' = Excuses /\ sink'.credits[e] = sink.credits[e]
    BY <1>2, ChangedLands DEF Excuses, faults
  <2>2. /\ sink.credits[e] \in Nat /\ Landed(e) \in Nat /\ Excuses \in Nat
        /\ Landed(e)' \in Nat
    BY <1>1 DEF CountOK
  <2>3. /\ Grows(e) <= 1
        /\ EventOf[r] # e => Grows(e) <= 0
    BY <2>1, <2>2 DEF Grows
  <2>4. Kind[r] # "read"
    BY <1>1, <1>2 DEF Good, Changing
  <2> QED BY <1>2, <1>3, <1>6, <2>3, <2>4 DEF Debiting, Arrives
<1> QED BY <1>2, <1>3, <1>4, <1>5, <1>7, WritingCredit

\* The write of a ledger whose reply is lost counts as one excuse.
LEMMA UnansweredGrows ==
  ASSUME CInv, CountOK', NEW r \in Req, AcctUnanswered(r) \/ LedgerUnanswered(r),
         Excuses' = Excuses + 1, NEW e \in Event
  PROVE  Grows(e) <= -1 \/ (Grows(e) <= 0 /\ r \notin Debiting(e))
<1>1. /\ CountOK /\ Copies(r)
  BY CountTypes DEF CInv, LInv
<1>2. /\ sink.credits[e] \in Nat /\ Landed(e) \in Nat /\ Excuses \in Nat
      /\ Landed(e)' \in Nat /\ sink'.credits[e] \in Nat
  BY <1>1 DEF CountOK
<1>3. CASE UNCHANGED <<source, sink>>
  <2>1. Landed(e)' = Landed(e) /\ sink'.credits[e] = sink.credits[e]
    BY <1>3 DEF Landed
  <2> QED BY <1>2, <2>1 DEF Grows
<1>4. CASE req[r].pc = "credit" /\ r \in fresh.sink /\ sink' = CreditSink(r) /\ source' = source
  <2>1. req[r].sink = sink /\ Landed(e)' = Landed(e) /\ r \notin Debiting(e)
    BY <1>1, <1>4 DEF Copies, Before, Landed, Debiting
  <2>2. sink'.credits[e] = sink.credits[e] + IF e \in req[r].expired THEN 1 ELSE 0
    BY <1>4, <2>1 DEF CreditSink, Credited
  <2>3. sink'.credits[e] <= sink.credits[e] + 1
    BY <1>2, <2>2
  <2> QED BY <1>2, <2>1, <2>3 DEF Grows
<1>5. CASE req[r].pc = "rollback" /\ r \in fresh.sink /\ sink' = req[r].sink /\ source' = source
  <2>1. sink'.credits[e] <= sink.credits[e] /\ Landed(e)' = Landed(e)
    BY <1>1, <1>5 DEF Copies, Landed
  <2> QED BY <1>2, <2>1 DEF Grows
<1>6. CASE req[r].pc = "debit" /\ r \in fresh.source /\ source' = DebitSource(r) /\ sink' = sink
  <2>1. Landed(e)' = IF e \in req[r].expired THEN Landed(e) - 1 ELSE Landed(e)
    BY <1>6, DebitLands
  <2>2. Landed(e)' <= Landed(e) /\ sink'.credits[e] = sink.credits[e]
    BY <1>2, <1>6, <2>1
  <2> QED BY <1>2, <2>2 DEF Grows
<1>7. CASE req[r].pc = "write" /\ r \in fresh.source /\ source' = Changed(r) /\ sink' = sink
  <2>1. Landed(e)' <= Landed(e) + 1 /\ sink'.credits[e] = sink.credits[e]
    BY <1>7, ChangedLands
  <2>2. r \notin Debiting(e)
    BY <1>7 DEF Debiting
  <2> QED BY <1>2, <2>1, <2>2 DEF Grows
<1>8. \/ UNCHANGED <<source, sink>>
      \/ req[r].pc = "credit" /\ r \in fresh.sink /\ sink' = CreditSink(r) /\ source' = source
      \/ req[r].pc = "rollback" /\ r \in fresh.sink /\ sink' = req[r].sink /\ source' = source
      \/ req[r].pc = "debit" /\ r \in fresh.source /\ source' = DebitSource(r) /\ sink' = sink
      \/ req[r].pc = "write" /\ r \in fresh.source /\ source' = Changed(r) /\ sink' = sink
  BY DEF AcctUnanswered, LedgerUnanswered
<1> QED BY <1>3, <1>4, <1>5, <1>6, <1>7, <1>8

LEMMA UnansweredCredit ==
  ASSUME CInv, LInv', NEW r \in Req, WriteUnanswered(r)
  PROVE  CInv'
<1>1. /\ TypeOK /\ Shape /\ CountOK /\ CountOK' /\ Copies(r) /\ Failure(r)
      /\ AcctUnanswered(r) \/ LedgerUnanswered(r)
  BY TypeShape, CountTypes, CountTypesNext DEF CInv, LInv, WriteUnanswered
<1>2. Calling(r)
  BY DEF WriteUnanswered, AcctUnanswered, LedgerUnanswered, Calling, EndPC
<1>3. PICK p : /\ Set(r, p) /\ p.saved = req[r].saved
               /\ \/ p.pc \in Away
                  \/ /\ req[r].pc = "debit" /\ p.pc = "rollback"
                     /\ p.source = req[r].source /\ p.sink = req[r].sink
                     /\ p.expired = req[r].expired
  BY <1>1, <1>2, FailureFacts DEF Set
<1>4. /\ fresh'.source \subseteq fresh.source /\ (source' = source \/ fresh'.source = {})
      /\ fresh'.sink \subseteq fresh.sink /\ (sink' = sink \/ fresh'.sink = {})
  <2>1. fresh \in [acct: SUBSET (Req \X Object), source: SUBSET Req, sink: SUBSET Req]
    BY <1>1 DEF TypeOK
  <2>2. CASE AcctUnanswered(r)
    BY <2>1, <2>2 DEF AcctUnanswered
  <2>3. CASE LedgerUnanswered(r)
    BY <2>1, <2>3 DEF LedgerUnanswered
  <2> QED BY <1>1, <2>2, <2>3
<1>5. Copies(r)'
  <2>1. CASE p.pc \in Away
    BY <1>1, <1>3, <2>1, AwayCopies
  <2>2. CASE req[r].pc = "debit" /\ p.pc = "rollback" /\ p.sink = req[r].sink
    <3>1. req'[r] = p
      BY <1>1, <1>3 DEF TypeOK, Set
    <3> QED BY <1>1, <1>4, <2>2, <3>1 DEF Copies, Before
  <2> QED BY <1>3, <2>1, <2>2
<1>6. Excuses' = Excuses + 1
  BY <1>1 DEF WriteUnanswered, Excuses, TypeOK
<1> QED BY <1>1, <1>3, <1>4, <1>5, <1>6, UnansweredGrows, WritingCredit

\* A node has at most one request about to debit, the one with its semaphore.
LEMMA CrashCredit ==
  ASSUME CInv, LInv', NEW n \in Node, Crash(n)
  PROVE  CInv'
<1>1. /\ TypeOK /\ Shape /\ CountOK /\ CountOK' /\ UNCHANGED <<source, sink>>
      /\ fresh'.source \subseteq fresh.source /\ fresh'.sink \subseteq fresh.sink
  BY TypeShape, CountTypes, CountTypesNext DEF CInv, LInv, Crash
<1>2. ASSUME NEW q \in Req
      PROVE  /\ req'[q].saved = req[q].saved /\ Quiet(q)
             /\ NodeOf[q] # n => req'[q] = req[q]
  <2>1. req'[q] = req[q] \/ (NodeOf[q] = n /\ req'[q] = Forget(q, "dead"))
    BY DEF Crash
  <2>2. CASE req'[q] = req[q]
    BY <1>1, <2>2, SameIsQuiet DEF Same
  <2>3. CASE NodeOf[q] = n /\ req'[q] = Forget(q, "dead")
    <3>1. req'[q].pc = "dead" /\ req'[q].saved = req[q].saved
      BY <1>1, <2>3, ForgetFacts DEF Shape
    <3> QED BY <2>3, <3>1 DEF Quiet, Leaves, Away, PC, EndPC, Before
  <2> QED BY <2>1, <2>2, <2>3
<1>3. \A q \in Req : Copies(q)'
  BY <1>1, <1>2, QuietCopies DEF CInv, TypeOK
<1>4. ASSUME NEW e \in Event PROVE Bounded(e)'
  <2> DEFINE A == Debiting(e)
             B == {q \in Req : req'[q].pc = "debit" /\ e \in req'[q].expired}
  <2>1. Debiting(e)' = B /\ IsFiniteSet(A) /\ IsFiniteSet(B)
    BY PointsAssumption, FS_Subset DEF Debiting
  <2>2. A \ {sem[n]} \subseteq B
    <3> SUFFICES ASSUME NEW q \in Req, req[q].pc = "debit", e \in req[q].expired, q # sem[n]
                 PROVE  req'[q] = req[q]
      BY DEF Debiting
    <3>1. sem[NodeOf[q]] = q
      BY DEF CInv, LInv, Holding
    <3> QED BY <1>2, <3>1
  <2> HIDE DEF A, B
  <2>3. Cardinality(B) >= Cardinality(A) - 1
    BY <2>1, <2>2, SmallerByOne
  <2>4. Arrivals(e)' = Arrivals(e)
    <3>1. {q \in Req : Kind[q] # "read" /\ EventOf[q] = e /\ req'[q].saved} = Saved(e)
      BY <1>2 DEF Saved
    <3> QED BY <3>1 DEF Arrivals, Saved
  <2>5. Landed(e)' = Landed(e) /\ Excuses' = Excuses + 1 /\ sink'.credits[e] = sink.credits[e]
    BY <1>1 DEF Landed, Excuses, Crash, TypeOK
  <2>6. /\ Arrivals(e) \in Nat /\ Cardinality(A) \in Nat /\ Excuses \in Nat
        /\ sink.credits[e] \in Nat /\ Landed(e) \in Nat /\ Cardinality(B) \in Nat
    BY <1>1, <2>1 DEF CountOK, A
  <2>7. sink.credits[e] + Landed(e) <= Arrivals(e) + Cardinality(A) + Excuses
    BY DEF CInv, Bounded, A
  <2>8. sink'.credits[e] + Landed(e)' <= Arrivals(e)' + Cardinality(B) + Excuses'
    BY <2>3, <2>4, <2>5, <2>6, <2>7
  <2> QED BY <2>1, <2>8 DEF Bounded
<1> QED BY <1>3, <1>4 DEF CInv

LEMMA StutterCredit ==
  ASSUME CInv, LInv', UNCHANGED <<source, sink, fresh, req, faults>>
  PROVE  CInv'
<1>1. \A q \in Req : Copies(q)'
  BY DEF CInv, Copies
<1>2. ASSUME NEW e \in Event PROVE Bounded(e)'
  <2>1. /\ Landed(e)' = Landed(e) /\ Arrivals(e)' = Arrivals(e) /\ Debiting(e)' = Debiting(e)
        /\ Excuses' = Excuses /\ sink' = sink
    BY DEF Landed, Present, Arrivals, Saved, Debiting, Excuses, faults
  <2> QED BY <2>1 DEF CInv, Bounded
<1> QED BY <1>1, <1>2 DEF CInv

LEMMA NextCredit == CInv /\ [Next]_vars => CInv'
<1> SUFFICES ASSUME CInv, [Next]_vars PROVE CInv'
  OBVIOUS
<1>1. LInv'
  BY NextLocal DEF CInv
<1>2. CASE Tick \/ UNCHANGED vars
  <2>1. UNCHANGED <<source, sink, fresh, req, faults>>
    BY <1>2 DEF Tick, vars, faults
  <2> QED BY <1>1, <2>1, StutterCredit
<1> QED BY <1>1, <1>2, Steps, ReadingCredit, CreditCredit, DebitCredit, RollbackCredit,
           WriteCredit, UnansweredCredit, CrashCredit DEF Happens

(***************************************************************************)
(* However many requests expire the points of an account at once           *)
(* (SaveLedgerExpirations, its retries and its rollback), an entry gets    *)
(* into the sink at most once for each time it was saved, for each credit  *)
(* whose debit is under way, and for each refused or failed write, lost    *)
(* reply or crash: nothing else ever credits it again.                     *)
(***************************************************************************)
THEOREM CreditCorrect == Spec => []CreditBounded
<1>1. Init => CInv
  BY StartCredit
<1>2. CInv => CreditBounded
  <2> SUFFICES ASSUME CInv, NEW e \in Event
               PROVE  sink.credits[e] <= Arrivals(e) + Cardinality(Crediting(e))
                                           + conflicts + failed + lost + crashes
    BY DEF CreditBounded
  <2>1. /\ TypeOK /\ CountOK /\ Bounded(e)
    BY CountTypes DEF CInv, LInv
  <2>2. /\ IsFiniteSet(Crediting(e)) /\ Debiting(e) \subseteq Crediting(e)
    BY PointsAssumption, FS_Subset DEF Crediting, Debiting
  <2>3. Cardinality(Debiting(e)) <= Cardinality(Crediting(e)) /\ Cardinality(Crediting(e)) \in Nat
    BY <2>2, FS_Subset, FS_CardinalityType
  <2>4. conflicts \in Nat /\ failed \in Nat /\ lost \in Nat /\ crashes \in Nat
    BY <2>1 DEF TypeOK
  <2> QED BY <2>1, <2>3, <2>4 DEF Bounded, CountOK, Excuses
<1> QED BY <1>1, <1>2, NextCredit, PTL DEF Spec

=============================================================================
