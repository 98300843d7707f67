--------------------------- MODULE AccountPoints ---------------------------
(***************************************************************************)
(* The points of one loyalty account: a source ledger that earns and       *)
(* spends, and a sink to which its entries expire, as two documents of a   *)
(* store that checks ETags.  Requests deposit, withdraw or only read       *)
(* (LoyaltyAccountService.DepositPointsAsync, WithdrawPointsAsync,         *)
(* GetLoyaltyAccountPointsAsync with resettleIfNeeded).  All of them first *)
(* move expired entries to the sink (ExpirePoints), which takes a          *)
(* semaphore of the node and a lease on the account; deposits and          *)
(* withdrawals hold a lease of their own around it, and then change the    *)
(* source ledger (UpsertLoyaltyAccountPointsAsync).                        *)
(*                                                                         *)
(* Points are whole numbers.  Both ledgers exist, and the entries of the   *)
(* sink expire beyond the bound of the clock.                              *)
(***************************************************************************)
EXTENDS Integers, FiniteSets, FiniteSetsExt

CONSTANTS
  Req,        \* the requests
  NoReq,      \* nobody holds a semaphore
  Kind,       \* per request: "deposit", "withdraw" or "read"
  Event,      \* numbers of the events of ledger entries
  EventOf,    \* the event of a deposit or withdrawal
  Amount,     \* its points
  DueOf,      \* the expiration date a deposit brings along, 0 for none
  Earned,     \* its EarnDate
  EndDate,    \* PointsLifespanEndDate of the account type, 0 for none
  Days,       \* PointsLifespanDays
  After,      \* the requests that have ended when a request is made
  Node,       \* the nodes
  NodeOf,     \* the node a request runs on
  Opening,    \* the entries of the source ledger at the start
  Lease,      \* per account object, the length of its lease (250 and 500 ms)
  Attempts,   \* tries of TryLockAccount (3)
  Retries,    \* maxETagRetries of ExpirePoints (3)
  MaxTime,    \* bound: the clock stops here
  MaxFaults   \* bound: store calls that fail, lost replies and crashes

\* A request holds up to two objects of the account: the one it loaded or
\* locked itself, and the one ExpirePoints locked.
Object == {"own", "exp"}

\* An entry that began as a deposit has SpendablePoints; the others have none,
\* and never get any.  A due of 0 is no ExpirationDate.
Entry == [began: {"none", "deposit", "withdraw"}, dep: Nat, wd: Nat, spend: Int, due: Nat]

\* No entry for the event.
NoEntry == [began |-> "none", dep |-> 0, wd |-> 0, spend |-> 0, due |-> 0]

ASSUME PointsAssumption ==
  /\ IsFiniteSet(Req)
  /\ NoReq \notin Req
  /\ Kind \in [Req -> {"deposit", "withdraw", "read"}]
  /\ Event \subseteq Nat /\ IsFiniteSet(Event)
  /\ EventOf \in [Req -> Event]
  /\ Amount \in [Req -> Nat \ {0}]
  /\ DueOf \in [Req -> Nat]
  /\ Earned \in [Req -> Nat \ {0}]
  /\ EndDate \in Nat /\ Days \in Nat
  /\ After \in [Req -> SUBSET Req]
  /\ NodeOf \in [Req -> Node]
  /\ Opening \in [Event -> Entry]
  /\ Lease \in [Object -> Nat \ {0}]
  /\ Attempts \in Nat \ {0}
  /\ Retries \in Nat \ {0}
  /\ MaxTime \in Nat /\ MaxFaults \in Nat

VARIABLES
  acct,       \* the lease in the account document: its key and expiration
  source,     \* the source ledger
  sink,       \* the ledger of expired points
  fresh,      \* per document, who holds a copy with the stored ETag
  sem,        \* per node, who holds the account's semaphore
  req,        \* per request, where it is and what it holds in memory
  now,        \* the clock
  conflicts,  \* ledger writes of expirations refused so far
  failed,     \* store calls that failed so far
  lost,       \* writes whose reply was lost so far
  crashes     \* crashes so far

faults == <<conflicts, failed, lost, crashes>>

vars == <<acct, source, sink, fresh, sem, req, now, faults>>

\* A LockLeaseKey is a new Guid of a request and object, or null.
Keys == (Req \X Object) \cup {<<NoReq, "own">>}

Unlocked == [key |-> <<NoReq, "own">>, exp |-> 0]

Total(S, f) == MapThenSumSet(LAMBDA e : f[e], S)

Opened ==
  [balance |-> Total(Event, [e \in Event |-> Opening[e].dep - Opening[e].wd]),
   entry   |-> Opening,
   gone    |-> 0]

Empty == [balance |-> 0, credits |-> [e \in Event |-> 0]]

\* The last field is history: the points of withdrawals that have expired.
Source == [balance: Int, entry: [Event -> Entry], gone: Nat]
Sink   == [balance: Int, credits: [Event -> Nat]]

EndPC == {"done", "failed", "dead"}

PC == {"idle", "lock", "locking", "fetch", "wait", "relock", "relocking",
       "credit", "debit", "rollback", "refetch", "unlock",
       "check", "read", "write", "release"} \cup EndPC

Request ==
  [pc: PC, tries: Nat, retries: Nat,
   exp: Nat,                       \* the end of the lease it took last
   leased: Nat,                    \* the end of the caller's own lease
   object: Object,                 \* what the finally of ExpirePoints writes
   good: BOOLEAN,                  \* whether the expiration succeeded
   saved: BOOLEAN,                 \* whether the deposit or withdrawal did
   source: Source, sink: Sink,     \* the ledgers as fetched
   expired: SUBSET Event]          \* the entries found to have expired

IdleRequest ==
  [pc |-> "idle", tries |-> 0, retries |-> 0, exp |-> 0, leased |-> 0,
   object |-> "own", good |-> FALSE, saved |-> FALSE,
   source |-> Opened, sink |-> Empty, expired |-> {}]

TypeOK ==
  /\ acct \in [key: Keys, exp: Nat]
  /\ source \in Source
  /\ sink \in Sink
  /\ fresh \in [acct: SUBSET (Req \X Object), source: SUBSET Req, sink: SUBSET Req]
  /\ sem \in [Node -> Req \cup {NoReq}]
  /\ req \in [Req -> Request]
  /\ now \in Nat
  /\ conflicts \in Nat /\ failed \in Nat /\ lost \in Nat /\ crashes \in Nat

Init ==
  /\ acct = Unlocked
  /\ source = Opened
  /\ sink = Empty
  /\ fresh = [acct |-> {}, source |-> {}, sink |-> {}]
  /\ sem = [n \in Node |-> NoReq]
  /\ req = [r \in Req |-> IdleRequest]
  /\ now = 1
  /\ conflicts = 0 /\ failed = 0 /\ lost = 0 /\ crashes = 0

-----------------------------------------------------------------------------
(* The ledgers.                                                            *)

\* The date the account type gives to an entry that has none.
TypeDate(t) == IF EndDate # 0 THEN EndDate ELSE t + Days

\* ExpirePoints dates every entry that has none, withdrawals included, in the
\* copy it fetched; the store sees the dates if that copy is written.
Dated(led) ==
  [led EXCEPT !.entry = [e \in Event |->
     IF led.entry[e].began # "none" /\ led.entry[e].due = 0
     THEN [led.entry[e] EXCEPT !.due = TypeDate(now)] ELSE led.entry[e]]]

Expired(led) == {e \in Event : led.entry[e].began # "none" /\ led.entry[e].due \in 1 .. now}

Dep(r) == IF Kind[r] = "deposit" THEN Amount[r] ELSE 0

\* Mutated: the points withdrawn are kept with the sign of the adjustment.
WdSigned(r) == IF Kind[r] = "withdraw" THEN - Amount[r] ELSE 0

Wd(r) == IF Kind[r] = "withdraw" THEN Amount[r] ELSE 0

\* Mutated: a request that comes again is settled with its whole amount.
AdjustmentWhole(old, r) == Dep(r) - Wd(r)

\* A request that comes again is settled by the difference.
Adjustment(old, r) == (Dep(r) - old.dep) - (Wd(r) - old.wd)

\* The first entry of an event.  A deposit brings SpendablePoints along, to
\* which the service adds the points once more; a withdrawal gets no date.
NewEntry(r) ==
  IF Kind[r] = "deposit"
  THEN [began |-> "deposit", dep |-> Dep(r), wd |-> Wd(r), spend |-> 2 * Amount[r],
        due |-> IF DueOf[r] # 0 THEN DueOf[r] ELSE TypeDate(Earned[r])]
  ELSE [began |-> "withdraw", dep |-> Dep(r), wd |-> Wd(r), spend |-> 0, due |-> 0]

\* An entry that comes again, be it as the other kind.
Rewritten(old, r) ==
  [began |-> old.began, dep |-> Dep(r), wd |-> Wd(r),
   spend |-> IF old.began = "deposit" THEN old.spend + Adjustment(old, r) ELSE old.spend,
   due   |-> IF old.due = 0 THEN TypeDate(Earned[r]) ELSE old.due]

Recorded(led, r) ==
  LET old == led.entry[EventOf[r]]
  IN  [led EXCEPT !.balance = @ + Adjustment(old, r),
                  !.entry[EventOf[r]] = IF old.began = "none" THEN NewEntry(r)
                                                              ELSE Rewritten(old, r)]

\* What is spendable before e, in the order of expiration.
SpendableBefore(led, e) ==
  LET sooner == {f \in Event : \/ led.entry[f].due < led.entry[e].due
                               \/ led.entry[f].due = led.entry[e].due /\ f < e}
  IN  Total({f \in sooner : led.entry[f].spend > 0},
            [f \in Event |-> led.entry[f].spend])

\* The part of n points that is taken from e.
Taken(led, e, n) ==
  LET rest == n - SpendableBefore(led, e)
      have == led.entry[e].spend
  IN  IF rest <= 0 \/ have <= 0 THEN 0 ELSE IF rest < have THEN rest ELSE have

Spent(led, n) ==
  [led EXCEPT !.entry = [e \in Event |->
                           [led.entry[e] EXCEPT !.spend = @ - Taken(led, e, n)]]]

\* A withdrawal that changes the balance spends its whole amount, also when it
\* comes again.
Spends(led, r) == Kind[r] = "withdraw" /\ Adjustment(led.entry[EventOf[r]], r) # 0

Upserted(led, r) ==
  IF Spends(led, r) THEN Spent(Recorded(led, r), Amount[r]) ELSE Recorded(led, r)

\* Something to spend from is needed; and a withdrawal that comes again is to
\* get the date of its EarnDate, which it has not, if the type has no end date.
CanUpsert(led, r) ==
  LET old == led.entry[EventOf[r]] IN
  /\ Spends(led, r) => \E f \in Event : Recorded(led, r).entry[f].spend > 0
  /\ Kind[r] = "withdraw" /\ old.began # "none" /\ old.due = 0 => EndDate # 0

Points(led, E) == Total(E, [e \in Event |-> led.entry[e].dep])

\* The sink gets the expired entries, and is credited with the whole deposits
\* among them, spent or not.
Credited(snk, led, E) ==
  [balance |-> snk.balance + Points(led, E),
   credits |-> [e \in Event |-> snk.credits[e] + IF e \in E THEN 1 ELSE 0]]

\* Mutated: the expired entries stay in the source ledger, without points to
\* spend.
DebitedInPlace(led, E) ==
  [led EXCEPT !.balance = @ - Points(led, E),
              !.entry = [e \in Event |-> IF e \in E THEN [led.entry[e] EXCEPT !.spend = 0]
                                                     ELSE led.entry[e]]]

\* The balance loses the deposits only.
Debited(led, E) ==
  [balance |-> led.balance - Points(led, E),
   entry   |-> [e \in Event |-> IF e \in E THEN NoEntry ELSE led.entry[e]],
   gone    |-> led.gone + Total(E, [e \in Event |-> led.entry[e].wd])]

-----------------------------------------------------------------------------
(* Steps of a request.                                                     *)

Set(r, new) == req' = [req EXCEPT ![r] = new]

\* A request that has ended keeps only whether it saved its points.
At(q, pc) == IF pc \in EndPC THEN [IdleRequest EXCEPT !.pc = pc, !.saved = q.saved]
                             ELSE [q EXCEPT !.pc = pc]

Go(r, pc) == Set(r, At(req[r], pc))

\* Where an exception takes the request: the finally of a deposit or
\* withdrawal, or straight to the caller.
Bail(r) == IF Kind[r] = "read" THEN "failed" ELSE "release"

\* Its copies of the ledgers are not used any more.
Forget(r, pc) ==
  At([req[r] EXCEPT !.source = Opened, !.sink = Empty, !.expired = {}], pc)

Dropped(r) == [fresh EXCEPT !.source = @ \ {r}, !.sink = @ \ {r}]

WriteAcct(doc, copies) ==
  /\ acct' = doc
  /\ fresh' = [fresh EXCEPT !.acct = copies]

\* A deposit or withdrawal goes on with the object that it locks.
Load(r) ==
  /\ req[r].pc = "idle"
  /\ \A q \in After[r] : req[q].pc \in EndPC
  /\ IF Kind[r] = "read"
     THEN Go(r, "fetch") /\ fresh' = [fresh EXCEPT !.acct = @ \cup {<<r, "own">>}]
     ELSE Go(r, "lock") /\ UNCHANGED fresh
  /\ UNCHANGED <<acct, source, sink, sem, now, faults>>

\* The object that TryLockAccount is to lock.
Locking(r) == IF req[r].pc \in {"lock", "locking"} THEN "own" ELSE "exp"

Leased == acct.key # Unlocked.key /\ acct.exp > now

LockFetch(r) ==
  /\ req[r].pc \in {"lock", "relock"}
  /\ ~Leased
  /\ Set(r, [req[r] EXCEPT !.pc = IF @ = "lock" THEN "locking" ELSE "relocking",
                           !.exp = now + Lease[Locking(r)]])
  /\ fresh' = [fresh EXCEPT !.acct = @ \cup {<<r, Locking(r)>>}]
  /\ UNCHANGED <<acct, source, sink, sem, now, faults>>

LockRefused(r) ==
  /\ req[r].pc \in {"lock", "relock"}
  /\ Leased
  /\ req[r].tries + 1 < Attempts
  /\ Set(r, [req[r] EXCEPT !.tries = @ + 1])
  /\ UNCHANGED <<acct, source, sink, fresh, sem, now, faults>>

\* Mutated: the semaphore is kept when there is no account to unlock.
Kept(r) == sem

\* The semaphore after r gave it back.
GivenBack(r) == [sem EXCEPT ![NodeOf[r]] = NoReq]

\* TryLockAccount returns null.  ExpirePoints then fails on the null account
\* and its finally gives back the semaphore only.
LockGivenUp(r) ==
  /\ req[r].pc \in {"lock", "relock"}
  /\ Leased
  /\ req[r].tries + 1 >= Attempts
  /\ IF req[r].pc = "lock"
     THEN Go(r, "failed") /\ UNCHANGED <<fresh, sem>>
     ELSE Set(r, Forget(r, Bail(r))) /\ fresh' = Dropped(r) /\ sem' = GivenBack(r)
  /\ UNCHANGED <<acct, source, sink, now, faults>>

LockWrite(r) ==
  /\ req[r].pc \in {"locking", "relocking"}
  /\ <<r, Locking(r)>> \in fresh.acct
  /\ WriteAcct([key |-> <<r, Locking(r)>>, exp |-> req[r].exp], {<<r, Locking(r)>>})
  /\ Set(r, IF req[r].pc = "locking"
            THEN [req[r] EXCEPT !.pc = "fetch", !.tries = 0, !.exp = 0, !.leased = req[r].exp]
            ELSE [req[r] EXCEPT !.pc = "credit", !.exp = 0, !.object = "exp"])
  /\ UNCHANGED <<source, sink, sem, now, faults>>

\* TryLockAccount throws: at once to the caller, or through the finally of
\* ExpirePoints, which still has the caller's object.
Thrown(r) == IF Locking(r) = "own" THEN "failed" ELSE "unlock"

LockConflict(r) ==
  /\ req[r].pc \in {"locking", "relocking"}
  /\ <<r, Locking(r)>> \notin fresh.acct
  /\ Go(r, Thrown(r))
  /\ UNCHANGED <<acct, source, sink, fresh, sem, now, faults>>

-----------------------------------------------------------------------------
(* ExpirePoints.                                                           *)

Fetched(r, pc) ==
  [req[r] EXCEPT !.pc = pc, !.source = Dated(source), !.sink = sink,
                 !.expired = Expired(Dated(source))]

\* The first pass, without locks: most requests find nothing to expire.
Fetch(r) ==
  /\ req[r].pc = "fetch"
  /\ IF Expired(Dated(source)) = {}
     THEN /\ Go(r, IF Kind[r] = "read" THEN "done" ELSE "check")
          /\ UNCHANGED fresh
     ELSE /\ Set(r, Fetched(r, "wait"))
          /\ fresh' = [fresh EXCEPT !.source = @ \cup {r}, !.sink = @ \cup {r}]
  /\ UNCHANGED <<acct, source, sink, sem, now, faults>>

Wait(r) ==
  /\ req[r].pc = "wait"
  /\ sem[NodeOf[r]] = NoReq
  /\ sem' = [sem EXCEPT ![NodeOf[r]] = r]
  /\ Go(r, "relock")
  /\ UNCHANGED <<acct, source, sink, fresh, now, faults>>

\* Mutated: the ledgers are written without their ETag.
AcceptedAlways(r, copies) == TRUE

\* The store takes a ledger whose fetched ETag is still the stored one.
Accepted(r, copies) == r \in copies

\* A refused ledger makes ExpirePoints fetch both again and look once more.
Refused(r) ==
  /\ conflicts' = conflicts + 1
  /\ Set(r, IF req[r].retries + 1 < Retries
            THEN [req[r] EXCEPT !.pc = "refetch", !.retries = @ + 1]
            ELSE Forget(r, "unlock"))
  /\ UNCHANGED <<source, sink, fresh, failed, lost, crashes>>

CreditSink(r) == Credited(req[r].sink, req[r].source, req[r].expired)

Credit(r) ==
  /\ req[r].pc = "credit"
  /\ IF Accepted(r, fresh.sink)
     THEN /\ sink' = CreditSink(r)
          /\ fresh' = [fresh EXCEPT !.sink = {r}]
          /\ Go(r, "debit")
          /\ UNCHANGED <<source, faults>>
     ELSE Refused(r)
  /\ UNCHANGED <<acct, sem, now>>

DebitSource(r) == Debited(req[r].source, req[r].expired)

Debit(r) ==
  /\ req[r].pc = "debit"
  /\ IF Accepted(r, fresh.source)
     THEN /\ source' = DebitSource(r)
          /\ fresh' = [Dropped(r) EXCEPT !.source = {}]
          /\ Set(r, [Forget(r, "unlock") EXCEPT !.good = TRUE])
          /\ UNCHANGED <<sink, faults>>
     ELSE Refused(r)
  /\ UNCHANGED <<acct, sem, now>>

Refetch(r) ==
  /\ req[r].pc = "refetch"
  /\ IF Expired(Dated(source)) = {}
     THEN /\ Set(r, [Forget(r, "unlock") EXCEPT !.good = TRUE])
          /\ fresh' = Dropped(r)
     ELSE /\ Set(r, Fetched(r, "credit"))
          /\ fresh' = [fresh EXCEPT !.source = @ \cup {r}, !.sink = @ \cup {r}]
  /\ UNCHANGED <<acct, source, sink, sem, now, faults>>

\* Only after a failure that was no conflict: the sink as it was fetched.
Rollback(r) ==
  /\ req[r].pc = "rollback"
  /\ IF Accepted(r, fresh.sink)
     THEN sink' = req[r].sink /\ fresh' = [Dropped(r) EXCEPT !.sink = {}]
     ELSE UNCHANGED sink /\ fresh' = Dropped(r)
  /\ Set(r, Forget(r, "unlock"))
  /\ UNCHANGED <<acct, source, sem, now, faults>>

\* The request after ExpirePoints.
Resumed(r, ok) ==
  LET next == IF ~ok THEN Bail(r) ELSE IF Kind[r] = "read" THEN "done" ELSE "check"
  IN  [Forget(r, next) EXCEPT !.tries = 0, !.retries = 0, !.exp = 0,
                              !.object = "own", !.good = FALSE]

\* The finally of ExpirePoints: the lease, then the semaphore.
Unlock(r) ==
  /\ req[r].pc = "unlock"
  /\ <<r, req[r].object>> \in fresh.acct
  /\ acct' = Unlocked
  /\ fresh' = [Dropped(r) EXCEPT !.acct = {}]
  /\ sem' = GivenBack(r)
  /\ Set(r, Resumed(r, req[r].good))
  /\ UNCHANGED <<source, sink, now, faults>>

\* The exception of the account's write skips the release of the semaphore.
UnlockConflict(r) ==
  /\ req[r].pc = "unlock"
  /\ <<r, req[r].object>> \notin fresh.acct
  /\ fresh' = Dropped(r)
  /\ Set(r, Resumed(r, FALSE))
  /\ UNCHANGED <<acct, source, sink, sem, now, faults>>

-----------------------------------------------------------------------------
(* UpsertLoyaltyAccountPointsAsync and the finally of its callers.         *)

\* A lease of the caller's that has run out is not checked any more.
LeaseStolen(r) ==
  req[r].leased > now /\ acct.key \notin {<<r, "own">>, Unlocked.key}

Check(r) ==
  /\ req[r].pc = "check"
  /\ Go(r, IF LeaseStolen(r) THEN "release" ELSE "read")
  /\ UNCHANGED <<acct, source, sink, fresh, sem, now, faults>>

Read(r) ==
  /\ req[r].pc = "read"
  /\ IF CanUpsert(source, r)
     THEN /\ Set(r, [req[r] EXCEPT !.pc = "write", !.source = source])
          /\ fresh' = [fresh EXCEPT !.source = @ \cup {r}]
     ELSE Go(r, "release") /\ UNCHANGED fresh
  /\ UNCHANGED <<acct, source, sink, sem, now, faults>>

Changed(r) == Upserted(req[r].source, r)

Write(r) ==
  /\ req[r].pc = "write"
  /\ IF Accepted(r, fresh.source)
     THEN /\ source' = Changed(r)
          /\ fresh' = [Dropped(r) EXCEPT !.source = {}]
          /\ Set(r, [Forget(r, "release") EXCEPT !.saved = TRUE])
     ELSE /\ UNCHANGED source
          /\ fresh' = Dropped(r)
          /\ Set(r, Forget(r, "release"))
  /\ UNCHANGED <<acct, sink, sem, now, faults>>

\* The request fails when its lease cannot be given back, also when its
\* points were saved.
Release(r) ==
  /\ req[r].pc = "release"
  /\ IF <<r, "own">> \in fresh.acct
     THEN /\ WriteAcct(Unlocked, {})
          /\ Go(r, IF req[r].saved THEN "done" ELSE "failed")
     ELSE Go(r, "failed") /\ UNCHANGED <<acct, fresh>>
  /\ UNCHANGED <<source, sink, sem, now, faults>>

-----------------------------------------------------------------------------
(* Failures.                                                               *)

\* What the request does after the call it is making has thrown.
Failure(r) ==
  CASE req[r].pc \in {"lock", "locking", "relock", "relocking"} -> Go(r, Thrown(r))
    [] req[r].pc \in {"fetch", "check", "read"} -> Go(r, Bail(r))
    [] req[r].pc = "write" -> Set(r, Forget(r, "release"))
    [] req[r].pc \in {"credit", "refetch", "rollback"} -> Set(r, Forget(r, "unlock"))
    [] req[r].pc = "debit" -> Go(r, "rollback")
    [] req[r].pc = "unlock" -> Set(r, Resumed(r, FALSE))
    [] req[r].pc = "release" -> Go(r, "failed")

Calling(r) == req[r].pc \notin {"idle", "wait"} \cup EndPC

CallFails(r) ==
  /\ failed + lost + crashes < MaxFaults
  /\ Calling(r)
  /\ failed' = failed + 1
  /\ Failure(r)
  /\ UNCHANGED <<acct, source, sink, fresh, sem, now, conflicts, lost, crashes>>

\* The write of an account that the store takes, and whose reply is lost.
AcctUnanswered(r) ==
  /\ \/ /\ req[r].pc \in {"locking", "relocking"}
        /\ <<r, Locking(r)>> \in fresh.acct
        /\ acct' = [key |-> <<r, Locking(r)>>, exp |-> req[r].exp]
     \/ /\ req[r].pc = "unlock"
        /\ <<r, req[r].object>> \in fresh.acct
        /\ acct' = Unlocked
     \/ /\ req[r].pc = "release"
        /\ <<r, "own">> \in fresh.acct
        /\ acct' = Unlocked
  /\ fresh' = [fresh EXCEPT !.acct = {}]
  /\ UNCHANGED <<source, sink>>

\* Likewise of a ledger.
LedgerUnanswered(r) ==
  /\ \/ /\ req[r].pc = "credit" /\ r \in fresh.sink
        /\ sink' = CreditSink(r) /\ fresh' = [fresh EXCEPT !.sink = {}]
        /\ UNCHANGED source
     \/ /\ req[r].pc = "rollback" /\ r \in fresh.sink
        /\ sink' = req[r].sink /\ fresh' = [fresh EXCEPT !.sink = {}]
        /\ UNCHANGED source
     \/ /\ req[r].pc \in {"debit", "write"} /\ r \in fresh.source
        /\ source' = IF req[r].pc = "debit" THEN DebitSource(r) ELSE Changed(r)
        /\ fresh' = [fresh EXCEPT !.source = {}]
        /\ UNCHANGED sink
  /\ UNCHANGED acct

WriteUnanswered(r) ==
  /\ failed + lost + crashes < MaxFaults
  /\ AcctUnanswered(r) \/ LedgerUnanswered(r)
  /\ lost' = lost + 1
  /\ Failure(r)
  /\ UNCHANGED <<sem, now, conflicts, failed, crashes>>

Crash(n) ==
  /\ failed + lost + crashes < MaxFaults
  /\ crashes' = crashes + 1
  /\ sem' = [sem EXCEPT ![n] = NoReq]
  /\ req' = [r \in Req |-> IF NodeOf[r] = n /\ req[r].pc \notin {"idle"} \cup EndPC
                           THEN Forget(r, "dead") ELSE req[r]]
  /\ fresh' = [acct   |-> {c \in fresh.acct : NodeOf[c[1]] # n},
               source |-> {r \in fresh.source : NodeOf[r] # n},
               sink   |-> {r \in fresh.sink : NodeOf[r] # n}]
  /\ UNCHANGED <<acct, source, sink, now, conflicts, failed, lost>>

Tick ==
  /\ now < MaxTime
  /\ now' = now + 1
  /\ UNCHANGED <<acct, source, sink, fresh, sem, req, faults>>

-----------------------------------------------------------------------------

Taking(r) == LockFetch(r) \/ LockRefused(r) \/ LockGivenUp(r) \/ LockWrite(r) \/ LockConflict(r)

Expiring(r) ==
  \/ Fetch(r) \/ Wait(r) \/ Credit(r) \/ Debit(r) \/ Refetch(r) \/ Rollback(r)
  \/ Unlock(r) \/ UnlockConflict(r)

Saving(r) == Check(r) \/ Read(r) \/ Write(r) \/ Release(r)

Next ==
  \/ \E r \in Req : Load(r) \/ Taking(r) \/ Expiring(r) \/ Saving(r)
  \/ \E r \in Req : CallFails(r) \/ WriteUnanswered(r)
  \/ \E n \in Node : Crash(n)
  \/ Tick

Spec == Init /\ [][Next]_vars

\* Awaited calls go on.
FairSpec ==
  /\ Spec
  /\ \A r \in Req : WF_vars(Taking(r) \/ Expiring(r) \/ Saving(r))

-----------------------------------------------------------------------------
(* Properties.                                                             *)

\* Whatever expires, is written again or is tried again, the balance of the
\* source ledger is the deposits it has less all that was withdrawn.  The balance
\* and the entries are changed by separate statements of ExpirePoints and of the
\* upsert, and an entry can expire with either kind of points: a withdrawal that
\* expires leaves the entries and stays deducted, so that the balance is then not
\* the sum of the entries any more.
BalanceBacked ==
  source.balance + source.gone
    = Total(Event, [e \in Event |-> source.entry[e].dep - source.entry[e].wd])

\* The requests that saved an entry of e.
Saved(e) == {r \in Req : Kind[r] # "read" /\ EventOf[r] = e /\ req[r].saved}

Opens(e) == Opening[e].began # "none"

Known(e) == Opens(e) \/ Saved(e) # {}

\* No race, refused or failed call or crash loses the entry of a deposit or a
\* withdrawal that was saved: it is in one of the two ledgers, or on its way from
\* one to the other in both.  It needs the replies of writes: a write of the
\* source that is taken and looks failed makes ExpirePoints take the entry out of
\* the sink as well.
EntriesKept ==
  lost = 0 =>
    \A e \in Event : Known(e) => source.entry[e].began # "none" \/ sink.credits[e] > 0

Arrivals(e) == Cardinality(Saved(e)) + IF Opens(e) THEN 1 ELSE 0

Crediting(e) == {r \in Req : req[r].pc \in {"debit", "rollback"} /\ e \in req[r].expired}

\* An entry expires once for each time it was saved; every further one in the
\* sink is under way, or the work of a refused or failed write or a crash.
CreditBounded ==
  \A e \in Event : sink.credits[e] <= Arrivals(e) + Cardinality(Crediting(e))
                                     + conflicts + failed + lost + crashes

\* What SaveLedgerExpirations says of a refused write, that no rollback is
\* needed because the retry fetches fresh data, and what the test
\* Points_WithConcurrentExpiration_ShouldHandleRaceCondition expects: points
\* that two callers expire at the same time reach the sink once.
CreditedOnce == \A e \in Event : sink.credits[e] <= 1

\* The semaphore is held by a request that failed: the write of the account in
\* the finally of ExpirePoints threw.
Leaked(n) == sem[n] # NoReq /\ req[sem[n]].pc \in {"release", "failed"}

Stuck(r) == req[r].pc = "wait" /\ Leaked(NodeOf[r])

\* Every request that is made comes to an end, whatever calls fail, unless it
\* waits for a semaphore that a failed request of its node never gave back.
EveryRequestAnswered == <>[](\A r \in Req : req[r].pc \in {"idle"} \cup EndPC \/ Stuck(r))

=============================================================================
