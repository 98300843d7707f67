---------------------------- MODULE AccountTurn ----------------------------
(***************************************************************************)
(* The turns that events take on one loyalty account.  A turn              *)
(* (EventService.ProcessEventAsync) loads the account and the event's      *)
(* wrapper, takes a lease on the account (LoyaltyAccountService            *)
(* .TryLockAccount), decays and counts the historical rule state           *)
(* (RulesService.HydrateState), moves the account through its journeys,    *)
(* and writes the whole account back without its lease                     *)
(* (RulesService.ProcessRulesAsync).  Operators change the tier of the     *)
(* account beside the turns (ManuallyEnterTier, ManuallyExitTier), and an  *)
(* event of the account's own kind first rewrites the account              *)
(* (StateUtility.LoadLoyaltyAccountAsync).  A resettlement                 *)
(* (EventService.ResettleAccountInternalAsync), which reading an account   *)
(* by its external id makes too, is a turn without an event: it has no     *)
(* wrapper, adds nothing to the state and awards nothing.                  *)
(*                                                                         *)
(* The rules are one historical Count rule, to which every event           *)
(* contributes once for as long as its TTL document lives, and the         *)
(* navigation of the journeys by criteria that do not look at that count.  *)
(* Every event earns an outcome.                                           *)
(***************************************************************************)
EXTENDS Integers, FiniteSets

CONSTANTS
  Turn,         \* the ProcessEventAsync calls and the resettlements
  NoTurn,       \* a null LockLeaseKey
  Event,        \* natural keys
  Resettling,   \* the resettlements
  EventOf,      \* the event a turn processes; of no meaning to a resettlement
  Newer,        \* turns with a newer TimeOfOccurrence, or reprocessEvent
  Profile,      \* turns whose event is of the account's own kind
  Node,         \* journey nodes
  Navigate,     \* per turn, where the criteria lead from a set of nodes
  DueOf,        \* when the event of a turn decays: TimeOfOccurrence + window;
                \* of no meaning to a resettlement
  Manual,       \* the operators' calls
  NodeOf,       \* the node of an operator's call
  Exits,        \* the operators' calls that are ManuallyExitTier
  Swaps,        \* the calls of ManuallyEnterTier with swapAssignment
  After,        \* per call, the calls that have ended when it is made
  Lease,        \* length of the lease of a turn (500 ms in the code)
  Attempts,     \* tries of TryLockAccount and of ProcessCampaignsAsync (3)
  Punctual,     \* whether a turn always ends before its lease does
  MaxTime,      \* bound: the clock stops here
  MaxLost,      \* bound: store calls that fail or whose reply is lost
  MaxCrashes    \* bound: turns whose process dies

Call == Turn \cup Manual

ASSUME TurnAssumption ==
  /\ NoTurn \notin Turn
  /\ IsFiniteSet(Turn)
  /\ IsFiniteSet(Event)
  /\ Resettling \subseteq Turn
  /\ EventOf \in [Turn -> Event]
  /\ Newer \subseteq Turn
  /\ Profile \subseteq Turn \ Resettling
  /\ Navigate \in [Turn -> [SUBSET Node -> SUBSET Node]]
  /\ DueOf \in [Turn -> Nat \ {0}]
  /\ NodeOf \in [Manual -> Node]
  /\ Exits \subseteq Manual
  /\ Swaps \subseteq Manual \ Exits
  /\ After \in [Call -> SUBSET Call]
  /\ Lease \in Nat \ {0}
  /\ Attempts \in Nat \ {0}
  /\ Punctual \in BOOLEAN
  /\ MaxTime \in Nat
  /\ MaxLost \in Nat
  /\ MaxCrashes \in Nat

VARIABLES
  acct,     \* the account document
  fresh,    \* the turns whose fetched ETag is still the stored one
  ttl,      \* per event, when its contribution decays; 0: no TTL document
  settled,  \* per event, whether its stored wrapper has outcomes
  turn,     \* per turn, where it is and what it holds in memory
  manual,   \* per operator's call, likewise
  now,      \* the clock
  lost,     \* failed or unanswered store calls so far
  crashes   \* crashes so far

vars == <<acct, fresh, ttl, settled, turn, manual, now, lost, crashes>>

\* No entry for the rule in the account's RuleState.
NoState == -1

AtLeast0(c) == IF c < 0 THEN 0 ELSE c

Account == [count: Nat \cup {NoState}, nodes: SUBSET Node,
            key: Turn \cup {NoTurn}, exp: Nat]

NewAccount == [count |-> NoState, nodes |-> {}, key |-> NoTurn, exp |-> 0]

\* The places of a turn that holds, or believes it holds, the lease.
LeasedPC == {"hydrate", "reread", "existing", "decay", "delete", "award", "save"}

EndPC == {"done", "stale", "failed", "dead"}

PC == {"idle", "profile", "wrap", "presave", "lock", "locking", "post"}
        \cup LeasedPC \cup EndPC

TurnState ==
  [pc: PC,
   attempts: Nat, rounds: Nat,
   had: BOOLEAN,                          \* the wrapper read had outcomes
   count: Nat \cup {NoState}, nodes: SUBSET Node,
   seen: SUBSET Node,                     \* history: the nodes it read
   exp: Nat,                              \* the end of its lease
   expired: SUBSET Event, known: BOOLEAN, \* TTL documents it has read
   left: SUBSET {"acct", "ttl"},          \* final writes still to be made
   verdict: {"ok", "retry", "fail"}]

IdleTurn == [pc |-> "idle", attempts |-> 0, rounds |-> 0, had |-> FALSE,
             count |-> NoState, nodes |-> {}, seen |-> {}, exp |-> 0,
             expired |-> {}, known |-> FALSE, left |-> {}, verdict |-> "ok"]

At(pc) == [IdleTurn EXCEPT !.pc = pc]

ManualState == [pc: {"idle", "write", "done"}, count: Nat \cup {NoState},
                nodes: SUBSET Node]

IdleManual == [pc |-> "idle", count |-> NoState, nodes |-> {}]

TypeOK ==
  /\ acct \in Account
  /\ fresh \subseteq Turn
  /\ ttl \in [Event -> Nat]
  /\ settled \in [Event -> BOOLEAN]
  /\ turn \in [Turn -> TurnState]
  /\ manual \in [Manual -> ManualState]
  /\ now \in Nat
  /\ lost \in Nat
  /\ crashes \in Nat

Init ==
  /\ acct = NewAccount
  /\ fresh = {}
  /\ ttl = [e \in Event |-> 0]
  /\ settled = [e \in Event |-> FALSE]
  /\ turn = [t \in Turn |-> IdleTurn]
  /\ manual = [m \in Manual |-> IdleManual]
  /\ now = 0
  /\ lost = 0
  /\ crashes = 0

CallEnded(c) == IF c \in Turn THEN turn[c].pc \in EndPC ELSE manual[c].pc = "done"

MayStart(c) == \A d \in After[c] : CallEnded(d)

-----------------------------------------------------------------------------
(* The account document.                                                   *)

\* Any write gives the document a new ETag.
Write(doc) == acct' = doc /\ fresh' = {}

Kept == UNCHANGED <<acct, fresh>>

\* LoyaltyAccountService.UpsertLoyaltyAccountAsync: the mapping to a dto and
\* back drops the ETag and the lease, so the whole document is replaced
\* unconditionally and unlocked.
Unlocked(c, ns) == [count |-> c, nodes |-> ns, key |-> NoTurn, exp |-> 0]

WriteUnlocked(c, ns) == Write(Unlocked(c, ns))

-----------------------------------------------------------------------------
(* Before the lease.                                                       *)

Loaded(pc) == [IdleTurn EXCEPT !.pc = pc, !.nodes = acct.nodes, !.seen = acct.nodes]

Load(t) ==
  /\ turn[t].pc = "idle"
  /\ t \notin Profile \cup Resettling
  /\ MayStart(t)
  /\ turn' = [turn EXCEPT ![t] = Loaded("wrap")]
  /\ UNCHANGED <<acct, fresh, ttl, settled, manual, now, lost, crashes>>

\* The account that was read, or is fetched by the endpoint, goes to the lock.
ResettleFetch(t) ==
  /\ turn[t].pc = "idle"
  /\ t \in Resettling
  /\ MayStart(t)
  /\ turn' = [turn EXCEPT ![t] = Loaded("lock")]
  /\ UNCHANGED <<acct, fresh, ttl, settled, manual, now, lost, crashes>>

ProfileFetch(t) ==
  /\ turn[t].pc = "idle"
  /\ t \in Profile
  /\ MayStart(t)
  /\ turn' = [turn EXCEPT ![t] = Loaded("profile")]
  /\ UNCHANGED <<acct, fresh, ttl, settled, manual, now, lost, crashes>>

\* The account as it is rebuilt from an event of its own kind: the journeys
\* of the stored document, and no rule state.
ProfileDoc(t) == Unlocked(NoState, turn[t].nodes)

ProfileWrite(t) ==
  /\ turn[t].pc = "profile"
  /\ Write(ProfileDoc(t))
  /\ turn' = [turn EXCEPT ![t].pc = "wrap"]
  /\ UNCHANGED <<ttl, settled, manual, now, lost, crashes>>

\* EvaluateIdempotency: a request that is not newer than a wrapper with
\* outcomes is refused.
StaleRequest(t) == settled[EventOf[t]] /\ t \notin Newer

ReadWrapper(t) ==
  /\ turn[t].pc = "wrap"
  /\ turn' = IF StaleRequest(t)
             THEN [turn EXCEPT ![t] = At("stale")]
             ELSE [turn EXCEPT ![t].pc = "presave", ![t].had = settled[EventOf[t]]]
  /\ UNCHANGED <<acct, fresh, ttl, settled, manual, now, lost, crashes>>

\* The wrapper is stored with the outcomes it was read with.
PreSave(t) ==
  /\ turn[t].pc = "presave"
  /\ settled' = [settled EXCEPT ![EventOf[t]] = turn[t].had]
  /\ turn' = [turn EXCEPT ![t].pc = "lock"]
  /\ UNCHANGED <<acct, fresh, ttl, manual, now, lost, crashes>>

-----------------------------------------------------------------------------
(* TryLockAccount.                                                         *)

\* Mutated: the lease of another turn is not looked at.
LeasedNever(doc) == FALSE

LeasedBy(doc) == doc.key # NoTurn /\ doc.exp > now

LockFetch(t) ==
  /\ turn[t].pc = "lock"
  /\ ~LeasedBy(acct)
  /\ fresh' = fresh \cup {t}
  /\ turn' = [turn EXCEPT ![t].pc = "locking", ![t].count = acct.count,
                          ![t].exp = now + Lease]
  /\ UNCHANGED <<acct, ttl, settled, manual, now, lost, crashes>>

\* Mutated: a refused try is not counted.
Uncounted(t) == turn[t].attempts

Tried(t) == turn[t].attempts + 1

\* LockAcquisitionException, caught up to three times; then null is returned.
LockRefused(t) ==
  /\ turn[t].pc = "lock"
  /\ LeasedBy(acct)
  /\ turn' = IF Tried(t) < Attempts THEN [turn EXCEPT ![t].attempts = Tried(t)]
                                     ELSE [turn EXCEPT ![t] = At("failed")]
  /\ UNCHANGED <<acct, fresh, ttl, settled, manual, now, lost, crashes>>

\* Mutated: the lock is written without looking at the ETag.
LockUnchecked(t) == TRUE

LockAccepted(t) == t \in fresh

\* Mutated: the lease is written into the document the turn loaded before.
LockedStale(t) == [acct EXCEPT !.key = t, !.exp = turn[t].exp, !.nodes = turn[t].nodes]

\* The lease and the rest of the fetched document; the turn goes on with the
\* journeys it loaded before.
Locked(t) == [acct EXCEPT !.key = t, !.exp = turn[t].exp]

LockWrite(t) ==
  /\ turn[t].pc = "locking"
  /\ LockAccepted(t)
  /\ Write(Locked(t))
  /\ turn' = [turn EXCEPT ![t].pc = "hydrate", ![t].attempts = 0]
  /\ UNCHANGED <<ttl, settled, manual, now, lost, crashes>>

LockConflict(t) ==
  /\ turn[t].pc = "locking"
  /\ ~LockAccepted(t)
  /\ turn' = [turn EXCEPT ![t] = At("failed")]
  /\ UNCHANGED <<acct, fresh, ttl, settled, manual, now, lost, crashes>>

-----------------------------------------------------------------------------
(* HydrateState.                                                           *)

\* GetExpiredAsync
ReadExpired(t) ==
  /\ turn[t].pc = "hydrate"
  /\ turn' = [turn EXCEPT ![t].pc = "reread",
                          ![t].expired = {e \in Event : ttl[e] # 0 /\ ttl[e] < now}]
  /\ UNCHANGED <<acct, fresh, ttl, settled, manual, now, lost, crashes>>

\* The stored RuleState replaces the one fetched with the lock.
RereadState(t) ==
  /\ turn[t].pc = "reread"
  /\ turn' = [turn EXCEPT ![t].pc = "existing",
                          ![t].count = IF acct.count = NoState THEN @ ELSE acct.count]
  /\ UNCHANGED <<acct, fresh, ttl, settled, manual, now, lost, crashes>>

\* Mutated: the count is not kept from falling below 0.
DecayedBelow0(t) == turn[t].count - Cardinality(turn[t].expired)

Decayed(t) == AtLeast0(turn[t].count - Cardinality(turn[t].expired))

Contributed(t) == t \notin Resettling /\ ttl[EventOf[t]] # 0

\* The count is decayed; then GetByEventAsync, which a resettlement skips,
\* while the expired TTL documents are still there.
ReadExisting(t) ==
  /\ turn[t].pc = "existing"
  /\ turn' = [turn EXCEPT ![t].pc = IF turn[t].expired = {} THEN "award" ELSE "decay",
                          ![t].count = Decayed(t),
                          ![t].known = Contributed(t)]
  /\ UNCHANGED <<acct, fresh, ttl, settled, manual, now, lost, crashes>>

SaveDecayed(t) ==
  /\ turn[t].pc = "decay"
  /\ WriteUnlocked(turn[t].count, turn[t].nodes)
  /\ turn' = [turn EXCEPT ![t].pc = "delete"]
  /\ UNCHANGED <<ttl, settled, manual, now, lost, crashes>>

\* DeleteManyAsync, one document at a time, by its key.
DeleteExpired(t) ==
  \E e \in turn[t].expired :
    LET rest == turn[t].expired \ {e}
    IN /\ turn[t].pc = "delete"
       /\ ttl' = [ttl EXCEPT ![e] = 0]
       /\ turn' = [turn EXCEPT ![t].expired = rest,
                               ![t].pc = IF rest = {} THEN "award" ELSE @]
       /\ UNCHANGED <<acct, fresh, settled, manual, now, lost, crashes>>

-----------------------------------------------------------------------------
(* The rules, the outcomes and the final writes.                           *)

\* Mutated: a reprocessed event is counted again.
CountedAgain(t) == turn[t].count + 1

Counted(t) ==
  IF turn[t].known \/ t \in Resettling THEN turn[t].count ELSE turn[t].count + 1

\* UpsertLoyaltyAccountPointsAsync, while the lease of the turn runs: the
\* stored lease is another's.  A resettlement awards nothing.
LeaseStolen(t) ==
  t \notin Resettling /\ turn[t].exp > now /\ acct.key \notin {NoTurn, t}

\* The finally block of ProcessRulesAsync, and of ResettleAccountJourneysAsync.
FinalWrites(t) == IF t \in Resettling THEN {"acct"} ELSE {"acct", "ttl"}

\* The state after the rules and the journeys, with the writes of the finally
\* block before it.
Evaluated(t, v) ==
  [turn[t] EXCEPT !.pc = "save", !.count = Counted(t),
                  !.nodes = Navigate[t][turn[t].nodes],
                  !.left = FinalWrites(t), !.verdict = v]

Award(t) ==
  /\ turn[t].pc = "award"
  /\ turn' = [turn EXCEPT ![t] = Evaluated(t, IF LeaseStolen(t) THEN "retry" ELSE "ok")]
  /\ UNCHANGED <<acct, fresh, ttl, settled, manual, now, lost, crashes>>

\* The two kinds of write go out together and are made in any order.
Saved(t, w) == turn[t].left \ {w}

Saving(t, w) == turn[t].pc = "save" /\ w \in turn[t].left

SavedDoc(t) == Unlocked(turn[t].count, turn[t].nodes)

SaveAccount(t) ==
  /\ Saving(t, "acct")
  /\ Write(SavedDoc(t))
  /\ turn' = [turn EXCEPT ![t].left = Saved(t, "acct")]
  /\ UNCHANGED <<ttl, settled, manual, now, lost, crashes>>

SaveTtl(t) ==
  /\ Saving(t, "ttl")
  /\ ttl' = [ttl EXCEPT ![EventOf[t]] = DueOf[t]]
  /\ turn' = [turn EXCEPT ![t].left = Saved(t, "ttl")]
  /\ UNCHANGED <<acct, fresh, settled, manual, now, lost, crashes>>

\* A resettlement has no wrapper to store.
AfterRules(t) ==
  CASE turn[t].verdict # "ok" -> "failed"
    [] turn[t].verdict = "ok" /\ t \in Resettling -> "done"
    [] OTHER -> "post"

\* ProcessCampaignsAsync: a ConcurrencyException is tried again under a new
\* lease, with the journeys in memory; any other error ends the request.
RulesEnd(t) ==
  LET again == turn[t].verdict = "retry" /\ turn[t].rounds + 1 < Attempts
  IN /\ turn[t].pc = "save"
     /\ turn[t].left = {}
     /\ turn' = [turn EXCEPT ![t] =
                   IF again
                   THEN [IdleTurn EXCEPT !.pc = "lock", !.rounds = turn[t].rounds + 1,
                                         !.nodes = turn[t].nodes, !.seen = turn[t].seen]
                   ELSE At(AfterRules(t))]
     /\ UNCHANGED <<acct, fresh, ttl, settled, manual, now, lost, crashes>>

\* The wrapper is stored with the outcomes of the turn.
PostSave(t) ==
  /\ turn[t].pc = "post"
  /\ settled' = [settled EXCEPT ![EventOf[t]] = TRUE]
  /\ turn' = [turn EXCEPT ![t] = At("done")]
  /\ UNCHANGED <<acct, fresh, ttl, manual, now, lost, crashes>>

-----------------------------------------------------------------------------
(* Store calls that fail, or whose write is made and the reply lost.       *)

Lose == lost < MaxLost /\ lost' = lost + 1

\* The finally block is all that is left of the rules.
SaveOnly(t, c) == [turn[t] EXCEPT !.pc = "save", !.count = c, !.expired = {},
                                  !.left = {"acct"}, !.verdict = "fail"]

CallFails(t) ==
  /\ Lose
  /\ turn[t].pc \in {"profile", "wrap", "presave", "lock", "locking", "post"}
  /\ turn' = [turn EXCEPT ![t] = At("failed")]
  /\ UNCHANGED <<acct, fresh, ttl, settled, manual, now, crashes>>

WriteUnanswered(t) ==
  /\ Lose
  /\ \/ /\ turn[t].pc = "profile"
        /\ Write(ProfileDoc(t))
        /\ UNCHANGED settled
     \/ /\ turn[t].pc = "presave"
        /\ settled' = [settled EXCEPT ![EventOf[t]] = turn[t].had]
        /\ Kept
     \/ /\ turn[t].pc = "locking"
        /\ LockAccepted(t)
        /\ Write(Locked(t))
        /\ UNCHANGED settled
     \/ /\ turn[t].pc = "post"
        /\ settled' = [settled EXCEPT ![EventOf[t]] = TRUE]
        /\ Kept
  /\ turn' = [turn EXCEPT ![t] = At("failed")]
  /\ UNCHANGED <<ttl, manual, now, crashes>>

\* A failed GetExpiredAsync counts as nothing expired, a failed reread of the
\* rule state is only logged.  The rules of a resettlement call no store.
HydrateFails(t) ==
  /\ Lose
  /\ \/ /\ turn[t].pc = "hydrate"
        /\ turn' = [turn EXCEPT ![t].pc = "reread"]
     \/ /\ turn[t].pc = "reread"
        /\ turn' = [turn EXCEPT ![t].pc = "existing"]
     \/ /\ turn[t].pc = "existing"
        /\ t \notin Resettling
        /\ turn' = [turn EXCEPT ![t] = SaveOnly(t, Decayed(t))]
     \/ /\ turn[t].pc = "award"
        /\ t \notin Resettling
        /\ turn' = [turn EXCEPT ![t] = Evaluated(t, "fail")]
  /\ UNCHANGED <<acct, fresh, ttl, settled, manual, now, crashes>>

DecayFails(t) ==
  /\ Lose
  /\ \/ /\ turn[t].pc = "decay"
        /\ Kept \/ WriteUnlocked(turn[t].count, turn[t].nodes)
        /\ UNCHANGED ttl
     \/ /\ turn[t].pc = "delete"
        /\ \E e \in turn[t].expired : ttl' \in {ttl, [ttl EXCEPT ![e] = 0]}
        /\ Kept
  /\ turn' = [turn EXCEPT ![t] = SaveOnly(t, turn[t].count)]
  /\ UNCHANGED <<settled, manual, now, crashes>>

SaveFails(t) ==
  /\ Lose
  /\ \/ /\ Saving(t, "acct")
        /\ Kept \/ Write(SavedDoc(t))
        /\ turn' = [turn EXCEPT ![t].left = Saved(t, "acct"), ![t].verdict = "fail"]
        /\ UNCHANGED ttl
     \/ /\ Saving(t, "ttl")
        /\ ttl' \in {ttl, [ttl EXCEPT ![EventOf[t]] = DueOf[t]]}
        /\ turn' = [turn EXCEPT ![t].left = Saved(t, "ttl"), ![t].verdict = "fail"]
        /\ Kept
  /\ UNCHANGED <<settled, manual, now, crashes>>

Crash(t) ==
  /\ crashes < MaxCrashes
  /\ turn[t].pc \notin EndPC \cup {"idle"}
  /\ turn' = [turn EXCEPT ![t] = At("dead")]
  /\ crashes' = crashes + 1
  /\ UNCHANGED <<acct, fresh, ttl, settled, manual, now, lost>>

-----------------------------------------------------------------------------
(* The operators and the clock.                                            *)

\* An exit from a node the account is not in is refused; an entry into one
\* it is in returns the account as it is, unless it swaps.
NothingToDo(m) ==
  \/ m \in Exits /\ NodeOf[m] \notin acct.nodes
  \/ m \notin Exits \cup Swaps /\ NodeOf[m] \in acct.nodes

Changed(m) ==
  CASE m \in Exits -> manual[m].nodes \ {NodeOf[m]}
    [] m \in Swaps -> {NodeOf[m]}
    [] OTHER -> manual[m].nodes \cup {NodeOf[m]}

ManualFetch(m) ==
  /\ manual[m].pc = "idle"
  /\ MayStart(m)
  /\ manual' = [manual EXCEPT ![m] =
                  IF NothingToDo(m) THEN [IdleManual EXCEPT !.pc = "done"]
                  ELSE [pc |-> "write", count |-> acct.count, nodes |-> acct.nodes]]
  /\ UNCHANGED <<acct, fresh, ttl, settled, turn, now, lost, crashes>>

ManualWrite(m) ==
  /\ manual[m].pc = "write"
  /\ WriteUnlocked(manual[m].count, Changed(m))
  /\ manual' = [manual EXCEPT ![m] = [IdleManual EXCEPT !.pc = "done"]]
  /\ UNCHANGED <<ttl, settled, turn, now, lost, crashes>>

\* With Punctual, the clock waits for the turns that hold a lease.
Tick ==
  /\ now < MaxTime
  /\ Punctual => \A t \in Turn :
       turn[t].pc \in LeasedPC \cup {"locking"} => turn[t].exp > now + 1
  /\ now' = now + 1
  /\ UNCHANGED <<acct, fresh, ttl, settled, turn, manual, lost, crashes>>

-----------------------------------------------------------------------------
\* The steps a live turn takes by itself.
Step(t) ==
  \/ Load(t) \/ ResettleFetch(t) \/ ProfileFetch(t) \/ ProfileWrite(t)
  \/ ReadWrapper(t) \/ PreSave(t)
  \/ LockFetch(t) \/ LockRefused(t) \/ LockWrite(t) \/ LockConflict(t)
  \/ ReadExpired(t) \/ RereadState(t) \/ ReadExisting(t)
  \/ SaveDecayed(t) \/ DeleteExpired(t)
  \/ Award(t) \/ SaveAccount(t) \/ SaveTtl(t) \/ RulesEnd(t) \/ PostSave(t)

Lost(t) == CallFails(t) \/ WriteUnanswered(t) \/ HydrateFails(t) \/ DecayFails(t) \/ SaveFails(t)

Next ==
  \/ \E t \in Turn : Step(t) \/ Lost(t) \/ Crash(t)
  \/ \E m \in Manual : ManualFetch(m) \/ ManualWrite(m)
  \/ Tick

Spec == Init /\ [][Next]_vars

\* A request that is not cut off goes on.
FairSpec == Spec /\ \A t \in Turn : WF_vars(Step(t))

-----------------------------------------------------------------------------
(* Properties.                                                             *)

Holds(t) ==
  /\ turn[t].pc \in LeasedPC
  /\ turn[t].exp > now
  /\ turn[t].pc = "save" => "acct" \in turn[t].left

\* Two turns never both hold a lease that has not run out, from the lock to
\* the write that gives it back (TryLockAccount, ProcessRulesAsync).
LeaseExclusive == \A t, u \in Turn : Holds(t) /\ Holds(u) => t = u

Live == Cardinality({e \in Event : ttl[e] # 0})

Between(t) ==
  t \notin Resettling /\ turn[t].pc = "save" /\ Cardinality(turn[t].left) = 1

Drift ==
  IF AtLeast0(acct.count) > Live THEN AtLeast0(acct.count) - Live
                                 ELSE Live - AtLeast0(acct.count)

\* The TTL documents that are no longer in the stored count: the turn has
\* saved the decayed count and is about to delete them.
Undeleted(t) == IF turn[t].pc = "delete" THEN turn[t].expired ELSE {}

\* The contributions that decay before the clock stops.
Perishable == {EventOf[t] : t \in {t \in Turn \ Resettling : DueOf[t] < MaxTime}}

\* What one failure can do: a contribution that is counted and has no TTL
\* document, or the reverse; or the same documents taken off twice, when they
\* are not deleted after the decayed count is saved.
FailureWeight == IF Perishable = {} THEN 1 ELSE Cardinality(Perishable)

\* The count of the rule and the TTL documents that will take it back differ
\* by no more than the crashes and lost calls can explain, the turns between
\* their two final writes, and the documents about to be deleted; so they
\* agree when nothing went wrong and no turn is under way.  No turn loses what
\* another one counted, and expiries, reprocessed events, resettlements and
\* operators' calls leave the two together.
CountBounded ==
  Drift <= (crashes + lost) * FailureWeight
             + Cardinality({t \in Turn : Between(t)})
             + Cardinality(UNION {Undeleted(t) : t \in Turn})

Leaves(m, n) ==
  /\ manual[m].pc = "write"
  /\ manual'[m].pc = "done"
  /\ \/ m \in Exits /\ n = NodeOf[m]
     \/ m \in Swaps /\ n # NodeOf[m]

\* The nodes an exit or a transition of the turn can take the account out of.
Quits(t) ==
  {n \in Node : \E ns \in SUBSET Node : n \in ns \ Navigate[t][ns]}

\* A whole document is written with the journeys the turn has in memory.
Rewrites(t) == turn[t].pc \in {"profile"} \cup LeasedPC /\ turn'[t] # turn[t]

Navigates(t, n) == Rewrites(t) /\ turn[t].pc # "profile" /\ n \in Quits(t)

\* The writer read the account when it was not in the node yet.
Overwritten(n) ==
  \/ \E t \in Turn : Rewrites(t) /\ n \notin turn[t].seen
  \/ \E m \in Manual : manual'[m] # manual[m] /\ n \notin manual[m].nodes

\* A journey node the account is in is left by an operator's call, or by an
\* exit or a transition of a turn that took the lease; or it was entered after
\* the writer of the whole document had read the account.  What a writer has
\* read it writes again, whatever overlaps it, fails, crashes or is retried,
\* and the lock takes nothing away.
JourneysKept ==
  [][\A n \in acct.nodes \ acct'.nodes :
       \/ \E m \in Manual : Leaves(m, n)
       \/ \E t \in Turn : Navigates(t, n)
       \/ Overwritten(n)]_vars

\* Every request that is begun gets an answer, also when the account stays
\* leased by a turn that died.
EveryTurnAnswered == \A t \in Turn : turn[t].pc # "idle" ~> turn[t].pc \in EndPC

=============================================================================
