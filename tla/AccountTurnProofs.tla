------------------------- MODULE AccountTurnProofs -------------------------
(***************************************************************************)
(* What AccountTurn guarantees for any turns, events, operators and bounds:*)
(* its documents keep their shapes; when every turn ends before its lease  *)
(* does, the ETag of the lock and the lease together keep two turns from   *)
(* holding the account at once; whatever overlaps, a journey node that a   *)
(* call has read is lost only to an operator or to an exit or a transition *)
(* of a turn that took the lease; and when the calls come one after the    *)
(* other, the count of the rule and the TTL documents that will take it    *)
(* back stay together.  So do the count and the documents when turns       *)
(* overlap, under the lease.                                               *)
(***************************************************************************)
EXTENDS AccountTurn, FiniteSetTheorems, TLAPS

Count == Nat \cup {NoState}

LEMMA Places ==
  /\ {"idle", "profile", "wrap", "presave", "lock", "locking", "post"} \subseteq PC
  /\ LeasedPC \subseteq PC
  /\ EndPC \subseteq PC
BY DEF PC

LEMMA AtType == \A pc \in PC : At(pc) \in TurnState
BY DEF At, IdleTurn, TurnState

LEMMA LoadedType ==
  ASSUME TypeOK, NEW pc \in PC
  PROVE  Loaded(pc) \in TurnState
BY DEF TypeOK, Account, Loaded, IdleTurn, TurnState

LEMMA CountTypes ==
  ASSUME TypeOK, NEW t \in Turn
  PROVE  Decayed(t) \in Count /\ Counted(t) \in Count
<1>1. turn[t].expired \subseteq Event /\ turn[t].count \in Count
  BY DEF TypeOK, TurnState, Count
<1>2. IsFiniteSet(turn[t].expired)
  BY <1>1, TurnAssumption, FS_Subset
<1>3. Cardinality(turn[t].expired) \in Nat
  BY <1>2, FS_CardinalityType
<1> QED BY <1>1, <1>3 DEF Decayed, Counted, AtLeast0, Count, NoState

LEMMA DocTypes ==
  ASSUME TypeOK, NEW t \in Turn
  PROVE  /\ ProfileDoc(t) \in Account
         /\ SavedDoc(t) \in Account
         /\ Locked(t) \in Account
         /\ Unlocked(turn[t].count, turn[t].nodes) \in Account
BY TurnAssumption DEF TypeOK, TurnState, Account, ProfileDoc, SavedDoc, Locked, Unlocked, NoState

LEMMA TypeBefore ==
  ASSUME TypeOK, NEW t \in Turn,
         Load(t) \/ ResettleFetch(t) \/ ProfileFetch(t) \/ ProfileWrite(t)
           \/ ReadWrapper(t) \/ PreSave(t)
  PROVE  TypeOK'
<1> USE TurnAssumption DEF TypeOK
<1>1. CASE Load(t)
  <2> DEFINE r == Loaded("wrap")
  <2>2. r \in TurnState
    BY LoadedType, Places
  <2>3. turn' = [turn EXCEPT ![t] = r]
    BY <1>1 DEF Load
  <2> QED BY <1>1, <2>2, <2>3 DEF Load
<1>2. CASE ProfileFetch(t)
  <2> DEFINE r == Loaded("profile")
  <2>2. r \in TurnState
    BY LoadedType, Places
  <2>3. turn' = [turn EXCEPT ![t] = r]
    BY <1>2 DEF ProfileFetch
  <2> QED BY <1>2, <2>2, <2>3 DEF ProfileFetch
<1>3. CASE ProfileWrite(t)
  <2> DEFINE r == [turn[t] EXCEPT !.pc = "wrap"]
  <2>1. turn[t] \in TurnState /\ "wrap" \in PC
    BY Places
  <2>2. r \in TurnState
    BY <2>1 DEF TurnState
  <2>3. turn' = [turn EXCEPT ![t] = r]
    BY <1>3 DEF ProfileWrite
  <2> QED BY <1>3, <2>2, <2>3, DocTypes DEF ProfileWrite, Write
<1>4. CASE ReadWrapper(t)
  <2> DEFINE r == [turn[t] EXCEPT !.pc = "presave", !.had = settled[EventOf[t]]]
  <2>1. turn[t] \in TurnState /\ settled[EventOf[t]] \in BOOLEAN /\ "presave" \in PC
    BY Places
  <2>2. r \in TurnState
    BY <2>1 DEF TurnState
  <2>3. At("stale") \in TurnState
    BY AtType DEF PC, EndPC
  <2>4. \/ turn' = [turn EXCEPT ![t] = r]
        \/ turn' = [turn EXCEPT ![t] = At("stale")]
    BY <1>4 DEF ReadWrapper
  <2> QED BY <1>4, <2>2, <2>3, <2>4 DEF ReadWrapper
<1>5. CASE PreSave(t)
  <2> DEFINE r == [turn[t] EXCEPT !.pc = "lock"]
  <2>1. turn[t] \in TurnState /\ "lock" \in PC
    BY Places
  <2>2. r \in TurnState /\ turn[t].had \in BOOLEAN
    BY <2>1 DEF TurnState
  <2>3. turn' = [turn EXCEPT ![t] = r]
    BY <1>5 DEF PreSave
  <2> QED BY <1>5, <2>2, <2>3 DEF PreSave
<1>6. CASE ResettleFetch(t)
  <2> DEFINE r == Loaded("lock")
  <2>2. r \in TurnState
    BY LoadedType, Places
  <2>3. turn' = [turn EXCEPT ![t] = r]
    BY <1>6 DEF ResettleFetch
  <2> QED BY <1>6, <2>2, <2>3 DEF ResettleFetch
<1> QED BY <1>1, <1>2, <1>3, <1>4, <1>5, <1>6

LEMMA TypeLock ==
  ASSUME TypeOK, NEW t \in Turn,
         LockFetch(t) \/ LockRefused(t) \/ LockWrite(t) \/ LockConflict(t)
  PROVE  TypeOK'
<1> USE TurnAssumption DEF TypeOK
<1>1. CASE LockFetch(t)
  <2> DEFINE r == [turn[t] EXCEPT !.pc = "locking", !.count = acct.count,
                                  !.exp = now + Lease]
  <2>1. /\ turn[t] \in TurnState
        /\ acct.count \in Count
        /\ now + Lease \in Nat
        /\ "locking" \in PC
    BY Places DEF Account, Count
  <2>2. r \in TurnState
    BY <2>1 DEF TurnState, Count
  <2>3. turn' = [turn EXCEPT ![t] = r]
    BY <1>1 DEF LockFetch
  <2> QED BY <1>1, <2>2, <2>3 DEF LockFetch
<1>2. CASE LockRefused(t)
  <2> DEFINE r == [turn[t] EXCEPT !.attempts = Tried(t)]
  <2>1. turn[t] \in TurnState /\ Tried(t) \in Nat
    BY DEF TurnState, Tried
  <2>2. r \in TurnState
    BY <2>1 DEF TurnState
  <2>3. At("failed") \in TurnState
    BY AtType DEF PC, EndPC
  <2>4. \/ turn' = [turn EXCEPT ![t] = r]
        \/ turn' = [turn EXCEPT ![t] = At("failed")]
    BY <1>2 DEF LockRefused
  <2> QED BY <1>2, <2>2, <2>3, <2>4 DEF LockRefused
<1>3. CASE LockWrite(t)
  <2> DEFINE r == [turn[t] EXCEPT !.pc = "hydrate", !.attempts = 0]
  <2>1. turn[t] \in TurnState /\ "hydrate" \in PC /\ 0 \in Nat
    BY Places DEF PC, LeasedPC
  <2>2. r \in TurnState
    BY <2>1 DEF TurnState
  <2>3. turn' = [turn EXCEPT ![t] = r]
    BY <1>3 DEF LockWrite
  <2> QED BY <1>3, <2>2, <2>3, DocTypes DEF LockWrite, Write
<1>4. CASE LockConflict(t)
  BY <1>4, AtType DEF LockConflict, PC, EndPC
<1> QED BY <1>1, <1>2, <1>3, <1>4

LEMMA TypeHydrate ==
  ASSUME TypeOK, NEW t \in Turn,
         ReadExpired(t) \/ RereadState(t) \/ ReadExisting(t) \/ SaveDecayed(t) \/ DeleteExpired(t)
  PROVE  TypeOK'
<1> USE TurnAssumption DEF TypeOK
<1>1. CASE ReadExpired(t)
  <2> DEFINE x == {e \in Event : ttl[e] # 0 /\ ttl[e] < now}
             r == [turn[t] EXCEPT !.pc = "reread", !.expired = x]
  <2>1. turn[t] \in TurnState /\ x \in SUBSET Event /\ "reread" \in PC
    BY DEF PC, LeasedPC
  <2>2. turn' = [turn EXCEPT ![t] = r]
    BY <1>1 DEF ReadExpired
  <2> HIDE DEF x
  <2>3. r \in TurnState
    BY <2>1 DEF TurnState
  <2> HIDE DEF r
  <2>5. turn' \in [Turn -> TurnState]
    BY <2>2, <2>3
  <2>6. UNCHANGED <<acct, fresh, ttl, settled, manual, now, lost, crashes>>
    BY <1>1 DEF ReadExpired
  <2> QED BY <2>5, <2>6
<1>2. CASE RereadState(t)
  <2> DEFINE c == IF acct.count = NoState THEN turn[t].count ELSE acct.count
             r == [turn[t] EXCEPT !.pc = "existing", !.count = c]
  <2>1. turn[t] \in TurnState /\ c \in Count /\ "existing" \in PC
    BY DEF PC, LeasedPC, TurnState, Account, Count
  <2>2. turn' = [turn EXCEPT ![t] = r]
    BY <1>2 DEF RereadState
  <2> HIDE DEF c
  <2>3. r \in TurnState
    BY <2>1 DEF TurnState, Count
  <2> HIDE DEF r
  <2>5. turn' \in [Turn -> TurnState]
    BY <2>2, <2>3
  <2>6. UNCHANGED <<acct, fresh, ttl, settled, manual, now, lost, crashes>>
    BY <1>2 DEF RereadState
  <2> QED BY <2>5, <2>6
<1>3. CASE ReadExisting(t)
  <2> DEFINE p == IF turn[t].expired = {} THEN "award" ELSE "decay"
             r == [turn[t] EXCEPT !.pc = p, !.count = Decayed(t), !.known = Contributed(t)]
  <2>1. turn[t] \in TurnState /\ Decayed(t) \in Count /\ Contributed(t) \in BOOLEAN
    BY CountTypes DEF Contributed
  <2>2. p \in PC
    BY DEF PC, LeasedPC
  <2>3. turn' = [turn EXCEPT ![t] = r]
    BY <1>3 DEF ReadExisting
  <2> HIDE DEF p
  <2>4. r \in TurnState
    BY <2>1, <2>2 DEF TurnState, Count
  <2> HIDE DEF r
  <2>5. turn' \in [Turn -> TurnState]
    BY <2>3, <2>4
  <2>6. UNCHANGED <<acct, fresh, ttl, settled, manual, now, lost, crashes>>
    BY <1>3 DEF ReadExisting
  <2> QED BY <2>5, <2>6
<1>4. CASE SaveDecayed(t)
  <2> DEFINE r == [turn[t] EXCEPT !.pc = "delete"]
  <2>1. turn[t] \in TurnState /\ "delete" \in PC
    BY Places DEF PC, LeasedPC
  <2>2. r \in TurnState
    BY <2>1 DEF TurnState
  <2>3. turn' = [turn EXCEPT ![t] = r]
    BY <1>4 DEF SaveDecayed
  <2> QED BY <1>4, <2>2, <2>3, DocTypes DEF SaveDecayed, WriteUnlocked, Write
<1>5. CASE DeleteExpired(t)
  <2>1. PICK e \in turn[t].expired :
          /\ ttl' = [ttl EXCEPT ![e] = 0]
          /\ turn' = [turn EXCEPT ![t].expired = turn[t].expired \ {e},
                                  ![t].pc = IF turn[t].expired \ {e} = {}
                                            THEN "award" ELSE @]
    BY <1>5 DEF DeleteExpired
  <2> DEFINE x == turn[t].expired \ {e}
             p == IF x = {} THEN "award" ELSE turn[t].pc
             r == [turn[t] EXCEPT !.expired = x, !.pc = p]
  <2>2. turn[t] \in TurnState /\ x \in SUBSET Event /\ p \in PC
    BY DEF TurnState, PC, LeasedPC
  <2>3. turn' = [turn EXCEPT ![t] = r]
    BY <2>1
  <2> HIDE DEF x, p
  <2>4. r \in TurnState
    BY <2>2 DEF TurnState
  <2> HIDE DEF r
  <2>5. turn' \in [Turn -> TurnState]
    BY <2>3, <2>4
  <2>6. UNCHANGED <<acct, fresh, settled, manual, now, lost, crashes>>
    BY <1>5 DEF DeleteExpired
  <2> QED BY <2>5, <2>6, <2>1
<1> QED BY <1>1, <1>2, <1>3, <1>4, <1>5

LEMMA EvaluatedType ==
  ASSUME TypeOK, NEW t \in Turn, NEW v \in {"ok", "retry", "fail"}
  PROVE  Evaluated(t, v) \in TurnState
<1>1. turn[t] \in TurnState /\ Counted(t) \in Count /\ "save" \in PC
  BY CountTypes DEF TypeOK, PC, LeasedPC
<1>2. Navigate[t][turn[t].nodes] \in SUBSET Node
  BY <1>1, TurnAssumption DEF TurnState
<1>3. FinalWrites(t) \in SUBSET {"acct", "ttl"}
  BY DEF FinalWrites
<1> QED BY <1>1, <1>2, <1>3 DEF Evaluated, TurnState, Count

LEMMA SaveOnlyType ==
  ASSUME TypeOK, NEW t \in Turn, NEW c \in Count
  PROVE  SaveOnly(t, c) \in TurnState
<1>1. turn[t] \in TurnState /\ "save" \in PC
  BY DEF TypeOK, PC, LeasedPC
<1>2. {} \in SUBSET Event /\ {"acct"} \in SUBSET {"acct", "ttl"}
  OBVIOUS
<1>3. "fail" \in {"ok", "retry", "fail"}
  OBVIOUS
<1> QED BY <1>1, <1>2, <1>3 DEF SaveOnly, TurnState, Count

LEMMA SavedType ==
  ASSUME TypeOK, NEW t \in Turn, NEW w \in {"acct", "ttl"}, NEW v \in {"ok", "retry", "fail"}
  PROVE  /\ [turn[t] EXCEPT !.left = Saved(t, w)] \in TurnState
         /\ [turn[t] EXCEPT !.left = Saved(t, w), !.verdict = v] \in TurnState
<1>1. turn[t] \in TurnState
  BY DEF TypeOK
<1>2. Saved(t, w) \in SUBSET {"acct", "ttl"}
  BY <1>1 DEF Saved, TurnState
<1> QED BY <1>1, <1>2 DEF TurnState

LEMMA TypeSave ==
  ASSUME TypeOK, NEW t \in Turn,
         Award(t) \/ SaveAccount(t) \/ SaveTtl(t) \/ RulesEnd(t) \/ PostSave(t)
  PROVE  TypeOK'
<1> USE TurnAssumption DEF TypeOK
<1>1. CASE Award(t)
  BY <1>1, EvaluatedType DEF Award
<1>2. CASE SaveAccount(t)
  <2>1. turn' = [turn EXCEPT ![t] = [turn[t] EXCEPT !.left = Saved(t, "acct")]]
    BY <1>2 DEF SaveAccount
  <2> QED BY <1>2, <2>1, SavedType, DocTypes DEF SaveAccount, Write
<1>3. CASE SaveTtl(t)
  <2>1. turn' = [turn EXCEPT ![t] = [turn[t] EXCEPT !.left = Saved(t, "ttl")]]
    BY <1>3 DEF SaveTtl
  <2> QED BY <1>3, <2>1, SavedType DEF SaveTtl
<1>4. CASE RulesEnd(t)
  <2>1. [IdleTurn EXCEPT !.pc = "lock", !.rounds = turn[t].rounds + 1,
                         !.nodes = turn[t].nodes, !.seen = turn[t].seen] \in TurnState
    <3>1. /\ turn[t].nodes \in SUBSET Node /\ turn[t].seen \in SUBSET Node
          /\ turn[t].rounds + 1 \in Nat
      BY DEF TurnState
    <3>2. "lock" \in PC /\ NoState \in Count
      BY DEF PC, Count
    <3> QED BY <3>1, <3>2 DEF IdleTurn, TurnState, Count
  <2>2. AfterRules(t) \in PC
    BY DEF AfterRules, PC, EndPC
  <2> QED BY <1>4, <2>1, <2>2, AtType DEF RulesEnd
<1>5. CASE PostSave(t)
  BY <1>5, AtType DEF PostSave, PC, EndPC
<1> QED BY <1>1, <1>2, <1>3, <1>4, <1>5

LEMMA TypeLost ==
  ASSUME TypeOK, NEW t \in Turn, Lost(t) \/ Crash(t)
  PROVE  TypeOK'
<1> USE TurnAssumption DEF TypeOK
<1>1. CASE CallFails(t)
  BY <1>1, AtType DEF CallFails, Lose, PC, EndPC
<1>2. CASE WriteUnanswered(t)
  <2>1. turn[t].had \in BOOLEAN
    BY DEF TurnState
  <2>2. At("failed") \in TurnState
    BY AtType DEF PC, EndPC
  <2>3. acct' \in Account /\ fresh' \subseteq Turn
    BY <1>2, DocTypes DEF WriteUnanswered, Write, Kept
  <2>4. settled' \in [Event -> BOOLEAN]
    BY <1>2, <2>1 DEF WriteUnanswered
  <2> QED BY <1>2, <2>2, <2>3, <2>4 DEF WriteUnanswered, Lose
<1>3. CASE HydrateFails(t)
  <2>1. [turn[t] EXCEPT !.pc = "reread"] \in TurnState
    <3>1. turn[t] \in TurnState /\ "reread" \in PC
      BY DEF PC, LeasedPC
    <3> QED BY <3>1 DEF TurnState
  <2>2. [turn[t] EXCEPT !.pc = "existing"] \in TurnState
    <3>1. turn[t] \in TurnState /\ "existing" \in PC
      BY DEF PC, LeasedPC
    <3> QED BY <3>1 DEF TurnState
  <2>3. SaveOnly(t, Decayed(t)) \in TurnState /\ Evaluated(t, "fail") \in TurnState
    BY SaveOnlyType, EvaluatedType, CountTypes
  <2>4. \E r \in TurnState : turn' = [turn EXCEPT ![t] = r]
    BY <1>3, <2>1, <2>2, <2>3 DEF HydrateFails
  <2> QED BY <1>3, <2>4 DEF HydrateFails, Lose
<1>4. CASE DecayFails(t)
  <2>1. turn[t].count \in Count
    BY DEF TurnState, Count
  <2> QED BY <1>4, <2>1, SaveOnlyType, DocTypes DEF DecayFails, Lose, WriteUnlocked, Write, Kept
<1>5. CASE SaveFails(t)
  <2>1. PICK w \in {"acct", "ttl"} :
          turn' = [turn EXCEPT ![t] = [turn[t] EXCEPT !.left = Saved(t, w), !.verdict = "fail"]]
    BY <1>5 DEF SaveFails
  <2>2. turn' \in [Turn -> TurnState]
    <3>1. [turn[t] EXCEPT !.left = Saved(t, w), !.verdict = "fail"] \in TurnState
      BY SavedType
    <3> QED BY <2>1, <3>1
  <2>3. acct' \in Account /\ fresh' \subseteq Turn /\ ttl' \in [Event -> Nat]
    BY <1>5, DocTypes DEF SaveFails, Write, Kept
  <2> QED BY <1>5, <2>2, <2>3 DEF SaveFails, Lose
<1>6. CASE Crash(t)
  BY <1>6, AtType DEF Crash, PC, EndPC
<1> QED BY <1>1, <1>2, <1>3, <1>4, <1>5, <1>6 DEF Lost

LEMMA TypeManual ==
  ASSUME TypeOK, NEW m \in Manual, ManualFetch(m) \/ ManualWrite(m)
  PROVE  TypeOK'
<1> USE TurnAssumption DEF TypeOK
<1>1. CASE ManualFetch(m)
  <2>1. [pc |-> "write", count |-> acct.count, nodes |-> acct.nodes] \in ManualState
    BY DEF Account, ManualState
  <2>2. [IdleManual EXCEPT !.pc = "done"] \in ManualState
    BY DEF IdleManual, ManualState, NoState
  <2> QED BY <1>1, <2>1, <2>2 DEF ManualFetch
<1>2. CASE ManualWrite(m)
  <2>1. Changed(m) \in SUBSET Node
    BY DEF Changed, ManualState
  <2>2. Unlocked(manual[m].count, Changed(m)) \in Account
    BY <2>1 DEF Unlocked, Account, ManualState
  <2>3. [IdleManual EXCEPT !.pc = "done"] \in ManualState
    BY DEF IdleManual, ManualState, NoState
  <2> QED BY <1>2, <2>2, <2>3 DEF ManualWrite, WriteUnlocked, Write
<1> QED BY <1>1, <1>2

LEMMA TypeNext == TypeOK /\ [Next]_vars => TypeOK'
<1> SUFFICES ASSUME TypeOK, [Next]_vars PROVE TypeOK'
  OBVIOUS
<1>1. ASSUME NEW t \in Turn, Step(t) PROVE TypeOK'
  BY <1>1, TypeBefore, TypeLock, TypeHydrate, TypeSave DEF Step
<1>2. ASSUME NEW t \in Turn, Lost(t) \/ Crash(t) PROVE TypeOK'
  BY <1>2, TypeLost
<1>3. ASSUME NEW m \in Manual, ManualFetch(m) \/ ManualWrite(m) PROVE TypeOK'
  BY <1>3, TypeManual
<1>4. CASE Tick
  BY <1>4 DEF Tick, TypeOK
<1>5. CASE UNCHANGED vars
  BY <1>5 DEF vars, TypeOK
<1> QED BY <1>1, <1>2, <1>3, <1>4, <1>5 DEF Next

LEMMA TypeInit == Init => TypeOK
BY TurnAssumption DEF Init, TypeOK, NewAccount, Account, NoState, IdleTurn, TurnState, PC,
   IdleManual, ManualState

\* The account, the TTL documents, the wrappers, the turns and the operators'
\* calls keep their shapes, whatever fails.
THEOREM TypeCorrect == Spec => []TypeOK
BY TypeInit, TypeNext, PTL DEF Spec

-----------------------------------------------------------------------------
(* One holder of the lease.                                                *)

\* Turns end before their leases, nothing decays before the clock stops, and
\* nobody writes the account without a lease.
Quiet ==
  /\ Punctual
  /\ Profile = {}
  /\ Manual = {}
  /\ \A t \in Turn : DueOf[t] >= MaxTime

\* The turn has the lease and has not yet written the account without it.
Leased(r) == r.pc \in LeasedPC /\ (r.pc = "save" => "acct" \in r.left)

TurnLeaseOK(t, r, doc, fr, n) ==
  /\ r.pc \notin {"profile", "decay", "delete"}
  /\ r.expired = {}
  /\ r.pc \in LeasedPC \cup {"locking"} => r.exp > n
  /\ Leased(r) => doc.key = t /\ doc.exp = r.exp
  /\ r.pc = "locking" /\ t \in fr => doc.key = NoTurn \/ doc.exp <= n

LInv ==
  /\ TypeOK
  /\ now <= MaxTime
  /\ \A e \in Event : ttl[e] = 0 \/ ttl[e] >= MaxTime
  /\ \A t \in Turn : TurnLeaseOK(t, turn[t], acct, fresh, now)

LEMMA LeaseInit == Init => LInv
<1> SUFFICES ASSUME Init PROVE LInv
  OBVIOUS
<1>1. \A t \in Turn : TurnLeaseOK(t, turn[t], acct, fresh, now)
  BY DEF Init, IdleTurn, TurnLeaseOK, Leased, LeasedPC
<1>2. now <= MaxTime /\ \A e \in Event : ttl[e] = 0
  BY TurnAssumption DEF Init
<1> QED BY <1>1, <1>2, TypeInit DEF LInv

LEMMA LeaseImplies == LInv => LeaseExclusive
<1> SUFFICES ASSUME LInv, NEW t \in Turn, NEW u \in Turn, Holds(t), Holds(u) PROVE t = u
  BY DEF LeaseExclusive
<1>1. Leased(turn[t]) /\ Leased(turn[u])
  BY DEF Holds, Leased
<1> QED BY <1>1 DEF LInv, TurnLeaseOK

\* A step of t that leaves the account alone.
LEMMA KeepsLease ==
  ASSUME LInv, TypeOK', NEW t \in Turn, NEW r,
         turn' = [turn EXCEPT ![t] = r],
         UNCHANGED <<acct, fresh, ttl, now>>,
         TurnLeaseOK(t, r, acct, fresh, now)
  PROVE  LInv'
<1>1. turn \in [Turn -> TurnState]
  BY DEF LInv, TypeOK
<1>2. \A u \in Turn : TurnLeaseOK(u, turn'[u], acct, fresh, now)
  BY <1>1 DEF LInv
<1> QED BY <1>2 DEF LInv

\* A step of t that writes the account while no other turn has the lease.
LEMMA WritesLease ==
  ASSUME LInv, TypeOK', NEW t \in Turn, NEW r, NEW doc,
         turn' = [turn EXCEPT ![t] = r],
         Write(doc), UNCHANGED <<ttl, now>>,
         \A u \in Turn \ {t} : ~Leased(turn[u]),
         TurnLeaseOK(t, r, doc, {}, now)
  PROVE  LInv'
<1>1. turn \in [Turn -> TurnState]
  BY DEF LInv, TypeOK
<1>2. ASSUME NEW u \in Turn PROVE TurnLeaseOK(u, turn'[u], doc, {}, now)
  BY <1>1, <1>2 DEF LInv, TurnLeaseOK
<1> QED BY <1>2 DEF LInv, Write

\* A turn that gives up or comes to its end.
LEMMA AtOK ==
  \A t \in Turn, doc \in Account, fr \in SUBSET Turn, n \in Nat,
     pc \in EndPC \cup {"post"} :
       TurnLeaseOK(t, At(pc), doc, fr, n) /\ ~Leased(At(pc))
BY DEF At, IdleTurn, EndPC, LeasedPC, TurnLeaseOK, Leased

LEMMA OneHolder ==
  ASSUME LInv, NEW t \in Turn, Leased(turn[t])
  PROVE  \A u \in Turn \ {t} : ~Leased(turn[u])
BY DEF LInv, TurnLeaseOK

LEMMA NoHolder ==
  ASSUME LInv, NEW t \in Turn, turn[t].pc = "locking", LockAccepted(t)
  PROVE  \A u \in Turn \ {t} : ~Leased(turn[u])
<1> SUFFICES ASSUME NEW u \in Turn \ {t}, Leased(turn[u]) PROVE FALSE
  OBVIOUS
<1>1. acct.key = NoTurn \/ acct.exp <= now
  BY DEF LInv, TurnLeaseOK, LockAccepted
<1>2. acct.key = u /\ acct.exp = turn[u].exp /\ turn[u].exp > now
  BY DEF LInv, TurnLeaseOK, Leased
<1>3. acct.exp \in Nat /\ now \in Nat
  BY DEF LInv, TypeOK, Account
<1> QED BY <1>1, <1>2, <1>3, TurnAssumption

\* The place and the lease of the account decide whether a turn is in order.
LEMMA SameLease ==
  ASSUME LInv, NEW t \in Turn, NEW r \in TurnState,
         r.pc \notin {"profile", "decay", "delete", "locking"}, r.expired = {},
         r.pc \in LeasedPC => turn[t].pc \in LeasedPC /\ r.exp = turn[t].exp,
         Leased(r) => Leased(turn[t])
  PROVE  TurnLeaseOK(t, r, acct, fresh, now)
BY DEF LInv, TurnLeaseOK, Leased

LEMMA LeaseBefore ==
  ASSUME LInv, TypeOK', Quiet, NEW t \in Turn,
         Load(t) \/ ResettleFetch(t) \/ ProfileFetch(t) \/ ProfileWrite(t)
           \/ ReadWrapper(t) \/ PreSave(t)
  PROVE  LInv'
<1>1. turn[t] \in TurnState /\ turn[t].expired = {} /\ turn[t].pc # "profile" /\ t \notin Profile
  BY DEF LInv, TypeOK, Quiet, TurnLeaseOK
<1>2. ASSUME NEW r, turn' = [turn EXCEPT ![t] = r], UNCHANGED <<acct, fresh, ttl, now>>,
             r.pc \in {"wrap", "presave", "lock"}, r.expired = {}
      PROVE  LInv'
  <2>1. TurnLeaseOK(t, r, acct, fresh, now)
    BY <1>2 DEF TurnLeaseOK, Leased, LeasedPC
  <2> QED BY <1>2, <2>1, KeepsLease
<1>3. CASE Load(t)
  <2> DEFINE r == Loaded("wrap")
  <2>1. r.pc = "wrap" /\ r.expired = {}
    BY DEF Loaded, IdleTurn
  <2>2. turn' = [turn EXCEPT ![t] = r] /\ UNCHANGED <<acct, fresh, ttl, now>>
    BY <1>3 DEF Load
  <2> HIDE DEF r
  <2> QED BY <1>2, <2>1, <2>2
<1>4. CASE ProfileFetch(t)
  BY <1>1, <1>4 DEF ProfileFetch
<1>5. CASE ProfileWrite(t)
  BY <1>1, <1>5 DEF ProfileWrite
<1>6. CASE ReadWrapper(t)
  <2>1. CASE StaleRequest(t)
    <3>1. TurnLeaseOK(t, At("stale"), acct, fresh, now)
      BY AtOK DEF LInv, TypeOK, EndPC
    <3>2. turn' = [turn EXCEPT ![t] = At("stale")] /\ UNCHANGED <<acct, fresh, ttl, now>>
      BY <1>6, <2>1 DEF ReadWrapper
    <3> QED BY <3>1, <3>2, KeepsLease
  <2>2. CASE ~StaleRequest(t)
    <3> DEFINE r == [turn[t] EXCEPT !.pc = "presave", !.had = settled[EventOf[t]]]
    <3>1. r.pc = "presave" /\ r.expired = {}
      BY <1>1 DEF TurnState
    <3>2. turn' = [turn EXCEPT ![t] = r] /\ UNCHANGED <<acct, fresh, ttl, now>>
      BY <1>6, <2>2 DEF ReadWrapper
    <3> HIDE DEF r
    <3> QED BY <1>2, <3>1, <3>2
  <2> QED BY <2>1, <2>2
<1>7. CASE PreSave(t)
  <2> DEFINE r == [turn[t] EXCEPT !.pc = "lock"]
  <2>1. r.pc = "lock" /\ r.expired = {}
    BY <1>1 DEF TurnState
  <2>2. turn' = [turn EXCEPT ![t] = r] /\ UNCHANGED <<acct, fresh, ttl, now>>
    BY <1>7 DEF PreSave
  <2> HIDE DEF r
  <2> QED BY <1>2, <2>1, <2>2
<1>8. CASE ResettleFetch(t)
  <2> DEFINE r == Loaded("lock")
  <2>1. r.pc = "lock" /\ r.expired = {}
    BY DEF Loaded, IdleTurn
  <2>2. turn' = [turn EXCEPT ![t] = r] /\ UNCHANGED <<acct, fresh, ttl, now>>
    BY <1>8 DEF ResettleFetch
  <2> HIDE DEF r
  <2> QED BY <1>2, <2>1, <2>2
<1> QED BY <1>3, <1>4, <1>5, <1>6, <1>7, <1>8

LEMMA GivesUp ==
  ASSUME LInv, TypeOK', NEW t \in Turn, NEW pc \in EndPC \cup {"post"},
         turn' = [turn EXCEPT ![t] = At(pc)], UNCHANGED <<acct, fresh, ttl, now>>
  PROVE  LInv'
<1>1. TurnLeaseOK(t, At(pc), acct, fresh, now)
  BY AtOK DEF LInv, TypeOK
<1> QED BY <1>1, KeepsLease

LEMMA LeaseLock ==
  ASSUME LInv, TypeOK', NEW t \in Turn,
         LockFetch(t) \/ LockRefused(t) \/ LockWrite(t) \/ LockConflict(t)
  PROVE  LInv'
<1>1. /\ turn \in [Turn -> TurnState] /\ turn[t] \in TurnState /\ acct \in Account
      /\ now \in Nat /\ turn[t].expired = {}
  BY DEF LInv, TypeOK, TurnLeaseOK
<1>2. CASE LockFetch(t)
  <2> DEFINE r == [turn[t] EXCEPT !.pc = "locking", !.count = acct.count,
                                  !.exp = now + Lease]
  <2>1. r.pc = "locking" /\ r.expired = {} /\ r.exp = now + Lease
    BY <1>1 DEF TurnState
  <2>2. turn' = [turn EXCEPT ![t] = r]
    BY <1>2 DEF LockFetch
  <2>3. fresh' = fresh \cup {t} /\ UNCHANGED <<acct, ttl, now>> /\ ~LeasedBy(acct)
    BY <1>2 DEF LockFetch
  <2> HIDE DEF r
  <2>4. acct.key = NoTurn \/ acct.exp <= now
    BY <1>1, <2>3 DEF LeasedBy, Account
  <2>5. now + Lease > now
    BY <1>1, TurnAssumption
  <2>6. TurnLeaseOK(t, r, acct, fresh', now)
    BY <2>1, <2>4, <2>5 DEF TurnLeaseOK, Leased, LeasedPC
  <2>7. ASSUME NEW u \in Turn PROVE TurnLeaseOK(u, turn'[u], acct, fresh', now)
    <3>1. CASE u = t
      BY <1>1, <2>2, <2>6, <3>1
    <3>2. CASE u # t
      <4>1. turn'[u] = turn[u] /\ (u \in fresh' <=> u \in fresh)
        BY <1>1, <2>2, <2>3, <3>2
      <4> QED BY <4>1 DEF LInv, TurnLeaseOK
    <3> QED BY <3>1, <3>2
  <2> QED BY <2>3, <2>7 DEF LInv
<1>3. CASE LockRefused(t)
  <2>1. CASE Tried(t) < Attempts
    <3> DEFINE r == [turn[t] EXCEPT !.attempts = Tried(t)]
    <3>1. r.pc = "lock" /\ r.expired = {}
      BY <1>1, <1>3 DEF TurnState, LockRefused
    <3>2. turn' = [turn EXCEPT ![t] = r] /\ UNCHANGED <<acct, fresh, ttl, now>>
      BY <1>3, <2>1 DEF LockRefused
    <3> HIDE DEF r
    <3>3. TurnLeaseOK(t, r, acct, fresh, now)
      BY <3>1 DEF TurnLeaseOK, Leased, LeasedPC
    <3> QED BY <3>2, <3>3, KeepsLease
  <2>2. CASE ~(Tried(t) < Attempts)
    BY <1>3, <2>2, GivesUp DEF LockRefused, EndPC
  <2> QED BY <2>1, <2>2
<1>4. CASE LockWrite(t)
  <2> DEFINE r == [turn[t] EXCEPT !.pc = "hydrate", !.attempts = 0]
  <2>1. r.pc = "hydrate" /\ r.expired = {} /\ r.exp = turn[t].exp
    BY <1>1 DEF TurnState
  <2>2. turn' = [turn EXCEPT ![t] = r]
    BY <1>4 DEF LockWrite
  <2> HIDE DEF r
  <2>3. /\ turn[t].pc = "locking" /\ LockAccepted(t)
        /\ Write(Locked(t)) /\ UNCHANGED <<ttl, now>>
    BY <1>4 DEF LockWrite
  <2>4. Locked(t).key = t /\ Locked(t).exp = turn[t].exp
    BY <1>1 DEF Locked, Account
  <2>5. turn[t].exp > now
    BY <2>3 DEF LInv, TurnLeaseOK
  <2>6. TurnLeaseOK(t, r, Locked(t), {}, now)
    BY <2>1, <2>4, <2>5 DEF TurnLeaseOK
  <2> QED BY <2>2, <2>3, <2>6, NoHolder, WritesLease
<1>5. CASE LockConflict(t)
  BY <1>5, GivesUp DEF LockConflict, EndPC
<1> QED BY <1>2, <1>3, <1>4, <1>5

LEMMA LeaseHydrate ==
  ASSUME LInv, TypeOK', NEW t \in Turn,
         ReadExpired(t) \/ RereadState(t) \/ ReadExisting(t) \/ SaveDecayed(t) \/ DeleteExpired(t)
  PROVE  LInv'
<1>1. turn[t] \in TurnState /\ turn[t].expired = {} /\ turn[t].pc \notin {"decay", "delete"}
  BY DEF LInv, TypeOK, TurnLeaseOK
<1>2. ASSUME NEW r \in TurnState, turn' = [turn EXCEPT ![t] = r],
             UNCHANGED <<acct, fresh, ttl, now>>,
             turn[t].pc \in {"hydrate", "reread", "existing"},
             r.pc \in {"reread", "existing", "award"}, r.expired = {}, r.exp = turn[t].exp
      PROVE  LInv'
  <2>1. Leased(turn[t]) /\ turn[t].pc \in LeasedPC
    BY <1>2 DEF Leased, LeasedPC
  <2>2. TurnLeaseOK(t, r, acct, fresh, now)
    BY <1>2, <2>1, SameLease
  <2> QED BY <1>2, <2>2, KeepsLease
<1>3. ASSUME NEW r, turn' = [turn EXCEPT ![t] = r] PROVE r \in TurnState
  <2>1. turn'[t] \in TurnState /\ turn'[t] = r
    BY <1>3 DEF LInv, TypeOK
  <2> QED BY <2>1
<1>4. CASE ReadExpired(t)
  <2> DEFINE x == {e \in Event : ttl[e] # 0 /\ ttl[e] < now}
             r == [turn[t] EXCEPT !.pc = "reread", !.expired = x]
  <2>1. x = {}
    <3> SUFFICES ASSUME NEW e \in Event, ttl[e] # 0, ttl[e] < now PROVE FALSE
      OBVIOUS
    <3>1. ttl[e] \in Nat /\ now \in Nat /\ ttl[e] >= MaxTime /\ now <= MaxTime
      BY DEF LInv, TypeOK
    <3> QED BY <3>1, TurnAssumption
  <2>2. turn' = [turn EXCEPT ![t] = r] /\ UNCHANGED <<acct, fresh, ttl, now>>
    BY <1>4 DEF ReadExpired
  <2>3. turn[t].pc = "hydrate"
    BY <1>4 DEF ReadExpired
  <2> HIDE DEF x
  <2>4. r.pc = "reread" /\ r.expired = {} /\ r.exp = turn[t].exp
    BY <1>1, <2>1 DEF TurnState
  <2> HIDE DEF r
  <2> QED BY <1>2, <1>3, <2>2, <2>3, <2>4
<1>5. CASE RereadState(t)
  <2> DEFINE c == IF acct.count = NoState THEN turn[t].count ELSE acct.count
             r == [turn[t] EXCEPT !.pc = "existing", !.count = c]
  <2>1. turn' = [turn EXCEPT ![t] = r] /\ UNCHANGED <<acct, fresh, ttl, now>>
    BY <1>5 DEF RereadState
  <2>2. turn[t].pc = "reread"
    BY <1>5 DEF RereadState
  <2> HIDE DEF c
  <2>3. r.pc = "existing" /\ r.expired = {} /\ r.exp = turn[t].exp
    BY <1>1 DEF TurnState
  <2> HIDE DEF r
  <2> QED BY <1>2, <1>3, <2>1, <2>2, <2>3
<1>6. CASE ReadExisting(t)
  <2> DEFINE r == [turn[t] EXCEPT !.pc = "award", !.count = Decayed(t), !.known = Contributed(t)]
  <2>1. turn' = [turn EXCEPT ![t] = r] /\ UNCHANGED <<acct, fresh, ttl, now>>
    BY <1>1, <1>6 DEF ReadExisting
  <2>2. turn[t].pc = "existing"
    BY <1>6 DEF ReadExisting
  <2>3. r.pc = "award" /\ r.expired = {} /\ r.exp = turn[t].exp
    BY <1>1 DEF TurnState
  <2> HIDE DEF r
  <2> QED BY <1>2, <1>3, <2>1, <2>2, <2>3
<1>7. CASE SaveDecayed(t)
  BY <1>1, <1>7 DEF SaveDecayed
<1>8. CASE DeleteExpired(t)
  BY <1>1, <1>8 DEF DeleteExpired
<1> QED BY <1>4, <1>5, <1>6, <1>7, <1>8

\* Into the finally block.
LEMMA LeaseFinally ==
  ASSUME LInv, TypeOK', NEW t \in Turn, NEW r,
         turn' = [turn EXCEPT ![t] = r], UNCHANGED <<acct, fresh, ttl, now>>,
         turn[t].pc \in {"existing", "award"},
         \/ \E v \in {"ok", "retry", "fail"} : r = Evaluated(t, v)
         \/ \E c \in Count : r = SaveOnly(t, c)
  PROVE  LInv'
<1>1. /\ turn[t] \in TurnState /\ turn[t].expired = {}
      /\ TypeOK
  BY DEF LInv, TypeOK, TurnLeaseOK
<1>2. r.pc = "save" /\ r.expired = {} /\ r.exp = turn[t].exp
  BY <1>1 DEF Evaluated, SaveOnly, TurnState
<1>3. r \in TurnState
  BY <1>1, EvaluatedType, SaveOnlyType
<1>4. Leased(turn[t]) /\ turn[t].pc \in LeasedPC
  BY DEF Leased, LeasedPC
<1>5. TurnLeaseOK(t, r, acct, fresh, now)
  BY <1>2, <1>3, <1>4, SameLease
<1> QED BY <1>5, KeepsLease

\* One of the final writes is made, or not, and is no longer awaited.
LEMMA LeaseSaving ==
  ASSUME LInv, TypeOK', NEW t \in Turn, NEW w \in {"acct", "ttl"}, NEW r,
         Saving(t, w), turn' = [turn EXCEPT ![t] = r],
         r.pc = "save", r.expired = {}, r.exp = turn[t].exp, r.left = Saved(t, w)
  PROVE  /\ UNCHANGED <<acct, fresh, ttl, now>> => LInv'
         /\ w = "acct" /\ Write(SavedDoc(t)) /\ UNCHANGED <<ttl, now>> => LInv'
<1>1. turn[t].pc = "save" /\ turn[t].pc \in LeasedPC /\ w \in turn[t].left
  BY DEF Saving, LeasedPC
<1>2. r \in TurnState
  <2>1. turn'[t] \in TurnState /\ turn'[t] = r
    BY DEF LInv, TypeOK
  <2> QED BY <2>1
<1>3. ASSUME UNCHANGED <<acct, fresh, ttl, now>> PROVE LInv'
  <2>1. Leased(r) => Leased(turn[t])
    BY <1>1 DEF Leased, Saved
  <2>2. TurnLeaseOK(t, r, acct, fresh, now)
    BY <1>1, <1>2, <2>1, SameLease
  <2> QED BY <1>3, <2>2, KeepsLease
<1>4. ASSUME w = "acct", Write(SavedDoc(t)), UNCHANGED <<ttl, now>> PROVE LInv'
  <2>1. Leased(turn[t]) /\ ~Leased(r)
    BY <1>1, <1>4 DEF Leased, Saved
  <2>2. turn[t].exp > now
    BY <1>1 DEF LInv, TurnLeaseOK
  <2>3. TurnLeaseOK(t, r, SavedDoc(t), {}, now)
    BY <2>1, <2>2 DEF TurnLeaseOK
  <2> QED BY <1>4, <2>1, <2>3, OneHolder, WritesLease
<1> QED BY <1>3, <1>4

\* The same with the TTL document of the event written.
LEMMA LeaseTtl ==
  ASSUME LInv, TypeOK', Quiet, NEW t \in Turn, NEW r,
         Saving(t, "ttl"), turn' = [turn EXCEPT ![t] = r],
         r.pc = "save", r.expired = {}, r.exp = turn[t].exp, r.left = Saved(t, "ttl"),
         ttl' = [ttl EXCEPT ![EventOf[t]] = DueOf[t]], UNCHANGED <<acct, fresh, now>>
  PROVE  LInv'
<1>1. turn \in [Turn -> TurnState] /\ ttl \in [Event -> Nat]
  BY DEF LInv, TypeOK
<1>2. turn[t].pc = "save" /\ turn[t].pc \in LeasedPC
  BY DEF Saving, LeasedPC
<1>3. r \in TurnState /\ (Leased(r) => Leased(turn[t]))
  <2>1. turn'[t] \in TurnState /\ turn'[t] = r
    BY <1>1 DEF TypeOK
  <2>2. Leased(r) => Leased(turn[t])
    BY <1>2 DEF Leased, Saved
  <2> QED BY <2>1, <2>2
<1>4. TurnLeaseOK(t, r, acct, fresh, now)
  BY <1>2, <1>3, SameLease
<1>5. \A u \in Turn : TurnLeaseOK(u, turn'[u], acct, fresh, now)
  BY <1>1, <1>4 DEF LInv
<1>6. \A e \in Event : ttl'[e] = 0 \/ ttl'[e] >= MaxTime
  BY <1>1 DEF LInv, Quiet
<1> QED BY <1>5, <1>6 DEF LInv

LEMMA LeaseSave ==
  ASSUME LInv, TypeOK', Quiet, NEW t \in Turn,
         Award(t) \/ SaveAccount(t) \/ SaveTtl(t) \/ RulesEnd(t) \/ PostSave(t)
  PROVE  LInv'
<1>1. turn[t] \in TurnState /\ turn[t].expired = {}
  BY DEF LInv, TypeOK, TurnLeaseOK
<1>2. CASE Award(t)
  <2> DEFINE v == IF LeaseStolen(t) THEN "retry" ELSE "ok"
             r == Evaluated(t, v)
  <2>1. turn' = [turn EXCEPT ![t] = r] /\ UNCHANGED <<acct, fresh, ttl, now>>
    BY <1>2 DEF Award
  <2>2. turn[t].pc = "award" /\ v \in {"ok", "retry", "fail"}
    BY <1>2 DEF Award
  <2> QED BY <2>1, <2>2, LeaseFinally
<1>3. CASE SaveAccount(t)
  <2> DEFINE r == [turn[t] EXCEPT !.left = Saved(t, "acct")]
  <2>1. /\ turn' = [turn EXCEPT ![t] = r] /\ Saving(t, "acct")
        /\ Write(SavedDoc(t)) /\ UNCHANGED <<ttl, now>>
    BY <1>3 DEF SaveAccount
  <2>2. r.pc = "save" /\ r.expired = {} /\ r.exp = turn[t].exp /\ r.left = Saved(t, "acct")
    BY <1>1, <2>1 DEF TurnState, Saving
  <2> HIDE DEF r
  <2> QED BY <2>1, <2>2, LeaseSaving
<1>4. CASE SaveTtl(t)
  <2> DEFINE r == [turn[t] EXCEPT !.left = Saved(t, "ttl")]
  <2>1. /\ turn' = [turn EXCEPT ![t] = r] /\ Saving(t, "ttl")
        /\ ttl' = [ttl EXCEPT ![EventOf[t]] = DueOf[t]] /\ UNCHANGED <<acct, fresh, now>>
    BY <1>4 DEF SaveTtl
  <2>2. r.pc = "save" /\ r.expired = {} /\ r.exp = turn[t].exp /\ r.left = Saved(t, "ttl")
    BY <1>1, <2>1 DEF TurnState, Saving
  <2> HIDE DEF r
  <2> QED BY <2>1, <2>2, LeaseTtl
<1>5. CASE RulesEnd(t)
  <2> DEFINE r == [IdleTurn EXCEPT !.pc = "lock", !.rounds = turn[t].rounds + 1,
                                   !.nodes = turn[t].nodes, !.seen = turn[t].seen]
  <2>1. r.pc = "lock" /\ r.expired = {}
    BY DEF IdleTurn
  <2>2. UNCHANGED <<acct, fresh, ttl, now>>
    BY <1>5 DEF RulesEnd
  <2>3. \/ turn' = [turn EXCEPT ![t] = r]
        \/ \E pc \in EndPC \cup {"post"} : turn' = [turn EXCEPT ![t] = At(pc)]
    BY <1>5 DEF RulesEnd, AfterRules, EndPC
  <2> HIDE DEF r
  <2>4. TurnLeaseOK(t, r, acct, fresh, now)
    BY <2>1 DEF TurnLeaseOK, Leased, LeasedPC
  <2> QED BY <2>2, <2>3, <2>4, KeepsLease, GivesUp
<1>6. CASE PostSave(t)
  BY <1>6, GivesUp DEF PostSave, EndPC
<1> QED BY <1>2, <1>3, <1>4, <1>5, <1>6

LEMMA LeaseLost ==
  ASSUME LInv, TypeOK', Quiet, NEW t \in Turn, Lost(t) \/ Crash(t)
  PROVE  LInv'
<1>1. /\ turn[t] \in TurnState /\ turn[t].expired = {} /\ acct \in Account
      /\ turn[t].pc \notin {"profile", "decay", "delete"}
  BY DEF LInv, TypeOK, TurnLeaseOK
<1>2. CASE CallFails(t)
  BY <1>2, GivesUp DEF CallFails, EndPC
<1>3. CASE WriteUnanswered(t)
  <2>1. turn' = [turn EXCEPT ![t] = At("failed")] /\ UNCHANGED <<ttl, now>>
    BY <1>3 DEF WriteUnanswered
  <2>2. CASE UNCHANGED <<acct, fresh>>
    BY <2>1, <2>2, GivesUp DEF EndPC
  <2>3. CASE turn[t].pc = "locking" /\ LockAccepted(t) /\ Write(Locked(t))
    <3>1. Locked(t) \in Account
      BY DocTypes DEF LInv
    <3>2. TurnLeaseOK(t, At("failed"), Locked(t), {}, now)
      BY <3>1, AtOK DEF LInv, TypeOK, EndPC
    <3> QED BY <2>1, <2>3, <3>2, NoHolder, WritesLease
  <2> QED BY <1>1, <1>3, <2>2, <2>3 DEF WriteUnanswered, Kept
<1>4. CASE HydrateFails(t)
  <2>1. UNCHANGED <<acct, fresh, ttl, now>>
    BY <1>4 DEF HydrateFails
  <2>2. ASSUME NEW pc \in {"reread", "existing"}, turn[t].pc \in {"hydrate", "reread"},
               turn' = [turn EXCEPT ![t] = [turn[t] EXCEPT !.pc = pc]]
        PROVE  LInv'
    <3> DEFINE r == [turn[t] EXCEPT !.pc = pc]
    <3>1. r.pc = pc /\ r.expired = {} /\ r.exp = turn[t].exp
      BY <1>1 DEF TurnState
    <3>2. turn' = [turn EXCEPT ![t] = r]
      BY <2>2
    <3> HIDE DEF r
    <3>3. r \in TurnState
      <4>1. turn'[t] \in TurnState /\ turn'[t] = r
        BY <3>2 DEF LInv, TypeOK
      <4> QED BY <4>1
    <3>4. Leased(turn[t]) /\ turn[t].pc \in LeasedPC
      BY <2>2 DEF Leased, LeasedPC
    <3>5. TurnLeaseOK(t, r, acct, fresh, now)
      BY <2>2, <3>1, <3>3, <3>4, SameLease
    <3> QED BY <2>1, <3>2, <3>5, KeepsLease
  <2>3. CASE turn[t].pc = "existing" /\ turn' = [turn EXCEPT ![t] = SaveOnly(t, Decayed(t))]
    <3>1. Decayed(t) \in Count
      BY CountTypes DEF LInv
    <3> QED BY <2>1, <2>3, <3>1, LeaseFinally
  <2>4. CASE turn[t].pc = "award" /\ turn' = [turn EXCEPT ![t] = Evaluated(t, "fail")]
    BY <2>1, <2>4, LeaseFinally
  <2>5. \/ /\ turn[t].pc \in {"hydrate", "reread"}
           /\ \E pc \in {"reread", "existing"} :
                turn' = [turn EXCEPT ![t] = [turn[t] EXCEPT !.pc = pc]]
        \/ turn[t].pc = "existing" /\ turn' = [turn EXCEPT ![t] = SaveOnly(t, Decayed(t))]
        \/ turn[t].pc = "award" /\ turn' = [turn EXCEPT ![t] = Evaluated(t, "fail")]
    BY <1>4 DEF HydrateFails
  <2> QED BY <2>2, <2>3, <2>4, <2>5
<1>5. CASE DecayFails(t)
  BY <1>1, <1>5 DEF DecayFails
<1>6. CASE SaveFails(t)
  <2>1. ASSUME NEW w \in {"acct", "ttl"}, Saving(t, w),
               turn' = [turn EXCEPT ![t] = [turn[t] EXCEPT !.left = Saved(t, w),
                                                           !.verdict = "fail"]]
        PROVE  /\ UNCHANGED <<acct, fresh, ttl, now>> => LInv'
               /\ w = "acct" /\ Write(SavedDoc(t)) /\ UNCHANGED <<ttl, now>> => LInv'
               /\ w = "ttl" /\ ttl' = [ttl EXCEPT ![EventOf[t]] = DueOf[t]]
                    /\ UNCHANGED <<acct, fresh, now>> => LInv'
    <3> DEFINE r == [turn[t] EXCEPT !.left = Saved(t, w), !.verdict = "fail"]
    <3>1. r.pc = "save" /\ r.expired = {} /\ r.exp = turn[t].exp /\ r.left = Saved(t, w)
      BY <1>1, <2>1 DEF TurnState, Saving
    <3>2. turn' = [turn EXCEPT ![t] = r]
      BY <2>1
    <3> HIDE DEF r
    <3> QED BY <2>1, <3>1, <3>2, LeaseSaving, LeaseTtl
  <2>2. CASE Saving(t, "acct") /\ ttl' = ttl
             /\ turn' = [turn EXCEPT ![t] = [turn[t] EXCEPT !.left = Saved(t, "acct"),
                                                             !.verdict = "fail"]]
             /\ (UNCHANGED <<acct, fresh>> \/ Write(SavedDoc(t)))
    <3>1. UNCHANGED <<ttl, now>>
      BY <1>6, <2>2 DEF SaveFails
    <3> QED BY <2>1, <2>2, <3>1
  <2>3. CASE Saving(t, "ttl") /\ UNCHANGED <<acct, fresh>>
             /\ turn' = [turn EXCEPT ![t] = [turn[t] EXCEPT !.left = Saved(t, "ttl"),
                                                             !.verdict = "fail"]]
             /\ ttl' \in {ttl, [ttl EXCEPT ![EventOf[t]] = DueOf[t]]}
    <3>1. UNCHANGED now
      BY <1>6 DEF SaveFails
    <3> QED BY <2>1, <2>3, <3>1
  <2>4. \/ /\ Saving(t, "acct")
           /\ Kept \/ Write(SavedDoc(t))
           /\ turn' = [turn EXCEPT ![t] = [turn[t] EXCEPT !.left = Saved(t, "acct"),
                                                          !.verdict = "fail"]]
           /\ ttl' = ttl
        \/ /\ Saving(t, "ttl")
           /\ ttl' \in {ttl, [ttl EXCEPT ![EventOf[t]] = DueOf[t]]}
           /\ turn' = [turn EXCEPT ![t] = [turn[t] EXCEPT !.left = Saved(t, "ttl"),
                                                          !.verdict = "fail"]]
           /\ Kept
    BY <1>6 DEF SaveFails
  <2> QED BY <2>2, <2>3, <2>4 DEF Kept
<1>7. CASE Crash(t)
  BY <1>7, GivesUp DEF Crash, EndPC
<1> QED BY <1>2, <1>3, <1>4, <1>5, <1>6, <1>7 DEF Lost

LEMMA LeaseTick ==
  ASSUME LInv, TypeOK', Quiet, Tick
  PROVE  LInv'
<1>1. now \in Nat /\ now' = now + 1 /\ now < MaxTime /\ UNCHANGED <<acct, fresh, ttl, turn>>
  BY DEF LInv, TypeOK, Tick
<1>2. now' <= MaxTime
  BY <1>1, TurnAssumption
<1>3. ASSUME NEW t \in Turn PROVE TurnLeaseOK(t, turn[t], acct, fresh, now + 1)
  <2>1. turn[t].pc \in LeasedPC \cup {"locking"} => turn[t].exp > now + 1
    BY DEF Quiet, Tick
  <2>2. acct.exp \in Nat /\ TurnLeaseOK(t, turn[t], acct, fresh, now)
    BY DEF LInv, TypeOK, Account
  <2>3. acct.exp <= now => acct.exp <= now + 1
    BY <1>1, <2>2
  <2> QED BY <2>1, <2>2, <2>3 DEF TurnLeaseOK
<1> QED BY <1>1, <1>2, <1>3 DEF LInv

LEMMA LeaseNext == Quiet /\ LInv /\ [Next]_vars => LInv'
<1> SUFFICES ASSUME Quiet, LInv, [Next]_vars PROVE LInv'
  OBVIOUS
<1>1. TypeOK'
  BY TypeNext DEF LInv
<1>2. ASSUME NEW t \in Turn, Step(t) PROVE LInv'
  BY <1>1, <1>2, LeaseBefore, LeaseLock, LeaseHydrate, LeaseSave DEF Step
<1>3. ASSUME NEW t \in Turn, Lost(t) \/ Crash(t) PROVE LInv'
  BY <1>1, <1>3, LeaseLost
<1>4. ASSUME NEW m \in Manual PROVE LInv'
  BY <1>4 DEF Quiet
<1>5. CASE Tick
  BY <1>1, <1>5, LeaseTick
<1>6. CASE UNCHANGED vars
  BY <1>6 DEF vars, LInv, TypeOK
<1> QED BY <1>2, <1>3, <1>4, <1>5, <1>6 DEF Next

\* Two turns never hold the account at once, for any number of turns, crashes
\* and lost calls, as long as no turn outlives its lease and no write outside
\* a turn, or in the middle of one, gives the lease back.
THEOREM LeaseCorrect == Quiet => (Spec => []LeaseExclusive)
<1> SUFFICES ASSUME Quiet PROVE Spec => []LeaseExclusive
  OBVIOUS
<1>1. LInv /\ [Next]_vars => LInv'
  BY LeaseNext
<1> QED BY <1>1, LeaseInit, LeaseImplies, PTL DEF Spec

-----------------------------------------------------------------------------
(* The journeys.                                                           *)

\* The places of a turn that still writes the account.
Writing == {"profile", "wrap", "presave", "lock", "locking"} \cup LeasedPC

\* The nodes that may be missing from what a turn writes.
Slack(t) == IF turn[t].pc = "profile" THEN {} ELSE Quits(t)

\* What a step of a turn does to the nodes.
TurnMoves(t) ==
  /\ \A u \in Turn \ {t} : turn'[u] = turn[u]
  /\ turn[t].pc \notin EndPC /\ turn'[t].pc # "idle"
  /\ turn[t].pc = "idle" => MayStart(t)
  /\ \/ acct'.nodes = acct.nodes
     \/ Rewrites(t) /\ acct'.nodes = turn[t].nodes
  /\ turn'[t].pc \in Writing =>
       \/ /\ turn[t].pc = "idle" /\ acct'.nodes = acct.nodes
          /\ turn'[t].nodes = acct.nodes /\ turn'[t].seen = acct.nodes
       \/ /\ turn[t].pc \in Writing /\ turn'[t].pc # "profile"
          /\ turn[t].nodes \subseteq turn'[t].nodes \cup Quits(t)
          /\ turn'[t].seen = turn[t].seen

\* A turn that ends or gives up.
LEMMA EndMoves ==
  ASSUME TypeOK, NEW t \in Turn, NEW pc \in EndPC \cup {"post"},
         turn' = [turn EXCEPT ![t] = At(pc)],
         turn[t].pc \notin EndPC \cup {"idle"},
         \/ acct'.nodes = acct.nodes
         \/ turn[t].pc = "profile" /\ acct'.nodes = turn[t].nodes
  PROVE  TurnMoves(t)
<1>1. turn'[t].pc = pc /\ \A u \in Turn \ {t} : turn'[u] = turn[u]
  BY DEF TypeOK, At, IdleTurn
<1>2. pc \notin {"idle", "profile"} /\ pc \notin Writing
  BY DEF EndPC, Writing, LeasedPC
<1> QED BY <1>1, <1>2 DEF TurnMoves, Rewrites

\* A turn with the lease that goes on with its nodes, but for those it quits.
LEMMA GoesOn ==
  ASSUME TypeOK, NEW t \in Turn, NEW r, turn' = [turn EXCEPT ![t] = r], r # turn[t],
         turn[t].pc \in LeasedPC, r.pc \in LeasedPC,
         turn[t].nodes \subseteq r.nodes \cup Quits(t), r.seen = turn[t].seen,
         acct'.nodes \in {acct.nodes, turn[t].nodes}
  PROVE  TurnMoves(t)
<1>1. turn'[t] = r /\ \A u \in Turn \ {t} : turn'[u] = turn[u]
  BY DEF TypeOK
<1>2. turn[t].pc \notin EndPC \cup {"idle"} /\ r.pc \notin {"idle", "profile"}
  BY DEF EndPC, LeasedPC
<1>3. turn[t].pc \in Writing
  BY DEF Writing
<1> QED BY <1>1, <1>2, <1>3 DEF TurnMoves, Rewrites

LEMMA DocNodes ==
  ASSUME TypeOK, NEW t \in Turn
  PROVE  /\ ProfileDoc(t).nodes = turn[t].nodes /\ SavedDoc(t).nodes = turn[t].nodes
         /\ Locked(t).nodes = acct.nodes
         /\ WriteUnlocked(turn[t].count, turn[t].nodes) => acct'.nodes = turn[t].nodes
         /\ Kept => acct'.nodes = acct.nodes
BY DEF TypeOK, Account, ProfileDoc, SavedDoc, Locked, Unlocked, WriteUnlocked, Write, Kept

LEMMA BeforeMoves ==
  ASSUME TypeOK, NEW t \in Turn,
         Load(t) \/ ResettleFetch(t) \/ ProfileFetch(t) \/ ProfileWrite(t)
           \/ ReadWrapper(t) \/ PreSave(t)
  PROVE  TurnMoves(t)
<1>0. turn \in [Turn -> TurnState]
  BY DEF TypeOK
<1>1. CASE Load(t) \/ ResettleFetch(t) \/ ProfileFetch(t)
  <2>1. PICK pc \in {"wrap", "lock", "profile"} : turn' = [turn EXCEPT ![t] = Loaded(pc)]
    BY <1>1 DEF Load, ResettleFetch, ProfileFetch
  <2>2. turn[t].pc = "idle" /\ MayStart(t) /\ acct' = acct
    BY <1>1 DEF Load, ResettleFetch, ProfileFetch
  <2>3. /\ turn'[t].pc = pc /\ turn'[t].nodes = acct.nodes /\ turn'[t].seen = acct.nodes
        /\ \A u \in Turn \ {t} : turn'[u] = turn[u]
    BY <1>0, <2>1 DEF Loaded, IdleTurn
  <2> QED BY <2>2, <2>3 DEF TurnMoves, EndPC
<1>2. CASE ProfileWrite(t)
  BY <1>0, <1>2, DocNodes DEF ProfileWrite, Write, TurnMoves, Rewrites, TurnState, EndPC, Writing
<1>3. CASE ReadWrapper(t)
  <2>1. CASE StaleRequest(t)
    BY <1>3, <2>1, EndMoves DEF ReadWrapper, EndPC
  <2>2. CASE ~StaleRequest(t)
    BY <1>0, <1>3, <2>2 DEF ReadWrapper, TurnMoves, Rewrites, TurnState, EndPC, Writing
  <2> QED BY <2>1, <2>2
<1>4. CASE PreSave(t)
  BY <1>0, <1>4 DEF PreSave, TurnMoves, Rewrites, TurnState, EndPC, Writing
<1> QED BY <1>1, <1>2, <1>3, <1>4

LEMMA LockMoves ==
  ASSUME TypeOK, NEW t \in Turn,
         LockFetch(t) \/ LockRefused(t) \/ LockWrite(t) \/ LockConflict(t)
  PROVE  TurnMoves(t)
<1>0. turn \in [Turn -> TurnState]
  BY DEF TypeOK
<1>1. CASE LockFetch(t)
  BY <1>0, <1>1 DEF LockFetch, TurnMoves, Rewrites, TurnState, EndPC, Writing
<1>2. CASE LockRefused(t)
  <2>1. CASE Tried(t) < Attempts
    BY <1>0, <1>2, <2>1 DEF LockRefused, TurnMoves, Rewrites, TurnState, EndPC, Writing
  <2>2. CASE ~(Tried(t) < Attempts)
    BY <1>2, <2>2, EndMoves DEF LockRefused, EndPC
  <2> QED BY <2>1, <2>2
<1>3. CASE LockWrite(t)
  BY <1>0, <1>3, DocNodes DEF LockWrite, Write, TurnMoves, Rewrites, TurnState, EndPC, Writing, LeasedPC
<1>4. CASE LockConflict(t)
  BY <1>4, EndMoves DEF LockConflict, EndPC
<1> QED BY <1>1, <1>2, <1>3, <1>4

LEMMA HydrateMoves ==
  ASSUME TypeOK, NEW t \in Turn,
         ReadExpired(t) \/ RereadState(t) \/ ReadExisting(t) \/ SaveDecayed(t) \/ DeleteExpired(t)
  PROVE  TurnMoves(t)
<1>0. turn \in [Turn -> TurnState]
  BY DEF TypeOK
<1>1. CASE ReadExpired(t)
  BY <1>0, <1>1 DEF ReadExpired, TurnMoves, Rewrites, TurnState, EndPC, Writing, LeasedPC
<1>2. CASE RereadState(t)
  BY <1>0, <1>2 DEF RereadState, TurnMoves, Rewrites, TurnState, EndPC, Writing, LeasedPC
<1>3. CASE ReadExisting(t)
  <2> DEFINE next == IF turn[t].expired = {} THEN "award" ELSE "decay"
             r == [turn[t] EXCEPT !.pc = next, !.count = Decayed(t),
                                  !.known = Contributed(t)]
  <2>1. /\ turn[t].pc = "existing" /\ acct' = acct
        /\ turn' = [turn EXCEPT ![t] = r]
    BY <1>0, <1>3 DEF ReadExisting
  <2>2. r.pc = next /\ r.nodes = turn[t].nodes /\ r.seen = turn[t].seen
    BY <1>0 DEF TurnState
  <2>3. next \in LeasedPC \ {"existing"} /\ "existing" \in LeasedPC
    BY DEF LeasedPC
  <2> HIDE DEF r, next
  <2> QED BY <2>1, <2>2, <2>3, GoesOn
<1>4. CASE SaveDecayed(t)
  BY <1>0, <1>4, DocNodes DEF SaveDecayed, TurnMoves, Rewrites, TurnState, EndPC, Writing, LeasedPC
<1>5. CASE DeleteExpired(t)
  <2>1. PICK rest, pc :
          /\ pc \in {"award", "delete"}
          /\ turn' = [turn EXCEPT ![t].expired = rest, ![t].pc = pc]
    <3>1. PICK e \in turn[t].expired :
            LET rest == turn[t].expired \ {e}
            IN  /\ turn[t].pc = "delete"
                /\ turn' = [turn EXCEPT ![t].expired = rest,
                                        ![t].pc = IF rest = {} THEN "award" ELSE @]
      BY <1>5 DEF DeleteExpired
    <3> DEFINE after == turn[t].expired \ {e}
               next == IF after = {} THEN "award" ELSE turn[t].pc
    <3>2. turn' = [turn EXCEPT ![t].expired = after, ![t].pc = next]
      BY <1>0, <3>1 DEF TurnState
    <3>3. next \in {"award", "delete"}
      BY <3>1
    <3> HIDE DEF after, next
    <3> QED BY <3>2, <3>3
  <2>2. turn[t].pc = "delete" /\ acct' = acct
    BY <1>5 DEF DeleteExpired
  <2> QED BY <1>0, <2>1, <2>2 DEF TurnMoves, Rewrites, TurnState, EndPC, Writing, LeasedPC
<1> QED BY <1>1, <1>2, <1>3, <1>4, <1>5

LEMMA EvaluatedNodes ==
  ASSUME TypeOK, NEW t \in Turn, NEW v, NEW r, r = Evaluated(t, v)
  PROVE  r.pc = "save" /\ turn[t].nodes \subseteq r.nodes \cup Quits(t) /\ r.seen = turn[t].seen
<1>1. turn[t] \in TurnState /\ turn[t].nodes \in SUBSET Node
  BY DEF TypeOK, TurnState
<1>2. r.pc = "save" /\ r.nodes = Navigate[t][turn[t].nodes] /\ r.seen = turn[t].seen
  BY <1>1 DEF TurnState, Evaluated
<1> QED BY <1>1, <1>2 DEF Quits

LEMMA SaveOnlyNodes ==
  ASSUME TypeOK, NEW t \in Turn, NEW c, NEW r, r = SaveOnly(t, c)
  PROVE  r.pc = "save" /\ r.nodes = turn[t].nodes /\ r.seen = turn[t].seen
BY DEF TypeOK, TurnState, SaveOnly

LEMMA SaveMoves ==
  ASSUME TypeOK, NEW t \in Turn,
         Award(t) \/ SaveAccount(t) \/ SaveTtl(t) \/ RulesEnd(t) \/ PostSave(t)
  PROVE  TurnMoves(t)
<1>0. turn \in [Turn -> TurnState]
  BY DEF TypeOK
<1>1. CASE Award(t)
  <2>1. PICK v : turn' = [turn EXCEPT ![t] = Evaluated(t, v)]
    BY <1>1 DEF Award
  <2>2. turn[t].pc = "award" /\ {"award", "save"} \subseteq LeasedPC /\ acct' = acct
    BY <1>1 DEF Award, LeasedPC
  <2> DEFINE r == Evaluated(t, v)
  <2>3. r.pc = "save" /\ turn[t].nodes \subseteq r.nodes \cup Quits(t) /\ r.seen = turn[t].seen
    BY EvaluatedNodes
  <2>4. turn' = [turn EXCEPT ![t] = r]
    BY <2>1
  <2> HIDE DEF r
  <2> QED BY <2>2, <2>3, <2>4, GoesOn
<1>2. CASE SaveAccount(t)
  <2> DEFINE r == [turn[t] EXCEPT !.left = Saved(t, "acct")]
  <2>1. turn' = [turn EXCEPT ![t] = r] /\ acct'.nodes = turn[t].nodes
    BY <1>2, DocNodes DEF SaveAccount, Write
  <2>2. /\ turn[t].pc = "save" /\ r.pc = "save" /\ r.nodes = turn[t].nodes /\ r.seen = turn[t].seen
        /\ "acct" \in turn[t].left /\ "acct" \notin r.left
    BY <1>0, <1>2 DEF SaveAccount, Saving, Saved, TurnState
  <2> HIDE DEF r
  <2> QED BY <2>1, <2>2, GoesOn DEF LeasedPC
<1>3. CASE SaveTtl(t)
  BY <1>0, <1>3 DEF SaveTtl, Saving, TurnMoves, Rewrites, TurnState, EndPC, Writing, LeasedPC
<1>4. CASE RulesEnd(t)
  <2>1. turn[t].pc = "save" /\ acct' = acct
    BY <1>4 DEF RulesEnd
  <2>2. CASE \E k : turn' = [turn EXCEPT ![t] = [IdleTurn EXCEPT !.pc = "lock", !.rounds = k,
                                                              !.nodes = turn[t].nodes,
                                                              !.seen = turn[t].seen]]
    BY <1>0, <2>1, <2>2 DEF IdleTurn, TurnMoves, Rewrites, EndPC, Writing, LeasedPC
  <2>3. CASE \E pc \in EndPC \cup {"post"} : turn' = [turn EXCEPT ![t] = At(pc)]
    BY <2>1, <2>3, EndMoves DEF EndPC
  <2>4. AfterRules(t) \in EndPC \cup {"post"}
    BY DEF AfterRules, EndPC
  <2> QED BY <1>4, <2>2, <2>3, <2>4 DEF RulesEnd
<1>5. CASE PostSave(t)
  BY <1>5, EndMoves DEF PostSave, EndPC
<1> QED BY <1>1, <1>2, <1>3, <1>4, <1>5

LEMMA LostMoves ==
  ASSUME TypeOK, NEW t \in Turn, Lost(t) \/ Crash(t)
  PROVE  TurnMoves(t)
<1>0. turn \in [Turn -> TurnState]
  BY DEF TypeOK
<1>1. CASE CallFails(t)
  BY <1>1, EndMoves DEF CallFails, EndPC
<1>2. CASE WriteUnanswered(t)
  <2>1. \/ acct'.nodes = acct.nodes
        \/ turn[t].pc = "profile" /\ acct'.nodes = turn[t].nodes
    BY <1>2, DocNodes DEF WriteUnanswered, Write
  <2> QED BY <1>2, <2>1, EndMoves DEF WriteUnanswered, EndPC
<1>3. CASE HydrateFails(t)
  <2>1. /\ acct' = acct /\ turn[t].pc \in LeasedPC \ {"save"}
        /\ {"save", "reread", "existing"} \subseteq LeasedPC
    BY <1>3 DEF HydrateFails, LeasedPC
  <2>2. CASE \E pc \in {"reread", "existing"} : turn' = [turn EXCEPT ![t].pc = pc]
    BY <1>0, <2>1, <2>2 DEF TurnMoves, Rewrites, TurnState, EndPC, Writing, LeasedPC
  <2>3. CASE \E c : turn' = [turn EXCEPT ![t] = SaveOnly(t, c)]
    <3>1. PICK c : turn' = [turn EXCEPT ![t] = SaveOnly(t, c)]
      BY <2>3
    <3> DEFINE r == SaveOnly(t, c)
    <3>2. r.pc = "save" /\ r.nodes = turn[t].nodes /\ r.seen = turn[t].seen
      BY SaveOnlyNodes
    <3>3. turn' = [turn EXCEPT ![t] = r]
      BY <3>1
    <3> HIDE DEF r
    <3> QED BY <2>1, <3>2, <3>3, GoesOn
  <2>4. CASE \E v : turn' = [turn EXCEPT ![t] = Evaluated(t, v)]
    <3>1. PICK v : turn' = [turn EXCEPT ![t] = Evaluated(t, v)]
      BY <2>4
    <3> DEFINE r == Evaluated(t, v)
    <3>2. r.pc = "save" /\ turn[t].nodes \subseteq r.nodes \cup Quits(t) /\ r.seen = turn[t].seen
      BY EvaluatedNodes
    <3>3. turn' = [turn EXCEPT ![t] = r]
      BY <3>1
    <3> HIDE DEF r
    <3> QED BY <2>1, <3>2, <3>3, GoesOn
  <2> QED BY <1>3, <2>2, <2>3, <2>4 DEF HydrateFails
<1>4. CASE DecayFails(t)
  <2>1. /\ turn' = [turn EXCEPT ![t] = SaveOnly(t, turn[t].count)]
        /\ turn[t].pc \in LeasedPC \ {"save"} /\ "save" \in LeasedPC
    BY <1>4 DEF DecayFails, LeasedPC
  <2>2. acct'.nodes \in {acct.nodes, turn[t].nodes}
    BY <1>4, DocNodes DEF DecayFails
  <2> DEFINE r == SaveOnly(t, turn[t].count)
  <2>3. r.pc = "save" /\ r.nodes = turn[t].nodes /\ r.seen = turn[t].seen
    BY SaveOnlyNodes
  <2>4. turn' = [turn EXCEPT ![t] = r]
    BY <2>1
  <2> HIDE DEF r
  <2> QED BY <2>1, <2>2, <2>3, <2>4, GoesOn
<1>5. CASE SaveFails(t)
  <2>1. acct'.nodes \in {acct.nodes, turn[t].nodes}
    BY <1>5, DocNodes DEF SaveFails, Write
  <2>2. PICK w \in turn[t].left :
          turn' = [turn EXCEPT ![t].left = Saved(t, w), ![t].verdict = "fail"]
    BY <1>5 DEF SaveFails, Saving
  <2> DEFINE r == [turn[t] EXCEPT !.left = Saved(t, w), !.verdict = "fail"]
  <2>3. /\ turn[t].pc = "save" /\ r.pc = "save" /\ r.nodes = turn[t].nodes /\ r.seen = turn[t].seen
        /\ w \in turn[t].left /\ w \notin r.left
    BY <1>0, <1>5, <2>2 DEF SaveFails, Saving, Saved, TurnState
  <2>4. turn' = [turn EXCEPT ![t] = r]
    BY <2>2
  <2> HIDE DEF r
  <2> QED BY <2>1, <2>3, <2>4, GoesOn DEF LeasedPC
<1>6. CASE Crash(t)
  BY <1>6, EndMoves DEF Crash, EndPC
<1> QED BY <1>1, <1>2, <1>3, <1>4, <1>5, <1>6 DEF Lost

LEMMA ManualSame == ASSUME NEW t \in Turn, Step(t) \/ Lost(t) \/ Crash(t) PROVE manual' = manual
BY DEF Step, Lost, Crash, Load, ResettleFetch, ProfileFetch, ProfileWrite, ReadWrapper, PreSave,
   LockFetch, LockRefused, LockWrite, LockConflict, ReadExpired, RereadState, ReadExisting,
   SaveDecayed, DeleteExpired, Award, SaveAccount, SaveTtl, RulesEnd, PostSave, CallFails,
   WriteUnanswered, HydrateFails, DecayFails, SaveFails

LEMMA StepMoves ==
  ASSUME TypeOK, NEW t \in Turn, Step(t) \/ Lost(t) \/ Crash(t)
  PROVE  TurnMoves(t)
BY BeforeMoves, LockMoves, HydrateMoves, SaveMoves, LostMoves DEF Step

\* What a turn will write has all the journeys it read, but for its own exits
\* and transitions.
KInv ==
  /\ TypeOK
  /\ \A t \in Turn :
       turn[t].pc \in Writing => turn[t].seen \subseteq turn[t].nodes \cup Slack(t)

LEMMA KeptInit == Init => KInv
<1> SUFFICES ASSUME Init PROVE KInv
  OBVIOUS
<1>1. \A t \in Turn : turn[t].pc = "idle"
  BY DEF Init, IdleTurn
<1> QED BY <1>1, TypeInit DEF KInv, Writing, LeasedPC

\* The journeys that a step may take away.
Excused(n) ==
  \/ \E m \in Manual : Leaves(m, n)
  \/ \E t \in Turn : Navigates(t, n)
  \/ Overwritten(n)

LEMMA KeptNext ==
  ASSUME KInv, [Next]_vars
  PROVE  KInv' /\ \A n \in acct.nodes \ acct'.nodes : Excused(n)
<1>1. TypeOK'
  BY TypeNext DEF KInv
<1>2. ASSUME NEW t \in Turn, Step(t) \/ Lost(t) \/ Crash(t)
      PROVE  KInv' /\ \A n \in acct.nodes \ acct'.nodes : Excused(n)
  <2>1. TurnMoves(t)
    BY <1>2, StepMoves DEF KInv
  <2>2. ASSUME NEW u \in Turn, turn'[u].pc \in Writing
        PROVE  turn'[u].seen \subseteq turn'[u].nodes \cup Slack(u)'
    <3>1. CASE u # t
      <4>1. turn'[u] = turn[u]
        BY <2>1, <3>1 DEF TurnMoves
      <4>2. Slack(u)' = Slack(u)
        BY <4>1 DEF Slack, Quits
      <4> QED BY <2>2, <4>1, <4>2 DEF KInv
    <3>2. CASE u = t /\ turn[t].pc = "idle"
      BY <2>1, <2>2, <3>2 DEF TurnMoves, Writing, LeasedPC
    <3>3. CASE u = t /\ turn[t].pc # "idle"
      <4>1. /\ turn[t].pc \in Writing /\ turn'[t].pc # "profile"
            /\ turn[t].nodes \subseteq turn'[t].nodes \cup Quits(t)
            /\ turn'[t].seen = turn[t].seen
        BY <2>1, <2>2, <3>3 DEF TurnMoves
      <4>2. turn[t].seen \subseteq turn[t].nodes \cup Quits(t)
        BY <4>1 DEF KInv, Slack
      <4>3. Slack(t)' = Quits(t)
        BY <4>1 DEF Slack, Quits
      <4> QED BY <3>3, <4>1, <4>2, <4>3
    <3> QED BY <3>1, <3>2, <3>3
  <2>3. ASSUME NEW n \in acct.nodes \ acct'.nodes PROVE Excused(n)
    <3>1. Rewrites(t) /\ acct'.nodes = turn[t].nodes
      BY <2>1, <2>3 DEF TurnMoves
    <3>2. n \in turn[t].seen => n \in Slack(t)
      BY <2>3, <3>1 DEF KInv, Rewrites, Writing
    <3> QED BY <3>1, <3>2 DEF Excused, Overwritten, Navigates, Slack
  <2> QED BY <1>1, <2>2, <2>3 DEF KInv
<1>3. ASSUME UNCHANGED turn PROVE KInv'
  <2>1. \A t \in Turn : Slack(t)' = Slack(t)
    BY <1>3 DEF Slack, Quits
  <2> QED BY <1>1, <1>3, <2>1 DEF KInv
<1>4. ASSUME NEW m \in Manual, ManualFetch(m)
      PROVE  KInv' /\ \A n \in acct.nodes \ acct'.nodes : Excused(n)
  BY <1>3, <1>4 DEF ManualFetch
<1>5. ASSUME NEW m \in Manual, ManualWrite(m)
      PROVE  KInv' /\ \A n \in acct.nodes \ acct'.nodes : Excused(n)
  <2>1. /\ manual[m].pc = "write" /\ manual'[m].pc = "done"
        /\ acct'.nodes = Changed(m) /\ turn' = turn
    BY <1>5 DEF ManualWrite, WriteUnlocked, Write, Unlocked, KInv, TypeOK, ManualState,
                IdleManual
  <2>2. ASSUME NEW n \in acct.nodes \ acct'.nodes PROVE Excused(n)
    <3>1. CASE n \in manual[m].nodes
      BY <2>1, <2>2, <3>1 DEF Changed, Leaves, Excused
    <3>2. CASE n \notin manual[m].nodes
      BY <2>1, <3>2 DEF Overwritten, Excused
    <3> QED BY <3>1, <3>2
  <2> QED BY <1>3, <2>1, <2>2
<1>6. ASSUME Tick \/ UNCHANGED vars
      PROVE  KInv' /\ \A n \in acct.nodes \ acct'.nodes : Excused(n)
  BY <1>3, <1>6 DEF Tick, vars
<1> QED BY <1>2, <1>4, <1>5, <1>6 DEF Next

(***************************************************************************)
(* Whatever overlaps, fails, crashes or is retried, a journey node the     *)
(* account is in is left by an operator's call, or by an exit or a         *)
(* transition of a turn that took the lease, or by the write of a call     *)
(* that had read the account before the node was entered: what a call has  *)
(* read survives its lock, its decay, its retries, its rebuild of the      *)
(* account and its failed rules.                                           *)
(***************************************************************************)
THEOREM JourneysCorrect == Spec => JourneysKept
<1> DEFINE Left == \A n \in acct.nodes \ acct'.nodes : Excused(n)
<1>1. KInv /\ [Next]_vars => KInv' /\ [Left]_vars
  BY KeptNext
<1>2. JourneysKept <=> [][Left]_vars
  BY DEF JourneysKept, Excused
<1> HIDE DEF Left
<1> QED BY <1>1, <1>2, KeptInit, PTL DEF Spec

-----------------------------------------------------------------------------
(* The order of the calls.                                                 *)

\* Of two calls one has ended when the other is made.
Serial ==
  /\ Turn \cap Manual = {}
  /\ \A c, d \in Call : c # d => c \in After[d] \/ d \in After[c]

Begun(c) == IF c \in Turn THEN turn[c].pc # "idle" ELSE manual[c].pc # "idle"

\* A call was made after the ones before it had ended.
JInv ==
  /\ TypeOK
  /\ \A c \in Call : Begun(c) => MayStart(c)

LEMMA Alone ==
  ASSUME Serial, JInv, NEW c \in Call, NEW d \in Call, Begun(c), Begun(d),
         ~ CallEnded(c), ~ CallEnded(d)
  PROVE  c = d
BY DEF Serial, JInv, MayStart

\* A step that ends no ended call and begins at most one, which may start.
LEMMA OrderKeeps ==
  ASSUME JInv, TypeOK', NEW k \in Call,
         \A c \in Call : CallEnded(c) => CallEnded(c)',
         \A c \in Call : Begun(c)' => Begun(c) \/ (c = k /\ MayStart(k))
  PROVE  JInv'
<1>1. ASSUME NEW c \in Call, Begun(c)' PROVE MayStart(c)'
  <2>1. MayStart(c)
    BY <1>1 DEF JInv
  <2>2. After[c] \subseteq Call
    BY TurnAssumption
  <2> QED BY <2>1, <2>2 DEF MayStart
<1> QED BY <1>1 DEF JInv

LEMMA OrderInit == Init => JInv
<1> SUFFICES ASSUME Init PROVE JInv
  OBVIOUS
<1>1. /\ \A t \in Turn : turn[t].pc = "idle"
      /\ \A m \in Manual : manual[m].pc = "idle"
  BY DEF Init, IdleTurn, IdleManual
<1> QED BY <1>1, TypeInit DEF JInv, Begun, Call

LEMMA OrderNext ==
  ASSUME Serial, JInv, [Next]_vars
  PROVE  JInv'
<1>1. TypeOK'
  BY TypeNext DEF JInv
<1>2. ASSUME NEW t \in Turn, Step(t) \/ Lost(t) \/ Crash(t)
      PROVE  JInv'
  <2>1. TurnMoves(t) /\ manual' = manual /\ t \in Call
    BY <1>2, StepMoves, ManualSame DEF JInv, Call
  <2>2. \A c \in Call : CallEnded(c) => CallEnded(c)'
    BY <2>1 DEF TurnMoves, CallEnded
  <2>3. \A c \in Call : Begun(c)' => Begun(c) \/ (c = t /\ MayStart(t))
    BY <2>1 DEF TurnMoves, Begun
  <2> QED BY <1>1, <2>1, <2>2, <2>3, OrderKeeps
<1>3. ASSUME NEW m \in Manual, ManualFetch(m) \/ ManualWrite(m)
      PROVE  JInv'
  <2>1. /\ turn' = turn /\ \A k \in Manual \ {m} : manual'[k] = manual[k]
        /\ manual[m].pc # "done" /\ (manual[m].pc = "idle" => MayStart(m))
        /\ m \in Call /\ m \notin Turn
    BY <1>3 DEF ManualFetch, ManualWrite, JInv, TypeOK, ManualState, IdleManual, Serial, Call
  <2>2. \A c \in Call : CallEnded(c) => CallEnded(c)'
    BY <2>1 DEF CallEnded, Call
  <2>3. \A c \in Call : Begun(c)' => Begun(c) \/ (c = m /\ MayStart(m))
    BY <2>1 DEF Begun, Call
  <2> QED BY <1>1, <2>1, <2>2, <2>3, OrderKeeps
<1>4. CASE Tick \/ UNCHANGED vars
  <2>1. UNCHANGED <<turn, manual>>
    BY <1>4 DEF Tick, vars
  <2>2. \A c \in Call : (CallEnded(c)' <=> CallEnded(c)) /\ (Begun(c)' <=> Begun(c))
    BY <2>1 DEF CallEnded, Begun
  <2>3. \A c \in Call : After[c] \subseteq Call
    BY TurnAssumption
  <2> QED BY <1>1, <2>2, <2>3 DEF JInv, MayStart
<1> QED BY <1>2, <1>3, <1>4 DEF Next

-----------------------------------------------------------------------------
(* The count.                                                              *)

\* One call after the other; an event of the account's own kind comes before
\* all other events, and one that is sent again decays after the clock stops.
Ordinary ==
  /\ Serial
  /\ \A p \in Profile : After[p] \cap Turn \subseteq Resettling
  /\ \A t, u \in Turn \ Resettling :
       t # u /\ EventOf[t] = EventOf[u] => DueOf[t] >= MaxTime

Near(x, y, k) == x <= y + k /\ y <= x + k

Stored == AtLeast0(acct.count)

\* What crashes and failures so far explain.
Budget == (crashes + lost) * FailureWeight

LiveTtl == {e \in Event : ttl[e] # 0}

\* The documents that the turn's own one adds.
Adds(t) == IF ttl[EventOf[t]] = 0 THEN 1 ELSE 0

Bonus(t) == IF Between(t) THEN 1 ELSE 0

\* The count and the documents when the final writes are made.
Goal(t) == IF "acct" \in turn[t].left THEN turn[t].count ELSE Stored

GoalLive(t) == IF "ttl" \in turn[t].left THEN Live + Adds(t) ELSE Live

EarlyPC == {"idle", "profile", "wrap", "presave", "lock", "locking", "hydrate"}

\* The places of a turn that may have stored its TTL document.
LatePC == {"save", "post"} \cup EndPC

\* Between its final writes, and about to make them.
Saves(t) ==
  /\ turn[t].verdict # "retry"
  /\ turn[t].count \in Nat
  /\ "ttl" \in turn[t].left => t \notin Resettling
  /\ Near(Goal(t), GoalLive(t), Budget)
  /\ Near(Stored, Live, Budget + Bonus(t))
  /\ "acct" \in turn[t].left => Near(Stored, turn[t].count, FailureWeight)

\* The documents that a turn has read and will delete, or has not deleted yet.
Expires(t) ==
  /\ turn[t].expired \subseteq LiveTtl
  /\ turn[t].expired \subseteq Perishable
  /\ t \notin Resettling => EventOf[t] \notin turn[t].expired

TurnOK(t) ==
  /\ turn[t].pc = "profile" => t \in Profile
  /\ turn[t].pc \in LeasedPC => acct.key \in {NoTurn, t}
  /\ turn[t].pc \in EarlyPC => turn[t].expired = {}
  /\ turn[t].pc \in {"locking", "hydrate", "reread", "existing"} => turn[t].count = acct.count
  /\ turn[t].pc \in {"reread", "existing", "decay", "delete"} => Expires(t)
  /\ turn[t].pc \in {"decay", "delete", "award"} => (turn[t].known <=> Contributed(t))
  /\ turn[t].pc = "decay" =>
       turn[t].count = AtLeast0(acct.count - Cardinality(turn[t].expired))
  /\ turn[t].pc = "delete" =>
       /\ turn[t].count = acct.count /\ acct.count \in Nat
       /\ Near(Stored, Live - Cardinality(turn[t].expired), Budget)
  /\ turn[t].pc = "award" => turn[t].count = Stored
  /\ turn[t].pc = "save" => Saves(t)

\* A document was stored by a turn that ends or has ended.
TtlOK ==
  \A e \in LiveTtl : \E u \in Turn \ Resettling :
    EventOf[u] = e /\ DueOf[u] = ttl[e] /\ turn[u].pc \in LatePC

CInv ==
  /\ JInv
  /\ now <= MaxTime
  /\ \A m \in Manual : manual[m].pc = "write" => manual[m].count = acct.count
  /\ TtlOK
  /\ (\A t \in Turn : turn[t].pc \notin {"delete", "save"}) => Near(Stored, Live, Budget)
  /\ \A t \in Turn : TurnOK(t)

LEMMA WeightType ==
  /\ FailureWeight \in Nat \ {0}
  /\ \A S \in SUBSET Perishable : /\ IsFiniteSet(S) /\ Cardinality(S) \in Nat
                                  /\ Cardinality(S) <= FailureWeight
<1>1. Perishable \subseteq Event
  BY TurnAssumption DEF Perishable
<1>2. IsFiniteSet(Perishable)
  BY <1>1, TurnAssumption, FS_Subset
<1>3. Cardinality(Perishable) \in Nat /\ (Cardinality(Perishable) = 0 <=> Perishable = {})
  BY <1>2, FS_CardinalityType, FS_EmptySet
<1>4. FailureWeight \in Nat \ {0} /\ Cardinality(Perishable) <= FailureWeight
  BY <1>3 DEF FailureWeight
<1>5. ASSUME NEW S \in SUBSET Perishable
      PROVE  IsFiniteSet(S) /\ Cardinality(S) \in Nat /\ Cardinality(S) <= FailureWeight
  <2>1. IsFiniteSet(S) /\ Cardinality(S) <= Cardinality(Perishable)
    BY <1>2, FS_Subset
  <2>2. Cardinality(S) \in Nat
    BY <2>1, FS_CardinalityType
  <2> QED BY <1>3, <1>4, <2>1, <2>2
<1> QED BY <1>4, <1>5

LEMMA TimesOneMore ==
  ASSUME NEW i \in Nat, NEW w \in Nat
  PROVE  i * w \in Nat /\ (i + 1) * w = i * w + w
OBVIOUS

LEMMA BudgetFacts ==
  ASSUME TypeOK
  PROVE  /\ Budget \in Nat
         /\ UNCHANGED <<lost, crashes>> => Budget' = Budget
         /\ lost' = lost + 1 /\ crashes' = crashes => Budget' = Budget + FailureWeight
         /\ crashes' = crashes + 1 /\ lost' = lost => Budget' = Budget + FailureWeight
<1> DEFINE i == crashes + lost
           w == FailureWeight
<1>1. i \in Nat /\ w \in Nat /\ crashes \in Nat /\ lost \in Nat
  BY WeightType DEF TypeOK
<1>2. Budget = i * w /\ Budget' = (crashes' + lost') * w
  BY DEF Budget, FailureWeight, Perishable
<1>3. i * w \in Nat /\ (i + 1) * w = i * w + w
  <2> HIDE DEF i, w
  <2> QED BY <1>1, TimesOneMore
<1>4. ASSUME lost' = lost + 1, crashes' = crashes PROVE crashes' + lost' = i + 1
  BY <1>1, <1>4
<1>5. ASSUME crashes' = crashes + 1, lost' = lost PROVE crashes' + lost' = i + 1
  BY <1>1, <1>5
<1>6. UNCHANGED <<lost, crashes>> => crashes' + lost' = i
  OBVIOUS
<1> HIDE DEF i
<1> QED BY <1>2, <1>3, <1>4, <1>5, <1>6

LEMMA LiveFacts ==
  ASSUME TypeOK
  PROVE  /\ Live \in Nat
         /\ \A S \in SUBSET LiveTtl : IsFiniteSet(S) /\ Cardinality(S) \in Nat /\ Cardinality(S) <= Live
         /\ ttl' = ttl => Live' = Live /\ LiveTtl' = LiveTtl
         /\ \A e \in LiveTtl : ttl' = [ttl EXCEPT ![e] = 0] =>
              Live' = Live - 1 /\ LiveTtl' = LiveTtl \ {e}
         /\ \A e \in Event, d \in Nat \ {0} : ttl' = [ttl EXCEPT ![e] = d] =>
              Live' = Live + (IF ttl[e] = 0 THEN 1 ELSE 0)
<1>0. Live = Cardinality(LiveTtl) /\ Live' = Cardinality(LiveTtl')
  BY DEF Live, LiveTtl
<1>1. IsFiniteSet(LiveTtl) /\ Live \in Nat
  <2>1. LiveTtl \subseteq Event
    BY DEF LiveTtl
  <2> QED BY <1>0, <2>1, TurnAssumption, FS_Subset, FS_CardinalityType
<1>2. ASSUME NEW S \in SUBSET LiveTtl
      PROVE  IsFiniteSet(S) /\ Cardinality(S) \in Nat /\ Cardinality(S) <= Live
  BY <1>0, <1>1, FS_Subset, FS_CardinalityType
<1>3. ttl' = ttl => Live' = Live /\ LiveTtl' = LiveTtl
  BY <1>0 DEF LiveTtl
<1>4. ASSUME NEW e \in LiveTtl, ttl' = [ttl EXCEPT ![e] = 0]
      PROVE  Live' = Live - 1 /\ LiveTtl' = LiveTtl \ {e}
  <2>1. LiveTtl' = LiveTtl \ {e}
    BY <1>4 DEF TypeOK, LiveTtl
  <2> QED BY <1>0, <1>1, <2>1, FS_RemoveElement
<1>5. ASSUME NEW e \in Event, NEW d \in Nat \ {0}, ttl' = [ttl EXCEPT ![e] = d]
      PROVE  Live' = Live + (IF ttl[e] = 0 THEN 1 ELSE 0)
  <2>1. LiveTtl' = LiveTtl \cup {e} /\ (e \in LiveTtl <=> ttl[e] # 0)
    BY <1>5 DEF TypeOK, LiveTtl
  <2>2. Cardinality(LiveTtl \cup {e}) = IF e \in LiveTtl THEN Cardinality(LiveTtl) ELSE Cardinality(LiveTtl) + 1
    BY <1>1, FS_AddElement
  <2> QED BY <1>0, <1>1, <2>1, <2>2
<1> QED BY <1>1, <1>2, <1>3, <1>4, <1>5

LEMMA StoredType ==
  ASSUME TypeOK
  PROVE  /\ Stored \in Nat /\ acct.count \in Count
         /\ acct.count \in Nat => Stored = acct.count
         /\ acct.count \notin Nat => Stored = 0 /\ acct.count = -1
BY DEF TypeOK, Account, Count, Stored, AtLeast0, NoState

\* A turn that is under way is alone.
LEMMA OthersRest ==
  ASSUME Ordinary, CInv, NEW t \in Turn, turn[t].pc \notin EndPC \cup {"idle"}
  PROVE  /\ \A u \in Turn \ {t} : turn[u].pc \in EndPC \cup {"idle"}
         /\ \A m \in Manual : manual[m].pc # "write"
<1>1. Serial /\ JInv /\ t \in Call /\ Begun(t) /\ ~ CallEnded(t)
  BY DEF Ordinary, CInv, Call, Begun, CallEnded
<1>2. ASSUME NEW u \in Turn \ {t}, turn[u].pc \notin EndPC \cup {"idle"} PROVE FALSE
  <2>1. u \in Call /\ Begun(u) /\ ~ CallEnded(u)
    BY <1>2 DEF Call, Begun, CallEnded
  <2> QED BY <1>1, <2>1, Alone
<1>3. ASSUME NEW m \in Manual, manual[m].pc = "write" PROVE FALSE
  <2>1. m \notin Turn
    BY <1>1 DEF Serial
  <2>2. m \in Call /\ Begun(m) /\ ~ CallEnded(m)
    BY <1>3, <2>1 DEF Call, Begun, CallEnded
  <2> QED BY <1>1, <2>1, <2>2, Alone
<1> QED BY <1>2, <1>3

LEMMA NowNear ==
  ASSUME Ordinary, CInv, NEW t \in Turn, turn[t].pc \notin EndPC \cup {"idle", "delete", "save"}
  PROVE  Near(Stored, Live, Budget)
<1>1. \A u \in Turn : turn[u].pc \notin {"delete", "save"}
  BY OthersRest DEF EndPC
<1> QED BY <1>1 DEF CInv

\* What a step of a turn does to the count and the documents.
TurnCounts(t) ==
  /\ turn[t].pc \notin EndPC
  /\ UNCHANGED <<manual, now>>
  /\ \A u \in Turn \ {t} : turn'[u] = turn[u]
  /\ TurnOK(t)'
  /\ \A e \in Event : ttl'[e] # 0 =>
       \/ ttl'[e] = ttl[e]
       \/ t \notin Resettling /\ EventOf[t] = e /\ DueOf[t] = ttl'[e] /\ turn'[t].pc \in LatePC
  /\ turn[t].pc \in LatePC => turn'[t].pc \in LatePC
  /\ turn[t].pc = "idle" => UNCHANGED <<acct, ttl, lost, crashes>>
  /\ turn'[t].pc \notin {"delete", "save"} =>
       \/ Near(Stored, Live, Budget)'
       \/ /\ turn[t].pc \notin {"delete", "save"}
          /\ UNCHANGED <<ttl, lost, crashes>>
          /\ acct'.count = acct.count

LEMMA CountFrame ==
  ASSUME Ordinary, CInv, JInv', NEW t \in Turn, TurnCounts(t)
  PROVE  CInv'
<1> USE DEF TurnCounts
<1>1. now' <= MaxTime
  BY DEF CInv
<1>2. \A m \in Manual : manual'[m].pc = "write" => manual'[m].count = acct'.count
  BY OthersRest DEF CInv
<1>3. TtlOK'
  <2> SUFFICES ASSUME NEW e \in Event, ttl'[e] # 0
               PROVE  \E u \in Turn \ Resettling :
                        EventOf[u] = e /\ DueOf[u] = ttl'[e] /\ turn'[u].pc \in LatePC
    BY DEF TtlOK, LiveTtl
  <2>1. CASE ttl'[e] = ttl[e]
    <3>1. PICK u \in Turn \ Resettling : EventOf[u] = e /\ DueOf[u] = ttl[e] /\ turn[u].pc \in LatePC
      BY <2>1 DEF CInv, TtlOK, LiveTtl
    <3>2. turn'[u].pc \in LatePC
      BY <3>1
    <3> QED BY <2>1, <3>1, <3>2
  <2>2. CASE t \notin Resettling /\ EventOf[t] = e /\ DueOf[t] = ttl'[e] /\ turn'[t].pc \in LatePC
    BY <2>2
  <2> QED BY <2>1, <2>2
<1>4. ASSUME \A u \in Turn : turn'[u].pc \notin {"delete", "save"} PROVE Near(Stored, Live, Budget)'
  <2>1. CASE /\ turn[t].pc \notin {"delete", "save"}
             /\ UNCHANGED <<ttl, lost, crashes>> /\ acct'.count = acct.count
    <3>1. \A u \in Turn : turn[u].pc \notin {"delete", "save"}
      BY <1>4, <2>1
    <3>2. Stored' = Stored /\ Live' = Live /\ Budget' = Budget
      BY <2>1 DEF Stored, Live, Budget, FailureWeight, Perishable
    <3> QED BY <3>1, <3>2 DEF CInv, Near
  <2> QED BY <1>4, <2>1
<1>5. ASSUME NEW u \in Turn, u # t PROVE TurnOK(u)'
  <2>0. TurnOK(u) /\ turn'[u] = turn[u]
    BY <1>5 DEF CInv
  <2>1. CASE turn[t].pc = "idle"
    <3>1. UNCHANGED <<acct, ttl, lost, crashes>>
      BY <2>1
    <3>2. Stored' = Stored /\ Live' = Live /\ Budget' = Budget /\ LiveTtl' = LiveTtl
          /\ (Contributed(u)' <=> Contributed(u)) /\ Adds(u)' = Adds(u)
      BY <3>1 DEF Stored, Live, Budget, LiveTtl, Contributed, Adds, FailureWeight, Perishable
    <3>3. Bonus(u)' = Bonus(u) /\ Goal(u)' = Goal(u) /\ GoalLive(u)' = GoalLive(u)
      BY <2>0, <3>2 DEF Bonus, Between, Goal, GoalLive
    <3>4. Saves(u) => Saves(u)'
      BY <2>0, <3>2, <3>3 DEF Saves, Near
    <3>5. Expires(u) => Expires(u)'
      BY <2>0, <3>2 DEF Expires
    <3> QED BY <2>0, <3>1, <3>2, <3>4, <3>5 DEF TurnOK, Near
  <2>2. CASE turn[t].pc # "idle"
    <3>1. turn'[u].pc \in EndPC \cup {"idle"}
      BY <1>5, <2>0, <2>2, OthersRest
    <3> QED BY <2>0, <3>1 DEF TurnOK, EarlyPC, EndPC, LeasedPC
  <2> QED BY <2>1, <2>2
<1> QED BY <1>1, <1>2, <1>3, <1>4, <1>5 DEF CInv

\* What a lost call or a crash does to the counters.
Fails ==
  \/ UNCHANGED <<lost, crashes>>
  \/ lost' = lost + 1 /\ crashes' = crashes
  \/ crashes' = crashes + 1 /\ lost' = lost

LEMMA FailsBudget ==
  ASSUME TypeOK, Fails
  PROVE  /\ Budget \in Nat /\ Budget' \in Nat
         /\ Budget' \in {Budget, Budget + FailureWeight}
         /\ UNCHANGED <<lost, crashes>> => Budget' = Budget
         /\ lost' = lost + 1 /\ crashes' = crashes => Budget' = Budget + FailureWeight
         /\ crashes' = crashes + 1 /\ lost' = lost => Budget' = Budget + FailureWeight
BY BudgetFacts, WeightType DEF Fails

LEMMA StillNear ==
  ASSUME TypeOK, Near(Stored, Live, Budget), acct'.count = acct.count, ttl' = ttl, Fails
  PROVE  Near(Stored, Live, Budget)'
<1>1. Stored' = Stored /\ Live' = Live
  BY DEF Stored, Live
<1>2. Stored \in Nat /\ Live \in Nat
  BY StoredType, LiveFacts
<1> DEFINE s == Stored
           l == Live
           b == Budget
           d == Budget'
<1>3. b \in Nat /\ d \in Nat /\ b <= d
  BY FailsBudget, WeightType
<1>4. s <= l + b /\ l <= s + b
  BY DEF Near
<1>5. s <= l + d /\ l <= s + d
  <2> HIDE DEF s, l, b, d
  <2> QED BY <1>2, <1>3, <1>4 DEF s, l
<1> QED BY <1>1, <1>5 DEF Near

\* A turn that ends or gives up.
LEMMA CountEnd ==
  ASSUME TypeOK, NEW t \in Turn, NEW pc \in EndPC \cup {"post"},
         turn' = [turn EXCEPT ![t] = At(pc)],
         turn[t].pc \notin EndPC \cup {"idle"},
         UNCHANGED <<manual, now>>,
         \A e \in Event : ttl'[e] # 0 => ttl'[e] = ttl[e],
         Near(Stored, Live, Budget)'
  PROVE  TurnCounts(t)
<1>1. turn'[t].pc = pc /\ \A u \in Turn \ {t} : turn'[u] = turn[u]
  BY DEF TypeOK, At, IdleTurn
<1>2. TurnOK(t)'
  BY <1>1 DEF TurnOK, EarlyPC, EndPC, LeasedPC
<1>3. pc \in LatePC
  BY DEF LatePC
<1> QED BY <1>1, <1>2, <1>3 DEF TurnCounts

\* A turn that ends before it has stored anything that counts.
LEMMA CountGivesUp ==
  ASSUME Ordinary, CInv, NEW t \in Turn, NEW pc \in EndPC \cup {"post"},
         turn' = [turn EXCEPT ![t] = At(pc)],
         turn[t].pc \notin EndPC \cup {"idle", "delete", "save"},
         UNCHANGED <<manual, now, ttl>>, acct'.count = acct.count, Fails
  PROVE  TurnCounts(t)
<1>1. TypeOK
  BY DEF CInv, JInv
<1>2. Near(Stored, Live, Budget)'
  BY <1>1, NowNear, StillNear
<1> QED BY <1>1, <1>2, CountEnd

\* Nothing was counted before an event of the account's own kind.
LEMMA NoneYet ==
  ASSUME Ordinary, CInv, NEW t \in Turn, turn[t].pc = "profile"
  PROVE  LiveTtl = {}
<1> SUFFICES ASSUME NEW e \in LiveTtl PROVE FALSE
  OBVIOUS
<1>1. PICK u \in Turn \ Resettling : turn[u].pc \in LatePC
  BY DEF CInv, TtlOK
<1>2. u # t /\ u \in Call /\ t \in Call /\ Begun(u) /\ ~ CallEnded(t)
  BY <1>1 DEF LatePC, EndPC, Call, Begun, CallEnded
<1>3. t \notin After[u]
  BY <1>2 DEF CInv, JInv, MayStart
<1>4. u \in After[t]
  BY <1>2, <1>3 DEF Ordinary, Serial
<1>5. t \in Profile
  BY DEF CInv, TurnOK
<1> QED BY <1>1, <1>4, <1>5 DEF Ordinary

LEMMA ProfileNear ==
  ASSUME Ordinary, CInv, NEW t \in Turn, turn[t].pc = "profile",
         acct' = ProfileDoc(t), ttl' = ttl, Fails
  PROVE  Near(Stored, Live, Budget)'
<1>1. TypeOK
  BY DEF CInv, JInv
<1>2. Stored' = 0
  BY DEF Stored, ProfileDoc, Unlocked, AtLeast0, NoState
<1>3. Live' = Live /\ Live = Cardinality(LiveTtl)
  BY <1>1 DEF Live, LiveTtl
<1>4. Live' = 0
  BY <1>3, NoneYet, FS_EmptySet
<1> QED BY <1>1, <1>2, <1>4, FailsBudget DEF Near

LEMMA CountBefore ==
  ASSUME Ordinary, CInv, NEW t \in Turn,
         Load(t) \/ ResettleFetch(t) \/ ProfileFetch(t) \/ ProfileWrite(t)
           \/ ReadWrapper(t) \/ PreSave(t)
  PROVE  TurnCounts(t)
<1>0. turn \in [Turn -> TurnState] /\ TypeOK /\ TurnOK(t)
  BY DEF CInv, JInv, TypeOK
<1>1. CASE Load(t) \/ ResettleFetch(t) \/ ProfileFetch(t)
  <2>1. PICK pc \in {"wrap", "lock", "profile"} :
          /\ turn' = [turn EXCEPT ![t] = Loaded(pc)]
          /\ pc = "profile" => t \in Profile
    BY <1>1 DEF Load, ResettleFetch, ProfileFetch
  <2>2. turn[t].pc = "idle" /\ UNCHANGED <<acct, ttl, manual, now, lost, crashes>>
    BY <1>1 DEF Load, ResettleFetch, ProfileFetch
  <2>3. /\ turn'[t].pc = pc /\ turn'[t].expired = {}
        /\ \A u \in Turn \ {t} : turn'[u] = turn[u]
    BY <1>0, <2>1 DEF Loaded, IdleTurn
  <2>4. TurnOK(t)'
    BY <2>1, <2>3 DEF TurnOK, EarlyPC, LeasedPC
  <2> QED BY <2>2, <2>3, <2>4 DEF TurnCounts, LatePC, EndPC
<1>2. CASE ProfileWrite(t)
  <2>1. /\ turn[t].pc = "profile" /\ acct' = ProfileDoc(t)
        /\ turn' = [turn EXCEPT ![t].pc = "wrap"]
        /\ UNCHANGED <<ttl, manual, now, lost, crashes>>
    BY <1>2 DEF ProfileWrite, Write
  <2>2. Near(Stored, Live, Budget)'
    BY <2>1, ProfileNear DEF Fails
  <2>3. /\ turn'[t].pc = "wrap" /\ turn'[t].expired = turn[t].expired
        /\ \A u \in Turn \ {t} : turn'[u] = turn[u]
    BY <1>0, <2>1 DEF TurnState
  <2>4. TurnOK(t)'
    BY <1>0, <2>1, <2>3 DEF TurnOK, EarlyPC, LeasedPC
  <2> QED BY <2>1, <2>2, <2>3, <2>4 DEF TurnCounts, LatePC, EndPC
<1>3. CASE ReadWrapper(t)
  <2>1. turn[t].pc = "wrap" /\ UNCHANGED <<acct, ttl, manual, now, lost, crashes>>
    BY <1>3 DEF ReadWrapper
  <2>2. CASE StaleRequest(t)
    BY <1>3, <2>1, <2>2, CountGivesUp DEF ReadWrapper, EndPC, Fails
  <2>3. CASE ~StaleRequest(t)
    <3>1. /\ turn'[t].pc = "presave" /\ turn'[t].expired = turn[t].expired
          /\ \A u \in Turn \ {t} : turn'[u] = turn[u]
      BY <1>0, <1>3, <2>3 DEF ReadWrapper, TurnState
    <3>2. TurnOK(t)'
      BY <1>0, <2>1, <3>1 DEF TurnOK, EarlyPC, LeasedPC
    <3> QED BY <2>1, <3>1, <3>2 DEF TurnCounts, LatePC, EndPC
  <2> QED BY <2>2, <2>3
<1>4. CASE PreSave(t)
  <2>1. /\ turn[t].pc = "presave" /\ UNCHANGED <<acct, ttl, manual, now, lost, crashes>>
        /\ turn' = [turn EXCEPT ![t].pc = "lock"]
    BY <1>4 DEF PreSave
  <2>2. /\ turn'[t].pc = "lock" /\ turn'[t].expired = turn[t].expired
        /\ \A u \in Turn \ {t} : turn'[u] = turn[u]
    BY <1>0, <2>1 DEF TurnState
  <2>3. TurnOK(t)'
    BY <1>0, <2>1, <2>2 DEF TurnOK, EarlyPC, LeasedPC
  <2> QED BY <2>1, <2>2, <2>3 DEF TurnCounts, LatePC, EndPC
<1> QED BY <1>1, <1>2, <1>3, <1>4

LEMMA CountLock ==
  ASSUME Ordinary, CInv, NEW t \in Turn,
         LockFetch(t) \/ LockRefused(t) \/ LockWrite(t) \/ LockConflict(t)
  PROVE  TurnCounts(t)
<1>0. turn \in [Turn -> TurnState] /\ TypeOK /\ TurnOK(t)
  BY DEF CInv, JInv, TypeOK
<1>1. CASE LockFetch(t)
  <2>1. /\ turn[t].pc = "lock" /\ UNCHANGED <<acct, ttl, manual, now, lost, crashes>>
        /\ turn' = [turn EXCEPT ![t].pc = "locking", ![t].count = acct.count,
                                ![t].exp = now + Lease]
    BY <1>1 DEF LockFetch
  <2>2. /\ turn'[t].pc = "locking" /\ turn'[t].expired = turn[t].expired
        /\ turn'[t].count = acct.count
        /\ \A u \in Turn \ {t} : turn'[u] = turn[u]
    BY <1>0, <2>1 DEF TurnState
  <2>3. TurnOK(t)'
    BY <1>0, <2>1, <2>2 DEF TurnOK, EarlyPC, LeasedPC
  <2> QED BY <2>1, <2>2, <2>3 DEF TurnCounts, LatePC, EndPC
<1>2. CASE LockRefused(t)
  <2>1. turn[t].pc = "lock" /\ UNCHANGED <<acct, ttl, manual, now, lost, crashes>>
    BY <1>2 DEF LockRefused
  <2>2. CASE Tried(t) < Attempts
    <3>1. turn' = [turn EXCEPT ![t].attempts = Tried(t)]
      BY <1>2, <2>2 DEF LockRefused
    <3>2. /\ turn'[t].pc = "lock" /\ turn'[t].expired = turn[t].expired
          /\ \A u \in Turn \ {t} : turn'[u] = turn[u]
      BY <1>0, <2>1, <3>1 DEF TurnState
    <3>3. TurnOK(t)'
      BY <1>0, <2>1, <3>2 DEF TurnOK, EarlyPC, LeasedPC
    <3> QED BY <2>1, <3>2, <3>3 DEF TurnCounts, LatePC, EndPC
  <2>3. CASE ~(Tried(t) < Attempts)
    BY <1>2, <2>1, <2>3, CountGivesUp DEF LockRefused, EndPC, Fails
  <2> QED BY <2>2, <2>3
<1>3. CASE LockWrite(t)
  <2>1. /\ turn[t].pc = "locking" /\ UNCHANGED <<ttl, manual, now, lost, crashes>>
        /\ acct' = Locked(t)
        /\ turn' = [turn EXCEPT ![t].pc = "hydrate", ![t].attempts = 0]
    BY <1>3 DEF LockWrite, Write
  <2>2. acct'.key = t /\ acct'.count = acct.count
    BY <1>0, <2>1 DEF Locked, TypeOK, Account
  <2>3. /\ turn'[t].pc = "hydrate" /\ turn'[t].expired = turn[t].expired
        /\ turn'[t].count = turn[t].count
        /\ \A u \in Turn \ {t} : turn'[u] = turn[u]
    BY <1>0, <2>1 DEF TurnState
  <2>4. TurnOK(t)'
    BY <1>0, <2>1, <2>2, <2>3 DEF TurnOK, EarlyPC, LeasedPC
  <2> QED BY <2>1, <2>2, <2>3, <2>4 DEF TurnCounts, LatePC, EndPC
<1>4. CASE LockConflict(t)
  BY <1>4, CountGivesUp DEF LockConflict, EndPC, Fails
<1> QED BY <1>1, <1>2, <1>3, <1>4

\* What GetExpiredAsync reads.
LEMMA ExpiredFacts ==
  ASSUME Ordinary, CInv, NEW t \in Turn, turn[t].pc = "hydrate",
         NEW X, X = {e \in Event : ttl[e] # 0 /\ ttl[e] < now}
  PROVE  /\ X \subseteq LiveTtl /\ X \subseteq Perishable
         /\ t \notin Resettling => EventOf[t] \notin X
<1>1. X \subseteq LiveTtl
  BY DEF LiveTtl
<1>2. ASSUME NEW e \in X
      PROVE  /\ e \in Perishable
             /\ t \notin Resettling => EventOf[t] # e
  <2>1. PICK u \in Turn \ Resettling :
          EventOf[u] = e /\ DueOf[u] = ttl[e] /\ turn[u].pc \in LatePC
    BY <1>1 DEF CInv, TtlOK
  <2>2. ttl[e] < now /\ ttl[e] \in Nat /\ now \in Nat /\ now <= MaxTime /\ MaxTime \in Nat
    BY <1>1, TurnAssumption DEF CInv, JInv, TypeOK, LiveTtl
  <2>3. DueOf[u] < MaxTime /\ ~ (DueOf[u] >= MaxTime)
    BY <2>1, <2>2
  <2>4. u # t
    BY <2>1 DEF LatePC, EndPC
  <2>5. e \in Perishable
    BY <2>1, <2>3 DEF Perishable
  <2>6. ASSUME t \notin Resettling PROVE EventOf[t] # e
    BY <2>1, <2>3, <2>4, <2>6 DEF Ordinary
  <2> QED BY <2>5, <2>6
<1> QED BY <1>1, <1>2

LEMMA DecayedFacts ==
  ASSUME TypeOK, NEW t \in Turn, turn[t].count = acct.count, Expires(t)
  PROVE  /\ Decayed(t) = AtLeast0(acct.count - Cardinality(turn[t].expired))
         /\ turn[t].expired = {} => Decayed(t) = Stored
<1>1. Decayed(t) = AtLeast0(acct.count - Cardinality(turn[t].expired))
  BY DEF Decayed
<1>2. ASSUME turn[t].expired = {} PROVE Decayed(t) = Stored
  <2>1. Cardinality(turn[t].expired) = 0
    BY <1>2, FS_EmptySet
  <2>2. acct.count - 0 = acct.count
    BY StoredType DEF Count, NoState
  <2> QED BY <1>1, <2>1, <2>2 DEF Stored
<1> QED BY <1>1, <1>2

\* With a history or without, the decayed count is as near to the stored one
\* as the documents that are taken off it.
LEMMA DecayedNear ==
  ASSUME TypeOK, NEW X \in SUBSET LiveTtl, X \subseteq Perishable,
         NEW c, c = AtLeast0(acct.count - Cardinality(X)),
         Near(Stored, Live, Budget)
  PROVE  /\ c \in Nat
         /\ Near(c, Live - Cardinality(X), Budget)
         /\ Near(c, Live, Budget + FailureWeight)
         /\ Near(Stored, c, FailureWeight)
<1> DEFINE s == Stored
           l == Live
           b == Budget
           w == FailureWeight
           x == Cardinality(X)
           a == acct.count
<1>1. l \in Nat /\ x \in Nat /\ x <= l
  BY LiveFacts
<1>2. w \in Nat /\ x <= w
  BY WeightType
<1>3. b \in Nat
  BY BudgetFacts
<1>4. s \in Nat /\ a \in Int /\ (a \in Nat => s = a) /\ (a \notin Nat => s = 0 /\ a = -1)
  BY StoredType DEF Count, NoState
<1>5. s <= l + b /\ l <= s + b
  BY DEF Near
<1>6. c = IF a - x < 0 THEN 0 ELSE a - x
  BY DEF AtLeast0
<1> HIDE DEF s, l, b, w, x, a
<1>7. c \in Nat
  BY <1>1, <1>4, <1>6
<1>8. c <= s /\ s <= c + x
  BY <1>1, <1>4, <1>6
<1>9. c <= (l - x) + b
  BY <1>1, <1>3, <1>4, <1>5, <1>6
<1>10. l - x <= c + b
  BY <1>1, <1>3, <1>4, <1>5, <1>8, <1>7
<1>11. c <= l + (b + w) /\ l <= c + (b + w)
  BY <1>1, <1>2, <1>3, <1>4, <1>5, <1>7, <1>8
<1>12. s <= c + w /\ c <= s + w
  BY <1>1, <1>2, <1>4, <1>7, <1>8
<1> QED BY <1>7, <1>9, <1>10, <1>11, <1>12 DEF Near, s, l, b, w, x

\* One document less, of the live ones and of those to be deleted.
LEMMA DeletedNear ==
  ASSUME TypeOK, NEW t \in Turn, Expires(t), NEW e \in turn[t].expired,
         ttl' = [ttl EXCEPT ![e] = 0],
         NEW k \in Nat, Near(Stored, Live - Cardinality(turn[t].expired), k)
  PROVE  /\ Live' = Live - 1 /\ LiveTtl' = LiveTtl \ {e}
         /\ Near(Stored, Live' - Cardinality(turn[t].expired \ {e}), k)
         /\ turn[t].expired = {e} => Near(Stored, Live', k)
<1> DEFINE X == turn[t].expired
<1>1. X \subseteq LiveTtl /\ IsFiniteSet(X) /\ Cardinality(X) \in Nat
  BY LiveFacts DEF Expires
<1>2. Live' = Live - 1 /\ LiveTtl' = LiveTtl \ {e} /\ Live \in Nat
  BY <1>1, LiveFacts
<1>3. Cardinality(X \ {e}) = Cardinality(X) - 1
  BY <1>1, FS_RemoveElement
<1>4. (Live - 1) - (Cardinality(X) - 1) = Live - Cardinality(X)
  BY <1>1, <1>2
<1>5. Near(Stored, Live' - Cardinality(X \ {e}), k)
  BY <1>2, <1>3, <1>4
<1>6. ASSUME X = {e} PROVE Near(Stored, Live', k)
  <2>1. Cardinality(X \ {e}) = 0
    BY <1>6, FS_EmptySet
  <2>2. Live' - 0 = Live'
    BY <1>2
  <2> QED BY <1>5, <2>1, <2>2
<1> QED BY <1>2, <1>5, <1>6

LEMMA CountHydrate ==
  ASSUME Ordinary, CInv, NEW t \in Turn,
         ReadExpired(t) \/ RereadState(t) \/ ReadExisting(t) \/ SaveDecayed(t) \/ DeleteExpired(t)
  PROVE  TurnCounts(t)
<1>0. turn \in [Turn -> TurnState] /\ TypeOK /\ TurnOK(t)
  BY DEF CInv, JInv, TypeOK
<1>1. CASE ReadExpired(t)
  <2> DEFINE X == {e \in Event : ttl[e] # 0 /\ ttl[e] < now}
  <2>1. /\ turn[t].pc = "hydrate" /\ UNCHANGED <<acct, ttl, manual, now, lost, crashes>>
        /\ turn' = [turn EXCEPT ![t].pc = "reread", ![t].expired = X]
    BY <1>1 DEF ReadExpired
  <2>2. /\ X \subseteq LiveTtl /\ X \subseteq Perishable
        /\ t \notin Resettling => EventOf[t] \notin X
    BY <2>1, ExpiredFacts
  <2>3. /\ turn'[t].pc = "reread" /\ turn'[t].expired = X /\ turn'[t].count = turn[t].count
        /\ \A u \in Turn \ {t} : turn'[u] = turn[u]
    <3> HIDE DEF X
    <3> QED BY <1>0, <2>1 DEF TurnState
  <2> HIDE DEF X
  <2>4. Expires(t)'
    BY <2>1, <2>2, <2>3 DEF Expires, LiveTtl
  <2>5. TurnOK(t)'
    BY <1>0, <2>1, <2>3, <2>4 DEF TurnOK, EarlyPC, LeasedPC
  <2> QED BY <2>1, <2>3, <2>5 DEF TurnCounts, LatePC, EndPC
<1>2. CASE RereadState(t)
  <2> DEFINE c == IF acct.count = NoState THEN turn[t].count ELSE acct.count
  <2>1. /\ turn[t].pc = "reread" /\ UNCHANGED <<acct, ttl, manual, now, lost, crashes>>
        /\ turn' = [turn EXCEPT ![t].pc = "existing", ![t].count = c]
    BY <1>0, <1>2 DEF RereadState, TurnState
  <2>2. c = acct.count
    BY <1>0, <2>1 DEF TurnOK
  <2>3. /\ turn'[t].pc = "existing" /\ turn'[t].expired = turn[t].expired
        /\ turn'[t].count = acct.count
        /\ \A u \in Turn \ {t} : turn'[u] = turn[u]
    <3> HIDE DEF c
    <3> QED BY <1>0, <2>1, <2>2 DEF TurnState
  <2>4. Expires(t)'
    BY <1>0, <2>1, <2>3 DEF TurnOK, Expires, LiveTtl
  <2>5. TurnOK(t)'
    BY <1>0, <2>1, <2>3, <2>4 DEF TurnOK, EarlyPC, LeasedPC
  <2> QED BY <2>1, <2>3, <2>5 DEF TurnCounts, LatePC, EndPC
<1>3. CASE ReadExisting(t)
  <2> DEFINE pc == IF turn[t].expired = {} THEN "award" ELSE "decay"
             c == Decayed(t)
             k == Contributed(t)
  <2>1. /\ turn[t].pc = "existing" /\ UNCHANGED <<acct, ttl, manual, now, lost, crashes>>
        /\ turn' = [turn EXCEPT ![t].pc = pc, ![t].count = c, ![t].known = k]
    BY <1>3 DEF ReadExisting
  <2>2. turn[t].count = acct.count /\ Expires(t)
    BY <1>0, <2>1 DEF TurnOK
  <2>3. /\ turn'[t].pc = pc /\ turn'[t].expired = turn[t].expired
        /\ turn'[t].count = c /\ turn'[t].known = k
        /\ \A u \in Turn \ {t} : turn'[u] = turn[u]
    <3> HIDE DEF pc, c, k
    <3> QED BY <1>0, <2>1 DEF TurnState
  <2>4. Expires(t)' /\ (Contributed(t)' <=> Contributed(t)) /\ Stored' = Stored
    BY <2>1, <2>2, <2>3 DEF Expires, LiveTtl, Contributed, Stored
  <2>5. /\ c = AtLeast0(acct.count - Cardinality(turn[t].expired))
        /\ turn[t].expired = {} => c = Stored
    BY <1>0, <2>2, DecayedFacts
  <2>6. acct'.key \in {NoTurn, t}
    BY <1>0, <2>1 DEF TurnOK, LeasedPC
  <2> HIDE DEF c
  <2>7. CASE pc = "award"
    <3>1. turn'[t].count = Stored'
      BY <2>3, <2>4, <2>5, <2>7
    <3> HIDE DEF pc
    <3>2. TurnOK(t)'
      BY <2>3, <2>4, <2>6, <2>7, <3>1 DEF TurnOK, EarlyPC, LeasedPC
    <3> QED BY <2>1, <2>3, <2>7, <3>2 DEF TurnCounts, LatePC, EndPC
  <2>8. CASE pc = "decay"
    <3> HIDE DEF pc
    <3>1. TurnOK(t)'
      BY <2>1, <2>3, <2>4, <2>5, <2>6, <2>8 DEF TurnOK, EarlyPC, LeasedPC
    <3> QED BY <2>1, <2>3, <2>8, <3>1 DEF TurnCounts, LatePC, EndPC
  <2> QED BY <2>7, <2>8
<1>4. CASE SaveDecayed(t)
  <2> DEFINE c == turn[t].count
  <2>1. /\ turn[t].pc = "decay" /\ UNCHANGED <<ttl, manual, now, lost, crashes>>
        /\ turn' = [turn EXCEPT ![t].pc = "delete"]
        /\ acct'.key = NoTurn /\ acct'.count = c
    BY <1>4 DEF SaveDecayed, WriteUnlocked, Write, Unlocked
  <2>2. /\ turn'[t].pc = "delete" /\ turn'[t].expired = turn[t].expired
        /\ turn'[t].count = c /\ turn'[t].known = turn[t].known
        /\ \A u \in Turn \ {t} : turn'[u] = turn[u]
    BY <1>0, <2>1 DEF TurnState
  <2>3. /\ Expires(t) /\ c = AtLeast0(acct.count - Cardinality(turn[t].expired))
        /\ (turn[t].known <=> Contributed(t))
    BY <1>0, <2>1 DEF TurnOK
  <2>4. Near(Stored, Live, Budget)
    BY <2>1, NowNear DEF EndPC
  <2>5. c \in Nat /\ Near(c, Live - Cardinality(turn[t].expired), Budget)
    <3> HIDE DEF c
    <3> QED BY <1>0, <2>3, <2>4, DecayedNear DEF Expires
  <2>6. Stored' = c /\ Live' = Live /\ Budget' = Budget
    BY <1>0, <2>1, <2>5, BudgetFacts DEF Stored, AtLeast0, Live
  <2>7. Near(Stored', Live' - Cardinality(turn'[t].expired), Budget')
    BY <2>2, <2>5, <2>6
  <2>8. Expires(t)' /\ (Contributed(t)' <=> Contributed(t))
    BY <2>1, <2>2, <2>3 DEF Expires, LiveTtl, Contributed
  <2>9. TurnOK(t)'
    BY <2>1, <2>2, <2>3, <2>5, <2>7, <2>8 DEF TurnOK, EarlyPC, LeasedPC
  <2> QED BY <2>1, <2>2, <2>9 DEF TurnCounts, LatePC, EndPC
<1>5. CASE DeleteExpired(t)
  <2>1. PICK e \in turn[t].expired : ttl' = [ttl EXCEPT ![e] = 0] /\
          turn' = [turn EXCEPT ![t].expired = turn[t].expired \ {e},
                               ![t].pc = IF turn[t].expired \ {e} = {} THEN "award" ELSE @]
    BY <1>5 DEF DeleteExpired
  <2> DEFINE X == turn[t].expired
             rest == X \ {e}
             pc == IF rest = {} THEN "award" ELSE "delete"
  <2>2. turn[t].pc = "delete" /\ UNCHANGED <<acct, manual, now, lost, crashes>>
    BY <1>5 DEF DeleteExpired
  <2>3. turn' = [turn EXCEPT ![t].expired = rest, ![t].pc = pc]
    BY <1>0, <2>1, <2>2 DEF TurnState
  <2>4. /\ turn'[t].pc = pc /\ turn'[t].expired = rest
        /\ turn'[t].count = turn[t].count /\ turn'[t].known = turn[t].known
        /\ \A u \in Turn \ {t} : turn'[u] = turn[u]
    <3> HIDE DEF rest, pc
    <3> QED BY <1>0, <2>3 DEF TurnState
  <2>5. /\ Expires(t) /\ turn[t].count = acct.count /\ acct.count \in Nat
        /\ (turn[t].known <=> Contributed(t))
        /\ Near(Stored, Live - Cardinality(X), Budget)
        /\ acct.key \in {NoTurn, t}
    BY <1>0, <2>2 DEF TurnOK, LeasedPC
  <2>6. /\ LiveTtl' = LiveTtl \ {e}
        /\ Near(Stored, Live' - Cardinality(rest), Budget)
        /\ X = {e} => Near(Stored, Live', Budget)
    BY <1>0, <2>1, <2>5, DeletedNear, BudgetFacts
  <2>7. Stored' = Stored /\ Stored = acct.count /\ Budget' = Budget
    BY <1>0, <2>2, <2>5, BudgetFacts, StoredType DEF Stored
  <2>8. e \in Event /\ (t \notin Resettling => EventOf[t] # e)
    BY <2>5 DEF Expires, LiveTtl
  <2>9. Contributed(t)' <=> Contributed(t)
    BY <1>0, <2>1, <2>8, TurnAssumption DEF Contributed, TypeOK
  <2>10. Expires(t)'
    BY <2>4, <2>5, <2>6 DEF Expires
  <2>11. \A f \in Event : ttl'[f] # 0 => ttl'[f] = ttl[f]
    BY <1>0, <2>1, <2>8 DEF TypeOK
  <2>12. CASE rest = {}
    <3>1. pc = "award" /\ X = {e}
      BY <2>1, <2>12
    <3>2. Near(Stored, Live, Budget)'
      BY <2>6, <2>7, <3>1
    <3> HIDE DEF pc, rest
    <3>3. TurnOK(t)'
      BY <2>2, <2>4, <2>5, <2>7, <2>9, <3>1 DEF TurnOK, EarlyPC, LeasedPC
    <3> QED BY <2>2, <2>4, <2>11, <3>1, <3>2, <3>3 DEF TurnCounts, LatePC, EndPC
  <2>13. CASE rest # {}
    <3>1. pc = "delete"
      BY <2>13
    <3>2. Near(Stored', Live' - Cardinality(turn'[t].expired), Budget')
      BY <2>4, <2>6, <2>7
    <3> HIDE DEF pc, rest
    <3>3. TurnOK(t)'
      BY <2>2, <2>4, <2>5, <2>9, <2>10, <3>1, <3>2 DEF TurnOK, EarlyPC, LeasedPC
    <3> QED BY <2>2, <2>4, <2>11, <3>1, <3>3 DEF TurnCounts, LatePC, EndPC
  <2> QED BY <2>12, <2>13
<1> QED BY <1>1, <1>2, <1>3, <1>4, <1>5

BonusIs(t) ==
  /\ Bonus(t) \in {0, 1}
  /\ turn[t].pc = "save" /\ t \notin Resettling /\ turn[t].left \in {{"acct"}, {"ttl"}}
       => Bonus(t) = 1
  /\ turn[t].left \in {{}, {"acct", "ttl"}} => Bonus(t) = 0

LEMMA BonusFacts == TypeOK => \A t \in Turn : BonusIs(t)
<1> SUFFICES ASSUME TypeOK, NEW t \in Turn PROVE BonusIs(t)
  OBVIOUS
<1>1. Cardinality({"acct"}) = 1 /\ Cardinality({"ttl"}) = 1
  BY FS_Singleton
<1>2. Cardinality({}) = 0
  BY FS_EmptySet
<1>3. Cardinality({"acct", "ttl"}) = 2
  <2>1. IsFiniteSet({"acct"}) /\ "ttl" \notin {"acct"}
    BY FS_Singleton
  <2>2. Cardinality({"acct"} \cup {"ttl"}) = Cardinality({"acct"}) + 1
    BY <2>1, FS_AddElement
  <2>3. {"acct", "ttl"} = {"acct"} \cup {"ttl"}
    OBVIOUS
  <2> QED BY <1>1, <2>2, <2>3
<1> QED BY <1>1, <1>2, <1>3 DEF BonusIs, Bonus, Between

LEMMA BonusNext == TypeOK' => (\A t \in Turn : BonusIs(t))'
BY BonusFacts, PTL

LEMMA NumbersNext == TypeOK' => (Stored \in Nat /\ Live \in Nat /\ Budget \in Nat)'
<1>1. TypeOK => Stored \in Nat /\ Live \in Nat /\ Budget \in Nat
  BY StoredType, LiveFacts, BudgetFacts
<1> QED BY <1>1, PTL

\* A turn that is about to make its final writes.
LEMMA CountSaving ==
  ASSUME TypeOK, NEW t \in Turn, turn[t].pc \in LeasedPC,
         turn'[t].pc = "save", \A u \in Turn \ {t} : turn'[u] = turn[u],
         UNCHANGED <<manual, now>>,
         acct'.key \in {acct.key, NoTurn}, TurnOK(t),
         \A e \in Event : ttl'[e] # 0 =>
           \/ ttl'[e] = ttl[e]
           \/ t \notin Resettling /\ EventOf[t] = e /\ DueOf[t] = ttl'[e],
         Saves(t)'
  PROVE  TurnCounts(t)
<1>1. acct'.key \in {NoTurn, t}
  BY DEF TurnOK
<1>2. TurnOK(t)'
  BY <1>1 DEF TurnOK, EarlyPC, LeasedPC
<1> QED BY <1>2 DEF TurnCounts, LatePC, EndPC, LeasedPC

\* The finally block of rules that failed: the account is saved.
LEMMA CountSaveOnly ==
  ASSUME TypeOK, JInv', NEW t \in Turn, NEW c, turn' = [turn EXCEPT ![t] = SaveOnly(t, c)],
         turn[t].pc \in LeasedPC, UNCHANGED <<manual, now>>,
         acct'.key \in {acct.key, NoTurn}, TurnOK(t),
         \A e \in Event : ttl'[e] # 0 => ttl'[e] = ttl[e],
         c \in Nat, Near(c, Live, Budget)', Near(Stored, Live, Budget)',
         Near(Stored', c, FailureWeight)
  PROVE  TurnCounts(t)
<1> DEFINE r == SaveOnly(t, c)
<1>1. r.pc = "save" /\ r.count = c /\ r.left = {"acct"} /\ r.verdict = "fail"
  BY DEF TypeOK, TurnState, SaveOnly
<1>2. turn'[t] = r /\ \A u \in Turn \ {t} : turn'[u] = turn[u]
  BY DEF TypeOK
<1> HIDE DEF r
<1>3. TypeOK' /\ Bonus(t)' \in {0, 1}
  BY BonusNext DEF JInv, BonusIs
<1>4. Stored' \in Nat /\ Live' \in Nat /\ Budget' \in Nat
  BY <1>3, NumbersNext
<1>5. Near(Stored, Live, Budget + Bonus(t))'
  <2> DEFINE s == Stored'
             l == Live'
             b == Budget'
             d == Bonus(t)'
  <2>1. s \in Nat /\ l \in Nat /\ b \in Nat /\ d \in {0, 1}
    BY <1>3, <1>4
  <2>2. s <= l + b /\ l <= s + b
    BY DEF Near
  <2>3. s <= l + (b + d) /\ l <= s + (b + d)
    <3> HIDE DEF s, l, b, d
    <3> QED BY <2>1, <2>2
  <2> QED BY <2>3 DEF Near
<1>6. Goal(t)' = c /\ GoalLive(t)' = Live'
  BY <1>1, <1>2 DEF Goal, GoalLive
<1>7. Saves(t)'
  <2>1. Near(Goal(t), GoalLive(t), Budget)'
    BY <1>6 DEF Near
  <2>2. Near(Stored, turn[t].count, FailureWeight)'
    BY <1>1, <1>2 DEF Near, FailureWeight, Perishable
  <2> QED BY <1>1, <1>2, <1>5, <2>1, <2>2 DEF Saves
<1> QED BY <1>1, <1>2, <1>7, CountSaving

\* The rules count the event once, and its document is added once.
LEMMA CountedOnce ==
  ASSUME TypeOK, NEW t \in Turn, turn[t].count = Stored, turn[t].known <=> Contributed(t)
  PROVE  /\ Counted(t) \in {Stored, Stored + 1}
         /\ "ttl" \in FinalWrites(t) <=> t \notin Resettling
         /\ "acct" \in FinalWrites(t)
         /\ t \in Resettling => Counted(t) = Stored
         /\ t \notin Resettling => Counted(t) = Stored + Adds(t)
<1>1. Stored \in Nat
  BY StoredType
<1>2. CASE t \in Resettling
  BY <1>2 DEF Counted, FinalWrites
<1>3. CASE t \notin Resettling /\ turn[t].known
  BY <1>1, <1>3 DEF Counted, FinalWrites, Adds, Contributed
<1>4. CASE t \notin Resettling /\ ~ turn[t].known
  BY <1>1, <1>4 DEF Counted, FinalWrites, Adds, Contributed
<1> QED BY <1>2, <1>3, <1>4

LEMMA CountEvaluated ==
  ASSUME Ordinary, CInv, JInv', NEW t \in Turn, NEW v \in {"ok", "fail"},
         turn[t].pc = "award", turn' = [turn EXCEPT ![t] = Evaluated(t, v)],
         UNCHANGED <<acct, ttl, manual, now>>, Fails
  PROVE  TurnCounts(t)
<1> DEFINE r == Evaluated(t, v)
<1>0. TypeOK /\ TurnOK(t) /\ TypeOK'
  BY DEF CInv, JInv
<1>1. r.pc = "save" /\ r.count = Counted(t) /\ r.left = FinalWrites(t) /\ r.verdict = v
  BY <1>0 DEF TypeOK, TurnState, Evaluated
<1>2. turn'[t] = r /\ \A u \in Turn \ {t} : turn'[u] = turn[u]
  BY <1>0 DEF TypeOK
<1> HIDE DEF r
<1>3. turn[t].count = Stored /\ (turn[t].known <=> Contributed(t))
  BY <1>0 DEF TurnOK
<1>4. PICK c : c = Counted(t)
  OBVIOUS
<1>5. /\ c \in {Stored, Stored + 1}
      /\ "ttl" \in FinalWrites(t) <=> t \notin Resettling
      /\ "acct" \in FinalWrites(t)
      /\ t \in Resettling => c = Stored
      /\ t \notin Resettling => c = Stored + Adds(t)
  BY <1>0, <1>3, <1>4, CountedOnce
<1>6. Stored' = Stored /\ Live' = Live /\ Adds(t)' = Adds(t)
  BY DEF Stored, Live, Adds
<1>7. Near(Stored, Live, Budget)
  BY <1>0, NowNear DEF EndPC
<1>8. /\ Goal(t)' = c
      /\ GoalLive(t)' = IF t \in Resettling THEN Live ELSE Live + Adds(t)
  BY <1>1, <1>2, <1>4, <1>5, <1>6 DEF Goal, GoalLive
<1> DEFINE s == Stored
           l == Live
           b == Budget
           d == Budget'
           n == Bonus(t)'
           w == FailureWeight
           a == Adds(t)
<1>9. s \in Nat /\ l \in Nat /\ n \in {0, 1} /\ a \in {0, 1}
  BY <1>0, StoredType, LiveFacts, BonusNext DEF Adds, BonusIs
<1>10. b \in Nat /\ d \in Nat /\ b <= d /\ w \in Nat \ {0}
  BY <1>0, FailsBudget, WeightType
<1>11. s <= l + b /\ l <= s + b
  BY <1>7 DEF Near
<1>12. c \in Nat /\ Near(c, IF t \in Resettling THEN l ELSE l + a, d)
  <2> HIDE DEF s, l, b, d, a
  <2> QED BY <1>5, <1>9, <1>10, <1>11 DEF Near, s, a
<1>13. Near(s, l, d + n)
  <2> HIDE DEF s, l, b, d, n
  <2> QED BY <1>9, <1>10, <1>11 DEF Near
<1>14. Near(s, c, w)
  <2> HIDE DEF s, w
  <2> QED BY <1>5, <1>9, <1>10 DEF Near, s
<1>15. Saves(t)'
  <2>1. Near(Goal(t), GoalLive(t), Budget)'
    BY <1>8, <1>12 DEF Near
  <2>2. Near(Stored, Live, Budget + Bonus(t))'
    BY <1>6, <1>13 DEF Near
  <2>3. Near(Stored, turn[t].count, FailureWeight)'
    BY <1>1, <1>2, <1>4, <1>6, <1>14 DEF Near, FailureWeight, Perishable
  <2> QED BY <1>1, <1>2, <1>4, <1>5, <1>12, <2>1, <2>2, <2>3 DEF Saves
<1> QED BY <1>0, <1>1, <1>2, <1>15, CountSaving DEF LeasedPC

\* One of the final writes is over, made or not.
SavesOne(t, w) ==
  /\ Saving(t, w)
  /\ \A u \in Turn \ {t} : turn'[u] = turn[u]
  /\ turn'[t].pc = "save" /\ turn'[t].left = Saved(t, w)
  /\ turn'[t].count = turn[t].count
  /\ turn'[t].verdict \in {turn[t].verdict, "fail"}
  /\ UNCHANGED <<manual, now>>
  /\ Fails

SaveNumbers(t) ==
  /\ turn[t].pc = "save" /\ turn[t].pc \in LeasedPC /\ Saves(t)
  /\ turn[t].count \in Nat /\ turn[t].left \subseteq {"acct", "ttl"}
  /\ turn[t].verdict # "retry"
  /\ Stored \in Nat /\ Live \in Nat /\ Adds(t) \in {0, 1}
  /\ Budget \in Nat /\ Budget' \in Nat /\ Budget <= Budget'
  /\ Budget' \in {Budget, Budget + FailureWeight}
  /\ FailureWeight \in Nat \ {0}
  /\ Bonus(t) \in {0, 1} /\ Bonus(t)' \in {0, 1}
  /\ Goal(t) \in Nat /\ GoalLive(t) \in Nat

LEMMA SavingNumbers ==
  ASSUME TypeOK, TypeOK', NEW t \in Turn, TurnOK(t), turn[t].pc = "save", Fails
  PROVE  SaveNumbers(t)
<1>1. Saves(t) /\ turn[t].count \in Nat /\ turn[t].verdict # "retry" /\ turn[t].pc \in LeasedPC
  BY DEF TurnOK, Saves, LeasedPC
<1>2. turn[t].left \subseteq {"acct", "ttl"}
  BY DEF TypeOK, TurnState
<1>3. Stored \in Nat /\ Live \in Nat /\ Adds(t) \in {0, 1}
  BY StoredType, LiveFacts DEF Adds
<1>4. /\ Budget \in Nat /\ Budget' \in Nat /\ Budget' \in {Budget, Budget + FailureWeight}
      /\ FailureWeight \in Nat \ {0}
  BY FailsBudget, WeightType
<1>5. Budget <= Budget'
  <2> DEFINE b == Budget
             d == Budget'
             w == FailureWeight
  <2>1. b \in Nat /\ d \in {b, b + w} /\ w \in Nat
    BY <1>4
  <2>2. b <= d
    <3> HIDE DEF b, d, w
    <3> QED BY <2>1
  <2> QED BY <2>2
<1>6. Bonus(t) \in {0, 1} /\ Bonus(t)' \in {0, 1}
  BY BonusFacts, BonusNext DEF BonusIs
<1>7. Goal(t) \in Nat
  BY <1>1, <1>3 DEF Goal
<1>8. GoalLive(t) \in Nat
  <2> DEFINE l == Live
             a == Adds(t)
  <2>1. l \in Nat /\ l + a \in Nat
    <3>1. l \in Nat /\ a \in {0, 1}
      BY <1>3
    <3> HIDE DEF l, a
    <3> QED BY <3>1
  <2> QED BY <2>1 DEF GoalLive
<1> QED BY <1>1, <1>2, <1>3, <1>4, <1>5, <1>6, <1>7, <1>8 DEF SaveNumbers

\* The final write that is lost.
LEMMA CountUnsaved ==
  ASSUME TypeOK, TypeOK', NEW t \in Turn, TurnOK(t), NEW w, SavesOne(t, w),
         UNCHANGED <<acct, ttl>>, Budget' = Budget + FailureWeight
  PROVE  TurnCounts(t)
<1>1. /\ turn[t].pc = "save" /\ w \in turn[t].left /\ turn'[t].left = turn[t].left \ {w}
      /\ turn'[t].count = turn[t].count
  BY DEF SavesOne, Saving, Saved
<1>2. SaveNumbers(t)
  BY <1>1, SavingNumbers DEF SavesOne
<1>3. Stored' = Stored /\ Live' = Live /\ Adds(t)' = Adds(t)
  BY DEF Stored, Live, Adds
<1> DEFINE s == Stored
           l == Live
           a == Adds(t)
           b == Budget
           d == Budget'
           f == FailureWeight
           n == Bonus(t)
           m == Bonus(t)'
           x == Goal(t)
           g == GoalLive(t)
           c == turn[t].count
<1>4. /\ s \in Nat /\ l \in Nat /\ a \in {0, 1} /\ b \in Nat /\ d = b + f /\ f \in Nat \ {0}
      /\ n \in {0, 1} /\ m \in {0, 1} /\ x \in Nat /\ g \in Nat /\ c \in Nat
  BY <1>2 DEF SaveNumbers
<1>5. Near(x, g, b) /\ Near(s, l, b + n)
  BY <1>2 DEF SaveNumbers, Saves, Near
<1>6. "acct" \in turn[t].left => x = c /\ Near(s, c, f)
  BY <1>2 DEF SaveNumbers, Saves, Near, Goal
<1>7. Near(s, l, d + m)
  <2> HIDE DEF s, l, b, d, f, n, m
  <2> QED BY <1>4, <1>5 DEF Near
<1>8. Near(Goal(t)', GoalLive(t)', d)
  <2>1. CASE w = "acct"
    <3>1. Goal(t)' = s /\ GoalLive(t)' = g
      BY <1>1, <1>3, <2>1 DEF Goal, GoalLive
    <3>2. Near(s, g, d)
      <4>1. x = c /\ Near(s, c, f)
        BY <1>1, <1>6, <2>1
      <4> HIDE DEF s, l, b, d, f, x, g, c
      <4> QED BY <1>4, <1>5, <4>1 DEF Near
    <3> QED BY <3>1, <3>2
  <2>2. CASE w = "ttl"
    <3>1. Goal(t)' = x /\ GoalLive(t)' = l /\ g = l + a
      BY <1>1, <1>3, <2>2 DEF Goal, GoalLive
    <3>2. Near(x, l, d)
      <4> HIDE DEF s, l, b, d, f, x, g, c, a
      <4> QED BY <1>4, <1>5, <3>1 DEF Near
    <3> QED BY <3>1, <3>2
  <2> QED BY <1>1, <1>2, <2>1, <2>2 DEF SaveNumbers
<1>9. Saves(t)'
  <2>1. Near(Goal(t), GoalLive(t), Budget)'
    BY <1>8 DEF Near
  <2>2. Near(Stored, Live, Budget + Bonus(t))'
    BY <1>3, <1>7 DEF Near
  <2>3. "acct" \in turn'[t].left => Near(Stored, turn[t].count, FailureWeight)'
    BY <1>1, <1>3, <1>6 DEF Near, FailureWeight, Perishable
  <2>4. turn'[t].verdict # "retry" /\ turn'[t].count \in Nat
    BY <1>1, <1>2 DEF SavesOne, SaveNumbers
  <2>5. "ttl" \in turn'[t].left => t \notin Resettling
    BY <1>1, <1>2 DEF SaveNumbers, Saves
  <2> QED BY <2>1, <2>2, <2>3, <2>4, <2>5 DEF Saves
<1> QED BY <1>2, <1>9, CountSaving DEF SavesOne, SaveNumbers

\* The account is saved.
LEMMA CountAcctSaved ==
  ASSUME TypeOK, TypeOK', NEW t \in Turn, TurnOK(t), SavesOne(t, "acct"),
         acct' = SavedDoc(t), ttl' = ttl
  PROVE  TurnCounts(t)
<1>1. /\ turn[t].pc = "save" /\ "acct" \in turn[t].left /\ turn'[t].left = turn[t].left \ {"acct"}
      /\ turn'[t].count = turn[t].count /\ turn'[t].pc = "save"
  BY DEF SavesOne, Saving, Saved
<1>2. SaveNumbers(t)
  BY <1>1, SavingNumbers DEF SavesOne
<1>3. acct'.count = turn[t].count /\ acct'.key = NoTurn
  BY DEF SavedDoc, Unlocked
<1>4. Stored' = turn[t].count /\ Live' = Live /\ Adds(t)' = Adds(t)
  BY <1>2, <1>3 DEF SaveNumbers, Stored, AtLeast0, Live, Adds
<1> DEFINE l == Live
           a == Adds(t)
           b == Budget
           d == Budget'
           m == Bonus(t)'
           g == GoalLive(t)
           c == turn[t].count
<1>5. /\ l \in Nat /\ a \in {0, 1} /\ b \in Nat /\ d \in Nat /\ b <= d
      /\ m \in {0, 1} /\ g \in Nat /\ c \in Nat
  BY <1>2 DEF SaveNumbers
<1>6. Near(c, g, b)
  BY <1>1, <1>2 DEF SaveNumbers, Saves, Goal
<1>7. Goal(t)' = c /\ GoalLive(t)' = g
  BY <1>1, <1>4 DEF Goal, GoalLive
<1>8. Near(c, g, d)
  <2> HIDE DEF b, d, c, g
  <2> QED BY <1>5, <1>6 DEF Near
<1>9. Near(c, l, d + m)
  <2>1. CASE "ttl" \in turn[t].left
    <3>1. t \notin Resettling /\ turn'[t].left = {"ttl"}
      BY <1>1, <1>2, <2>1 DEF SaveNumbers, Saves
    <3>2. m = 1
      BY <1>1, <3>1, BonusNext DEF BonusIs
    <3>3. g = l + a
      BY <2>1 DEF GoalLive
    <3> HIDE DEF l, a, b, d, m, g, c
    <3> QED BY <1>5, <1>8, <3>2, <3>3 DEF Near
  <2>2. CASE "ttl" \notin turn[t].left
    <3>1. g = l
      BY <2>2 DEF GoalLive
    <3> HIDE DEF l, a, b, d, m, g, c
    <3> QED BY <1>5, <1>8, <3>1 DEF Near
  <2> QED BY <2>1, <2>2
<1>10. Saves(t)'
  <2>1. Near(Goal(t), GoalLive(t), Budget)'
    BY <1>7, <1>8 DEF Near
  <2>2. Near(Stored, Live, Budget + Bonus(t))'
    BY <1>4, <1>9 DEF Near
  <2>3. "acct" \notin turn'[t].left
    BY <1>1
  <2>4. turn'[t].verdict # "retry" /\ turn'[t].count \in Nat
    BY <1>1, <1>2 DEF SavesOne, SaveNumbers
  <2>5. "ttl" \in turn'[t].left => t \notin Resettling
    BY <1>1, <1>2 DEF SaveNumbers, Saves
  <2> QED BY <2>1, <2>2, <2>3, <2>4, <2>5 DEF Saves
<1> QED BY <1>2, <1>3, <1>10, CountSaving DEF SavesOne, SaveNumbers

\* The TTL document is stored.
LEMMA CountTtlSaved ==
  ASSUME TypeOK, TypeOK', NEW t \in Turn, TurnOK(t), SavesOne(t, "ttl"),
         acct' = acct, ttl' = [ttl EXCEPT ![EventOf[t]] = DueOf[t]]
  PROVE  TurnCounts(t)
<1>1. /\ turn[t].pc = "save" /\ "ttl" \in turn[t].left /\ turn'[t].left = turn[t].left \ {"ttl"}
      /\ turn'[t].count = turn[t].count /\ turn'[t].pc = "save"
  BY DEF SavesOne, Saving, Saved
<1>2. SaveNumbers(t)
  BY <1>1, SavingNumbers DEF SavesOne
<1>3. EventOf[t] \in Event /\ DueOf[t] \in Nat \ {0} /\ t \notin Resettling
  BY <1>1, <1>2, TurnAssumption DEF SaveNumbers, Saves
<1>4. Stored' = Stored /\ Live' = Live + Adds(t)
  BY <1>3, LiveFacts DEF Stored, Adds
<1> DEFINE s == Stored
           l == Live
           a == Adds(t)
           b == Budget
           d == Budget'
           n == Bonus(t)
           m == Bonus(t)'
           x == Goal(t)
           g == GoalLive(t)
           c == turn[t].count
<1>5. /\ s \in Nat /\ l \in Nat /\ a \in {0, 1} /\ b \in Nat /\ d \in Nat /\ b <= d
      /\ n \in {0, 1} /\ m \in {0, 1} /\ x \in Nat /\ g \in Nat /\ c \in Nat
  BY <1>2 DEF SaveNumbers
<1>6. Near(x, g, b) /\ Near(s, l, b + n) /\ g = l + a
  BY <1>1, <1>2 DEF SaveNumbers, Saves, Near, GoalLive
<1>7. Goal(t)' = x /\ GoalLive(t)' = g
  BY <1>1, <1>4, <1>6 DEF Goal, GoalLive
<1>8. Near(x, g, d)
  <2> HIDE DEF b, d, x, g
  <2> QED BY <1>5, <1>6 DEF Near
<1>9. Near(s, l + a, d + m)
  <2>1. CASE "acct" \in turn[t].left
    <3>1. turn[t].left = {"acct", "ttl"} /\ turn'[t].left = {"acct"}
      BY <1>1, <1>2, <2>1 DEF SaveNumbers
    <3>2. m = 1 /\ n = 0
      BY <1>1, <1>3, <3>1, BonusNext, BonusFacts DEF BonusIs
    <3> HIDE DEF s, l, a, b, d, m, n, g, x
    <3> QED BY <1>5, <1>6, <3>2 DEF Near
  <2>2. CASE "acct" \notin turn[t].left
    <3>1. x = s
      BY <2>2 DEF Goal
    <3> HIDE DEF s, l, a, b, d, m, n, g, x
    <3> QED BY <1>5, <1>6, <1>8, <3>1 DEF Near
  <2> QED BY <2>1, <2>2
<1>10. Saves(t)'
  <2>1. Near(Goal(t), GoalLive(t), Budget)'
    BY <1>7, <1>8 DEF Near
  <2>2. Near(Stored, Live, Budget + Bonus(t))'
    BY <1>4, <1>9 DEF Near
  <2>3. "acct" \in turn'[t].left => Near(Stored, turn[t].count, FailureWeight)'
    BY <1>1, <1>2, <1>4 DEF SaveNumbers, Saves, Near, FailureWeight, Perishable
  <2>4. turn'[t].verdict # "retry" /\ turn'[t].count \in Nat
    BY <1>1, <1>2 DEF SavesOne, SaveNumbers
  <2> QED BY <1>3, <2>1, <2>2, <2>3, <2>4 DEF Saves
<1>11. \A e \in Event : ttl'[e] # 0 =>
         \/ ttl'[e] = ttl[e]
         \/ t \notin Resettling /\ EventOf[t] = e /\ DueOf[t] = ttl'[e]
  BY <1>3 DEF TypeOK
<1> QED BY <1>2, <1>10, <1>11, CountSaving DEF SavesOne, SaveNumbers

LEMMA CountSave ==
  ASSUME Ordinary, CInv, JInv', NEW t \in Turn,
         Award(t) \/ SaveAccount(t) \/ SaveTtl(t) \/ RulesEnd(t) \/ PostSave(t)
  PROVE  TurnCounts(t)
<1>0. turn \in [Turn -> TurnState] /\ TypeOK /\ TypeOK' /\ TurnOK(t)
  BY DEF CInv, JInv, TypeOK
<1>1. CASE Award(t)
  <2>1. turn[t].pc = "award" /\ UNCHANGED <<acct, ttl, manual, now, lost, crashes>>
    BY <1>1 DEF Award
  <2>2. ~ LeaseStolen(t)
    BY <1>0, <2>1 DEF TurnOK, LeaseStolen, LeasedPC
  <2>3. turn' = [turn EXCEPT ![t] = Evaluated(t, "ok")]
    BY <1>1, <2>2 DEF Award
  <2> QED BY <2>1, <2>3, CountEvaluated DEF Fails
<1>2. CASE SaveAccount(t)
  <2>1. /\ Saving(t, "acct") /\ acct' = SavedDoc(t)
        /\ UNCHANGED <<ttl, manual, now, lost, crashes>>
        /\ turn' = [turn EXCEPT ![t].left = Saved(t, "acct")]
    BY <1>2 DEF SaveAccount, Write
  <2>2. SavesOne(t, "acct")
    BY <1>0, <2>1 DEF SavesOne, Saving, Saved, TurnState, Fails
  <2> QED BY <1>0, <2>1, <2>2, CountAcctSaved
<1>3. CASE SaveTtl(t)
  <2>1. /\ Saving(t, "ttl") /\ ttl' = [ttl EXCEPT ![EventOf[t]] = DueOf[t]]
        /\ UNCHANGED <<acct, manual, now, lost, crashes>>
        /\ turn' = [turn EXCEPT ![t].left = Saved(t, "ttl")]
    BY <1>3 DEF SaveTtl
  <2>2. SavesOne(t, "ttl")
    BY <1>0, <2>1 DEF SavesOne, Saving, Saved, TurnState, Fails
  <2> QED BY <1>0, <2>1, <2>2, CountTtlSaved
<1>4. CASE RulesEnd(t)
  <2>1. /\ turn[t].pc = "save" /\ turn[t].left = {}
        /\ UNCHANGED <<acct, ttl, manual, now, lost, crashes>>
    BY <1>4 DEF RulesEnd
  <2>2. Saves(t)
    BY <1>0, <2>1 DEF TurnOK
  <2>3. turn' = [turn EXCEPT ![t] = At(AfterRules(t))]
    BY <1>4, <2>2 DEF RulesEnd, Saves
  <2>4. AfterRules(t) \in EndPC \cup {"post"}
    BY DEF AfterRules, EndPC
  <2>5. Near(Stored, Live, Budget)
    BY <2>1, <2>2 DEF Saves, Goal, GoalLive
  <2>6. Near(Stored, Live, Budget)'
    BY <1>0, <2>1, <2>5, StillNear DEF Fails
  <2> QED BY <1>0, <2>1, <2>3, <2>4, <2>6, CountEnd DEF EndPC
<1>5. CASE PostSave(t)
  BY <1>5, CountGivesUp DEF PostSave, EndPC, Fails
<1> QED BY <1>1, <1>2, <1>3, <1>4, <1>5

\* What a turn that is cut off leaves behind.
LEMMA CutNear ==
  ASSUME TypeOK, NEW t \in Turn, TurnOK(t), NEW s \in Nat, NEW l \in Nat,
         Budget' = Budget + FailureWeight,
         \/ Near(s, l, Budget + Bonus(t))
         \/ \E x \in Nat : x <= FailureWeight /\ Near(s, l - x, Budget)
  PROVE  Near(s, l, Budget')
<1> DEFINE b == Budget
           w == FailureWeight
           n == Bonus(t)
<1>1. b \in Nat /\ w \in Nat \ {0} /\ n \in {0, 1}
  BY BudgetFacts, WeightType, BonusFacts DEF BonusIs
<1>2. CASE Near(s, l, b + n)
  <2>1. Near(s, l, b + w)
    <3> HIDE DEF b, w, n
    <3> QED BY <1>1, <1>2 DEF Near
  <2> QED BY <2>1
<1>3. CASE \E x \in Nat : x <= w /\ Near(s, l - x, b)
  <2>1. PICK x \in Nat : x <= w /\ Near(s, l - x, b)
    BY <1>3
  <2>2. Near(s, l, b + w)
    <3> HIDE DEF b, w
    <3> QED BY <1>1, <2>1 DEF Near
  <2> QED BY <2>2
<1> QED BY <1>2, <1>3

LEMMA CountCrash ==
  ASSUME Ordinary, CInv, JInv', NEW t \in Turn, Crash(t)
  PROVE  TurnCounts(t)
<1>0. TypeOK /\ TurnOK(t)
  BY DEF CInv, JInv
<1>1. /\ turn[t].pc \notin EndPC \cup {"idle"} /\ turn' = [turn EXCEPT ![t] = At("dead")]
      /\ UNCHANGED <<acct, ttl, manual, now, lost>> /\ crashes' = crashes + 1
  BY DEF Crash
<1>2. "dead" \in EndPC /\ Fails
  BY <1>1 DEF EndPC, Fails
<1>3. Budget' = Budget + FailureWeight
  BY <1>0, <1>1, BudgetFacts
<1>4. Stored' = Stored /\ Live' = Live /\ Stored \in Nat /\ Live \in Nat
  BY <1>0, <1>1, StoredType, LiveFacts DEF Stored
<1>5. CASE turn[t].pc = "save"
  <2>1. Near(Stored, Live, Budget + Bonus(t))
    BY <1>0, <1>5 DEF TurnOK, Saves
  <2>2. Near(Stored, Live, Budget')
    BY <1>0, <1>3, <1>4, <2>1, CutNear
  <2>3. Near(Stored, Live, Budget)'
    BY <1>4, <2>2 DEF Near
  <2> QED BY <1>0, <1>1, <1>2, <2>3, CountEnd
<1>6. CASE turn[t].pc = "delete"
  <2>1. Expires(t) /\ Near(Stored, Live - Cardinality(turn[t].expired), Budget)
    BY <1>0, <1>6 DEF TurnOK
  <2>2. Cardinality(turn[t].expired) \in Nat /\ Cardinality(turn[t].expired) <= FailureWeight
    BY <2>1, WeightType DEF Expires
  <2>3. Near(Stored, Live, Budget')
    BY <1>0, <1>3, <1>4, <2>1, <2>2, CutNear
  <2>4. Near(Stored, Live, Budget)'
    BY <1>4, <2>3 DEF Near
  <2> QED BY <1>0, <1>1, <1>2, <2>4, CountEnd
<1>7. CASE turn[t].pc \notin {"save", "delete"}
  BY <1>1, <1>2, <1>7, CountGivesUp
<1> QED BY <1>5, <1>6, <1>7

LEMMA CountHydrateFails ==
  ASSUME Ordinary, CInv, JInv', NEW t \in Turn, HydrateFails(t)
  PROVE  TurnCounts(t)
<1>0. turn \in [Turn -> TurnState] /\ TypeOK /\ TurnOK(t)
  BY DEF CInv, JInv, TypeOK
<1>1. /\ UNCHANGED <<acct, ttl, manual, now>> /\ Fails /\ Budget' = Budget + FailureWeight
      /\ turn[t].pc \in LeasedPC \ {"delete", "save"}
  BY <1>0, BudgetFacts DEF HydrateFails, Lose, Fails, LeasedPC
<1>2. turn[t].pc \notin EndPC \cup {"idle", "delete", "save"}
  BY <1>1 DEF LeasedPC, EndPC
<1>3. Near(Stored, Live, Budget) /\ Near(Stored, Live, Budget)'
  BY <1>0, <1>1, <1>2, NowNear, StillNear
<1>4. CASE /\ turn[t].pc \in {"hydrate", "reread"}
           /\ \E pc \in {"reread", "existing"} : turn' = [turn EXCEPT ![t].pc = pc]
  <2>1. PICK pc \in {"reread", "existing"} : turn' = [turn EXCEPT ![t].pc = pc]
    BY <1>4
  <2>2. /\ turn'[t].pc = pc /\ turn'[t].expired = turn[t].expired
        /\ turn'[t].count = turn[t].count
        /\ \A u \in Turn \ {t} : turn'[u] = turn[u]
    BY <1>0, <2>1 DEF TurnState
  <2>3. turn[t].expired = {} \/ Expires(t)
    BY <1>0, <1>4 DEF TurnOK, EarlyPC
  <2>4. Expires(t)'
    BY <1>1, <2>2, <2>3 DEF Expires, LiveTtl
  <2>5. turn'[t].count = acct'.count /\ acct'.key \in {NoTurn, t}
    BY <1>0, <1>1, <1>4, <2>2 DEF TurnOK, LeasedPC
  <2>6. TurnOK(t)'
    BY <1>1, <2>1, <2>2, <2>4, <2>5 DEF TurnOK, EarlyPC, LeasedPC
  <2> QED BY <1>1, <1>2, <1>3, <1>4, <2>1, <2>2, <2>6 DEF TurnCounts, LatePC
<1>5. CASE turn[t].pc = "existing" /\ turn' = [turn EXCEPT ![t] = SaveOnly(t, Decayed(t))]
  <2>1. PICK c : c = Decayed(t)
    OBVIOUS
  <2>2. Expires(t) /\ turn[t].count = acct.count
    BY <1>0, <1>5 DEF TurnOK
  <2>3. c = AtLeast0(acct.count - Cardinality(turn[t].expired))
    BY <1>0, <2>1, <2>2, DecayedFacts
  <2>4. c \in Nat /\ Near(c, Live, Budget + FailureWeight) /\ Near(Stored, c, FailureWeight)
    BY <1>0, <1>3, <2>2, <2>3, DecayedNear DEF Expires
  <2>5. Stored' = Stored /\ Live' = Live
    BY <1>1 DEF Stored, Live
  <2>6. Near(c, Live, Budget)' /\ Near(Stored', c, FailureWeight)
    BY <1>1, <2>4, <2>5 DEF Near
  <2>7. turn' = [turn EXCEPT ![t] = SaveOnly(t, c)]
    BY <1>5, <2>1
  <2> QED BY <1>0, <1>1, <1>3, <2>4, <2>6, <2>7, CountSaveOnly
<1>6. CASE turn[t].pc = "award" /\ turn' = [turn EXCEPT ![t] = Evaluated(t, "fail")]
  BY <1>1, <1>6, CountEvaluated
<1> QED BY <1>4, <1>5, <1>6 DEF HydrateFails

LEMMA CountDecayFails ==
  ASSUME Ordinary, CInv, JInv', NEW t \in Turn, DecayFails(t)
  PROVE  TurnCounts(t)
<1>0. TypeOK /\ TurnOK(t)
  BY DEF CInv, JInv
<1>1. PICK c : c = turn[t].count
  OBVIOUS
<1>2. /\ UNCHANGED <<manual, now>> /\ Fails /\ Budget' = Budget + FailureWeight
      /\ turn' = [turn EXCEPT ![t] = SaveOnly(t, c)]
      /\ turn[t].pc \in LeasedPC
      /\ (acct' = acct \/ (acct'.count = c /\ acct'.key = NoTurn))
  <2>1. UNCHANGED <<manual, now>> /\ lost' = lost + 1 /\ crashes' = crashes
    BY DEF DecayFails, Lose
  <2>2. Fails /\ Budget' = Budget + FailureWeight
    BY <1>0, <2>1, BudgetFacts DEF Fails
  <2>3. turn' = [turn EXCEPT ![t] = SaveOnly(t, c)] /\ turn[t].pc \in LeasedPC
    BY <1>1 DEF DecayFails, LeasedPC
  <2>4. acct' = acct \/ (acct'.count = c /\ acct'.key = NoTurn)
    BY <1>1 DEF DecayFails, Kept, WriteUnlocked, Write, Unlocked
  <2> QED BY <2>1, <2>2, <2>3, <2>4
<1>3. acct'.key \in {acct.key, NoTurn}
  BY <1>2
<1>4. Stored \in Nat /\ Live \in Nat /\ Budget \in Nat /\ FailureWeight \in Nat \ {0}
  BY <1>0, StoredType, LiveFacts, BudgetFacts, WeightType
<1>5. CASE turn[t].pc = "decay"
  <2>1. Expires(t) /\ c = AtLeast0(acct.count - Cardinality(turn[t].expired))
    BY <1>0, <1>1, <1>5 DEF TurnOK
  <2>2. Near(Stored, Live, Budget)
    BY <1>5, NowNear DEF EndPC
  <2>3. c \in Nat /\ Near(c, Live, Budget + FailureWeight) /\ Near(Stored, c, FailureWeight)
    BY <1>0, <2>1, <2>2, DecayedNear DEF Expires
  <2>4. ttl' = ttl /\ Live' = Live
    BY <1>5 DEF DecayFails, Live
  <2>5. Near(c, Live, Budget)'
    BY <1>2, <2>3, <2>4 DEF Near
  <2>6. CASE acct' = acct
    <3>1. Near(Stored, Live, Budget)'
      BY <1>0, <1>2, <2>2, <2>4, <2>6, StillNear
    <3>2. Near(Stored', c, FailureWeight)
      BY <2>3, <2>6 DEF Stored
    <3> QED BY <1>0, <1>2, <1>3, <2>3, <2>4, <2>5, <3>1, <3>2, CountSaveOnly
  <2>7. CASE acct'.count = c
    <3>1. Stored' = c
      BY <2>3, <2>7 DEF Stored, AtLeast0
    <3>2. Near(Stored, Live, Budget)'
      BY <2>5, <3>1 DEF Near
    <3>3. Near(Stored', c, FailureWeight)
      <4> DEFINE w == FailureWeight
      <4>1. c <= c + w
        <5>1. w \in Nat
          BY <1>4
        <5> HIDE DEF w
        <5> QED BY <2>3, <5>1
      <4> QED BY <3>1, <4>1 DEF Near
    <3> QED BY <1>0, <1>2, <1>3, <2>3, <2>4, <2>5, <3>2, <3>3, CountSaveOnly
  <2> QED BY <1>2, <2>6, <2>7
<1>6. CASE turn[t].pc = "delete"
  <2>1. /\ Expires(t) /\ c = acct.count /\ c \in Nat
        /\ Near(Stored, Live - Cardinality(turn[t].expired), Budget)
    BY <1>0, <1>1, <1>6 DEF TurnOK
  <2>2. PICK e \in turn[t].expired : ttl' \in {ttl, [ttl EXCEPT ![e] = 0]}
    BY <1>6 DEF DecayFails
  <2>3. acct' = acct
    BY <1>6 DEF DecayFails, Kept
  <2>4. Stored' = c /\ Stored = c
    BY <1>0, <2>1, <2>3, StoredType DEF Stored
  <2> DEFINE x == Cardinality(turn[t].expired)
             y == Cardinality(turn[t].expired \ {e})
  <2>5. x \in Nat /\ x <= FailureWeight
    BY <2>1, WeightType DEF Expires
  <2>6. y \in Nat /\ y <= FailureWeight
    <3>1. turn[t].expired \ {e} \in SUBSET Perishable
      BY <2>1 DEF Expires
    <3> QED BY <3>1, WeightType
  <2>7. Near(Stored, Live', Budget')
    <3>1. CASE ttl' = ttl
      <4>1. Live' = Live
        BY <3>1 DEF Live
      <4> HIDE DEF x
      <4>2. Near(Stored, Live - x, Budget)
        BY <2>1 DEF x
      <4>3. Near(Stored, Live, Budget')
        BY <1>0, <1>2, <1>4, <2>5, <4>2, CutNear
      <4> QED BY <4>1, <4>3
    <3>2. CASE ttl' = [ttl EXCEPT ![e] = 0]
      <4>1. Live' = Live - 1 /\ LiveTtl' = LiveTtl \ {e} /\ Near(Stored, Live' - y, Budget)
        BY <1>0, <1>4, <2>1, <3>2, DeletedNear
      <4>2. PICK l : l = Live'
        OBVIOUS
      <4>3. l \in Nat
        BY <4>2, NumbersNext DEF JInv
      <4> HIDE DEF y
      <4>4. Near(Stored, l, Budget')
        BY <1>0, <1>2, <1>4, <2>6, <4>1, <4>2, <4>3, CutNear
      <4> QED BY <4>2, <4>4
    <3> QED BY <2>2, <3>1, <3>2
  <2>8. Near(Stored, Live, Budget)' /\ Near(c, Live, Budget)'
    BY <2>4, <2>7 DEF Near
  <2>9. Near(Stored', c, FailureWeight)
    <3> DEFINE w == FailureWeight
    <3>1. c <= c + w
      <4>1. w \in Nat
        BY <1>4
      <4> HIDE DEF w
      <4> QED BY <2>1, <4>1
    <3> QED BY <2>4, <3>1 DEF Near
  <2>10. \A f \in Event : ttl'[f] # 0 => ttl'[f] = ttl[f]
    <3>1. ttl \in [Event -> Nat] /\ e \in Event
      BY <1>0, <2>1 DEF TypeOK, Expires, LiveTtl
    <3> QED BY <2>2, <3>1
  <2> QED BY <1>0, <1>2, <1>3, <2>1, <2>8, <2>9, <2>10, CountSaveOnly
<1> QED BY <1>5, <1>6 DEF DecayFails

LEMMA CountSaveFails ==
  ASSUME Ordinary, CInv, JInv', NEW t \in Turn, SaveFails(t)
  PROVE  TurnCounts(t)
<1>0. turn \in [Turn -> TurnState] /\ TypeOK /\ TypeOK' /\ TurnOK(t)
  BY DEF CInv, JInv, TypeOK
<1>1. PICK w : /\ Saving(t, w) /\ w \in {"acct", "ttl"}
               /\ turn' = [turn EXCEPT ![t].left = Saved(t, w), ![t].verdict = "fail"]
               /\ \/ UNCHANGED <<acct, ttl>>
                  \/ w = "acct" /\ acct' = SavedDoc(t) /\ ttl' = ttl
                  \/ w = "ttl" /\ acct' = acct /\ ttl' = [ttl EXCEPT ![EventOf[t]] = DueOf[t]]
  BY DEF SaveFails, Kept, Write
<1>2. UNCHANGED <<manual, now>> /\ Fails /\ Budget' = Budget + FailureWeight
  BY <1>0, BudgetFacts DEF SaveFails, Lose, Fails
<1>3. SavesOne(t, w)
  BY <1>0, <1>1, <1>2 DEF SavesOne, Saving, Saved, TurnState
<1> QED BY <1>0, <1>1, <1>2, <1>3, CountUnsaved, CountAcctSaved, CountTtlSaved

LEMMA CountLost ==
  ASSUME Ordinary, CInv, JInv', NEW t \in Turn, Lost(t)
  PROVE  TurnCounts(t)
<1>1. CASE CallFails(t)
  BY <1>1, CountGivesUp DEF CallFails, Lose, Fails, EndPC
<1>2. CASE WriteUnanswered(t)
  <2>1. /\ UNCHANGED <<ttl, manual, now>> /\ Fails
        /\ turn' = [turn EXCEPT ![t] = At("failed")] /\ "failed" \in EndPC
        /\ turn[t].pc \notin EndPC \cup {"idle", "delete", "save"}
    BY <1>2 DEF WriteUnanswered, Lose, Fails, EndPC
  <2>2. TypeOK
    BY DEF CInv, JInv
  <2>3. CASE turn[t].pc = "profile"
    <3>1. acct' = ProfileDoc(t)
      BY <1>2, <2>3 DEF WriteUnanswered, Write
    <3>2. Near(Stored, Live, Budget)'
      BY <2>1, <2>3, <3>1, ProfileNear
    <3> QED BY <2>1, <2>2, <3>2, CountEnd
  <2>4. CASE turn[t].pc # "profile"
    <3>1. acct'.count = acct.count
      BY <1>2, <2>2, <2>4 DEF WriteUnanswered, Kept, Write, Locked, TypeOK, Account
    <3> QED BY <2>1, <3>1, CountGivesUp
  <2> QED BY <2>3, <2>4
<1> QED BY <1>1, <1>2, CountHydrateFails, CountDecayFails, CountSaveFails DEF Lost

\* A turn is where it was when the count and the documents are.
LEMMA CountStill ==
  ASSUME TypeOK, NEW t \in Turn, TurnOK(t), UNCHANGED <<turn, ttl, lost, crashes>>,
         acct'.count = acct.count, acct'.key \in {acct.key, NoTurn}
  PROVE  TurnOK(t)'
<1>1. Stored' = Stored /\ Live' = Live /\ Budget' = Budget /\ LiveTtl' = LiveTtl
      /\ (Contributed(t)' <=> Contributed(t)) /\ Adds(t)' = Adds(t)
  BY DEF Stored, Live, Budget, LiveTtl, Contributed, Adds, FailureWeight, Perishable
<1>2. Bonus(t)' = Bonus(t) /\ Goal(t)' = Goal(t) /\ GoalLive(t)' = GoalLive(t)
  BY <1>1 DEF Bonus, Between, Goal, GoalLive
<1>3. Saves(t) => Saves(t)'
  BY <1>1, <1>2 DEF Saves, Near
<1>4. Expires(t) => Expires(t)'
  BY <1>1 DEF Expires
<1> QED BY <1>1, <1>3, <1>4 DEF TurnOK, Near

LEMMA CountBeside ==
  ASSUME Ordinary, CInv, JInv',
         (\E m \in Manual : ManualFetch(m) \/ ManualWrite(m)) \/ Tick \/ UNCHANGED vars
  PROVE  CInv'
<1>0. TypeOK /\ now \in Nat /\ MaxTime \in Nat /\ now <= MaxTime
  BY TurnAssumption DEF CInv, JInv, TypeOK
<1>1. UNCHANGED <<turn, ttl, lost, crashes>>
  BY DEF ManualFetch, ManualWrite, Tick, vars
<1>2. now' <= MaxTime
  BY <1>0 DEF ManualFetch, ManualWrite, Tick, vars
<1>3. /\ acct'.count = acct.count /\ acct'.key \in {acct.key, NoTurn}
      /\ \A m \in Manual : manual'[m].pc = "write" => manual'[m].count = acct.count
  <2>1. ASSUME NEW m \in Manual, ManualFetch(m)
        PROVE  /\ acct'.count = acct.count /\ acct'.key \in {acct.key, NoTurn}
               /\ \A n \in Manual : manual'[n].pc = "write" => manual'[n].count = acct.count
    BY <1>0, <2>1 DEF ManualFetch, CInv, TypeOK, IdleManual
  <2>2. ASSUME NEW m \in Manual, ManualWrite(m)
        PROVE  /\ acct'.count = acct.count /\ acct'.key \in {acct.key, NoTurn}
               /\ \A n \in Manual : manual'[n].pc = "write" => manual'[n].count = acct.count
    <3>1. acct'.count = manual[m].count /\ acct'.key = NoTurn /\ manual[m].count = acct.count
      BY <2>2 DEF ManualWrite, WriteUnlocked, Write, Unlocked, CInv
    <3>2. \A n \in Manual : manual'[n].pc = "write" => manual'[n].count = acct.count
      BY <1>0, <2>2 DEF ManualWrite, CInv, TypeOK, IdleManual
    <3> QED BY <3>1, <3>2
  <2>3. CASE Tick \/ UNCHANGED vars
    BY <2>3 DEF Tick, vars, CInv
  <2> QED BY <2>1, <2>2, <2>3
<1>4. Stored' = Stored /\ Live' = Live /\ Budget' = Budget /\ LiveTtl' = LiveTtl
  BY <1>1, <1>3 DEF Stored, Live, Budget, LiveTtl, FailureWeight, Perishable
<1>5. TtlOK'
  BY <1>1, <1>4 DEF CInv, TtlOK
<1>6. (\A t \in Turn : turn'[t].pc \notin {"delete", "save"}) => Near(Stored, Live, Budget)'
  BY <1>1, <1>4 DEF CInv, Near
<1>7. \A t \in Turn : TurnOK(t)'
  BY <1>0, <1>1, <1>3, CountStill DEF CInv
<1> QED BY <1>2, <1>3, <1>5, <1>6, <1>7 DEF CInv

LEMMA CountNext == Ordinary /\ CInv /\ [Next]_vars => CInv'
<1> SUFFICES ASSUME Ordinary, CInv, [Next]_vars PROVE CInv'
  OBVIOUS
<1>1. JInv'
  BY OrderNext DEF Ordinary, CInv
<1>2. ASSUME NEW t \in Turn, Step(t) \/ Lost(t) \/ Crash(t) PROVE CInv'
  <2>1. TurnCounts(t)
    BY <1>1, <1>2, CountBefore, CountLock, CountHydrate, CountSave, CountLost, CountCrash DEF Step
  <2> QED BY <1>1, <2>1, CountFrame
<1>3. ASSUME (\E m \in Manual : ManualFetch(m) \/ ManualWrite(m)) \/ Tick \/ UNCHANGED vars
      PROVE  CInv'
  BY <1>1, <1>3, CountBeside
<1> QED BY <1>2, <1>3 DEF Next

LEMMA StartCount == Init => CInv
<1> SUFFICES ASSUME Init PROVE CInv
  OBVIOUS
<1>1. JInv
  BY OrderInit
<1>2. now <= MaxTime /\ (\A m \in Manual : manual[m].pc = "idle")
  BY TurnAssumption DEF Init, IdleManual
<1>3. LiveTtl = {} /\ Live = 0
  <2>1. LiveTtl = {}
    BY DEF Init, LiveTtl
  <2> QED BY <2>1, FS_EmptySet DEF Live, LiveTtl
<1>4. Stored = 0
  BY DEF Init, NewAccount, Stored, AtLeast0, NoState
<1>5. Near(Stored, Live, Budget)
  BY <1>1, <1>3, <1>4, BudgetFacts DEF Near, JInv
<1>6. \A t \in Turn : turn[t].pc = "idle" /\ turn[t].expired = {}
  BY DEF Init, IdleTurn
<1>7. \A t \in Turn : TurnOK(t)
  BY <1>6 DEF TurnOK, EarlyPC, LeasedPC
<1> QED BY <1>1, <1>2, <1>3, <1>5, <1>7 DEF CInv, TtlOK

LEMMA CountImplies == Ordinary /\ CInv => CountBounded
<1> SUFFICES ASSUME Ordinary, CInv PROVE CountBounded
  OBVIOUS
<1> DEFINE Btw == {t \in Turn : Between(t)}
           Und == UNION {Undeleted(t) : t \in Turn}
           s == Stored
           l == Live
           b == Budget
           i == Cardinality(Btw)
           j == Cardinality(Und)
<1>1. TypeOK
  BY DEF CInv, JInv
<1>2. s \in Nat /\ l \in Nat /\ b \in Nat
  BY <1>1, StoredType, LiveFacts, BudgetFacts
<1>3. IsFiniteSet(Btw) /\ i \in Nat
  <2>1. Btw \subseteq Turn
    OBVIOUS
  <2> HIDE DEF Btw
  <2> QED BY <2>1, TurnAssumption, FS_Subset, FS_CardinalityType
<1>4. IsFiniteSet(Und) /\ j \in Nat
  <2>1. Und \subseteq Event
    BY <1>1 DEF Undeleted, TypeOK, TurnState
  <2> HIDE DEF Und
  <2> QED BY <2>1, TurnAssumption, FS_Subset, FS_CardinalityType
<1>5. Near(s, l, b + i + j)
  <2>1. CASE \A t \in Turn : turn[t].pc \notin {"delete", "save"}
    <3>1. Near(s, l, b)
      BY <2>1 DEF CInv
    <3> HIDE DEF s, l, b, i, j
    <3> QED BY <1>2, <1>3, <1>4, <3>1 DEF Near
  <2>2. ASSUME NEW t \in Turn, turn[t].pc = "save" PROVE Near(s, l, b + i + j)
    <3>1. Near(s, l, b + Bonus(t))
      BY <2>2 DEF CInv, TurnOK, Saves
    <3>2. Bonus(t) \in {0, 1} /\ (Bonus(t) = 1 => t \in Btw)
      BY DEF Bonus
    <3>3. Bonus(t) <= i
      <4>1. t \in Btw => i # 0
        BY <1>3, FS_EmptySet
      <4> HIDE DEF i, Btw
      <4> QED BY <1>3, <3>2, <4>1
    <3> HIDE DEF s, l, b, i, j
    <3> QED BY <1>2, <1>3, <1>4, <3>1, <3>2, <3>3 DEF Near
  <2>3. ASSUME NEW t \in Turn, turn[t].pc = "delete" PROVE Near(s, l, b + i + j)
    <3> DEFINE x == Cardinality(turn[t].expired)
    <3>1. Near(s, l - x, b)
      BY <2>3 DEF CInv, TurnOK
    <3>2. turn[t].expired \subseteq Und
      BY <2>3 DEF Undeleted
    <3>3. x \in Nat /\ x <= j
      <4>1. IsFiniteSet(turn[t].expired) /\ x <= j
        BY <1>4, <3>2, FS_Subset
      <4> QED BY <4>1, FS_CardinalityType
    <3> HIDE DEF s, l, b, i, j, x
    <3> QED BY <1>2, <1>3, <1>4, <3>1, <3>3 DEF Near
  <2> QED BY <2>1, <2>2, <2>3
<1>6. Drift = IF s > l THEN s - l ELSE l - s
  BY DEF Drift, Stored
<1>7. Drift <= b + i + j
  <2> HIDE DEF s, l, b, i, j
  <2> QED BY <1>2, <1>3, <1>4, <1>5, <1>6 DEF Near
<1> QED BY <1>7 DEF CountBounded, Budget

(***************************************************************************)
(* The count of the rule and the TTL documents that will take it back stay *)
(* within what the crashes and lost calls, a turn between its two final    *)
(* writes and the documents about to be deleted explain, when the calls    *)
(* come one after the other: whatever expires, is reprocessed, resettled   *)
(* or moved by an operator between them, HydrateState and the finally      *)
(* blocks lose no contribution and count none twice.                       *)
(***************************************************************************)
THEOREM CountCorrect ==
  ASSUME Ordinary
  PROVE  Spec => []CountBounded
<1>1. Init => CInv
  BY StartCount
<1>2. CInv /\ [Next]_vars => CInv'
  BY CountNext
<1>3. CInv => CountBounded
  BY CountImplies
<1> QED BY <1>1, <1>2, <1>3, PTL DEF Spec

-----------------------------------------------------------------------------
(* The count of turns that overlap.                                        *)

\* Requests of the same event come one after the other.
Apart ==
  \A t, u \in Turn \ Resettling :
    t # u /\ EventOf[t] = EventOf[u] => t \in After[u] \/ u \in After[t]

\* The account is saved and the TTL document, which is new, is not.
Owed ==
  {t \in Turn \ Resettling :
     turn[t].pc = "save" /\ turn[t].left = {"ttl"} /\ ttl[EventOf[t]] = 0}

\* The documents there will be.
Expected == Live + Cardinality(Owed)

\* The TTL document is saved, or will not be, and the account is not saved.
Written(t) == Between(t) /\ "acct" \in turn[t].left

\* About to save the account.
Shares(t) ==
  /\ turn[t].count \in Nat
  /\ Near(turn[t].count, IF "ttl" \in turn[t].left THEN Expected + Adds(t) ELSE Expected, Budget)
  /\ Near(Stored, turn[t].count, 1)
  /\ Written(t) => Near(Stored, Expected, Budget + 1)

ShareOK(t) ==
  /\ turn[t].pc = "locking" /\ t \in fresh => turn[t].count = acct.count
  /\ turn[t].pc \in {"hydrate", "reread", "existing"} => turn[t].count = acct.count
  /\ turn[t].pc = "award" => turn[t].count = Stored /\ (turn[t].known <=> Contributed(t))
  /\ turn[t].pc = "save" /\ "ttl" \in turn[t].left => t \notin Resettling
  /\ turn[t].pc = "save" /\ "acct" \in turn[t].left => Shares(t)

ShareInv ==
  /\ LInv
  /\ \A c \in Turn : turn[c].pc # "idle" => MayStart(c)
  /\ \A t \in Turn : ShareOK(t)
  /\ (\A t \in Turn : ~ Written(t)) => Near(Stored, Expected, Budget)

Shifted ==
  \/ Budget' = Budget /\ Expected' = Expected
  \/ Budget' = Budget + 1 /\ Expected' \in {Expected - 1, Expected}

\* What a step of a turn does to the count and the documents.
ShareMoves(t) ==
  /\ TurnMoves(t) /\ UNCHANGED manual
  /\ ShareOK(t)'
  /\ acct'.count = acct.count \/ (fresh' = {} /\ Leased(turn[t]))
  /\ fresh' \subseteq fresh \cup {t}
  /\ \A e \in Event :
       \/ ttl'[e] = ttl[e]
       \/ t \notin Resettling /\ EventOf[t] = e /\ turn[t].pc = "save"
  /\ Leased(turn[t]) => Written(t)' \/ Near(Stored, Expected, Budget)'
  /\ ~ Leased(turn[t]) => Shifted

LEMMA WeightOne == Quiet => FailureWeight = 1
<1> SUFFICES ASSUME Quiet PROVE Perishable = {}
  BY DEF FailureWeight
<1>1. ASSUME NEW t \in Turn PROVE ~ (DueOf[t] < MaxTime)
  <2>1. DueOf[t] >= MaxTime /\ DueOf[t] \in Nat /\ MaxTime \in Nat
    BY TurnAssumption DEF Quiet
  <2> QED BY <2>1
<1> QED BY <1>1 DEF Perishable

\* Two turns of one event are not under way at once.
LEMMA EventsApart ==
  ASSUME Apart, ShareInv, NEW t \in Turn \ Resettling, NEW u \in Turn \ Resettling, t # u,
         turn[t].pc \notin EndPC \cup {"idle"}, turn[u].pc \notin EndPC \cup {"idle"}
  PROVE  EventOf[t] # EventOf[u]
<1>1. ~ CallEnded(t) /\ ~ CallEnded(u) /\ MayStart(t) /\ MayStart(u)
  BY DEF CallEnded, ShareInv
<1> QED BY <1>1 DEF Apart, MayStart

LEMMA OwedType ==
  ASSUME TypeOK
  PROVE  /\ IsFiniteSet(Owed) /\ Cardinality(Owed) \in Nat
         /\ Live \in Nat /\ Expected \in Nat
<1>1. Owed \subseteq Turn
  BY DEF Owed
<1>2. IsFiniteSet(Owed) /\ Cardinality(Owed) \in Nat
  BY <1>1, TurnAssumption, FS_Subset, FS_CardinalityType
<1>3. Live \in Nat
  BY LiveFacts
<1> QED BY <1>2, <1>3 DEF Expected

LEMMA OwedTypeNext ==
  TypeOK' => (IsFiniteSet(Owed) /\ Cardinality(Owed) \in Nat /\ Live \in Nat /\ Expected \in Nat)'
<1>1. TypeOK => IsFiniteSet(Owed) /\ Cardinality(Owed) \in Nat /\ Live \in Nat /\ Expected \in Nat
  BY OwedType
<1> QED BY <1>1, PTL

\* A step of t lets the others owe what they owed.
LEMMA OwedMoves ==
  ASSUME Apart, ShareInv, TypeOK', NEW t \in Turn,
         \A u \in Turn \ {t} : turn'[u] = turn[u],
         \A e \in Event :
           \/ ttl'[e] = ttl[e]
           \/ t \notin Resettling /\ EventOf[t] = e /\ turn[t].pc = "save"
  PROVE  /\ \A u \in Turn \ Resettling :
              u # t /\ turn[u].pc \notin EndPC \cup {"idle"} => ttl'[EventOf[u]] = ttl[EventOf[u]]
         /\ (t \in Owed <=> t \in Owed') => Cardinality(Owed') = Cardinality(Owed)
         /\ t \in Owed /\ t \notin Owed' => Cardinality(Owed') = Cardinality(Owed) - 1
         /\ t \notin Owed /\ t \in Owed' => Cardinality(Owed') = Cardinality(Owed) + 1
<1>1. ASSUME NEW u \in Turn \ Resettling, u # t, turn[u].pc \notin EndPC \cup {"idle"}
      PROVE  ttl'[EventOf[u]] = ttl[EventOf[u]]
  <2>1. EventOf[u] \in Event
    BY TurnAssumption
  <2>2. t \notin Resettling /\ turn[t].pc = "save" => EventOf[t] # EventOf[u]
    BY <1>1, EventsApart DEF EndPC
  <2> QED BY <2>1, <2>2
<1>2. \A u \in Turn \ {t} : u \in Owed <=> u \in Owed'
  BY <1>1 DEF Owed, EndPC
<1>3. Owed \subseteq Turn /\ Owed' \subseteq Turn
  BY DEF Owed
<1>4. IsFiniteSet(Owed) /\ IsFiniteSet(Owed') /\ Cardinality(Owed) \in Nat /\ Cardinality(Owed') \in Nat
  BY OwedType, OwedTypeNext DEF ShareInv, LInv
<1>5. (t \in Owed <=> t \in Owed') => Owed' = Owed
  BY <1>2, <1>3
<1>6. t \in Owed /\ t \notin Owed' => Owed' = Owed \ {t}
  BY <1>2, <1>3
<1>7. t \notin Owed /\ t \in Owed' => Owed' = Owed \cup {t}
  BY <1>2, <1>3
<1> QED BY <1>1, <1>4, <1>5, <1>6, <1>7, FS_RemoveElement, FS_AddElement

\* One thing less that is awaited, or nothing, and a failure to explain it.
LEMMA ShiftedNear ==
  ASSUME TypeOK, Budget' = Budget \/ Budget' = Budget + 1, Shifted,
         NEW x \in Nat, NEW a \in {0, 1}
  PROVE  /\ Near(x, Expected + a, Budget) => Near(x, Expected' + a, Budget')
         /\ Near(x, Expected + a, Budget + 1) => Near(x, Expected' + a, Budget' + 1)
<1> DEFINE b == Budget
           c == Budget'
           d == Expected
           e == Expected'
<1>1. b \in Nat /\ d \in Nat
  BY BudgetFacts, OwedType
<1>2. (c = b /\ e = d) \/ (c = b + 1 /\ e \in {d - 1, d})
  BY DEF Shifted
<1> HIDE DEF b, c, d, e
<1>3. Near(x, d + a, b) => Near(x, e + a, c)
  BY <1>1, <1>2 DEF Near
<1>4. Near(x, d + a, b + 1) => Near(x, e + a, c + 1)
  BY <1>1, <1>2 DEF Near
<1> QED BY <1>3, <1>4 DEF b, c, d, e

LEMMA NoAdds ==
  ASSUME TypeOK
  PROVE  Expected + 0 = Expected
<1>1. Expected \in Nat
  BY OwedType
<1> QED BY <1>1

LEMMA NoAddsNext == TypeOK' => (Expected + 0 = Expected)'
BY NoAdds, PTL

LEMMA ShareShifts ==
  ASSUME TypeOK, TypeOK', NEW u \in Turn, ShareOK(u), turn'[u] = turn[u],
         turn[u].pc = "save", "acct" \in turn[u].left,
         acct'.count = acct.count, Shifted,
         "ttl" \in turn[u].left => Adds(u)' = Adds(u)
  PROVE  Shares(u)'
<1>1. Shares(u) /\ turn[u].count \in Nat /\ Stored \in Nat
  BY StoredType DEF ShareOK, Shares
<1>2. Stored' = Stored
  BY DEF Stored
<1>3. Budget' = Budget \/ Budget' = Budget + 1
  BY DEF Shifted
<1>4. Written(u)' <=> Written(u)
  BY DEF Written, Between
<1>5. Adds(u) \in {0, 1}
  BY DEF Adds
<1>6. Written(u) => Near(Stored, Expected' , Budget' + 1)
  <2> SUFFICES ASSUME Written(u) PROVE Near(Stored, Expected', Budget' + 1)
    OBVIOUS
  <2>1. Near(Stored, Expected + 0, Budget + 1)
    BY <1>1, NoAdds DEF Shares
  <2>2. Near(Stored, Expected' + 0, Budget' + 1)
    BY <1>1, <1>3, <2>1, ShiftedNear
  <2> QED BY <2>2, NoAddsNext
<1>7. CASE "ttl" \in turn[u].left
  <2>1. Near(turn[u].count, Expected + Adds(u), Budget)
    BY <1>1, <1>7 DEF Shares
  <2>2. PICK a : a = Adds(u)
    OBVIOUS
  <2>3. Near(turn[u].count, Expected' + a, Budget')
    BY <1>1, <1>3, <1>5, <2>1, <2>2, ShiftedNear
  <2>4. Near(turn[u].count, Expected + Adds(u), Budget)'
    BY <1>7, <2>2, <2>3 DEF Near
  <2> QED BY <1>1, <1>2, <1>4, <1>6, <1>7, <2>4 DEF Shares, Near
<1>8. CASE "ttl" \notin turn[u].left
  <2>1. Near(turn[u].count, Expected + 0, Budget)
    BY <1>1, <1>8, NoAdds DEF Shares
  <2>2. Near(turn[u].count, Expected' + 0, Budget')
    BY <1>1, <1>3, <2>1, ShiftedNear
  <2>3. Near(turn[u].count, Expected, Budget)'
    BY <2>2, NoAddsNext DEF Near
  <2> QED BY <1>1, <1>2, <1>4, <1>6, <1>8, <2>3 DEF Shares, Near
<1> QED BY <1>7, <1>8

\* The step of a turn keeps ShareInv, if it leaves the turn as it should be.
LEMMA ShareFrame ==
  ASSUME Apart, ShareInv, LInv', NEW t \in Turn, ShareMoves(t)
  PROVE  ShareInv'
<1>0. TypeOK /\ TypeOK'
  BY DEF ShareInv, LInv
<1>1. /\ \A u \in Turn \ {t} : turn'[u] = turn[u]
      /\ turn[t].pc \notin EndPC /\ turn'[t].pc # "idle"
      /\ turn[t].pc = "idle" => MayStart(t)
  BY DEF ShareMoves, TurnMoves
<1>2. ASSUME NEW c \in Turn, turn'[c].pc # "idle" PROVE MayStart(c)'
  <2>1. MayStart(c)
    BY <1>1, <1>2 DEF ShareInv
  <2>2. \A d \in After[c] : CallEnded(d) => CallEnded(d)'
    <3> SUFFICES ASSUME NEW d \in After[c], CallEnded(d) PROVE CallEnded(d)'
      OBVIOUS
    <3>1. CASE d \in Turn
      BY <1>1, <3>1 DEF CallEnded
    <3>2. CASE d \notin Turn
      <4>1. UNCHANGED manual
        BY DEF ShareMoves
      <4> QED BY <3>2, <4>1 DEF CallEnded
    <3> QED BY <3>1, <3>2
  <2> QED BY <2>1, <2>2 DEF MayStart
<1>3. \A u \in Turn \ Resettling :
        u # t /\ turn[u].pc \notin EndPC \cup {"idle"} => ttl'[EventOf[u]] = ttl[EventOf[u]]
  BY <1>0, <1>1, OwedMoves DEF ShareMoves
<1>4. ASSUME NEW u \in Turn, u # t PROVE ShareOK(u)'
  <2>1. turn'[u] = turn[u] /\ ShareOK(u)
    BY <1>1, <1>4 DEF ShareInv
  <2>2. turn[u].pc \in LeasedPC => turn[u].pc \notin EndPC \cup {"idle"}
    BY DEF LeasedPC, EndPC
  <2>3. ASSUME turn[u].pc = "locking", u \in fresh' PROVE turn[u].count = acct'.count
    BY <1>4, <2>1, <2>3 DEF ShareMoves, ShareOK
  <2>4. ASSUME Leased(turn[u])
        PROVE  acct'.count = acct.count /\ Shifted
    <3>1. ~ Leased(turn[t])
      BY <1>4, <2>4, OneHolder DEF ShareInv
    <3> QED BY <3>1 DEF ShareMoves
  <2>5. ASSUME turn[u].pc \in {"hydrate", "reread", "existing"}
        PROVE  turn[u].count = acct'.count
    BY <2>1, <2>4, <2>5 DEF ShareOK, Leased, LeasedPC
  <2>6. ASSUME turn[u].pc = "award"
        PROVE  turn[u].count = Stored' /\ (turn[u].known <=> Contributed(u)')
    <3>1. acct'.count = acct.count /\ turn[u].count = Stored /\ (turn[u].known <=> Contributed(u))
      BY <2>1, <2>4, <2>6 DEF ShareOK, Leased, LeasedPC
    <3>2. Contributed(u)' <=> Contributed(u)
      BY <1>3, <1>4, <2>6 DEF Contributed, EndPC
    <3> QED BY <3>1, <3>2 DEF Stored
  <2>7. ASSUME turn[u].pc = "save", "acct" \in turn[u].left PROVE Shares(u)'
    <3>1. acct'.count = acct.count /\ Shifted
      BY <2>4, <2>7 DEF Leased, LeasedPC
    <3>2. "ttl" \in turn[u].left => Adds(u)' = Adds(u)
      BY <1>3, <1>4, <2>1, <2>7 DEF ShareOK, Adds, EndPC
    <3> QED BY <1>0, <2>1, <2>7, <3>1, <3>2, ShareShifts
  <2> QED BY <2>1, <2>3, <2>5, <2>6, <2>7 DEF ShareOK
<1>5. ASSUME \A u \in Turn : ~ Written(u)' PROVE Near(Stored, Expected, Budget)'
  <2>1. CASE Leased(turn[t])
    BY <1>5, <2>1 DEF ShareMoves
  <2>2. CASE ~ Leased(turn[t])
    <3>1. Shifted /\ acct'.count = acct.count
      BY <2>2 DEF ShareMoves
    <3>2. \A u \in Turn : ~ Written(u)
      <4>1. ~ Written(t)
        BY <2>2 DEF Written, Between, Leased, LeasedPC
      <4> QED BY <1>1, <1>5, <4>1 DEF Written, Between
    <3>3. Near(Stored, Expected + 0, Budget) /\ Stored \in Nat
      BY <1>0, <3>2, NoAdds, StoredType DEF ShareInv
    <3>4. Near(Stored, Expected' + 0, Budget')
      BY <1>0, <3>1, <3>3, ShiftedNear DEF Shifted
    <3>5. Stored' = Stored
      BY <3>1 DEF Stored
    <3> QED BY <1>0, <3>4, <3>5, NoAddsNext DEF Near
  <2> QED BY <2>1, <2>2
<1>6. ShareOK(t)'
  BY DEF ShareMoves
<1> QED BY <1>2, <1>4, <1>5, <1>6 DEF ShareInv

LEMMA QuietBudget ==
  ASSUME Quiet, TypeOK, Fails
  PROVE  /\ Budget \in Nat
         /\ Budget' \in {Budget, Budget + 1}
         /\ UNCHANGED <<lost, crashes>> => Budget' = Budget
         /\ lost' = lost + 1 /\ crashes' = crashes => Budget' = Budget + 1
         /\ crashes' = crashes + 1 /\ lost' = lost => Budget' = Budget + 1
BY FailsBudget, WeightOne

\* While a turn has the lease, nobody else has a document without its count.
LEMMA HolderNear ==
  ASSUME ShareInv, NEW t \in Turn, Leased(turn[t]), ~ Written(t)
  PROVE  Near(Stored, Expected, Budget)
<1>1. \A u \in Turn : ~ Written(u)
  <2>1. \A u \in Turn \ {t} : ~ Leased(turn[u])
    BY OneHolder DEF ShareInv
  <2> QED BY <2>1 DEF Written, Between, Leased, LeasedPC
<1> QED BY <1>1 DEF ShareInv

\* A step that neither counts nor stores a document.
LEMMA SharePlain ==
  ASSUME Quiet, Apart, ShareInv, LInv', NEW t \in Turn,
         TurnMoves(t), ShareOK(t)', UNCHANGED <<manual, ttl>>, acct'.count = acct.count,
         fresh' \subseteq fresh \cup {t}, Fails,
         t \notin Owed, t \notin Owed', ~ Written(t)
  PROVE  ShareMoves(t)
<1>0. TypeOK /\ TypeOK'
  BY DEF ShareInv, LInv
<1>1. Cardinality(Owed') = Cardinality(Owed)
  BY <1>0, OwedMoves DEF TurnMoves
<1>2. Expected' = Expected
  BY <1>1 DEF Expected, Live
<1>3. Budget' = Budget \/ Budget' = Budget + 1
  BY <1>0, QuietBudget
<1>4. Shifted
  BY <1>2, <1>3 DEF Shifted
<1>5. ASSUME Leased(turn[t]) PROVE Near(Stored, Expected, Budget)'
  <2>1. Near(Stored, Expected + 0, Budget) /\ Stored \in Nat
    BY <1>0, <1>5, HolderNear, NoAdds, StoredType
  <2>2. Near(Stored, Expected' + 0, Budget')
    BY <1>0, <1>3, <1>4, <2>1, ShiftedNear
  <2>3. Stored' = Stored
    BY DEF Stored
  <2> QED BY <1>0, <2>2, <2>3, NoAddsNext DEF Near
<1> QED BY <1>4, <1>5 DEF ShareMoves

LEMMA SharePasses ==
  ASSUME Quiet, Apart, ShareInv, LInv', NEW t \in Turn,
         TurnMoves(t), UNCHANGED <<manual, ttl>>, acct'.count = acct.count,
         fresh' \subseteq fresh \cup {t}, Fails,
         turn[t].pc # "save", turn'[t].pc \notin LeasedPC \cup {"locking"}
  PROVE  ShareMoves(t)
<1>1. t \notin Owed /\ t \notin Owed' /\ ~ Written(t)
  BY DEF Owed, Written, Between, LeasedPC
<1>2. ShareOK(t)'
  BY DEF ShareOK, LeasedPC
<1> QED BY <1>1, <1>2, SharePlain

\* A turn that ends before its final writes.
LEMMA ShareGivesUp ==
  ASSUME Quiet, Apart, ShareInv, LInv', NEW t \in Turn, NEW pc \in EndPC \cup {"post"},
         turn' = [turn EXCEPT ![t] = At(pc)], TurnMoves(t),
         UNCHANGED <<manual, ttl>>, acct'.count = acct.count,
         fresh' \subseteq fresh \cup {t}, Fails, turn[t].pc # "save"
  PROVE  ShareMoves(t)
<1>1. turn'[t].pc \notin LeasedPC \cup {"locking"}
  BY DEF ShareInv, LInv, TypeOK, At, IdleTurn, LeasedPC, EndPC
<1> QED BY <1>1, SharePasses

LEMMA ShareBefore ==
  ASSUME Quiet, Apart, ShareInv, LInv', NEW t \in Turn,
         Load(t) \/ ResettleFetch(t) \/ ProfileFetch(t) \/ ProfileWrite(t)
           \/ ReadWrapper(t) \/ PreSave(t)
  PROVE  ShareMoves(t)
<1>0. turn \in [Turn -> TurnState] /\ TypeOK
  BY DEF ShareInv, LInv, TypeOK
<1>1. TurnMoves(t)
  BY <1>0, BeforeMoves
<1>2. turn[t].pc # "profile"
  BY DEF ShareInv, LInv, TurnLeaseOK
<1>3. ~ ProfileFetch(t) /\ ~ ProfileWrite(t)
  BY <1>2 DEF Quiet, ProfileFetch, ProfileWrite
<1>4. /\ UNCHANGED <<acct, fresh, ttl, manual, lost, crashes>>
      /\ turn[t].pc # "save"
  BY <1>3 DEF Load, ResettleFetch, ReadWrapper, PreSave
<1>5. turn'[t].pc \in {"wrap", "lock", "presave", "stale"}
  <2>1. CASE Load(t) \/ ResettleFetch(t)
    BY <1>0, <2>1 DEF Load, ResettleFetch, Loaded, IdleTurn
  <2>2. CASE ReadWrapper(t) \/ PreSave(t)
    BY <1>0, <2>2 DEF ReadWrapper, PreSave, TurnState, At, IdleTurn
  <2> QED BY <1>3, <2>1, <2>2
<1> QED BY <1>1, <1>4, <1>5, SharePasses DEF Fails, LeasedPC

LEMMA ShareLock ==
  ASSUME Quiet, Apart, ShareInv, LInv', NEW t \in Turn,
         LockFetch(t) \/ LockRefused(t) \/ LockWrite(t) \/ LockConflict(t)
  PROVE  ShareMoves(t)
<1>0. turn \in [Turn -> TurnState] /\ TypeOK /\ ShareOK(t)
  BY DEF ShareInv, LInv, TypeOK
<1>1. TurnMoves(t)
  BY <1>0, LockMoves
<1>2. UNCHANGED <<ttl, manual, lost, crashes>> /\ turn[t].pc # "save"
  BY DEF LockFetch, LockRefused, LockWrite, LockConflict
<1>3. CASE LockFetch(t)
  <2>1. /\ turn'[t].pc = "locking" /\ turn'[t].count = acct.count
        /\ acct' = acct /\ fresh' = fresh \cup {t}
    BY <1>0, <1>3 DEF LockFetch, TurnState
  <2>2. ShareOK(t)'
    BY <2>1 DEF ShareOK
  <2>3. t \notin Owed /\ t \notin Owed' /\ ~ Written(t)
    BY <1>2, <2>1 DEF Owed, Written, Between
  <2> QED BY <1>1, <1>2, <2>1, <2>2, <2>3, SharePlain DEF Fails
<1>4. CASE LockRefused(t) \/ LockConflict(t)
  <2>1. UNCHANGED <<acct, fresh>>
    BY <1>4 DEF LockRefused, LockConflict
  <2>2. turn'[t].pc \in {"lock", "failed"}
    BY <1>0, <1>4 DEF LockRefused, LockConflict, TurnState, At, IdleTurn
  <2> QED BY <1>1, <1>2, <2>1, <2>2, SharePasses DEF Fails, LeasedPC
<1>5. CASE LockWrite(t)
  <2>1. /\ turn[t].pc = "locking" /\ t \in fresh /\ fresh' = {}
        /\ acct' = Locked(t)
        /\ turn' = [turn EXCEPT ![t].pc = "hydrate", ![t].attempts = 0]
    BY <1>5 DEF LockWrite, LockAccepted, Write
  <2>2. acct'.count = acct.count
    BY <1>0, <2>1 DEF Locked, TypeOK, Account
  <2>3. turn'[t].pc = "hydrate" /\ turn'[t].count = turn[t].count
    BY <1>0, <2>1 DEF TurnState
  <2>4. ShareOK(t)'
    BY <1>0, <2>1, <2>2, <2>3 DEF ShareOK
  <2>5. t \notin Owed /\ t \notin Owed' /\ ~ Written(t)
    BY <2>1, <2>3 DEF Owed, Written, Between
  <2> QED BY <1>1, <1>2, <2>1, <2>2, <2>4, <2>5, SharePlain DEF Fails
<1> QED BY <1>3, <1>4, <1>5

LEMMA ExpectedSame ==
  ASSUME Apart, ShareInv, LInv', NEW t \in Turn, TurnMoves(t), ttl' = ttl,
         t \in Owed <=> t \in Owed'
  PROVE  Expected' = Expected
<1>1. TypeOK /\ TypeOK'
  BY DEF ShareInv, LInv
<1>2. Cardinality(Owed') = Cardinality(Owed)
  BY <1>1, OwedMoves DEF TurnMoves
<1> QED BY <1>2 DEF Expected, Live

\* A turn that has evaluated its rules, or failed to.
LEMMA ShareEvaluated ==
  ASSUME Quiet, Apart, ShareInv, LInv', NEW t \in Turn, TurnMoves(t),
         NEW v, turn[t].pc = "award", turn' = [turn EXCEPT ![t] = Evaluated(t, v)],
         UNCHANGED <<acct, fresh, ttl, manual>>, Fails
  PROVE  ShareMoves(t)
<1> DEFINE r == Evaluated(t, v)
<1>0. TypeOK /\ TypeOK' /\ ShareOK(t)
  BY DEF ShareInv, LInv
<1>1. r.pc = "save" /\ r.count = Counted(t) /\ r.left = FinalWrites(t)
  BY <1>0 DEF TypeOK, TurnState, Evaluated
<1>2. turn'[t] = r
  BY <1>0 DEF TypeOK
<1> HIDE DEF r
<1>3. turn[t].count = Stored /\ (turn[t].known <=> Contributed(t))
  BY <1>0 DEF ShareOK
<1>4. PICK c : c = Counted(t)
  OBVIOUS
<1>5. /\ c \in {Stored, Stored + 1}
      /\ "ttl" \in FinalWrites(t) <=> t \notin Resettling
      /\ "acct" \in FinalWrites(t)
      /\ t \in Resettling => c = Stored
      /\ t \notin Resettling => c = Stored + Adds(t)
  BY <1>0, <1>3, <1>4, CountedOnce
<1>6. t \notin Owed /\ t \notin Owed' /\ ~ Written(t)
  BY <1>1, <1>2, <1>5 DEF Owed, Written, Between
<1>7. Expected' = Expected /\ Stored' = Stored /\ Adds(t)' = Adds(t)
  BY <1>6, ExpectedSame DEF Stored, Adds
<1>8. Near(Stored, Expected, Budget)
  BY <1>6, HolderNear DEF Leased, LeasedPC
<1>9. ~ Written(t)'
  <2>1. CASE t \in Resettling
    BY <2>1 DEF Written, Between
  <2>2. CASE t \notin Resettling
    <3>1. turn'[t].left = {"acct", "ttl"}
      BY <1>1, <1>2, <2>2 DEF FinalWrites
    <3>2. Bonus(t)' = 0
      BY <1>0, <3>1, BonusNext DEF BonusIs
    <3> QED BY <3>2 DEF Bonus, Written
  <2> QED BY <2>1, <2>2
<1> DEFINE s == Stored
           d == Expected
           b == Budget
           k == Budget'
           a == Adds(t)
<1>10. s \in Nat /\ d \in Nat /\ a \in {0, 1} /\ b \in Nat /\ k \in {b, b + 1}
  BY <1>0, StoredType, OwedType, QuietBudget DEF Adds
<1>11. c \in Nat /\ Near(s, c, 1)
  <2> HIDE DEF s
  <2> QED BY <1>5, <1>10 DEF Near, s
<1>12. Near(c, IF t \in Resettling THEN d ELSE d + a, k)
  <2>1. s <= d + b /\ d <= s + b
    BY <1>8 DEF Near
  <2> HIDE DEF s, d, b, k, a
  <2> QED BY <1>5, <1>10, <2>1 DEF Near, s, a
<1>13. Shares(t)'
  <2>1. Near(turn[t].count, IF "ttl" \in turn[t].left THEN Expected + Adds(t) ELSE Expected, Budget)'
    BY <1>1, <1>2, <1>4, <1>5, <1>7, <1>12 DEF Near
  <2>2. Near(Stored, turn[t].count, 1)'
    BY <1>1, <1>2, <1>4, <1>7, <1>11 DEF Near
  <2> QED BY <1>1, <1>2, <1>4, <1>9, <1>11, <2>1, <2>2 DEF Shares
<1>14. ShareOK(t)'
  BY <1>1, <1>2, <1>5, <1>13 DEF ShareOK
<1> QED BY <1>6, <1>14, SharePlain

\* The event's own documents could not be read: the account is saved as it is.
LEMMA ShareSaveOnly ==
  ASSUME Quiet, Apart, ShareInv, LInv', NEW t \in Turn, TurnMoves(t),
         turn[t].pc = "existing", t \notin Resettling,
         turn' = [turn EXCEPT ![t] = SaveOnly(t, Decayed(t))],
         UNCHANGED <<acct, fresh, ttl, manual>>, Fails
  PROVE  ShareMoves(t)
<1>0. TypeOK /\ TypeOK' /\ ShareOK(t) /\ turn[t].expired = {}
  BY DEF ShareInv, LInv, TurnLeaseOK
<1>1. PICK c : c = Decayed(t)
  OBVIOUS
<1>2. c = Stored
  BY <1>0, <1>1, DecayedFacts DEF ShareOK, Expires
<1> DEFINE r == SaveOnly(t, c)
<1>3. r.pc = "save" /\ r.count = c /\ r.left = {"acct"}
  BY <1>0 DEF TypeOK, TurnState, SaveOnly
<1>4. turn'[t] = r
  BY <1>0, <1>1 DEF TypeOK
<1> HIDE DEF r
<1>5. t \notin Owed /\ t \notin Owed' /\ ~ Written(t)
  BY <1>3, <1>4 DEF Owed, Written, Between
<1>6. Expected' = Expected /\ Stored' = Stored
  BY <1>5, ExpectedSame DEF Stored
<1>7. Near(Stored, Expected, Budget)
  BY <1>5, HolderNear DEF Leased, LeasedPC
<1> DEFINE s == Stored
           d == Expected
           b == Budget
           k == Budget'
<1>8. s \in Nat /\ d \in Nat /\ b \in Nat /\ k \in {b, b + 1}
  BY <1>0, StoredType, OwedType, QuietBudget
<1>9. s <= d + b /\ d <= s + b
  BY <1>7 DEF Near
<1>10. Near(s, d, k) /\ Near(s, d, k + 1) /\ Near(s, s, 1)
  <2> HIDE DEF s, d, b, k
  <2> QED BY <1>8, <1>9 DEF Near
<1>11. Shares(t)'
  <2>1. turn'[t].count = Stored /\ turn'[t].left = {"acct"}
    BY <1>2, <1>3, <1>4
  <2>2. Near(turn[t].count, Expected, Budget)' /\ Near(Stored, Expected, Budget + 1)'
        /\ Near(Stored, turn[t].count, 1)'
    BY <1>6, <1>10, <2>1 DEF Near
  <2> QED BY <1>8, <2>1, <2>2 DEF Shares
<1>12. ShareOK(t)'
  BY <1>3, <1>4, <1>11 DEF ShareOK
<1> QED BY <1>5, <1>12, SharePlain

LEMMA ShareHydrate ==
  ASSUME Quiet, Apart, ShareInv, LInv', NEW t \in Turn,
         ReadExpired(t) \/ RereadState(t) \/ ReadExisting(t) \/ SaveDecayed(t) \/ DeleteExpired(t)
  PROVE  ShareMoves(t)
<1>0. turn \in [Turn -> TurnState] /\ TypeOK /\ ShareOK(t)
  BY DEF ShareInv, LInv, TypeOK
<1>1. TurnMoves(t)
  BY <1>0, HydrateMoves
<1>2. turn[t].pc \notin {"decay", "delete"} /\ turn[t].expired = {}
  BY DEF ShareInv, LInv, TurnLeaseOK
<1>3. ~ SaveDecayed(t) /\ ~ DeleteExpired(t)
  BY <1>2 DEF SaveDecayed, DeleteExpired
<1>4. UNCHANGED <<acct, fresh, ttl, manual, lost, crashes>> /\ turn[t].pc # "save"
  BY <1>3 DEF ReadExpired, RereadState, ReadExisting
<1>5. CASE ReadExpired(t) \/ RereadState(t)
  <2>1. turn'[t].pc \in {"reread", "existing"}
    BY <1>0, <1>5 DEF ReadExpired, RereadState, TurnState
  <2>2. turn'[t].count = acct.count
    <3>1. CASE ReadExpired(t)
      BY <1>0, <3>1 DEF ReadExpired, ShareOK, TurnState
    <3>2. CASE RereadState(t)
      <4> DEFINE c == IF acct.count = NoState THEN turn[t].count ELSE acct.count
      <4>1. turn' = [turn EXCEPT ![t].pc = "existing", ![t].count = c] /\ turn[t].pc = "reread"
        BY <1>0, <3>2 DEF RereadState, TurnState
      <4>2. c = acct.count
        BY <1>0, <4>1 DEF ShareOK
      <4> HIDE DEF c
      <4> QED BY <1>0, <4>1, <4>2 DEF TurnState
    <3> QED BY <1>5, <3>1, <3>2
  <2>3. ShareOK(t)'
    BY <1>4, <2>1, <2>2 DEF ShareOK
  <2>4. t \notin Owed /\ t \notin Owed' /\ ~ Written(t)
    BY <1>4, <2>1 DEF Owed, Written, Between
  <2> QED BY <1>1, <1>4, <2>3, <2>4, SharePlain DEF Fails
<1>6. CASE ReadExisting(t)
  <2> DEFINE c == Decayed(t)
             k == Contributed(t)
  <2>1. /\ turn[t].pc = "existing"
        /\ turn' = [turn EXCEPT ![t].pc = "award", ![t].count = c, ![t].known = k]
    BY <1>2, <1>6 DEF ReadExisting
  <2>2. c = Stored
    BY <1>0, <1>2, <2>1, DecayedFacts DEF ShareOK, Expires
  <2>3. turn'[t].pc = "award" /\ turn'[t].count = c /\ turn'[t].known = k
    <3> HIDE DEF c, k
    <3> QED BY <1>0, <2>1 DEF TurnState
  <2>4. Stored' = Stored /\ (Contributed(t)' <=> Contributed(t))
    BY <1>4 DEF Stored, Contributed
  <2> HIDE DEF c
  <2>5. ShareOK(t)'
    BY <2>2, <2>3, <2>4 DEF ShareOK
  <2>6. t \notin Owed /\ t \notin Owed' /\ ~ Written(t)
    BY <1>4, <2>3 DEF Owed, Written, Between
  <2> QED BY <1>1, <1>4, <2>5, <2>6, SharePlain DEF Fails
<1> QED BY <1>3, <1>5, <1>6

\* The account is saved, or that write is lost.
LEMMA ShareAcct ==
  ASSUME Quiet, Apart, ShareInv, LInv', NEW t \in Turn, TurnMoves(t), SavesOne(t, "acct"),
         ttl' = ttl,
         \/ acct' = SavedDoc(t) /\ fresh' = {}
         \/ UNCHANGED <<acct, fresh>> /\ Budget' = Budget + 1
  PROVE  ShareMoves(t)
<1>0. TypeOK /\ TypeOK' /\ ShareOK(t)
  BY DEF ShareInv, LInv
<1>1. /\ turn[t].pc = "save" /\ "acct" \in turn[t].left /\ turn'[t].left = turn[t].left \ {"acct"}
      /\ turn'[t].pc = "save" /\ turn[t].left \subseteq {"acct", "ttl"}
  BY <1>0 DEF SavesOne, Saving, Saved, TypeOK, TurnState
<1>2. Shares(t) /\ ("ttl" \in turn[t].left => t \notin Resettling)
  BY <1>0, <1>1 DEF ShareOK
<1> DEFINE s == Stored'
           x == Stored
           d == Expected
           g == Expected'
           b == Budget
           k == Budget'
           a == Adds(t)
           c == turn[t].count
<1>3. /\ s \in Nat /\ x \in Nat /\ d \in Nat /\ a \in {0, 1} /\ b \in Nat /\ k \in {b, b + 1}
      /\ c \in Nat
  BY <1>0, <1>2, StoredType, NumbersNext, OwedType, QuietBudget DEF Adds, SavesOne, Shares
<1>4. g = IF "ttl" \in turn[t].left THEN d + a ELSE d
  <2>1. t \notin Owed /\ (t \in Owed' <=> "ttl" \in turn[t].left /\ ttl[EventOf[t]] = 0)
    BY <1>1, <1>2 DEF Owed
  <2>2. (t \in Owed' => Cardinality(Owed') = Cardinality(Owed) + 1)
        /\ (t \notin Owed' => Cardinality(Owed') = Cardinality(Owed))
    BY <1>0, <2>1, OwedMoves DEF TurnMoves
  <2>3. Live' = Live /\ Live \in Nat /\ Cardinality(Owed) \in Nat
    BY <1>0, OwedType DEF Live
  <2>4. Expected' = IF t \in Owed' THEN Expected + 1 ELSE Expected
    BY <2>2, <2>3 DEF Expected
  <2>5. d + 0 = d
    BY <1>3
  <2> QED BY <2>1, <2>4, <2>5 DEF Adds
<1>5. Near(c, g, b) /\ Near(x, c, 1)
  BY <1>2, <1>4 DEF Shares
<1>6. s = c \/ (s = x /\ k = b + 1)
  <2>1. CASE acct' = SavedDoc(t)
    BY <1>3, <2>1 DEF SavedDoc, Unlocked, Stored, AtLeast0
  <2>2. CASE acct' = acct /\ Budget' = Budget + 1
    BY <2>2 DEF Stored
  <2> QED BY <2>1, <2>2
<1>7. Near(s, g, k)
  <2>1. g \in Nat
    BY <1>0, OwedTypeNext
  <2> HIDE DEF s, x, d, g, b, k, a, c
  <2> QED BY <1>3, <1>5, <1>6, <2>1 DEF Near
<1>8. Near(Stored, Expected, Budget)'
  BY <1>7 DEF Near
<1>9. ShareOK(t)'
  BY <1>1, <1>2 DEF ShareOK
<1>10. Leased(turn[t])
  BY <1>1 DEF Leased, LeasedPC
<1> QED BY <1>8, <1>9, <1>10 DEF ShareMoves, SavesOne

\* The TTL document is stored, or that write is lost.
LEMMA ShareTtl ==
  ASSUME Quiet, Apart, ShareInv, LInv', NEW t \in Turn, TurnMoves(t), SavesOne(t, "ttl"),
         UNCHANGED <<acct, fresh>>,
         \/ ttl' = [ttl EXCEPT ![EventOf[t]] = DueOf[t]]
         \/ ttl' = ttl /\ Budget' = Budget + 1
  PROVE  ShareMoves(t)
<1>0. TypeOK /\ TypeOK' /\ ShareOK(t)
  BY DEF ShareInv, LInv
<1>1. /\ turn[t].pc = "save" /\ "ttl" \in turn[t].left /\ turn'[t].left = turn[t].left \ {"ttl"}
      /\ turn'[t].pc = "save" /\ turn[t].left \subseteq {"acct", "ttl"}
      /\ turn'[t].count = turn[t].count
  BY <1>0 DEF SavesOne, Saving, Saved, TypeOK, TurnState
<1>2. t \notin Resettling /\ EventOf[t] \in Event /\ DueOf[t] \in Nat \ {0}
  BY <1>0, <1>1, TurnAssumption DEF ShareOK
<1>3. \A e \in Event :
        \/ ttl'[e] = ttl[e]
        \/ t \notin Resettling /\ EventOf[t] = e /\ turn[t].pc = "save"
  BY <1>0, <1>1, <1>2 DEF TypeOK
<1>4. t \notin Owed'
  BY <1>1 DEF Owed
<1>5. /\ t \in Owed => Cardinality(Owed') = Cardinality(Owed) - 1
      /\ t \notin Owed => Cardinality(Owed') = Cardinality(Owed)
  BY <1>0, <1>3, <1>4, OwedMoves DEF TurnMoves
<1>6. Live' = Live + Adds(t) \/ (Live' = Live /\ Budget' = Budget + 1)
  <2>1. CASE ttl' = [ttl EXCEPT ![EventOf[t]] = DueOf[t]]
    BY <1>0, <1>2, <2>1, LiveFacts DEF Adds
  <2>2. CASE ttl' = ttl /\ Budget' = Budget + 1
    BY <2>2 DEF Live
  <2> QED BY <2>1, <2>2
<1>7. /\ Adds(t) \in {0, 1} /\ Live \in Nat /\ Cardinality(Owed) \in Nat
      /\ Budget \in Nat /\ Budget' \in {Budget, Budget + 1}
  BY <1>0, OwedType, QuietBudget DEF Adds, SavesOne
<1>8. CASE "acct" \notin turn[t].left
  <2>1. t \in Owed <=> Adds(t) = 1
    BY <1>1, <1>2, <1>8 DEF Owed, Adds
  <2>2. Expected' = Expected \/ (Budget' = Budget + 1 /\ Expected' = Expected - 1)
    <3> DEFINE o == Cardinality(Owed)
               p == Cardinality(Owed')
               l == Live
               m == Live'
               a == Adds(t)
    <3>1. (a = 1 => p = o - 1) /\ (a = 0 => p = o)
      BY <1>5, <2>1
    <3>2. (m = l + a \/ (m = l /\ Budget' = Budget + 1)) /\ a \in {0, 1} /\ l \in Nat /\ o \in Nat
      BY <1>6, <1>7
    <3>3. m + p = l + o \/ (Budget' = Budget + 1 /\ m + p = (l + o) - 1)
      <4> HIDE DEF o, p, l, m, a
      <4> QED BY <3>1, <3>2
    <3> QED BY <3>3 DEF Expected
  <2>3. Shifted
    BY <1>7, <2>2 DEF Shifted
  <2>4. ShareOK(t)'
    BY <1>1, <1>8 DEF ShareOK
  <2>5. ~ Leased(turn[t])
    BY <1>1, <1>8 DEF Leased
  <2> QED BY <1>3, <2>3, <2>4, <2>5 DEF ShareMoves, SavesOne
<1>9. CASE "acct" \in turn[t].left
  <2>1. turn[t].left = {"acct", "ttl"} /\ turn'[t].left = {"acct"}
    BY <1>1, <1>9
  <2>2. t \notin Owed /\ Shares(t) /\ Leased(turn[t])
    BY <1>0, <1>1, <1>9, <2>1 DEF Owed, ShareOK, Leased, LeasedPC
  <2>3. ~ Written(t) /\ Written(t)'
    <3>1. Bonus(t) = 0 /\ Bonus(t)' = 1
      BY <1>0, <1>1, <1>2, <2>1, BonusFacts, BonusNext DEF BonusIs
    <3> QED BY <2>1, <3>1 DEF Bonus, Written
  <2>4. Near(Stored, Expected, Budget)
    BY <2>2, <2>3, HolderNear
  <2> DEFINE s == Stored
             d == Expected
             g == Expected'
             b == Budget
             k == Budget'
             a == Adds(t)
             c == turn[t].count
  <2>5. g = d + a \/ (g = d /\ k = b + 1)
    <3> DEFINE l == Live
               o == Cardinality(Owed)
    <3>1. l \in Nat /\ o \in Nat /\ a \in {0, 1}
      BY <1>7
    <3>2. (l + a) + o = (l + o) + a
      <4> HIDE DEF l, o, a
      <4> QED BY <3>1
    <3>3. Cardinality(Owed') = o
      BY <1>5, <2>2
    <3> QED BY <1>6, <3>2, <3>3 DEF Expected
  <2>6. /\ s \in Nat /\ d \in Nat /\ b \in Nat /\ k \in {b, b + 1} /\ a \in {0, 1} /\ c \in Nat
        /\ Near(c, d + a, b) /\ Near(s, c, 1)
    BY <1>0, <1>1, <1>7, <2>2, StoredType, OwedType DEF Shares
  <2>7. Near(c, g, k)
    <3> HIDE DEF s, d, g, b, k, a, c
    <3> QED BY <2>5, <2>6 DEF Near
  <2>8. Near(s, g, k + 1)
    <3>1. s <= d + b /\ d <= s + b
      BY <2>4 DEF Near
    <3> HIDE DEF s, d, g, b, k, a, c
    <3> QED BY <2>5, <2>6, <3>1 DEF Near
  <2>9. Stored' = Stored
    BY DEF Stored
  <2>10. Shares(t)'
    <3>1. Near(turn[t].count, Expected, Budget)'
      BY <1>1, <2>7 DEF Near
    <3>2. Near(Stored, turn[t].count, 1)' /\ Near(Stored, Expected, Budget + 1)'
      BY <1>1, <2>6, <2>8, <2>9 DEF Near
    <3> QED BY <1>1, <2>1, <2>6, <3>1, <3>2 DEF Shares
  <2>11. ShareOK(t)'
    BY <1>1, <2>1, <2>10 DEF ShareOK
  <2> QED BY <1>3, <2>2, <2>3, <2>11 DEF ShareMoves, SavesOne
<1> QED BY <1>8, <1>9

LEMMA ShareSave ==
  ASSUME Quiet, Apart, ShareInv, LInv', NEW t \in Turn,
         Award(t) \/ SaveAccount(t) \/ SaveTtl(t) \/ RulesEnd(t) \/ PostSave(t)
  PROVE  ShareMoves(t)
<1>0. turn \in [Turn -> TurnState] /\ TypeOK
  BY DEF ShareInv, LInv, TypeOK
<1>1. TurnMoves(t)
  BY <1>0, SaveMoves
<1>2. CASE Award(t)
  <2>1. PICK v : turn' = [turn EXCEPT ![t] = Evaluated(t, v)]
    BY <1>2 DEF Award
  <2>2. turn[t].pc = "award" /\ UNCHANGED <<acct, fresh, ttl, manual, lost, crashes>>
    BY <1>2 DEF Award
  <2> QED BY <1>1, <2>1, <2>2, ShareEvaluated DEF Fails
<1>3. CASE SaveAccount(t)
  <2>1. /\ Saving(t, "acct") /\ acct' = SavedDoc(t) /\ fresh' = {}
        /\ UNCHANGED <<ttl, manual, now, lost, crashes>>
        /\ turn' = [turn EXCEPT ![t].left = Saved(t, "acct")]
    BY <1>3 DEF SaveAccount, Write
  <2>2. SavesOne(t, "acct")
    BY <1>0, <2>1 DEF SavesOne, Saving, Saved, TurnState, Fails
  <2> QED BY <1>1, <2>1, <2>2, ShareAcct
<1>4. CASE SaveTtl(t)
  <2>1. /\ Saving(t, "ttl") /\ ttl' = [ttl EXCEPT ![EventOf[t]] = DueOf[t]]
        /\ UNCHANGED <<acct, fresh, manual, now, lost, crashes>>
        /\ turn' = [turn EXCEPT ![t].left = Saved(t, "ttl")]
    BY <1>4 DEF SaveTtl
  <2>2. SavesOne(t, "ttl")
    BY <1>0, <2>1 DEF SavesOne, Saving, Saved, TurnState, Fails
  <2> QED BY <1>1, <2>1, <2>2, ShareTtl
<1>5. CASE RulesEnd(t)
  <2>1. /\ turn[t].pc = "save" /\ turn[t].left = {}
        /\ UNCHANGED <<acct, fresh, ttl, manual, now, lost, crashes>>
    BY <1>5 DEF RulesEnd
  <2>2. turn'[t].pc \in EndPC \cup {"post", "lock"}
    <3>1. AfterRules(t) \in EndPC \cup {"post"}
      BY DEF AfterRules, EndPC
    <3>2. CASE turn' = [turn EXCEPT ![t] = At(AfterRules(t))]
      BY <1>0, <3>1, <3>2 DEF At, IdleTurn
    <3>3. CASE \E k : turn' = [turn EXCEPT ![t] = [IdleTurn EXCEPT !.pc = "lock", !.rounds = k,
                                                                !.nodes = turn[t].nodes,
                                                                !.seen = turn[t].seen]]
      BY <1>0, <3>3 DEF IdleTurn
    <3> QED BY <1>5, <3>2, <3>3 DEF RulesEnd
  <2>3. t \notin Owed /\ t \notin Owed' /\ ~ Written(t)
    BY <2>1, <2>2 DEF Owed, Written, EndPC
  <2>4. ShareOK(t)'
    BY <2>2 DEF ShareOK, EndPC
  <2> QED BY <1>1, <2>1, <2>3, <2>4, SharePlain DEF Fails
<1>6. CASE PostSave(t)
  BY <1>1, <1>6, ShareGivesUp DEF PostSave, EndPC, Fails
<1> QED BY <1>2, <1>3, <1>4, <1>5, <1>6

LEMMA ShareLost ==
  ASSUME Quiet, Apart, ShareInv, LInv', NEW t \in Turn, Lost(t)
  PROVE  ShareMoves(t)
<1>0. turn \in [Turn -> TurnState] /\ TypeOK /\ ShareOK(t)
  BY DEF ShareInv, LInv, TypeOK
<1>1. TurnMoves(t)
  BY <1>0, LostMoves
<1>2. lost' = lost + 1 /\ crashes' = crashes /\ UNCHANGED <<manual, now>>
  BY DEF Lost, CallFails, WriteUnanswered, HydrateFails, DecayFails, SaveFails, Lose
<1>3. Fails /\ Budget' = Budget + 1
  BY <1>0, <1>2, QuietBudget DEF Fails
<1>4. turn[t].pc \notin {"profile", "decay", "delete"} /\ turn[t].expired = {}
  BY DEF ShareInv, LInv, TurnLeaseOK
<1>5. CASE CallFails(t)
  BY <1>1, <1>3, <1>5, ShareGivesUp DEF CallFails, EndPC
<1>6. CASE WriteUnanswered(t)
  <2>1. acct'.count = acct.count /\ fresh' \subseteq fresh
    BY <1>0, <1>4, <1>6 DEF WriteUnanswered, Kept, Write, Locked, TypeOK, Account
  <2>2. turn' = [turn EXCEPT ![t] = At("failed")] /\ UNCHANGED ttl /\ turn[t].pc # "save"
    BY <1>6 DEF WriteUnanswered
  <2> QED BY <1>1, <1>2, <1>3, <2>1, <2>2, ShareGivesUp DEF EndPC
<1>7. CASE HydrateFails(t)
  <2>1. UNCHANGED <<acct, fresh, ttl>> /\ turn[t].pc # "save"
    BY <1>7 DEF HydrateFails
  <2>2. CASE /\ turn[t].pc \in {"hydrate", "reread"}
             /\ \E pc \in {"reread", "existing"} : turn' = [turn EXCEPT ![t].pc = pc]
    <3>1. turn'[t].pc \in {"reread", "existing"} /\ turn'[t].count = turn[t].count
      BY <1>0, <2>2 DEF TurnState
    <3>2. ShareOK(t)'
      BY <1>0, <2>1, <2>2, <3>1 DEF ShareOK
    <3>3. t \notin Owed /\ t \notin Owed' /\ ~ Written(t)
      BY <2>1, <3>1 DEF Owed, Written, Between
    <3> QED BY <1>1, <1>2, <1>3, <2>1, <3>2, <3>3, SharePlain
  <2>3. CASE /\ turn[t].pc = "existing" /\ t \notin Resettling
             /\ turn' = [turn EXCEPT ![t] = SaveOnly(t, Decayed(t))]
    BY <1>1, <1>2, <1>3, <2>1, <2>3, ShareSaveOnly
  <2>4. CASE turn[t].pc = "award" /\ turn' = [turn EXCEPT ![t] = Evaluated(t, "fail")]
    BY <1>1, <1>2, <1>3, <2>1, <2>4, ShareEvaluated
  <2> QED BY <1>7, <2>2, <2>3, <2>4 DEF HydrateFails
<1>8. CASE DecayFails(t)
  BY <1>4, <1>8 DEF DecayFails
<1>9. CASE SaveFails(t)
  <2>1. PICK w : /\ Saving(t, w) /\ w \in {"acct", "ttl"}
                 /\ turn' = [turn EXCEPT ![t].left = Saved(t, w), ![t].verdict = "fail"]
                 /\ \/ w = "acct" /\ ttl' = ttl /\ UNCHANGED <<acct, fresh>>
                    \/ w = "acct" /\ ttl' = ttl /\ acct' = SavedDoc(t) /\ fresh' = {}
                    \/ w = "ttl" /\ UNCHANGED <<acct, fresh>> /\ ttl' = ttl
                    \/ /\ w = "ttl" /\ UNCHANGED <<acct, fresh>>
                       /\ ttl' = [ttl EXCEPT ![EventOf[t]] = DueOf[t]]
    BY <1>9 DEF SaveFails, Kept, Write
  <2>2. SavesOne(t, w)
    BY <1>0, <1>2, <1>3, <2>1 DEF SavesOne, Saving, Saved, TurnState
  <2> QED BY <1>1, <1>3, <2>1, <2>2, ShareAcct, ShareTtl
<1> QED BY <1>5, <1>6, <1>7, <1>8, <1>9 DEF Lost

LEMMA ShareCrash ==
  ASSUME Quiet, Apart, ShareInv, LInv', NEW t \in Turn, Crash(t)
  PROVE  ShareMoves(t)
<1>0. TypeOK /\ TypeOK' /\ ShareOK(t)
  BY DEF ShareInv, LInv
<1>1. TurnMoves(t)
  BY <1>0, LostMoves
<1>2. /\ turn' = [turn EXCEPT ![t] = At("dead")] /\ "dead" \in EndPC
      /\ UNCHANGED <<acct, fresh, ttl, manual, now, lost>> /\ crashes' = crashes + 1
  BY DEF Crash, EndPC
<1>3. Fails /\ Budget' = Budget + 1 /\ Budget \in Nat
  BY <1>0, <1>2, QuietBudget DEF Fails
<1>4. turn'[t].pc = "dead" /\ t \notin Owed'
  BY <1>0, <1>2 DEF TypeOK, At, IdleTurn, Owed
<1>5. ShareOK(t)'
  BY <1>4 DEF ShareOK
<1>6. /\ t \in Owed => Cardinality(Owed') = Cardinality(Owed) - 1
      /\ t \notin Owed => Cardinality(Owed') = Cardinality(Owed)
  BY <1>0, <1>1, <1>2, <1>4, OwedMoves DEF TurnMoves
<1>7. Live' = Live /\ Live \in Nat /\ Cardinality(Owed) \in Nat
  BY <1>0, <1>2, OwedType DEF Live
<1>8. CASE turn[t].pc = "save" /\ "acct" \in turn[t].left
  <2>1. t \notin Owed /\ Leased(turn[t]) /\ Shares(t)
    BY <1>0, <1>8 DEF Owed, Leased, LeasedPC, ShareOK
  <2>2. Expected' = Expected
    BY <1>6, <1>7, <2>1 DEF Expected
  <2>3. Near(Stored, Expected, Budget + 1)
    <3>1. CASE Written(t)
      BY <2>1, <3>1 DEF Shares
    <3>2. CASE ~ Written(t)
      <4> DEFINE s == Stored
                 d == Expected
                 b == Budget
      <4>1. s <= d + b /\ d <= s + b
        BY <2>1, <3>2, HolderNear DEF Near
      <4>2. s \in Nat /\ d \in Nat /\ b \in Nat
        BY <1>0, <1>3, StoredType, OwedType
      <4>3. s <= d + (b + 1) /\ d <= s + (b + 1)
        <5> HIDE DEF s, d, b
        <5> QED BY <4>1, <4>2
      <4> QED BY <4>3 DEF Near
    <3> QED BY <3>1, <3>2
  <2>4. Near(Stored, Expected, Budget)'
    <3>1. Stored' = Stored
      BY <1>2 DEF Stored
    <3> QED BY <1>3, <2>2, <2>3, <3>1 DEF Near
  <2> QED BY <1>1, <1>2, <1>5, <2>1, <2>4 DEF ShareMoves
<1>9. CASE turn[t].pc = "save" /\ "acct" \notin turn[t].left
  <2>1. Expected' \in {Expected - 1, Expected}
    <3> DEFINE l == Live
               o == Cardinality(Owed)
               p == Cardinality(Owed')
    <3>1. l \in Nat /\ o \in Nat /\ p \in {o - 1, o} /\ Live' = l
      BY <1>6, <1>7
    <3>2. l + p \in {(l + o) - 1, l + o}
      <4> HIDE DEF l, o, p
      <4> QED BY <3>1
    <3> QED BY <3>1, <3>2 DEF Expected
  <2>2. Shifted
    BY <1>3, <2>1 DEF Shifted
  <2>3. ~ Leased(turn[t])
    BY <1>9 DEF Leased
  <2> QED BY <1>1, <1>2, <1>5, <2>2, <2>3 DEF ShareMoves
<1>10. CASE turn[t].pc # "save"
  BY <1>1, <1>2, <1>3, <1>10, ShareGivesUp
<1> QED BY <1>8, <1>9, <1>10

LEMMA ShareRests ==
  ASSUME ShareInv, LInv', UNCHANGED <<acct, fresh, ttl, turn, manual, lost, crashes>>
  PROVE  ShareInv'
<1>1. Stored' = Stored /\ Live' = Live /\ Budget' = Budget /\ Owed' = Owed
  BY DEF Stored, Live, Budget, Owed, FailureWeight, Perishable
<1>2. Expected' = Expected
  BY <1>1 DEF Expected
<1>3. \A t \in Turn : Written(t)' <=> Written(t)
  BY DEF Written, Between
<1>4. ASSUME NEW t \in Turn, Shares(t) PROVE Shares(t)'
  <2>1. Adds(t)' = Adds(t)
    BY DEF Adds
  <2> QED BY <1>1, <1>2, <1>3, <1>4, <2>1 DEF Shares, Near
<1>5. ASSUME NEW t \in Turn PROVE ShareOK(t)'
  <2>1. ShareOK(t)
    BY DEF ShareInv
  <2>2. Contributed(t)' <=> Contributed(t)
    BY DEF Contributed
  <2> QED BY <1>1, <1>4, <2>1, <2>2 DEF ShareOK
<1>6. ASSUME NEW c \in Turn, turn'[c].pc # "idle" PROVE MayStart(c)'
  <2>1. MayStart(c)
    BY <1>6 DEF ShareInv
  <2> QED BY <2>1 DEF MayStart, CallEnded
<1>7. (\A t \in Turn : ~ Written(t)') => Near(Stored, Expected, Budget)'
  BY <1>1, <1>2, <1>3 DEF ShareInv, Near
<1> QED BY <1>5, <1>6, <1>7 DEF ShareInv

LEMMA ShareNext == Quiet /\ Apart /\ ShareInv /\ [Next]_vars => ShareInv'
<1> SUFFICES ASSUME Quiet, Apart, ShareInv, [Next]_vars PROVE ShareInv'
  OBVIOUS
<1>1. LInv'
  BY LeaseNext DEF ShareInv
<1>2. ASSUME NEW t \in Turn, Step(t) \/ Lost(t) \/ Crash(t) PROVE ShareInv'
  <2>1. ShareMoves(t)
    BY <1>1, <1>2, ShareBefore, ShareLock, ShareHydrate, ShareSave, ShareLost, ShareCrash DEF Step
  <2> QED BY <1>1, <2>1, ShareFrame
<1>3. ASSUME NEW m \in Manual PROVE ShareInv'
  BY <1>3 DEF Quiet
<1>4. CASE Tick \/ UNCHANGED vars
  BY <1>1, <1>4, ShareRests DEF Tick, vars
<1> QED BY <1>2, <1>3, <1>4 DEF Next

LEMMA StartShare == Init => ShareInv
<1> SUFFICES ASSUME Init PROVE ShareInv
  OBVIOUS
<1>1. LInv /\ TypeOK
  BY LeaseInit DEF LInv
<1>2. \A t \in Turn : turn[t].pc = "idle"
  BY DEF Init, IdleTurn
<1>3. Live = 0 /\ Cardinality(Owed) = 0
  <2>1. {e \in Event : ttl[e] # 0} = {} /\ Owed = {}
    BY <1>2 DEF Init, Owed
  <2> QED BY <2>1, FS_EmptySet DEF Live
<1>4. Stored = 0 /\ Expected = 0
  BY <1>3 DEF Init, NewAccount, Stored, AtLeast0, NoState, Expected
<1>5. Near(Stored, Expected, Budget)
  BY <1>1, <1>4, BudgetFacts DEF Near
<1>6. \A t \in Turn : ShareOK(t)
  BY <1>2 DEF ShareOK
<1> QED BY <1>1, <1>2, <1>5, <1>6 DEF ShareInv

LEMMA ShareImplies == ShareInv => CountBounded
<1> SUFFICES ASSUME ShareInv PROVE CountBounded
  OBVIOUS
<1> DEFINE Btw == {t \in Turn : Between(t)}
           Und == UNION {Undeleted(t) : t \in Turn}
           s == Stored
           l == Live
           b == Budget
           o == Cardinality(Owed)
           i == Cardinality(Btw)
           j == Cardinality(Und)
<1>1. TypeOK
  BY DEF ShareInv, LInv
<1>2. s \in Nat /\ l \in Nat /\ b \in Nat /\ o \in Nat /\ IsFiniteSet(Owed)
  BY <1>1, StoredType, OwedType, BudgetFacts
<1>3. IsFiniteSet(Btw) /\ i \in Nat
  <2>1. Btw \subseteq Turn
    OBVIOUS
  <2> HIDE DEF Btw
  <2> QED BY <2>1, TurnAssumption, FS_Subset, FS_CardinalityType
<1>4. j \in Nat
  <2>1. Und \subseteq Event
    BY <1>1 DEF Undeleted, TypeOK, TurnState
  <2> HIDE DEF Und
  <2> QED BY <2>1, TurnAssumption, FS_Subset, FS_CardinalityType
<1>5. Owed \subseteq Btw
  <2>1. Cardinality({"ttl"}) = 1
    BY FS_Singleton
  <2> QED BY <2>1 DEF Owed, Between
<1>6. Near(s, l, b + i + j)
  <2>1. CASE \A t \in Turn : ~ Written(t)
    <3>1. Near(s, l + o, b)
      BY <2>1 DEF ShareInv, Expected
    <3>2. o <= i
      BY <1>3, <1>5, FS_Subset
    <3> HIDE DEF s, l, b, o, i, j
    <3> QED BY <1>2, <1>3, <1>4, <3>1, <3>2 DEF Near
  <2>2. ASSUME NEW t \in Turn, Written(t) PROVE Near(s, l, b + i + j)
    <3>1. ShareOK(t) /\ turn[t].pc = "save" /\ "acct" \in turn[t].left /\ t \in Btw
      BY <2>2 DEF ShareInv, Written, Between
    <3>2. Near(s, l + o, b + 1)
      BY <2>2, <3>1 DEF ShareOK, Shares, Expected
    <3>3. t \notin Owed
      BY <3>1 DEF Owed
    <3>4. o + 1 <= i
      <4>1. Owed \cup {t} \subseteq Btw
        BY <1>5, <3>1
      <4>2. Cardinality(Owed \cup {t}) = o + 1
        BY <1>2, <3>3, FS_AddElement
      <4> HIDE DEF Btw, o
      <4> QED BY <1>3, <4>1, <4>2, FS_Subset
    <3> HIDE DEF s, l, b, o, i, j
    <3> QED BY <1>2, <1>3, <1>4, <3>2, <3>4 DEF Near
  <2> QED BY <2>1, <2>2
<1>7. Drift = IF s > l THEN s - l ELSE l - s
  BY DEF Drift, Stored
<1>8. Drift <= b + i + j
  <2> HIDE DEF s, l, b, i, j
  <2> QED BY <1>2, <1>3, <1>4, <1>6, <1>7 DEF Near
<1> QED BY <1>8 DEF CountBounded, Budget

(***************************************************************************)
(* The same when the turns overlap as they like, requests of one event     *)
(* excepted: as long as every turn ends before its lease does, nothing     *)
(* decays and nobody writes the account without a lease, the lock, the     *)
(* reread of HydrateState and the finally block of ProcessRulesAsync       *)
(* together lose no turn's contribution and count none twice, whatever     *)
(* crashes and whichever calls are lost.                                   *)
(***************************************************************************)
THEOREM SharedCountCorrect ==
  ASSUME Quiet, Apart
  PROVE  Spec => []CountBounded
<1>1. Init => ShareInv
  BY StartShare
<1>2. ShareInv /\ [Next]_vars => ShareInv'
  BY ShareNext
<1>3. ShareInv => CountBounded
  BY ShareImplies
<1> QED BY <1>1, <1>2, <1>3, PTL DEF Spec

=============================================================================
