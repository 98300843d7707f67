------------------------- MODULE HybridCacheProofs -------------------------
(***************************************************************************)
(* Proofs about the semaphore of a key, for any number of nodes, callers   *)
(* and semaphores: it is in the dictionary only while it is not disposed   *)
(* and somebody will clean it up, and callers that share it are inside one *)
(* at a time.  The caches play no part in this.                            *)
(***************************************************************************)
EXTENDS HybridCache, TLAPS

\* The caller is in the try block of l.
InLock(c, l) == call[c].lock = l /\ call[c].pc \in Inside

\* A caller has a semaphore from GetOrAdd to its return, and a node meanwhile.
Sane ==
  \A c \in Caller :
    /\ call[c].pc \in {"new", "done", "enter", "forget", "unshare"} => call[c].lock = NoLock
    /\ call[c].pc \in {"wait", "queued", "check", "release", "tidy", "remove", "dispose"}
         => call[c].lock # NoLock
    /\ call[c].pc \notin {"new", "done"} => call[c].node \in Node

\* The count of a semaphore that is not disposed says whether somebody is inside.
Holder ==
  \A l \in LockId :
    ~ sem[l].disposed => (sem[l].count = 0 <=> \E c \in Caller : InLock(c, l))

Exclusive ==
  \A l \in LockId, c, d \in Caller : InLock(c, l) /\ InLock(d, l) => c = d

\* The callers in a queue wait there, each once.
Queues ==
  \A l \in LockId : \A i, j \in 1 .. Len(sem[l].queue) :
    /\ call[sem[l].queue[i]].pc = "queued"
    /\ call[sem[l].queue[i]].lock = l
    /\ sem[l].queue[i] = sem[l].queue[j] => i = j

\* A semaphore in the dictionary of a node is usable, belongs to the callers of
\* that node, is not about to be disposed, and somebody will see to it.
Registered(n) ==
  /\ ~ sem[keyLock[n]].disposed
  /\ \A m \in Node : keyLock[m] = keyLock[n] => m = n
  /\ \A c \in Caller :
       call[c].lock = keyLock[n] => call[c].node = n /\ call[c].pc # "dispose"
  /\ \E c \in Caller : WillTidy(c, keyLock[n])

Dictionary == \A n \in Node : keyLock[n] # NoLock => Registered(n)

Inv == TypeOK /\ Sane /\ Holder /\ Exclusive /\ Queues /\ Dictionary

LEMMA LockIds == NoLock \notin LockId /\ \A l \in LockId : l \in Nat
BY CacheAssumption DEF LockId, NoLock

-----------------------------------------------------------------------------
(* Steps that only move a caller.                                          *)

\* The caller stays where it is, as far as semaphores are concerned.
Alike(k, old) ==
  \/ k.lock = NoLock /\ old.lock = NoLock
  \/ /\ k.lock = old.lock /\ k.node = old.node
     /\ \/ k.pc \in Inside /\ old.pc \in Inside
        \/ k.pc = "remove" /\ old.pc = "tidy"

SaneCall(k) ==
  /\ k.pc \in {"new", "done", "enter", "forget", "unshare"} => k.lock = NoLock
  /\ k.pc \in {"wait", "queued", "check", "release", "tidy", "remove", "dispose"}
       => k.lock # NoLock
  /\ k.pc \notin {"new", "done"} => k.node \in Node

LEMMA MoveKeeps ==
  ASSUME Inv, NEW c \in Caller, NEW k \in Call, SaneCall(k), Alike(k, call[c]),
         call' = [call EXCEPT ![c] = k], UNCHANGED <<keyLock, sem>>,
         source' \in Nat, shared' \in Value, memory' \in [Node -> Value]
  PROVE  Inv'
<1>1. /\ call' \in [Caller -> Call]
      /\ call'[c] = k
      /\ \A d \in Caller : d # c => call'[d] = call[d]
  BY DEF Inv, TypeOK
<1>2. TypeOK'
  BY <1>1 DEF Inv, TypeOK
<1>3. Sane'
  BY <1>1 DEF Inv, Sane, SaneCall
<1>4. call[c].pc # "queued" \/ call[c].lock = NoLock
  BY DEF Alike, Inside
<1>5. \A l \in LockId, d \in Caller : InLock(d, l)' <=> InLock(d, l)
  BY <1>1, LockIds DEF InLock, Alike, Inside
<1>6. Holder'
  BY <1>5 DEF Inv, Holder
<1>7. Exclusive'
  BY <1>5 DEF Inv, Exclusive
<1>8. Queues'
  <2> SUFFICES ASSUME NEW l \in LockId, NEW i \in 1 .. Len(sem[l].queue),
                      NEW j \in 1 .. Len(sem[l].queue)
               PROVE  /\ call'[sem[l].queue[i]].pc = "queued"
                      /\ call'[sem[l].queue[i]].lock = l
                      /\ sem[l].queue[i] = sem[l].queue[j] => i = j
    BY DEF Queues
  <2>1. sem[l].queue \in Seq(Caller)
    BY DEF Inv, TypeOK, Semaphore
  <2>2. sem[l].queue[i] \in Caller
    BY <2>1
  <2>3. /\ call[sem[l].queue[i]].pc = "queued"
        /\ call[sem[l].queue[i]].lock = l
        /\ sem[l].queue[i] = sem[l].queue[j] => i = j
    BY DEF Inv, Queues
  <2>4. sem[l].queue[i] # c
    BY <2>3, <1>4, LockIds
  <2> QED BY <2>2, <2>3, <2>4, <1>1
<1>9. Dictionary'
  <2> SUFFICES ASSUME NEW n \in Node, keyLock[n] # NoLock PROVE Registered(n)'
    BY DEF Dictionary
  <2>1. Registered(n)
    BY DEF Inv, Dictionary
  <2>2. \A d \in Caller : WillTidy(d, keyLock[n]) => WillTidy(d, keyLock[n])'
    BY <1>1 DEF WillTidy, Alike, Inside
  <2>3. \A d \in Caller :
          call'[d].lock = keyLock[n] => call'[d].node = n /\ call'[d].pc # "dispose"
    BY <2>1, <1>1 DEF Registered, Alike, Inside
  <2>4. PICK d \in Caller : WillTidy(d, keyLock[n])
    BY <2>1 DEF Registered
  <2>5. WillTidy(d, keyLock[n])'
    BY <2>2, <2>4
  <2>6. ~ sem[keyLock[n]].disposed /\ \A m \in Node : keyLock[m] = keyLock[n] => m = n
    BY <2>1 DEF Registered
  <2>7. keyLock' = keyLock /\ sem' = sem
    OBVIOUS
  <2> QED BY <2>3, <2>5, <2>6, <2>7 DEF Registered
<1> QED BY <1>2, <1>3, <1>6, <1>7, <1>8, <1>9 DEF Inv

\* The caller returns, and the dictionary does not depend on it.
LEMMA ReturnKeeps ==
  ASSUME Inv, NEW c \in Caller, Return(c), UNCHANGED <<keyLock, sem>>,
         source' \in Nat, shared' \in Value, memory' \in [Node -> Value],
         call[c].pc # "queued" \/ call[c].lock = NoLock,
         \A l \in LockId : InLock(c, l) => sem[l].disposed,
         \A n \in Node : keyLock[n] # NoLock /\ keyLock[n] = call[c].lock =>
            \E d \in Caller : d # c /\ WillTidy(d, keyLock[n])
  PROVE  Inv'
<1> DEFINE k == [NewCall EXCEPT !.pc = IF c \in Again THEN "new" ELSE "done"]
<1>0. k \in Call /\ k.lock = NoLock /\ k.pc \in {"new", "done"}
  BY DEF NewCall, Call, PC, Value
<1>1. /\ call' = [call EXCEPT ![c] = k]
      /\ call' \in [Caller -> Call]
      /\ call'[c] = k
      /\ \A d \in Caller : d # c => call'[d] = call[d]
  BY <1>0 DEF Inv, TypeOK, Return
<1> HIDE DEF k
<1>2. TypeOK'
  BY <1>1 DEF Inv, TypeOK
<1>3. Sane'
  BY <1>0, <1>1 DEF Inv, Sane
<1>4. \A l \in LockId : ~ InLock(c, l)'
  BY <1>0, <1>1, LockIds DEF InLock
<1>5. \A l \in LockId, d \in Caller : d # c => (InLock(d, l)' <=> InLock(d, l))
  BY <1>1 DEF InLock
<1>6. Holder'
  <2> SUFFICES ASSUME NEW l \in LockId, ~ sem[l].disposed
               PROVE  sem[l].count = 0 <=> \E d \in Caller : InLock(d, l)'
    BY DEF Holder
  <2>1. ~ InLock(c, l)
    OBVIOUS
  <2>2. sem[l].count = 0 <=> \E d \in Caller : InLock(d, l)
    BY DEF Inv, Holder
  <2> QED BY <2>1, <2>2, <1>4, <1>5
<1>7. Exclusive'
  BY <1>4, <1>5 DEF Inv, Exclusive
<1>8. Queues'
  <2> SUFFICES ASSUME NEW l \in LockId, NEW i \in 1 .. Len(sem[l].queue),
                      NEW j \in 1 .. Len(sem[l].queue)
               PROVE  /\ call'[sem[l].queue[i]].pc = "queued"
                      /\ call'[sem[l].queue[i]].lock = l
                      /\ sem[l].queue[i] = sem[l].queue[j] => i = j
    BY DEF Queues
  <2>1. sem[l].queue \in Seq(Caller)
    BY DEF Inv, TypeOK, Semaphore
  <2>2. sem[l].queue[i] \in Caller
    BY <2>1
  <2>3. /\ call[sem[l].queue[i]].pc = "queued"
        /\ call[sem[l].queue[i]].lock = l
        /\ sem[l].queue[i] = sem[l].queue[j] => i = j
    BY DEF Inv, Queues
  <2>4. sem[l].queue[i] # c
    BY <2>3, LockIds
  <2> QED BY <2>2, <2>3, <2>4, <1>1
<1>9. Dictionary'
  <2> SUFFICES ASSUME NEW n \in Node, keyLock[n] # NoLock PROVE Registered(n)'
    BY DEF Dictionary
  <2>1. Registered(n)
    BY DEF Inv, Dictionary
  <2>2. PICK d \in Caller : d # c /\ WillTidy(d, keyLock[n])
    <3>1. CASE keyLock[n] = call[c].lock
      BY <3>1
    <3>2. CASE keyLock[n] # call[c].lock
      BY <3>2, <2>1 DEF Registered, WillTidy
    <3> QED BY <3>1, <3>2
  <2>3. WillTidy(d, keyLock[n])'
    BY <2>2, <1>1 DEF WillTidy
  <2>4. \A e \in Caller :
          call'[e].lock = keyLock[n] => call'[e].node = n /\ call'[e].pc # "dispose"
    BY <2>1, <1>0, <1>1 DEF Registered
  <2>5. ~ sem[keyLock[n]].disposed /\ \A m \in Node : keyLock[m] = keyLock[n] => m = n
    BY <2>1 DEF Registered
  <2>6. keyLock' = keyLock /\ sem' = sem
    OBVIOUS
  <2> QED BY <2>3, <2>4, <2>5, <2>6 DEF Registered
<1> QED BY <1>2, <1>3, <1>6, <1>7, <1>8, <1>9 DEF Inv

\* Goto moves a caller to a place that is as good as the one before.
LEMMA GotoKeeps ==
  ASSUME Inv, NEW c \in Caller, NEW place \in PC, Goto(c, place),
         UNCHANGED <<keyLock, sem>>,
         source' \in Nat, shared' \in Value, memory' \in [Node -> Value],
         SaneCall([call[c] EXCEPT !.pc = place]), Alike([call[c] EXCEPT !.pc = place], call[c])
  PROVE  Inv'
<1>1. [call[c] EXCEPT !.pc = place] \in Call
  BY DEF Inv, TypeOK, Call
<1>2. call' = [call EXCEPT ![c] = [call[c] EXCEPT !.pc = place]]
  BY DEF Goto
<1> QED BY <1>1, <1>2, MoveKeeps

\* The caller leaves the try block, or returns if it has no semaphore.
LEMMA LeaveKeeps ==
  ASSUME Inv, NEW c \in Caller, call[c].pc \in Inside, Leave(c), UNCHANGED <<keyLock, sem>>,
         source' \in Nat, shared' \in Value, memory' \in [Node -> Value]
  PROVE  Inv'
<1>1. CASE call[c].lock = NoLock
  <2>1. Return(c)
    BY <1>1 DEF Leave
  <2>2. \A l \in LockId : ~ InLock(c, l)
    BY <1>1, LockIds DEF InLock
  <2> QED BY <1>1, <2>1, <2>2, ReturnKeeps
<1>2. CASE call[c].lock # NoLock
  <2> DEFINE k == [call[c] EXCEPT !.pc = "release", !.value = NoValue]
  <2>1. call[c] \in Call /\ call[c].node \in Node
    BY DEF Inv, TypeOK, Sane, Inside
  <2>2. k \in Call /\ SaneCall(k) /\ Alike(k, call[c])
    BY <1>2, <2>1 DEF Call, PC, Value, Inside, SaneCall, Alike
  <2>3. call' = [call EXCEPT ![c] = k]
    BY <1>2 DEF Leave
  <2> HIDE DEF k
  <2> QED BY <2>2, <2>3, MoveKeeps
<1> QED BY <1>1, <1>2

-----------------------------------------------------------------------------
(* The steps that leave the semaphores alone.                              *)

\* A call begins.
LEMMA BeginKeeps ==
  ASSUME Inv, NEW c \in Caller, Delete(c) \/ Bypass(c) \/ Get(c)
  PROVE  Inv'
<1>1. PICK n \in Near[c] : \E place \in {"forget", "fetch", "read"} : Begin(c, n, place)
  BY DEF Delete, Bypass, Get
<1>2. PICK place \in {"forget", "fetch", "read"} : Begin(c, n, place)
  BY <1>1
<1>3. n \in Node
  BY CacheAssumption
<1>4. call[c].lock = NoLock /\ call[c] \in Call
  BY DEF Inv, TypeOK, Sane, Delete, Bypass, Get, At
<1> DEFINE k == [call[c] EXCEPT !.pc = place, !.node = n]
<1>5. k \in Call /\ SaneCall(k) /\ Alike(k, call[c])
  BY <1>3, <1>4 DEF Call, PC, Inside, SaneCall, Alike
<1>6. call' = [call EXCEPT ![c] = k]
  BY <1>2 DEF Begin
<1>7. UNCHANGED <<keyLock, sem>> /\ source' \in Nat /\ shared' \in Value /\ memory' \in [Node -> Value]
  BY DEF Inv, TypeOK, Delete, Bypass, Get
<1> HIDE DEF k
<1> QED BY <1>5, <1>6, <1>7, MoveKeeps

\* An invalidation.
LEMMA InvalidateKeeps ==
  ASSUME Inv, NEW c \in Caller, Forget(c) \/ Unshare(c)
  PROVE  Inv'
<1>1. call[c].lock = NoLock /\ call[c] \in Call /\ call[c].node \in Node
  BY DEF Inv, TypeOK, Sane, Forget, Unshare, At
<1>2. CASE Forget(c)
  <2>1. Goto(c, "unshare") /\ "unshare" \in PC
    BY <1>2 DEF Forget, PC
  <2>2. UNCHANGED <<keyLock, sem>> /\ source' \in Nat /\ shared' \in Value /\ memory' \in [Node -> Value]
    BY <1>1, <1>2 DEF Inv, TypeOK, Forget, Value
  <2>3. SaneCall([call[c] EXCEPT !.pc = "unshare"]) /\ Alike([call[c] EXCEPT !.pc = "unshare"], call[c])
    BY <1>1 DEF SaneCall, Alike, Call
  <2> QED BY <2>1, <2>2, <2>3, GotoKeeps
<1>3. CASE Unshare(c)
  <2>1. Return(c) /\ UNCHANGED <<keyLock, sem>>
    BY <1>3 DEF Unshare
  <2>2. source' \in Nat /\ shared' \in Value /\ memory' \in [Node -> Value]
    BY <1>3 DEF Inv, TypeOK, Unshare, Value
  <2>3. \A l \in LockId : ~ InLock(c, l)
    BY <1>1, LockIds DEF InLock
  <2> QED BY <1>1, <2>1, <2>2, <2>3, ReturnKeeps
<1> QED BY <1>2, <1>3

\* Reading the caches and the source, and writing the caches.
LEMMA ReadKeeps ==
  ASSUME Inv, NEW c \in Caller,
         ReadHit(c) \/ ReadMiss(c) \/ Fill(c) \/ Check(c) \/ Fetch(c) \/ FetchNothing(c)
           \/ Put(c) \/ Share(c)
  PROVE  Inv'
<1>1. call[c] \in Call /\ call[c].pc \in Inside /\ call[c].node \in Node
  BY DEF Inv, TypeOK, Sane, ReadHit, ReadMiss, Fill, Check, Fetch, FetchNothing, Put, Share, At, Inside
<1>2. call[c].value \in Value
  BY <1>1 DEF Call
<1>3. UNCHANGED <<keyLock, sem>> /\ source' \in Nat /\ shared' \in Value /\ memory' \in [Node -> Value]
  BY <1>1, <1>2 DEF Inv, TypeOK, ReadHit, ReadMiss, Fill, Check, Fetch, FetchNothing, Put, Share, Value
<1>4. ASSUME NEW place \in {"fetch", "release", "read", "share"}, Goto(c, place),
             place = "release" => call[c].lock # NoLock
      PROVE  Inv'
  <2>1. place \in PC
    BY DEF PC, Inside
  <2>2. SaneCall([call[c] EXCEPT !.pc = place]) /\ Alike([call[c] EXCEPT !.pc = place], call[c])
    BY <1>1, <1>4 DEF SaneCall, Alike, Call, Inside
  <2> QED BY <1>3, <1>4, <2>1, <2>2, GotoKeeps
<1>5. ASSUME NEW place \in {"fill", "put"}, NEW v \in Value,
             call' = [call EXCEPT ![c].pc = place, ![c].value = v]
      PROVE  Inv'
  <2> DEFINE k == [call[c] EXCEPT !.pc = place, !.value = v]
  <2>1. k \in Call /\ SaneCall(k) /\ Alike(k, call[c])
    BY <1>1 DEF Call, PC, Inside, SaneCall, Alike
  <2>2. call' = [call EXCEPT ![c] = k]
    BY <1>5
  <2> HIDE DEF k
  <2> QED BY <1>3, <2>1, <2>2, MoveKeeps
<1>6. CASE ReadHit(c)
  BY <1>5, <1>6 DEF ReadHit, Inv, TypeOK
<1>7. CASE ReadMiss(c)
  <2>1. CASE call[c].lock # NoLock
    BY <1>4, <1>7, <2>1 DEF ReadMiss
  <2>2. CASE call[c].lock = NoLock
    <3>1. Goto(c, "enter") /\ "enter" \in PC
      BY <1>7, <2>2 DEF ReadMiss, PC
    <3>2. SaneCall([call[c] EXCEPT !.pc = "enter"]) /\ Alike([call[c] EXCEPT !.pc = "enter"], call[c])
      BY <1>1, <2>2 DEF SaneCall, Alike, Call
    <3> QED BY <1>3, <3>1, <3>2, GotoKeeps
  <2> QED BY <2>1, <2>2
<1>8. CASE Fill(c) \/ FetchNothing(c) \/ Share(c)
  BY <1>1, <1>3, <1>8, LeaveKeeps DEF Fill, FetchNothing, Share
<1>9. CASE Check(c)
  <2>1. call[c].lock # NoLock
    BY <1>9 DEF Check, At, Inv, Sane
  <2> QED BY <1>4, <1>9, <2>1 DEF Check
<1>10. CASE Fetch(c)
  BY <1>5, <1>10 DEF Fetch, Inv, TypeOK, Value
<1>11. CASE Put(c)
  BY <1>4, <1>11 DEF Put
<1> QED BY <1>6, <1>7, <1>8, <1>9, <1>10, <1>11

\* A caller returns because its semaphore was disposed.
LEMMA ThrowKeeps ==
  ASSUME Inv, NEW c \in Caller, WaitThrows(c) \/ ReleaseThrows(c)
  PROVE  Inv'
<1>1. /\ Return(c)
      /\ UNCHANGED <<keyLock, sem>>
      /\ sem[call[c].lock].disposed
      /\ call[c].pc # "queued"
  BY DEF WaitThrows, ReleaseThrows, At
<1>2. source' \in Nat /\ shared' \in Value /\ memory' \in [Node -> Value]
  BY DEF Inv, TypeOK, WaitThrows, ReleaseThrows
<1>3. \A l \in LockId : InLock(c, l) => sem[l].disposed
  BY <1>1 DEF InLock
<1>4. \A n \in Node : keyLock[n] # NoLock => keyLock[n] # call[c].lock
  BY <1>1 DEF Inv, Dictionary, Registered
<1> QED BY <1>1, <1>2, <1>3, <1>4, ReturnKeeps

-----------------------------------------------------------------------------
(* Steps that leave the callers and their semaphores as they are.          *)

LEMMA InitHolds == Init => Inv
<1> SUFFICES ASSUME Init PROVE Inv
  OBVIOUS
<1>1. NewSem \in Semaphore /\ NewCall \in Call
  BY CacheAssumption DEF NewSem, Semaphore, NewCall, Call, PC, Value
<1>2. TypeOK
  BY <1>1 DEF Init, TypeOK, Value
<1>3. \A c \in Caller : call[c] = NewCall
  BY DEF Init
<1>4. \A c \in Caller, l \in LockId : ~ InLock(c, l)
  BY <1>3, LockIds DEF InLock, NewCall
<1>5. Sane
  BY <1>3 DEF Sane, NewCall
<1>6. \A l \in LockId : sem[l].count = 1 /\ sem[l].queue = << >>
  BY DEF Init, NewSem
<1>7. Holder /\ Exclusive
  BY <1>4, <1>6 DEF Holder, Exclusive
<1>8. Queues
  BY <1>6 DEF Queues
<1>9. Dictionary
  BY DEF Init, Dictionary
<1> QED BY <1>2, <1>5, <1>7, <1>8, <1>9 DEF Inv

\* The source changes, an entry expires, or nothing happens.
LEMMA RestKeeps ==
  ASSUME Inv,
         SourceChanges \/ ExpireShared \/ (\E n \in Node : ExpireMemory(n)) \/ UNCHANGED vars
  PROVE  Inv'
<1>1. call' = call /\ keyLock' = keyLock /\ sem' = sem
  BY DEF SourceChanges, ExpireShared, ExpireMemory, vars
<1>2. source' \in Nat /\ shared' \in Value /\ memory' \in [Node -> Value]
  BY DEF Inv, TypeOK, SourceChanges, ExpireShared, ExpireMemory, vars, Value
<1>3. TypeOK'
  BY <1>1, <1>2 DEF Inv, TypeOK
<1>4. Sane' /\ Exclusive'
  BY <1>1 DEF Inv, Sane, Exclusive, InLock
<1>5. Holder'
  BY <1>1 DEF Inv, Holder, InLock
<1>6. Queues'
  BY <1>1 DEF Inv, Queues
<1>7. Dictionary'
  BY <1>1 DEF Inv, Dictionary, Registered, WillTidy
<1> QED BY <1>3, <1>4, <1>5, <1>6, <1>7 DEF Inv

-----------------------------------------------------------------------------
(* Steps on the semaphores.                                                *)

LEMMA Queued ==
  ASSUME Inv, NEW l \in LockId, NEW i \in 1 .. Len(sem[l].queue)
  PROVE  /\ sem[l].queue \in Seq(Caller)
         /\ sem[l].queue[i] \in Caller
         /\ call[sem[l].queue[i]].pc = "queued"
         /\ call[sem[l].queue[i]].lock = l
<1>1. sem[l].queue \in Seq(Caller)
  BY DEF Inv, TypeOK, Semaphore
<1> QED BY <1>1 DEF Inv, Queues

\* A caller that is in no queue moves, and queues stay or are emptied.
LEMMA QueuesKeep ==
  ASSUME Inv, NEW c \in Caller, call[c].pc # "queued",
         \A d \in Caller : d # c => call'[d] = call[d],
         \A l \in LockId : sem'[l].queue \in {sem[l].queue, << >>}
  PROVE  Queues'
<1> SUFFICES ASSUME NEW l \in LockId, NEW i \in 1 .. Len(sem'[l].queue),
                    NEW j \in 1 .. Len(sem'[l].queue)
             PROVE  /\ call'[sem'[l].queue[i]].pc = "queued"
                    /\ call'[sem'[l].queue[i]].lock = l
                    /\ sem'[l].queue[i] = sem'[l].queue[j] => i = j
  BY DEF Queues
<1>1. sem'[l].queue = sem[l].queue
  OBVIOUS
<1>2. /\ sem[l].queue[i] \in Caller
      /\ call[sem[l].queue[i]].pc = "queued"
      /\ call[sem[l].queue[i]].lock = l
  BY <1>1, Queued
<1>3. sem[l].queue[i] = sem[l].queue[j] => i = j
  BY <1>1 DEF Inv, Queues
<1>4. sem[l].queue[i] # c
  BY <1>2
<1> QED BY <1>1, <1>2, <1>3, <1>4

LEMMA TidyKeeps ==
  ASSUME Inv, NEW c \in Caller, Tidy(c)
  PROVE  Inv'
<1> DEFINE l == call[c].lock
<1>1. call[c].pc = "tidy" /\ UNCHANGED <<keyLock, sem>>
  BY DEF Tidy, At
<1>2. source' \in Nat /\ shared' \in Value /\ memory' \in [Node -> Value]
  BY DEF Inv, TypeOK, Tidy
<1>3. call[c] \in Call /\ l # NoLock /\ l \in LockId /\ call[c].node \in Node
  BY <1>1 DEF Inv, TypeOK, Sane, Call
<1>4. CASE sem[l].count = 1
  <2>1. Goto(c, "remove") /\ "remove" \in PC
    BY <1>4 DEF Tidy, PC
  <2>2. /\ SaneCall([call[c] EXCEPT !.pc = "remove"])
        /\ Alike([call[c] EXCEPT !.pc = "remove"], call[c])
    BY <1>1, <1>3 DEF SaneCall, Alike, Call
  <2> QED BY <1>1, <1>2, <2>1, <2>2, GotoKeeps
<1>5. CASE sem[l].count # 1
  <2>1. Return(c)
    BY <1>5 DEF Tidy
  <2>2. \A m \in LockId : ~ InLock(c, m)
    BY <1>1 DEF InLock, Inside
  <2>3. sem[l] \in Semaphore
    BY <1>3 DEF Inv, TypeOK
  <2>4. sem[l].count = 0
    BY <1>5, <2>3 DEF Semaphore
  <2>5. ASSUME NEW n \in Node, keyLock[n] # NoLock, keyLock[n] = l
        PROVE  \E d \in Caller : d # c /\ WillTidy(d, keyLock[n])
    <3>1. ~ sem[l].disposed
      BY <2>5 DEF Inv, Dictionary, Registered
    <3>2. PICK d \in Caller : InLock(d, l)
      BY <1>3, <2>4, <3>1 DEF Inv, Holder
    <3>3. d # c /\ WillTidy(d, l)
      BY <1>3, <2>2, <3>2 DEF InLock, WillTidy
    <3> QED BY <2>5, <3>3
  <2> QED BY <1>1, <1>2, <2>1, <2>2, <2>5, ReturnKeeps
<1> QED BY <1>4, <1>5

LEMMA RemoveKeeps ==
  ASSUME Inv, NEW c \in Caller, Remove(c)
  PROVE  Inv'
<1>1. call[c].pc = "remove" /\ sem' = sem /\ keyLock' = [keyLock EXCEPT ![call[c].node] = NoLock]
  BY DEF Remove, At
<1>2. source' \in Nat /\ shared' \in Value /\ memory' \in [Node -> Value]
  BY DEF Inv, TypeOK, Remove
<1>3. call[c] \in Call /\ call[c].lock # NoLock /\ call[c].node \in Node
  BY <1>1 DEF Inv, TypeOK, Sane
<1>4. keyLock \in [Node -> LockId \cup {NoLock}]
  BY DEF Inv, TypeOK
<1>5. \A l \in LockId : ~ InLock(c, l)
  BY <1>1 DEF InLock, Inside
<1>6. CASE keyLock[call[c].node] = NoLock
  <2>1. Return(c)
    BY <1>6 DEF Remove
  <2>2. keyLock' = keyLock
    BY <1>1, <1>3, <1>4, <1>6
  <2>3. \A n \in Node : keyLock[n] # NoLock => keyLock[n] # call[c].lock
    BY <1>3, <1>6 DEF Inv, Dictionary, Registered
  <2> QED BY <1>1, <1>2, <1>5, <2>1, <2>2, <2>3, ReturnKeeps
<1>7. CASE keyLock[call[c].node] # NoLock
  <2> DEFINE k == [call[c] EXCEPT !.pc = "dispose"]
  <2>1. k \in Call /\ k.pc = "dispose" /\ k.lock = call[c].lock /\ k.node = call[c].node
    BY <1>3 DEF Call, PC
  <2>2. call' = [call EXCEPT ![c] = k]
    BY <1>7 DEF Remove, Goto
  <2> HIDE DEF k
  <2>3. /\ call' \in [Caller -> Call]
        /\ call'[c] = k
        /\ \A d \in Caller : d # c => call'[d] = call[d]
    BY <2>1, <2>2 DEF Inv, TypeOK
  <2>4. TypeOK'
    BY <1>1, <1>2, <1>4, <2>3 DEF Inv, TypeOK
  <2>5. Sane'
    BY <1>3, <2>1, <2>3 DEF Inv, Sane
  <2>6. \A l \in LockId, d \in Caller : InLock(d, l)' <=> InLock(d, l)
    BY <1>1, <2>1, <2>3 DEF InLock, Inside
  <2>7. Holder'
    BY <1>1, <2>6 DEF Inv, Holder
  <2>8. Exclusive'
    BY <2>6 DEF Inv, Exclusive
  <2>9. Queues'
    BY <1>1, <2>3, QueuesKeep
  <2>10. Dictionary'
    <3> SUFFICES ASSUME NEW n \in Node, keyLock'[n] # NoLock PROVE Registered(n)'
      BY DEF Dictionary
    <3>1. n # call[c].node /\ keyLock'[n] = keyLock[n]
      BY <1>1, <1>3, <1>4
    <3>2. Registered(n)
      BY <3>1 DEF Inv, Dictionary
    <3>3. call[c].lock # keyLock[n]
      BY <3>1, <3>2 DEF Registered
    <3>4. PICK d \in Caller : WillTidy(d, keyLock[n])
      BY <3>2 DEF Registered
    <3>5. WillTidy(d, keyLock[n])'
      BY <2>3, <3>1, <3>3, <3>4 DEF WillTidy
    <3>6. \A m \in Node : keyLock'[m] = keyLock'[n] => m = n
      BY <1>1, <1>4, <3>1, <3>2 DEF Registered
    <3>7. \A d2 \in Caller :
            call'[d2].lock = keyLock[n] => call'[d2].node = n /\ call'[d2].pc # "dispose"
      BY <2>1, <2>3, <3>2, <3>3 DEF Registered
    <3>8. ~ sem'[keyLock'[n]].disposed
      BY <1>1, <3>1, <3>2 DEF Registered
    <3> QED BY <3>1, <3>5, <3>6, <3>7, <3>8 DEF Registered
  <2> QED BY <2>4, <2>5, <2>7, <2>8, <2>9, <2>10 DEF Inv
<1> QED BY <1>6, <1>7

\* The semaphore that is disposed was taken from the dictionary before.
LEMMA DisposeKeeps ==
  ASSUME Inv, NEW c \in Caller, Dispose(c)
  PROVE  Inv'
<1> DEFINE l == call[c].lock
           k == [NewCall EXCEPT !.pc = IF c \in Again THEN "new" ELSE "done"]
<1>1. call[c].pc = "dispose" /\ keyLock' = keyLock
  BY DEF Dispose, At
<1>2. source' = source /\ shared' = shared /\ memory' = memory
  BY DEF Dispose
<1>3. call[c] \in Call /\ l # NoLock /\ l \in LockId
  BY <1>1 DEF Inv, TypeOK, Sane, Call
<1>4. k \in Call /\ k.lock = NoLock /\ k.pc \in {"new", "done"}
  BY DEF NewCall, Call, PC, Value
<1>5. /\ call' \in [Caller -> Call]
      /\ call'[c] = k
      /\ \A d \in Caller : d # c => call'[d] = call[d]
  BY <1>4 DEF Inv, TypeOK, Dispose, Return
<1> HIDE DEF k
<1>6. sem[l] \in Semaphore
  BY <1>3 DEF Inv, TypeOK
<1> DEFINE r == [sem[l] EXCEPT !.disposed = TRUE]
           s == [r EXCEPT !.queue = << >>]
<1>7. s \in Semaphore /\ s.disposed /\ s.queue = << >>
  <2>1. r \in Semaphore /\ r.disposed
    BY <1>6 DEF Semaphore
  <2> HIDE DEF r
  <2>2. << >> \in Seq(Caller)
    OBVIOUS
  <2> QED BY <2>1, <2>2 DEF Semaphore
<1>8. sem' = [sem EXCEPT ![l] = s]
  BY <1>6 DEF Dispose
<1> HIDE DEF s
<1>9. /\ sem' \in [LockId -> Semaphore]
      /\ sem'[l] = s
      /\ \A m \in LockId : m # l => sem'[m] = sem[m]
  BY <1>3, <1>7, <1>8 DEF Inv, TypeOK
<1>10. TypeOK'
  BY <1>1, <1>2, <1>5, <1>9 DEF Inv, TypeOK
<1>11. Sane'
  BY <1>4, <1>5 DEF Inv, Sane
<1>12. \A m \in LockId, d \in Caller : InLock(d, m)' <=> InLock(d, m)
  BY <1>1, <1>4, <1>5 DEF InLock, Inside
<1>13. Holder'
  BY <1>7, <1>9, <1>12 DEF Inv, Holder
<1>14. Exclusive'
  BY <1>12 DEF Inv, Exclusive
<1>15. Queues'
  BY <1>1, <1>5, <1>7, <1>9, QueuesKeep
<1>16. Dictionary'
  <2> SUFFICES ASSUME NEW n \in Node, keyLock[n] # NoLock PROVE Registered(n)'
    BY <1>1 DEF Dictionary
  <2>1. Registered(n) /\ keyLock[n] \in LockId
    BY DEF Inv, TypeOK, Dictionary
  <2>2. l # keyLock[n]
    BY <1>1, <2>1 DEF Registered
  <2>3. PICK d \in Caller : WillTidy(d, keyLock[n])
    BY <2>1 DEF Registered
  <2>4. WillTidy(d, keyLock[n])'
    BY <1>1, <1>5, <2>2, <2>3 DEF WillTidy
  <2>5. \A e \in Caller :
          call'[e].lock = keyLock[n] => call'[e].node = n /\ call'[e].pc # "dispose"
    BY <1>4, <1>5, <2>1 DEF Registered
  <2>6. ~ sem'[keyLock[n]].disposed
    BY <1>9, <2>1, <2>2 DEF Registered
  <2>7. \A m \in Node : keyLock[m] = keyLock[n] => m = n
    BY <2>1 DEF Registered
  <2> QED BY <1>1, <2>4, <2>5, <2>6, <2>7 DEF Registered
<1> QED BY <1>10, <1>11, <1>13, <1>14, <1>15, <1>16 DEF Inv

LEMMA EnterKeeps ==
  ASSUME Inv, NEW c \in Caller, Enter(c)
  PROVE  Inv'
<1>1. call[c].pc = "enter" /\ source' = source /\ shared' = shared /\ memory' = memory
  BY DEF Enter, At
<1>2. call[c] \in Call /\ call[c].lock = NoLock /\ call[c].node \in Node
  BY <1>1 DEF Inv, TypeOK, Sane
<1>3. keyLock \in [Node -> LockId \cup {NoLock}] /\ sem \in [LockId -> Semaphore]
  BY DEF Inv, TypeOK
\* In both cases the caller gets a semaphore of its node, in which it is not.
<1>4. ASSUME NEW l \in LockId, call' = [call EXCEPT ![c].pc = "wait", ![c].lock = l]
      PROVE  /\ call' \in [Caller -> Call]
             /\ call'[c].pc = "wait" /\ call'[c].lock = l /\ call'[c].node = call[c].node
             /\ \A d \in Caller : d # c => call'[d] = call[d]
             /\ Sane'
             /\ \A m \in LockId, d \in Caller : InLock(d, m)' <=> InLock(d, m)
  <2> DEFINE k == [call[c] EXCEPT !.pc = "wait", !.lock = l]
  <2>1. k \in Call /\ k.pc = "wait" /\ k.lock = l /\ k.node = call[c].node
    BY <1>2 DEF Call, PC
  <2>2. call' = [call EXCEPT ![c] = k]
    BY <1>4
  <2> HIDE DEF k
  <2>3. call' \in [Caller -> Call] /\ call'[c] = k /\ \A d \in Caller : d # c => call'[d] = call[d]
    BY <2>1, <2>2 DEF Inv, TypeOK
  <2>4. Sane'
    BY <1>2, <2>1, <2>3, LockIds DEF Inv, Sane
  <2>5. \A m \in LockId, d \in Caller : InLock(d, m)' <=> InLock(d, m)
    BY <1>1, <1>2, <2>1, <2>3, LockIds DEF InLock, Inside
  <2> QED BY <2>1, <2>3, <2>4, <2>5
<1>5. CASE /\ keyLock[call[c].node] # NoLock
           /\ call' = [call EXCEPT ![c].pc = "wait", ![c].lock = keyLock[call[c].node]]
           /\ keyLock' = keyLock /\ sem' = sem
  <2> DEFINE l == keyLock[call[c].node]
  <2>1. l \in LockId
    BY <1>2, <1>3, <1>5
  <2>2. /\ call' \in [Caller -> Call]
        /\ call'[c].pc = "wait" /\ call'[c].lock = l /\ call'[c].node = call[c].node
        /\ \A d \in Caller : d # c => call'[d] = call[d]
        /\ Sane'
        /\ \A m \in LockId, d \in Caller : InLock(d, m)' <=> InLock(d, m)
    BY <1>4, <1>5, <2>1
  <2>3. TypeOK'
    BY <1>1, <1>5, <2>2 DEF Inv, TypeOK
  <2>4. Holder' /\ Exclusive'
    BY <1>5, <2>2 DEF Inv, Holder, Exclusive
  <2>5. Queues'
    BY <1>1, <1>5, <2>2, QueuesKeep
  <2>6. Dictionary'
    <3> SUFFICES ASSUME NEW n \in Node, keyLock[n] # NoLock PROVE Registered(n)'
      BY <1>5 DEF Dictionary
    <3>1. Registered(n)
      BY DEF Inv, Dictionary
    <3>2. PICK d \in Caller : WillTidy(d, keyLock[n])
      BY <3>1 DEF Registered
    <3>3. d # c
      BY <1>1, <3>2 DEF WillTidy, Inside
    <3>4. WillTidy(d, keyLock[n])'
      BY <1>5, <2>2, <3>2, <3>3 DEF WillTidy
    <3>5. l = keyLock[n] => call[c].node = n
      BY <1>2, <3>1 DEF Registered
    <3>6. \A e \in Caller :
            call'[e].lock = keyLock[n] => call'[e].node = n /\ call'[e].pc # "dispose"
      BY <2>2, <3>1, <3>5 DEF Registered
    <3>7. ~ sem[keyLock[n]].disposed /\ \A m \in Node : keyLock[m] = keyLock[n] => m = n
      BY <3>1 DEF Registered
    <3> QED BY <1>5, <3>4, <3>6, <3>7 DEF Registered
  <2> QED BY <2>2, <2>3, <2>4, <2>5, <2>6 DEF Inv
<1>6. ASSUME NEW l \in LockId,
             Unused(l),
             call' = [call EXCEPT ![c].pc = "wait", ![c].lock = l],
             keyLock' = [keyLock EXCEPT ![call[c].node] = l],
             sem' = [sem EXCEPT ![l] = NewSem]
      PROVE  Inv'
  <2>1. /\ call' \in [Caller -> Call]
        /\ call'[c].pc = "wait" /\ call'[c].lock = l /\ call'[c].node = call[c].node
        /\ \A d \in Caller : d # c => call'[d] = call[d]
        /\ Sane'
        /\ \A m \in LockId, d \in Caller : InLock(d, m)' <=> InLock(d, m)
    BY <1>4, <1>6
  <2>2. /\ NewSem \in Semaphore /\ NewSem.count = 1
        /\ NewSem.queue = << >> /\ ~ NewSem.disposed
    BY DEF NewSem, Semaphore
  <2>3. /\ sem' \in [LockId -> Semaphore] /\ sem'[l] = NewSem
        /\ \A m \in LockId : m # l => sem'[m] = sem[m]
    BY <1>3, <1>6, <2>2
  <2>4. /\ keyLock' \in [Node -> LockId \cup {NoLock}] /\ keyLock'[call[c].node] = l
        /\ \A n \in Node : n # call[c].node => keyLock'[n] = keyLock[n]
    BY <1>2, <1>3, <1>6
  <2>5. TypeOK'
    BY <1>1, <2>1, <2>3, <2>4 DEF Inv, TypeOK
  <2>6. \A d \in Caller : ~ InLock(d, l)
    BY <1>6 DEF Unused, InLock
  <2>7. Holder'
    BY <2>1, <2>2, <2>3, <2>6 DEF Inv, Holder
  <2>8. Exclusive'
    BY <2>1 DEF Inv, Exclusive
  <2>9. Queues'
    BY <1>1, <2>1, <2>2, <2>3, QueuesKeep
  <2>10. Dictionary'
    <3> SUFFICES ASSUME NEW n \in Node, keyLock'[n] # NoLock PROVE Registered(n)'
      BY DEF Dictionary
    <3>1. CASE n = call[c].node
      <4>1. \A m \in Node : keyLock'[m] = keyLock'[n] => m = n
        BY <1>6, <2>4, <3>1 DEF Unused
      <4>2. \A d \in Caller : call'[d].lock = l => d = c
        BY <1>6, <2>1 DEF Unused
      <4>3. \A d \in Caller :
              call'[d].lock = keyLock'[n] => call'[d].node = n /\ call'[d].pc # "dispose"
        BY <2>1, <2>4, <3>1, <4>2
      <4>4. WillTidy(c, l)'
        BY <2>1, <1>6 DEF WillTidy
      <4>5. ~ sem'[keyLock'[n]].disposed
        BY <2>2, <2>3, <2>4, <3>1
      <4>6. keyLock'[n] = l
        BY <2>4, <3>1
      <4> QED BY <4>1, <4>3, <4>4, <4>5, <4>6 DEF Registered, WillTidy
    <3>2. CASE n # call[c].node
      <4>1. keyLock'[n] = keyLock[n] /\ Registered(n) /\ keyLock[n] # l /\ keyLock[n] \in LockId
        BY <1>3, <1>6, <2>4, <3>2 DEF Inv, Dictionary, Unused
      <4>2. \A m \in Node : keyLock'[m] = keyLock'[n] => m = n
        BY <2>4, <4>1 DEF Registered
      <4>3. \A d \in Caller :
              call'[d].lock = keyLock'[n] => call'[d].node = n /\ call'[d].pc # "dispose"
        BY <2>1, <4>1 DEF Registered
      <4>4. PICK d \in Caller : WillTidy(d, keyLock[n])
        BY <4>1 DEF Registered
      <4>5. d # c
        BY <1>1, <4>4 DEF WillTidy, Inside
      <4>6. WillTidy(d, keyLock[n])'
        BY <2>1, <4>1, <4>4, <4>5 DEF WillTidy
      <4>7. ~ sem'[keyLock'[n]].disposed
        BY <2>3, <4>1 DEF Registered
      <4> QED BY <4>2, <4>3, <4>6, <4>7 DEF Registered, WillTidy
    <3> QED BY <3>1, <3>2
  <2> QED BY <2>1, <2>5, <2>7, <2>8, <2>9, <2>10 DEF Inv
<1>7. \/ /\ keyLock[call[c].node] # NoLock
         /\ call' = [call EXCEPT ![c].pc = "wait", ![c].lock = keyLock[call[c].node]]
         /\ keyLock' = keyLock /\ sem' = sem
      \/ \E l \in LockId :
           /\ Unused(l)
           /\ call' = [call EXCEPT ![c].pc = "wait", ![c].lock = l]
           /\ keyLock' = [keyLock EXCEPT ![call[c].node] = l]
           /\ sem' = [sem EXCEPT ![l] = NewSem]
  BY DEF Enter
<1> QED BY <1>5, <1>6, <1>7

\* What a step on the semaphore l of a caller leaves as it was.
LEMMA OthersKeep ==
  ASSUME Inv, NEW c \in Caller, NEW d \in Caller, NEW l \in LockId,
         \A e \in Caller : e \notin {c, d} => call'[e] = call[e],
         \A e \in {c, d} : call[e].lock = l /\ call'[e].lock = l
           /\ call'[e].node = call[e].node /\ call'[e].pc # "dispose",
         \E e \in Caller : WillTidy(e, l)',
         keyLock' = keyLock, sem'[l].disposed = sem[l].disposed,
         \A m \in LockId : m # l => sem'[m] = sem[m]
  PROVE  Dictionary'
<1> SUFFICES ASSUME NEW n \in Node, keyLock[n] # NoLock PROVE Registered(n)'
  BY DEF Dictionary
<1>1. Registered(n) /\ keyLock[n] \in LockId
  BY DEF Inv, TypeOK, Dictionary
<1>2. \E e \in Caller : WillTidy(e, keyLock[n])'
  <2>1. CASE keyLock[n] = l
    BY <2>1 DEF WillTidy
  <2>2. CASE keyLock[n] # l
    <3>1. PICK e \in Caller : WillTidy(e, keyLock[n])
      BY <1>1 DEF Registered
    <3>2. call'[e] = call[e]
      BY <2>2, <3>1 DEF WillTidy
    <3> QED BY <3>1, <3>2 DEF WillTidy
  <2> QED BY <2>1, <2>2
<1>3. \A e \in Caller :
        call'[e].lock = keyLock[n] => call'[e].node = n /\ call'[e].pc # "dispose"
  <2> TAKE e \in Caller
  <2>1. CASE e \in {c, d}
    BY <1>1, <2>1 DEF Registered
  <2>2. CASE e \notin {c, d}
    BY <1>1, <2>2 DEF Registered
  <2> QED BY <2>1, <2>2
<1>4. ~ sem'[keyLock[n]].disposed
  BY <1>1 DEF Registered
<1>5. \A m \in Node : keyLock[m] = keyLock[n] => m = n
  BY <1>1 DEF Registered
<1> QED BY <1>2, <1>3, <1>4, <1>5 DEF Registered

LEMMA WithQueue ==
  ASSUME NEW r \in Semaphore, NEW q \in Seq(Caller)
  PROVE  /\ [r EXCEPT !.queue = q] \in Semaphore
         /\ [r EXCEPT !.queue = q].count = r.count
         /\ [r EXCEPT !.queue = q].queue = q
         /\ [r EXCEPT !.queue = q].disposed = r.disposed
BY DEF Semaphore

LEMMA WithCount ==
  ASSUME NEW r \in Semaphore, NEW n \in 0 .. 1
  PROVE  /\ [r EXCEPT !.count = n] \in Semaphore
         /\ [r EXCEPT !.count = n].count = n
         /\ [r EXCEPT !.count = n].queue = r.queue
         /\ [r EXCEPT !.count = n].disposed = r.disposed
BY DEF Semaphore

LEMMA AfterLast == \A n \in Nat : n + 1 \notin 1 .. n
OBVIOUS

LEMMA WaitKeeps ==
  ASSUME Inv, NEW c \in Caller, WaitEnters(c) \/ WaitQueues(c)
  PROVE  Inv'
<1> DEFINE l == call[c].lock
<1>1. call[c].pc = "wait" /\ keyLock' = keyLock /\ ~ sem[l].disposed
  BY DEF WaitEnters, WaitQueues, At
<1>2. source' = source /\ shared' = shared /\ memory' = memory
  BY DEF WaitEnters, WaitQueues
<1>3. call[c] \in Call /\ l # NoLock /\ l \in LockId /\ call[c].node \in Node
  BY <1>1 DEF Inv, TypeOK, Sane, Call
<1>4. sem[l] \in Semaphore /\ sem \in [LockId -> Semaphore]
  BY <1>3 DEF Inv, TypeOK
<1>5. ASSUME NEW place \in {"check", "queued"}, Goto(c, place)
      PROVE  /\ call' \in [Caller -> Call]
             /\ call'[c].pc = place /\ call'[c].lock = l /\ call'[c].node = call[c].node
             /\ \A d \in Caller : d # c => call'[d] = call[d]
             /\ Sane'
  <2> DEFINE k == [call[c] EXCEPT !.pc = place]
  <2>1. k \in Call /\ k.pc = place /\ k.lock = l /\ k.node = call[c].node
    BY <1>3 DEF Call, PC, Inside
  <2>2. call' = [call EXCEPT ![c] = k]
    BY <1>5 DEF Goto
  <2> HIDE DEF k
  <2>3. call' \in [Caller -> Call] /\ call'[c] = k /\ \A d \in Caller : d # c => call'[d] = call[d]
    BY <2>1, <2>2 DEF Inv, TypeOK
  <2>4. Sane'
    BY <1>3, <2>1, <2>3 DEF Inv, Sane
  <2> QED BY <2>1, <2>3, <2>4
<1>6. \A m \in LockId : ~ InLock(c, m)
  BY <1>1 DEF InLock, Inside
<1>7. CASE WaitEnters(c)
  <2> DEFINE s == [sem[l] EXCEPT !.count = 0]
  <2>1. s \in Semaphore /\ s.count = 0 /\ s.queue = sem[l].queue /\ s.disposed = sem[l].disposed
    <3>1. 0 \in 0 .. 1 /\ 1 \in 0 .. 1
      OBVIOUS
    <3> QED BY <1>4, <3>1, WithCount
  <2>2. sem' = [sem EXCEPT ![l] = s] /\ sem[l].count = 1 /\ Goto(c, "check")
    BY <1>7 DEF WaitEnters
  <2> HIDE DEF s
  <2>3. sem' \in [LockId -> Semaphore] /\ sem'[l] = s /\ \A m \in LockId : m # l => sem'[m] = sem[m]
    BY <1>3, <1>4, <2>1, <2>2
  <2>4. /\ call' \in [Caller -> Call]
        /\ call'[c].pc = "check" /\ call'[c].lock = l /\ call'[c].node = call[c].node
        /\ \A d \in Caller : d # c => call'[d] = call[d]
        /\ Sane'
    BY <1>5, <2>2
  <2>5. TypeOK'
    BY <1>1, <1>2, <2>3, <2>4 DEF Inv, TypeOK
  <2>6. \A d \in Caller : ~ InLock(d, l)
    BY <1>1, <1>3, <2>2 DEF Inv, Holder
  <2>7. \A m \in LockId, d \in Caller : InLock(d, m)' <=> (InLock(d, m) \/ (d = c /\ m = l))
    BY <1>6, <2>4 DEF InLock, Inside
  <2>8. Holder'
    <3> SUFFICES ASSUME NEW m \in LockId, ~ sem'[m].disposed
                 PROVE  sem'[m].count = 0 <=> \E d \in Caller : InLock(d, m)'
      BY DEF Holder
    <3>1. CASE m = l
      BY <2>1, <2>3, <2>7, <3>1
    <3>2. CASE m # l
      BY <2>3, <2>7, <3>2 DEF Inv, Holder
    <3> QED BY <3>1, <3>2
  <2>9. Exclusive'
    BY <2>6, <2>7 DEF Inv, Exclusive
  <2>10. Queues'
    BY <1>1, <2>1, <2>3, <2>4, QueuesKeep
  <2>11. WillTidy(c, l)'
    BY <2>4 DEF WillTidy, Inside
  <2>12. \E e \in Caller : call'[e].lock = l /\ call'[e].pc \in Inside \cup {"wait", "tidy", "remove"}
    BY <2>4 DEF Inside
  <2>13. Dictionary'
    BY <1>1, <1>3, <2>1, <2>3, <2>4, <2>12, OthersKeep DEF WillTidy
  <2> QED BY <2>4, <2>5, <2>8, <2>9, <2>10, <2>13 DEF Inv
<1>8. CASE WaitQueues(c)
  <2> DEFINE q == Append(sem[l].queue, c)
             s == [sem[l] EXCEPT !.queue = q]
  <2>1. sem[l].queue \in Seq(Caller)
    BY <1>4 DEF Semaphore
  <2>2. /\ q \in Seq(Caller) /\ Len(q) = Len(sem[l].queue) + 1 /\ q[Len(q)] = c
        /\ \A i \in 1 .. Len(sem[l].queue) : q[i] = sem[l].queue[i]
    BY <2>1
  <2>3. sem' = [sem EXCEPT ![l] = s] /\ sem[l].count = 0 /\ Goto(c, "queued")
    BY <1>8 DEF WaitQueues
  <2> HIDE DEF q
  <2>4. s \in Semaphore /\ s.count = sem[l].count /\ s.queue = q /\ s.disposed = sem[l].disposed
    BY <1>4, <2>2, WithQueue
  <2> HIDE DEF s
  <2>5. sem' \in [LockId -> Semaphore] /\ sem'[l] = s /\ \A m \in LockId : m # l => sem'[m] = sem[m]
    BY <1>3, <1>4, <2>3, <2>4
  <2>6. /\ call' \in [Caller -> Call]
        /\ call'[c].pc = "queued" /\ call'[c].lock = l /\ call'[c].node = call[c].node
        /\ \A d \in Caller : d # c => call'[d] = call[d]
        /\ Sane'
    BY <1>5, <2>3
  <2>7. TypeOK'
    BY <1>1, <1>2, <2>5, <2>6 DEF Inv, TypeOK
  <2>8. \A m \in LockId, d \in Caller : InLock(d, m)' <=> InLock(d, m)
    BY <1>6, <2>6 DEF InLock, Inside
  <2>9. Holder'
    <3> SUFFICES ASSUME NEW m \in LockId, ~ sem'[m].disposed
                 PROVE  sem'[m].count = 0 <=> \E d \in Caller : InLock(d, m)'
      BY DEF Holder
    <3>1. sem'[m].count = sem[m].count /\ sem'[m].disposed = sem[m].disposed
      BY <2>4, <2>5
    <3> QED BY <2>8, <3>1 DEF Inv, Holder
  <2>10. Exclusive'
    BY <2>8 DEF Inv, Exclusive
  <2>11. Queues'
    <3> SUFFICES ASSUME NEW m \in LockId, NEW i \in 1 .. Len(sem'[m].queue),
                        NEW j \in 1 .. Len(sem'[m].queue)
                 PROVE  /\ call'[sem'[m].queue[i]].pc = "queued"
                        /\ call'[sem'[m].queue[i]].lock = m
                        /\ sem'[m].queue[i] = sem'[m].queue[j] => i = j
      BY DEF Queues
    <3>1. \A x \in 1 .. Len(sem[m].queue) :
            /\ sem[m].queue[x] \in Caller
            /\ sem[m].queue[x] # c
            /\ call[sem[m].queue[x]].pc = "queued"
            /\ call[sem[m].queue[x]].lock = m
      BY <1>1, Queued
    <3>2. \A x, y \in 1 .. Len(sem[m].queue) : sem[m].queue[x] = sem[m].queue[y] => x = y
      BY DEF Inv, Queues
    <3>3. CASE m # l
      BY <2>5, <2>6, <3>1, <3>2, <3>3
    <3>4. CASE m = l
      <4>1. sem'[m].queue = q
        BY <2>4, <2>5, <3>4
      <4>2. Len(sem[l].queue) \in Nat
        BY <2>1
      <4>3. \A x \in 1 .. Len(q) : x \in 1 .. Len(sem[l].queue) \/ x = Len(q)
        BY <2>2, <4>2
      <4>4. \A x \in 1 .. Len(q) : /\ call'[q[x]].pc = "queued"
                                   /\ call'[q[x]].lock = l
                                   /\ x \in 1 .. Len(sem[l].queue) <=> q[x] # c
        <5> TAKE x \in 1 .. Len(q)
        <5>1. CASE x \in 1 .. Len(sem[l].queue)
          <6>1. q[x] = sem[l].queue[x]
            BY <2>2, <5>1
          <6> QED BY <2>6, <3>1, <3>4, <5>1, <6>1
        <5>2. CASE x = Len(q)
          <6>1. q[x] = c
            BY <2>2, <5>2
          <6>2. x \notin 1 .. Len(sem[l].queue)
            BY <2>2, <4>2, <5>2, AfterLast
          <6> QED BY <2>6, <6>1, <6>2
        <5> QED BY <4>3, <5>1, <5>2
      <4>5. q[i] = q[j] => i = j
        <5>1. CASE q[i] = c
          BY <4>1, <4>3, <4>4, <5>1
        <5>2. CASE q[i] # c
          BY <2>2, <3>2, <3>4, <4>1, <4>4, <5>2
        <5> QED BY <5>1, <5>2
      <4> QED BY <3>4, <4>1, <4>4, <4>5
    <3> QED BY <3>3, <3>4
  <2>12. \E e \in Caller : call'[e].lock = l /\ call'[e].pc \in Inside \cup {"wait", "tidy", "remove"}
    <3>1. PICK d \in Caller : InLock(d, l)
      BY <1>1, <1>3, <2>3 DEF Inv, Holder
    <3>2. call'[d].lock = l /\ call'[d].pc \in Inside
      BY <1>1, <1>6, <2>6, <3>1 DEF InLock, Inside
    <3> QED BY <3>2
  <2>13. Dictionary'
    BY <1>1, <1>3, <2>4, <2>5, <2>6, <2>12, OthersKeep DEF WillTidy
  <2> QED BY <2>6, <2>7, <2>9, <2>10, <2>11, <2>13 DEF Inv
<1> QED BY <1>7, <1>8

LEMMA ReleaseKeeps ==
  ASSUME Inv, NEW c \in Caller, Release(c)
  PROVE  Inv'
<1> DEFINE l == call[c].lock
           q == sem[l].queue
<1>1. call[c].pc = "release" /\ keyLock' = keyLock /\ ~ sem[l].disposed
  BY DEF Release, At
<1>2. source' = source /\ shared' = shared /\ memory' = memory
  BY DEF Release
<1>3. call[c] \in Call /\ l # NoLock /\ l \in LockId /\ call[c].node \in Node
  BY <1>1 DEF Inv, TypeOK, Sane, Call
<1>4. sem[l] \in Semaphore /\ sem \in [LockId -> Semaphore] /\ call \in [Caller -> Call]
  BY <1>3 DEF Inv, TypeOK
<1>5. q \in Seq(Caller)
  BY <1>4 DEF Semaphore
<1>6. InLock(c, l) /\ \A d \in Caller : InLock(d, l) => d = c
  BY <1>1, <1>3 DEF InLock, Inside, Inv, Exclusive
<1>7. sem[l].count = 0
  BY <1>1, <1>3, <1>6 DEF Inv, Holder
<1> DEFINE k == [call[c] EXCEPT !.pc = "tidy"]
<1>8. k \in Call /\ k.pc = "tidy" /\ k.lock = l /\ k.node = call[c].node
  BY <1>3 DEF Call, PC
<1>9. CASE q = << >>
  <2> DEFINE s == [sem[l] EXCEPT !.count = 1]
  <2>1. s \in Semaphore /\ s.count = 1 /\ s.queue = q /\ s.disposed = sem[l].disposed
    <3>1. 0 \in 0 .. 1 /\ 1 \in 0 .. 1
      OBVIOUS
    <3> QED BY <1>4, <3>1, WithCount
  <2>2. sem' = [sem EXCEPT ![l] = s] /\ call' = [call EXCEPT ![c] = k]
    BY <1>9 DEF Release, Goto
  <2> HIDE DEF s, k
  <2>3. sem' \in [LockId -> Semaphore] /\ sem'[l] = s /\ \A m \in LockId : m # l => sem'[m] = sem[m]
    BY <1>3, <1>4, <2>1, <2>2
  <2>4. call' \in [Caller -> Call] /\ call'[c] = k /\ \A d \in Caller : d # c => call'[d] = call[d]
    BY <1>4, <1>8, <2>2
  <2>5. TypeOK'
    BY <1>1, <1>2, <2>3, <2>4 DEF Inv, TypeOK
  <2>6. Sane'
    BY <1>3, <1>8, <2>4 DEF Inv, Sane
  <2>7. \A m \in LockId, d \in Caller : InLock(d, m)' <=> (InLock(d, m) /\ d # c)
    BY <1>8, <2>4 DEF InLock, Inside
  <2>8. \A m \in LockId : m # l => ~ InLock(c, m)
    BY DEF InLock
  <2>9. Holder'
    <3> SUFFICES ASSUME NEW m \in LockId, ~ sem'[m].disposed
                 PROVE  sem'[m].count = 0 <=> \E d \in Caller : InLock(d, m)'
      BY DEF Holder
    <3>1. CASE m = l
      BY <1>6, <2>1, <2>3, <2>7, <3>1
    <3>2. CASE m # l
      BY <2>3, <2>7, <2>8, <3>2 DEF Inv, Holder
    <3> QED BY <3>1, <3>2
  <2>10. Exclusive'
    BY <2>7 DEF Inv, Exclusive
  <2>11. Queues'
    BY <1>1, <2>1, <2>3, <2>4, QueuesKeep
  <2>12. \E e \in Caller : call'[e].lock = l /\ call'[e].pc \in Inside \cup {"wait", "tidy", "remove"}
    BY <1>8, <2>4
  <2>13. Dictionary'
    BY <1>1, <1>3, <1>8, <2>1, <2>3, <2>4, <2>12, OthersKeep DEF WillTidy
  <2> QED BY <2>5, <2>6, <2>9, <2>10, <2>11, <2>13 DEF Inv
<1>10. CASE q # << >>
  <2> DEFINE h == Head(q)
             g == [call[h] EXCEPT !.pc = "check"]
             s == [sem[l] EXCEPT !.queue = Tail(q)]
  <2>1. Len(q) \in Nat /\ Len(q) >= 1 /\ 1 \in 1 .. Len(q) /\ h = q[1] /\ h \in Caller
    BY <1>5, <1>10
  <2>2. call[h].pc = "queued" /\ call[h].lock = l
    BY <1>3, <2>1, Queued
  <2>3. h # c /\ call[h] \in Call /\ call[h].node \in Node
    BY <1>1, <1>4, <2>1, <2>2 DEF Inv, Sane
  <2>4. g \in Call /\ g.pc = "check" /\ g.lock = l /\ g.node = call[h].node
    BY <2>2, <2>3 DEF Call, PC, Inside
  <2>5. /\ Tail(q) \in Seq(Caller) /\ Len(Tail(q)) = Len(q) - 1
        /\ \A i \in 1 .. Len(Tail(q)) : i + 1 \in 1 .. Len(q) /\ Tail(q)[i] = q[i + 1]
    BY <1>5, <1>10
  <2>6. s \in Semaphore /\ s.count = 0 /\ s.queue = Tail(q) /\ s.disposed = sem[l].disposed
    BY <1>4, <1>7, <2>5, WithQueue
  <2>7. sem' = [sem EXCEPT ![l] = s]
    BY <1>10 DEF Release
  <2>8. call' = [call EXCEPT ![c].pc = "tidy", ![h].pc = "check"]
    BY <1>10 DEF Release
  <2>9. /\ call' \in [Caller -> Call] /\ call'[c] = k /\ call'[h] = g
        /\ \A d \in Caller : d \notin {c, h} => call'[d] = call[d]
    BY <1>4, <1>8, <2>1, <2>3, <2>4, <2>8
  <2> HIDE DEF s, k, g, h
  <2>10. sem' \in [LockId -> Semaphore] /\ sem'[l] = s /\ \A m \in LockId : m # l => sem'[m] = sem[m]
    BY <1>3, <1>4, <2>6, <2>7
  <2>11. TypeOK'
    BY <1>1, <1>2, <2>9, <2>10 DEF Inv, TypeOK
  <2>12. Sane'
    <3> SUFFICES ASSUME NEW d \in Caller PROVE SaneCall(call'[d])
      BY DEF Sane, SaneCall
    <3>1. SaneCall(call[d])
      BY DEF Inv, Sane, SaneCall
    <3>2. CASE d = c
      BY <1>3, <1>8, <2>9, <3>2 DEF SaneCall
    <3>3. CASE d = h
      BY <1>3, <2>3, <2>4, <2>9, <3>3 DEF SaneCall
    <3>4. CASE d \notin {c, h}
      BY <2>9, <3>1, <3>4
    <3> QED BY <3>2, <3>3, <3>4
  <2>13. \A m \in LockId, d \in Caller :
           InLock(d, m)' <=> IF m = l THEN d = h ELSE InLock(d, m)
    <3> TAKE m \in LockId, d \in Caller
    <3>1. CASE d = c
      BY <1>8, <2>3, <2>9, <3>1 DEF InLock, Inside
    <3>2. CASE d = h
      BY <2>2, <2>4, <2>9, <3>2 DEF InLock, Inside
    <3>3. CASE d \notin {c, h}
      BY <1>6, <2>9, <3>3 DEF InLock
    <3> QED BY <3>1, <3>2, <3>3
  <2>14. Holder'
    <3> SUFFICES ASSUME NEW m \in LockId, ~ sem'[m].disposed
                 PROVE  sem'[m].count = 0 <=> \E d \in Caller : InLock(d, m)'
      BY DEF Holder
    <3>1. CASE m = l
      BY <2>1, <2>6, <2>10, <2>13, <3>1
    <3>2. CASE m # l
      BY <2>10, <2>13, <3>2 DEF Inv, Holder
    <3> QED BY <3>1, <3>2
  <2>15. Exclusive'
    <3> SUFFICES ASSUME NEW m \in LockId, NEW d \in Caller, NEW e \in Caller,
                        InLock(d, m)', InLock(e, m)'
                 PROVE  d = e
      BY DEF Exclusive
    <3> QED BY <2>13 DEF Inv, Exclusive
  <2>16. Queues'
    <3> SUFFICES ASSUME NEW m \in LockId, NEW i \in 1 .. Len(sem'[m].queue),
                        NEW j \in 1 .. Len(sem'[m].queue)
                 PROVE  /\ call'[sem'[m].queue[i]].pc = "queued"
                        /\ call'[sem'[m].queue[i]].lock = m
                        /\ sem'[m].queue[i] = sem'[m].queue[j] => i = j
      BY DEF Queues
    <3>1. \A x \in 1 .. Len(sem[m].queue) :
            /\ sem[m].queue[x] \in Caller
            /\ sem[m].queue[x] # c
            /\ call[sem[m].queue[x]].pc = "queued"
            /\ call[sem[m].queue[x]].lock = m
      BY <1>1, Queued
    <3>2. \A x, y \in 1 .. Len(sem[m].queue) : sem[m].queue[x] = sem[m].queue[y] => x = y
      BY DEF Inv, Queues
    <3>3. CASE m # l
      <4>1. sem'[m].queue = sem[m].queue
        BY <2>10, <3>3
      <4>2. \A x \in 1 .. Len(sem[m].queue) : sem[m].queue[x] # h
        BY <2>2, <3>1, <3>3
      <4> QED BY <2>9, <3>1, <3>2, <4>1, <4>2
    <3>4. CASE m = l
      <4>1. sem'[m].queue = Tail(q)
        BY <2>6, <2>10, <3>4
      <4>2. \A x \in 1 .. Len(Tail(q)) :
              x + 1 \in 1 .. Len(q) /\ Tail(q)[x] = q[x + 1] /\ x + 1 # 1
        BY <2>1, <2>5
      <4>3. \A x \in 1 .. Len(Tail(q)) : /\ Tail(q)[x] \in Caller \ {c, h}
                                        /\ call[Tail(q)[x]].pc = "queued"
                                        /\ call[Tail(q)[x]].lock = l
        BY <2>1, <3>1, <3>2, <3>4, <4>2
      <4>4. \A x, y \in 1 .. Len(Tail(q)) : Tail(q)[x] = Tail(q)[y] => x = y
        <5> TAKE x, y \in 1 .. Len(Tail(q))
        <5>1. Tail(q)[x] = Tail(q)[y] => x + 1 = y + 1
          BY <3>2, <3>4, <4>2
        <5>2. x \in Int /\ y \in Int
          OBVIOUS
        <5> QED BY <5>1, <5>2
      <4>5. i \in 1 .. Len(Tail(q)) /\ j \in 1 .. Len(Tail(q))
        BY <4>1
      <4> QED BY <2>9, <3>4, <4>1, <4>3, <4>4, <4>5
    <3> QED BY <3>3, <3>4
  <2>17. \E e \in Caller : call'[e].lock = l /\ call'[e].pc \in Inside \cup {"wait", "tidy", "remove"}
    BY <1>8, <2>9
  <2>18. \A e \in {c, h} : call[e].lock = l /\ call'[e].lock = l
           /\ call'[e].node = call[e].node /\ call'[e].pc # "dispose"
    BY <1>8, <2>2, <2>4, <2>9
  <2>19. Dictionary'
    <3>1. \A e \in Caller : e \notin {c, h} => call'[e] = call[e]
      BY <2>9
    <3>2. sem'[l].disposed = sem[l].disposed /\ \A m \in LockId : m # l => sem'[m] = sem[m]
      BY <2>6, <2>10
    <3> HIDE DEF q
    <3> QED BY <1>1, <1>3, <2>1, <2>17, <2>18, <3>1, <3>2, OthersKeep DEF WillTidy
  <2> QED BY <2>11, <2>12, <2>14, <2>15, <2>16, <2>19 DEF Inv
<1> QED BY <1>9, <1>10

-----------------------------------------------------------------------------
LEMMA StepKeeps == Inv /\ [Next]_vars => Inv'
<1> SUFFICES ASSUME Inv, [Next]_vars PROVE Inv'
  OBVIOUS
<1>1. ASSUME NEW c \in Caller, Step(c)
      PROVE  Inv'
  BY <1>1, InvalidateKeeps, ReadKeeps, ThrowKeeps, EnterKeeps, WaitKeeps, ReleaseKeeps,
     TidyKeeps, RemoveKeeps, DisposeKeeps DEF Step
<1> QED BY <1>1, BeginKeeps, RestKeeps DEF Next

LEMMA InvHolds == Spec => []Inv
BY InitHolds, StepKeeps, PTL DEF Spec

\* Type correctness: for any number of nodes, callers and semaphores, counts
\* stay 0 or 1, callers and queues stay what SemaphoreSlim and the methods of
\* HybridCacheService make of them.
THEOREM TypeCorrect == Spec => []TypeOK
<1>1. Inv => TypeOK
  BY DEF Inv
<1> QED BY <1>1, InvHolds, PTL

\* A semaphore that a caller gets from the dictionary is not disposed already:
\* TryRemove comes before Dispose, and no caller puts a semaphore back.
THEOREM KeyIsUsable == Spec => []KeyUsable
<1>1. Inv => KeyUsable
  BY DEF Inv, Dictionary, Registered, KeyUsable
<1> QED BY <1>1, InvHolds, PTL

\* A semaphore in the dictionary always has a caller that is still to pass the
\* end of the finally block: no order of leaving, throwing and queueing leaves
\* it behind.
THEOREM NoLockIsLeft == Spec => []NoLockLeak
<1>1. Inv => NoLockLeak
  BY DEF Inv, Dictionary, Registered, NoLockLeak
<1> QED BY <1>1, InvHolds, PTL

\* Callers that share a semaphore are in the try block one at a time, even
\* those of a semaphore that was removed or disposed under them.
THEOREM OneIsInside == Spec => []OneInside
<1>1. Inv => OneInside
  <2> SUFFICES ASSUME Inv, NEW c \in Caller, NEW d \in Caller,
                      call[c].lock # NoLock, call[c].pc \in Inside,
                      call[d].lock = call[c].lock, call[d].pc \in Inside
               PROVE  c = d
    BY DEF OneInside
  <2>1. call[c].lock \in LockId
    BY DEF Inv, TypeOK, Call
  <2> QED BY <2>1 DEF Inv, Exclusive, InLock
<1> QED BY <1>1, InvHolds, PTL
=============================================================================
