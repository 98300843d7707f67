---------------------------- MODULE HybridCache ----------------------------
(***************************************************************************)
(* One key of HybridCacheService: a memory cache on every node, a          *)
(* distributed cache they share, the source behind both, and per node a    *)
(* dictionary with the semaphore of the key (_keyLocks), made on a miss    *)
(* and removed and disposed again by the caller that leaves last.  Entries *)
(* of different keys share nothing, so one key is all there is to see.     *)
(* The source is a store of documents that gets newer versions; a value is *)
(* the version it was read at.  An action ends where the code awaits a     *)
(* call, or where another thread can step in between two of its own.       *)
(***************************************************************************)
EXTENDS Integers, Sequences

CONSTANTS
  Node,         \* processes with a memory cache
  Caller,       \* callers
  Reader,       \* those that read through the cache
  Writer,       \* those that write past it
  Again,        \* those that call again and again; the others call once
  Near,         \* the nodes a caller's requests may be sent to
  NumLocks,     \* semaphore objects alive at a time
  NoValue,      \* a null value: nothing cached
  NoNode,       \* no request is under way
  MaxVersion    \* bound: changes of the source

ASSUME CacheAssumption ==
  /\ Near \in [Caller -> SUBSET Node]
  /\ Reader \subseteq Caller
  /\ Writer \subseteq Caller
  /\ Again \subseteq Caller
  /\ NumLocks \in Nat
  /\ MaxVersion \in Nat
  /\ NoValue \notin Nat
  /\ NoNode \notin Node

VARIABLES
  source,       \* the version the store holds
  shared,       \* the distributed cache
  memory,       \* the memory cache of each node
  keyLock,      \* the entry of _keyLocks of each node
  sem,          \* the semaphores
  call          \* what each caller is doing

vars == <<source, shared, memory, keyLock, sem, call>>

LockId == 1 .. NumLocks

NoLock == 0

Value == Nat \cup {NoValue}

\* A new SemaphoreSlim(1, 1), and one after Dispose: its waiters are dropped.
NewSem == [count |-> 1, queue |-> << >>, disposed |-> FALSE]

Semaphore == [count: 0 .. 1, queue: Seq(Caller), disposed: BOOLEAN]

\* The places of a caller that entered the semaphore and has not left it.
Inside == {"check", "read", "fill", "fetch", "put", "share", "release"}

PC == {"new", "enter", "wait", "queued", "tidy", "remove", "dispose",
       "forget", "unshare", "done"} \cup Inside

Call == [pc: PC, value: Value, lock: LockId \cup {NoLock},
         node: Node \cup {NoNode}]

NewCall == [pc |-> "new", value |-> NoValue, lock |-> NoLock, node |-> NoNode]

TypeOK ==
  /\ source \in Nat
  /\ shared \in Value
  /\ memory \in [Node -> Value]
  /\ keyLock \in [Node -> LockId \cup {NoLock}]
  /\ sem \in [LockId -> Semaphore]
  /\ call \in [Caller -> Call]

Init ==
  /\ source = 0
  /\ shared = NoValue
  /\ memory = [n \in Node |-> NoValue]
  /\ keyLock = [n \in Node |-> NoLock]
  /\ sem = [l \in LockId |-> NewSem]
  /\ call = [c \in Caller |-> NewCall]

-----------------------------------------------------------------------------
At(c, place) == call[c].pc = place

Goto(c, place) == call' = [call EXCEPT ![c].pc = place]

\* A request is sent to a node.
Begin(c, n, place) ==
  call' = [call EXCEPT ![c].pc = place, ![c].node = n]

\* The caller returns, or an exception ends its call.
Return(c) ==
  call' = [call EXCEPT ![c] =
             [NewCall EXCEPT !.pc = IF c \in Again THEN "new" ELSE "done"]]

\* It leaves the try block if it is in one, else it returns.
Leave(c) ==
  IF call[c].lock = NoLock
    THEN Return(c)
    ELSE call' = [call EXCEPT ![c].pc = "release", ![c].value = NoValue]

-----------------------------------------------------------------------------
(* The source.                                                             *)

\* A document is saved and no cache hears of it (an upsert).
SourceChanges ==
  /\ source < MaxVersion
  /\ source' = source + 1
  /\ UNCHANGED <<shared, memory, keyLock, sem, call>>

\* A document is deleted, and its key is then invalidated from this node.
Delete(c) ==
  /\ At(c, "new")
  /\ c \in Writer
  /\ source < MaxVersion
  /\ source' = source + 1
  /\ \E n \in Near[c] : Begin(c, n, "forget")
  /\ UNCHANGED <<shared, memory, keyLock, sem>>

\* InvalidateAsync: this node's memory first, ...
Forget(c) ==
  /\ At(c, "forget")
  /\ memory' = [memory EXCEPT ![call[c].node] = NoValue]
  /\ Goto(c, "unshare")
  /\ UNCHANGED <<source, shared, keyLock, sem>>

\* ... then the distributed cache, whose failure the caller sees.
Unshare(c) ==
  /\ At(c, "unshare")
  /\ shared' \in {NoValue, shared}
  /\ Return(c)
  /\ UNCHANGED <<source, memory, keyLock, sem>>

-----------------------------------------------------------------------------
(* GetOrCreateAsync.                                                       *)

\* bypassCache, or a load of all documents that are then set one by one.
Bypass(c) ==
  /\ At(c, "new")
  /\ c \in Writer
  /\ \E n \in Near[c] : Begin(c, n, "fetch")
  /\ UNCHANGED <<source, shared, memory, keyLock, sem>>

\* The memory cache misses; a hit returns at once.
Get(c) ==
  /\ At(c, "new")
  /\ c \in Reader
  /\ \E n \in Near[c] : memory[n] = NoValue /\ Begin(c, n, "read")
  /\ UNCHANGED <<source, shared, memory, keyLock, sem>>

\* The distributed cache has the value ...
ReadHit(c) ==
  /\ At(c, "read")
  /\ shared # NoValue
  /\ call' = [call EXCEPT ![c].pc = "fill", ![c].value = shared]
  /\ UNCHANGED <<source, shared, memory, keyLock, sem>>

\* ... or has not, or fails, which counts as a miss.
ReadMiss(c) ==
  /\ At(c, "read")
  /\ Goto(c, IF call[c].lock = NoLock THEN "enter" ELSE "fetch")
  /\ UNCHANGED <<source, shared, memory, keyLock, sem>>

\* Mutated: the copy of the distributed value is stored in both caches.
FillBoth(c) ==
  /\ At(c, "fill")
  /\ memory' = [memory EXCEPT ![call[c].node] = call[c].value]
  /\ shared' = call[c].value
  /\ Leave(c)
  /\ UNCHANGED <<source, keyLock, sem>>

\* The value of the distributed cache is copied into the memory of the node.
Fill(c) ==
  /\ At(c, "fill")
  /\ memory' = [memory EXCEPT ![call[c].node] = call[c].value]
  /\ Leave(c)
  /\ UNCHANGED <<source, shared, keyLock, sem>>

\* No caller and no dictionary refers to the semaphore any more.
Unused(l) ==
  /\ \A c \in Caller : call[c].lock # l
  /\ \A n \in Node : keyLock[n] # l

\* GetOrAdd: the key's semaphore, or a new one.
Enter(c) ==
  /\ At(c, "enter")
  /\ \/ /\ keyLock[call[c].node] # NoLock
        /\ call' = [call EXCEPT ![c].pc = "wait", ![c].lock = keyLock[call[c].node]]
        /\ UNCHANGED <<keyLock, sem>>
     \/ \E l \in LockId :
          /\ keyLock[call[c].node] = NoLock
          /\ Unused(l)
          /\ \A m \in LockId : Unused(m) => l <= m
          /\ call' = [call EXCEPT ![c].pc = "wait", ![c].lock = l]
          /\ keyLock' = [keyLock EXCEPT ![call[c].node] = l]
          /\ sem' = [sem EXCEPT ![l] = NewSem]
  /\ UNCHANGED <<source, shared, memory>>

\* WaitAsync enters the semaphore ...
WaitEnters(c) ==
  /\ At(c, "wait")
  /\ ~ sem[call[c].lock].disposed
  /\ sem[call[c].lock].count = 1
  /\ sem' = [sem EXCEPT ![call[c].lock].count = 0]
  /\ Goto(c, "check")
  /\ UNCHANGED <<source, shared, memory, keyLock>>

\* ... or queues the caller ...
WaitQueues(c) ==
  /\ At(c, "wait")
  /\ ~ sem[call[c].lock].disposed
  /\ sem[call[c].lock].count = 0
  /\ sem' = [sem EXCEPT ![call[c].lock].queue = Append(@, c)]
  /\ Goto(c, "queued")
  /\ UNCHANGED <<source, shared, memory, keyLock>>

\* ... or throws, because the semaphore was disposed since GetOrAdd.
WaitThrows(c) ==
  /\ At(c, "wait")
  /\ sem[call[c].lock].disposed
  /\ Return(c)
  /\ UNCHANGED <<source, shared, memory, keyLock, sem>>

\* Mutated: the memory cache is not looked at again, and the caller that
\* finds a value leaves without a release.
CheckReturns(c) ==
  /\ At(c, "check")
  /\ IF memory[call[c].node] # NoValue THEN Return(c) ELSE Goto(c, "read")
  /\ UNCHANGED <<source, shared, memory, keyLock, sem>>

\* The memory cache is looked at again inside the lock.
Check(c) ==
  /\ At(c, "check")
  /\ Goto(c, IF memory[call[c].node] # NoValue THEN "release" ELSE "read")
  /\ UNCHANGED <<source, shared, memory, keyLock, sem>>

\* The factory reads the source ...
Fetch(c) ==
  /\ At(c, "fetch")
  /\ call' = [call EXCEPT ![c].pc = "put", ![c].value = source]
  /\ UNCHANGED <<source, shared, memory, keyLock, sem>>

\* ... or finds nothing to cache, or throws.
FetchNothing(c) ==
  /\ At(c, "fetch")
  /\ Leave(c)
  /\ UNCHANGED <<source, shared, memory, keyLock, sem>>

\* SetAsync: the memory cache, ...
Put(c) ==
  /\ At(c, "put")
  /\ memory' = [memory EXCEPT ![call[c].node] = call[c].value]
  /\ Goto(c, "share")
  /\ UNCHANGED <<source, shared, keyLock, sem>>

\* ... then the distributed cache, whose failure is logged and no more.
Share(c) ==
  /\ At(c, "share")
  /\ shared' \in {call[c].value, shared}
  /\ Leave(c)
  /\ UNCHANGED <<source, memory, keyLock, sem>>

-----------------------------------------------------------------------------
(* The finally block.                                                      *)

\* Mutated: the permit is handed to the first waiter and counted as well.
ReleaseTwice(c) ==
  LET l == call[c].lock  q == sem[l].queue IN
  /\ At(c, "release")
  /\ ~ sem[l].disposed
  /\ IF q = << >>
       THEN /\ sem' = [sem EXCEPT ![l].count = @ + 1]
            /\ Goto(c, "tidy")
       ELSE /\ sem' = [sem EXCEPT ![l].queue = Tail(q), ![l].count = @ + 1]
            /\ call' = [call EXCEPT ![c].pc = "tidy", ![Head(q)].pc = "check"]
  /\ UNCHANGED <<source, shared, memory, keyLock>>

\* Release gives the permit to the first waiter, or back.
Release(c) ==
  LET l == call[c].lock  q == sem[l].queue IN
  /\ At(c, "release")
  /\ ~ sem[l].disposed
  /\ IF q = << >>
       THEN /\ sem' = [sem EXCEPT ![l].count = 1]
            /\ Goto(c, "tidy")
       ELSE /\ sem' = [sem EXCEPT ![l].queue = Tail(q)]
            /\ call' = [call EXCEPT ![c].pc = "tidy", ![Head(q)].pc = "check"]
  /\ UNCHANGED <<source, shared, memory, keyLock>>

\* It throws when somebody else disposed the semaphore in the meantime.
ReleaseThrows(c) ==
  /\ At(c, "release")
  /\ sem[call[c].lock].disposed
  /\ Return(c)
  /\ UNCHANGED <<source, shared, memory, keyLock, sem>>

\* CurrentCount is compared with 1; a disposed semaphore still answers.
Tidy(c) ==
  /\ At(c, "tidy")
  /\ IF sem[call[c].lock].count = 1 THEN Goto(c, "remove") ELSE Return(c)
  /\ UNCHANGED <<source, shared, memory, keyLock, sem>>

\* Mutated: the semaphore is disposed without taking it from the dictionary.
RemoveNothing(c) ==
  /\ At(c, "remove")
  /\ IF keyLock[call[c].node] # NoLock THEN Goto(c, "dispose") ELSE Return(c)
  /\ UNCHANGED <<source, shared, memory, keyLock, sem>>

\* Mutated: only an entry that is not the caller's own semaphore is removed.
RemoveOther(c) ==
  /\ At(c, "remove")
  /\ IF keyLock[call[c].node] \notin {NoLock, call[c].lock}
       THEN Goto(c, "dispose") ELSE Return(c)
  /\ keyLock' = [keyLock EXCEPT ![call[c].node] = IF @ = call[c].lock THEN @ ELSE NoLock]
  /\ UNCHANGED <<source, shared, memory, sem>>

\* TryRemove takes whatever semaphore the key has by now.
Remove(c) ==
  /\ At(c, "remove")
  /\ IF keyLock[call[c].node] # NoLock THEN Goto(c, "dispose") ELSE Return(c)
  /\ keyLock' = [keyLock EXCEPT ![call[c].node] = NoLock]
  /\ UNCHANGED <<source, shared, memory, sem>>

\* Dispose forgets the waiters: their tasks never complete.
Dispose(c) ==
  /\ At(c, "dispose")
  /\ sem' = [sem EXCEPT ![call[c].lock].disposed = TRUE,
                        ![call[c].lock].queue = << >>]
  /\ Return(c)
  /\ UNCHANGED <<source, shared, memory, keyLock>>

-----------------------------------------------------------------------------
(* Entries have an absolute expiration.                                    *)

ExpireMemory(n) ==
  /\ memory[n] # NoValue
  /\ memory' = [memory EXCEPT ![n] = NoValue]
  /\ UNCHANGED <<source, shared, keyLock, sem, call>>

ExpireShared ==
  /\ shared # NoValue
  /\ shared' = NoValue
  /\ UNCHANGED <<source, memory, keyLock, sem, call>>

-----------------------------------------------------------------------------
\* A caller goes on with what it began.
Step(c) ==
  \/ Forget(c) \/ Unshare(c)
  \/ ReadHit(c) \/ ReadMiss(c) \/ Fill(c)
  \/ Enter(c) \/ WaitEnters(c) \/ WaitQueues(c) \/ WaitThrows(c) \/ Check(c)
  \/ Fetch(c) \/ FetchNothing(c) \/ Put(c) \/ Share(c)
  \/ Release(c) \/ ReleaseThrows(c) \/ Tidy(c) \/ Remove(c) \/ Dispose(c)

Next ==
  \/ SourceChanges
  \/ ExpireShared
  \/ \E n \in Node : ExpireMemory(n)
  \/ \E c \in Caller : Delete(c) \/ Bypass(c) \/ Get(c) \/ Step(c)

Spec == Init /\ [][Next]_vars

\* Calls go on, and entries reach their expiration.
Fairness ==
  /\ \A c \in Caller : WF_vars(Step(c))
  /\ \A n \in Node : WF_vars(ExpireMemory(n))
  /\ WF_vars(ExpireShared)

FairSpec == Spec /\ Fairness

-----------------------------------------------------------------------------
\* A semaphore that was disposed is in no dictionary: otherwise every later
\* miss of the key on that node would end in an exception.  It takes the order
\* of TryRemove and Dispose, and that TryRemove ignores whose entry it takes.
KeyUsable ==
  \A n \in Node : keyLock[n] # NoLock => ~ sem[keyLock[n]].disposed

\* A caller that will still come to the end of the finally block with l, or
\* hand it to one that will.
WillTidy(c, l) ==
  /\ call[c].lock = l
  /\ call[c].pc \in Inside \cup {"wait", "tidy", "remove"}

\* A semaphore stays in the dictionary only while somebody is bound to clean
\* it up: callers that leave in any order, throw or find the count taken do
\* not leave it behind.
NoLockLeak ==
  \A n \in Node : keyLock[n] # NoLock => \E c \in Caller : WillTidy(c, keyLock[n])

\* Callers that share a semaphore are inside one at a time, also when it was
\* removed or disposed while they used it.
OneInside ==
  \A c, d \in Caller :
    /\ call[c].lock # NoLock /\ call[c].pc \in Inside
    /\ call[d].lock = call[c].lock /\ call[d].pc \in Inside
    => c = d

\* The wait of c can no longer end: its semaphore was disposed with c queued.
Abandoned(c) == At(c, "queued") /\ sem[call[c].lock].disposed

\* Every call returns, but for those that a disposed semaphore forgot.
CallsReturn ==
  \A c \in Caller : []<>(At(c, "new") \/ At(c, "done") \/ Abandoned(c))

\* A cache entry is absent or what the source holds.
Current(v) == v \in {NoValue, source}

\* Once the source stops changing, the caches stop serving old values, in
\* spite of upserts without invalidation, invalidations that overlap with
\* reads or fail half way, and late factories: expiry mends them all, because
\* no value goes from a memory cache back to the distributed one.
Converges == <>[](Current(shared) /\ \A n \in Node : Current(memory[n]))

=============================================================================
