-------------------------- MODULE AllocatorProofs --------------------------
(***************************************************************************)
(* Proofs about Allocator for bitmaps of every size, every reserved set    *)
(* and any number of crashes.                                              *)
(***************************************************************************)
EXTENDS Allocator, FiniteSetTheorems, TLAPS

\* What a call in progress knows about its number: it is in range, and its
\* bit is already as the call leaves it.
TaskMarked ==
  task # Idle =>
    /\ task.num \in Number(task.kind)
    /\ task.call = "alloc"   => task.num \in used[task.kind]
    /\ task.call = "dealloc" => task.num \notin used[task.kind]

IInv ==
  /\ TypeOK
  /\ TaskMarked
  /\ HeldMarked
  /\ CountsExact

-----------------------------------------------------------------------------
\* The clear bits are finitely many, no more than the size of the bitmap.
LEMMA FreeFinite ==
  ASSUME NEW k \in Kind
  PROVE  /\ IsFiniteSet(Free(k))
         /\ Cardinality(Free(k)) \in 0..Limit[k]
<1>1. Limit[k] \in Nat
  BY AllocAssumption
<1>2. IsFiniteSet(Number(k)) /\ Cardinality(Number(k)) = Limit[k]
  BY <1>1, FS_Interval DEF Number
<1>3. Free(k) \subseteq Number(k)
  BY DEF Free
<1>4. IsFiniteSet(Free(k)) /\ Cardinality(Free(k)) <= Limit[k]
  BY <1>2, <1>3, FS_Subset
<1>5. QED
  BY <1>1, <1>4, FS_CardinalityType

\* Setting a clear bit takes one from the clear bits of its bitmap only.
LEMMA SetBit ==
  ASSUME TypeOK, NEW k \in Kind, NEW n \in Free(k),
         used' = [used EXCEPT ![k] = @ \cup {n}]
  PROVE  \A j \in Kind :
           Cardinality(Free(j)') = IF j = k THEN Cardinality(Free(j)) - 1
                                            ELSE Cardinality(Free(j))
<1>1. Free(k)' = Free(k) \ {n}
  BY DEF Free, Number, TypeOK
<1>2. Cardinality(Free(k)') = Cardinality(Free(k)) - 1
  BY <1>1, FreeFinite, FS_RemoveElement
<1>3. \A j \in Kind \ {k} : Free(j)' = Free(j)
  BY DEF Free, Number, TypeOK
<1>4. QED
  BY <1>2, <1>3

\* Clearing a set bit adds one.
LEMMA ClearBit ==
  ASSUME TypeOK, NEW k \in Kind, NEW n \in used[k],
         used' = [used EXCEPT ![k] = @ \ {n}]
  PROVE  \A j \in Kind :
           Cardinality(Free(j)') = IF j = k THEN Cardinality(Free(j)) + 1
                                            ELSE Cardinality(Free(j))
<1>1. Free(k)' = Free(k) \cup {n} /\ n \notin Free(k)
  BY DEF Free, Number, TypeOK
<1>2. Cardinality(Free(k)') = Cardinality(Free(k)) + 1
  BY <1>1, FreeFinite, FS_AddElement
<1>3. \A j \in Kind \ {k} : Free(j)' = Free(j)
  BY DEF Free, Number, TypeOK
<1>4. QED
  BY <1>2, <1>3

-----------------------------------------------------------------------------
\* A fresh file system has the invariant.
LEMMA InitInv == Init => IInv
<1> SUFFICES ASSUME Init PROVE IInv
  OBVIOUS
<1>1. \A k \in Kind : /\ Limit[k] \in Nat
                      /\ Limit[k] < SuperMod /\ Limit[k] < GroupMod
                      /\ Reserved[k] \subseteq Number(k)
                      /\ Number(k) \subseteq Nat
  BY AllocAssumption DEF Number
<1>2. \A k \in Kind : Free(k) = Number(k) \ Reserved[k]
  BY DEF Init, Free
<1>3. \A k \in Kind : /\ sfree[k] = Cardinality(Free(k))
                      /\ gfree[k] = Cardinality(Free(k))
  BY <1>2 DEF Init
<1>4. TypeOK
  <2>1. ASSUME NEW k \in Kind
        PROVE  /\ Cardinality(Number(k) \ Reserved[k]) \in 0..(SuperMod - 1)
               /\ Cardinality(Number(k) \ Reserved[k]) \in 0..(GroupMod - 1)
    <3>1. Cardinality(Number(k) \ Reserved[k]) \in 0..Limit[k]
      BY <1>2, FreeFinite
    <3>2. QED
      BY <3>1, <1>1, AllocAssumption
  <2>2. sfree \in [Kind -> 0..(SuperMod - 1)]
        /\ gfree \in [Kind -> 0..(GroupMod - 1)]
    BY <2>1 DEF Init
  <2>3. used \in [Kind -> SUBSET Nat] /\ \A k \in Kind : used[k] \subseteq Number(k)
    BY <1>1 DEF Init
  <2>4. QED
    BY <2>2, <2>3 DEF Init, TypeOK
<1>5. TaskMarked /\ HeldMarked
  BY DEF Init, TaskMarked, HeldMarked, InFlight
<1>6. CountsExact
  <2>1. \A k \in Kind : Cardinality(Free(k)) \in Int
    BY FreeFinite
  <2>2. \A k \in Kind, w \in {{"super"}, {"super", "group"}} : Pending(k, w) = 0
    BY DEF Init, Pending
  <2>3. QED
    BY <1>3, <2>1, <2>2 DEF CountsExact
<1>7. QED
  BY <1>4, <1>5, <1>6 DEF IInv

-----------------------------------------------------------------------------
\* The two correction terms of CountsExact, by the state of the call.
SuperPending(k) == Pending(k, {"super"})
GroupPending(k) == Pending(k, {"super", "group"})

LEMMA PendingValues ==
  ASSUME NEW k \in Kind
  PROVE  /\ task = Idle => SuperPending(k) = 0 /\ GroupPending(k) = 0
         /\ task # Idle /\ task.kind # k =>
              SuperPending(k) = 0 /\ GroupPending(k) = 0
         /\ task # Idle /\ task.kind = k /\ task.call = "alloc" =>
              /\ task.next = "super" => SuperPending(k) = 1
              /\ task.next = "group" => SuperPending(k) = 0
              /\ task.next \in {"super", "group"} => GroupPending(k) = 1
         /\ task # Idle /\ task.kind = k /\ task.call = "dealloc" =>
              /\ task.next = "super" => SuperPending(k) = -1
              /\ task.next = "group" => SuperPending(k) = 0
              /\ task.next \in {"super", "group"} => GroupPending(k) = -1
BY DEF SuperPending, GroupPending, Pending

\* ialloc and balloc.
LEMMA AllocInv ==
  ASSUME IInv, NEW k \in Kind, Alloc(k)
  PROVE  IInv'
<1> USE DEF IInv
<1>1. PICK n \in Free(k) :
        /\ used' = [used EXCEPT ![k] = @ \cup {n}]
        /\ task' = [call |-> "alloc", kind |-> k, num |-> n, next |-> "super"]
  BY DEF Alloc
<1>2. task = Idle /\ UNCHANGED <<sfree, gfree, held, crashes>>
  BY DEF Alloc
<1>3. n \in Number(k) /\ n \notin used[k] /\ n \in Nat
  BY AllocAssumption DEF Free, Number
<1>4. \A j \in Kind : used'[j] = IF j = k THEN used[j] \cup {n} ELSE used[j]
  BY <1>1 DEF TypeOK
<1>5. task' # Idle
  BY <1>1 DEF Idle
<1>6. TypeOK'
  <2>1. task' \in Task
    BY <1>1, <1>3 DEF Task
  <2>2. used' \in [Kind -> SUBSET Nat] /\ \A j \in Kind : used'[j] \subseteq Number(j)'
    BY <1>1, <1>3, <1>4 DEF TypeOK, Number
  <2>3. QED
    BY <1>2, <2>1, <2>2 DEF TypeOK
<1>7. TaskMarked'
  BY <1>1, <1>3, <1>4 DEF TaskMarked, Number
<1>8. HeldMarked'
  <2>1. \A j \in Kind :
          InFlight(j, "alloc")' = (IF j = k THEN {n} ELSE {})
          /\ InFlight(j, "alloc") = {}
    BY <1>1, <1>2, <1>5 DEF InFlight
  <2>2. \A j \in Kind : /\ Reserved[j] \cup held[j] \subseteq used[j]
                        /\ Reserved[j] \cap held[j] = {}
    BY DEF HeldMarked
  <2>3. held' = held /\ n \notin Reserved[k] /\ n \notin held[k]
    BY <1>2, <1>3, <2>2
  <2>4. QED
    BY <1>4, <2>1, <2>2, <2>3 DEF HeldMarked
<1>9. CountsExact'
  <2> SUFFICES ASSUME crashes = 0, NEW j \in Kind
               PROVE  /\ sfree[j] = Cardinality(Free(j)') + SuperPending(j)'
                      /\ gfree[j] = Cardinality(Free(j)') + GroupPending(j)'
    BY <1>2 DEF CountsExact, SuperPending, GroupPending
  <2>1. SuperPending(j) = 0 /\ GroupPending(j) = 0
    BY <1>2, PendingValues
  <2>2. SuperPending(j)' = (IF j = k THEN 1 ELSE 0)
        /\ GroupPending(j)' = (IF j = k THEN 1 ELSE 0)
    BY <1>1, <1>5 DEF SuperPending, GroupPending, Pending
  <2>3. sfree[j] = Cardinality(Free(j)) /\ gfree[j] = Cardinality(Free(j))
    BY <2>1, FreeFinite DEF CountsExact, SuperPending, GroupPending
  <2>4. Cardinality(Free(j)') = IF j = k THEN Cardinality(Free(j)) - 1
                                         ELSE Cardinality(Free(j))
    BY <1>1, SetBit
  <2>5. Cardinality(Free(j)) \in Int
    BY FreeFinite
  <2>6. QED
    BY <2>2, <2>3, <2>4, <2>5
<1>10. QED
  BY <1>6, <1>7, <1>8, <1>9

\* idalloc and bdalloc.
LEMMA DeallocInv ==
  ASSUME IInv, NEW k \in Kind, NEW n \in Number(k), Dealloc(k, n)
  PROVE  IInv'
<1> USE DEF IInv
<1>1. /\ task = Idle /\ n \in held[k]
      /\ used' = [used EXCEPT ![k] = @ \ {n}]
      /\ held' = [held EXCEPT ![k] = @ \ {n}]
      /\ task' = [call |-> "dealloc", kind |-> k, num |-> n, next |-> "super"]
      /\ UNCHANGED <<sfree, gfree, crashes>>
  BY DEF Dealloc
<1>2. n \in used[k] /\ n \notin Reserved[k]
  BY <1>1 DEF HeldMarked
<1>3. \A j \in Kind :
        /\ used'[j] = IF j = k THEN used[j] \ {n} ELSE used[j]
        /\ held'[j] = IF j = k THEN held[j] \ {n} ELSE held[j]
  BY <1>1 DEF TypeOK
<1>4. task' # Idle
  BY <1>1 DEF Idle
<1>5. TypeOK'
  <2>1. n \in Nat
    BY AllocAssumption DEF Number
  <2>2. task' \in Task
    BY <1>1, <2>1 DEF Task
  <2>3. /\ used' \in [Kind -> SUBSET Nat]
        /\ held' \in [Kind -> SUBSET Nat]
        /\ \A j \in Kind : used'[j] \subseteq Number(j)'
    BY <1>1, <1>3 DEF TypeOK, Number
  <2>4. QED
    BY <1>1, <2>2, <2>3 DEF TypeOK
<1>6. TaskMarked'
  BY <1>1, <1>3 DEF TaskMarked, Number
<1>7. HeldMarked'
  <2>1. \A j \in Kind : InFlight(j, "alloc")' = {} /\ InFlight(j, "alloc") = {}
    BY <1>1 DEF InFlight
  <2>2. \A j \in Kind : /\ Reserved[j] \cup held[j] \subseteq used[j]
                        /\ Reserved[j] \cap held[j] = {}
    BY DEF HeldMarked
  <2>3. QED
    BY <1>2, <1>3, <2>1, <2>2 DEF HeldMarked
<1>8. CountsExact'
  <2> SUFFICES ASSUME crashes = 0, NEW j \in Kind
               PROVE  /\ sfree[j] = Cardinality(Free(j)') + SuperPending(j)'
                      /\ gfree[j] = Cardinality(Free(j)') + GroupPending(j)'
    BY <1>1 DEF CountsExact, SuperPending, GroupPending
  <2>1. SuperPending(j) = 0 /\ GroupPending(j) = 0
    BY <1>1, PendingValues
  <2>2. SuperPending(j)' = (IF j = k THEN -1 ELSE 0)
        /\ GroupPending(j)' = (IF j = k THEN -1 ELSE 0)
    BY <1>1, <1>4 DEF SuperPending, GroupPending, Pending
  <2>3. sfree[j] = Cardinality(Free(j)) /\ gfree[j] = Cardinality(Free(j))
    BY <2>1, FreeFinite DEF CountsExact, SuperPending, GroupPending
  <2>4. Cardinality(Free(j)') = IF j = k THEN Cardinality(Free(j)) + 1
                                         ELSE Cardinality(Free(j))
    BY <1>1, <1>2, ClearBit
  <2>5. Cardinality(Free(j)) \in Int
    BY FreeFinite
  <2>6. QED
    BY <2>2, <2>3, <2>4, <2>5
<1>9. QED
  BY <1>5, <1>6, <1>7, <1>8

\* What a call in progress knows about its kind.
LEMMA TaskType ==
  ASSUME TypeOK, task # Idle
  PROVE  task \in Task /\ task.kind \in Kind /\ task.num \in Nat
BY DEF TypeOK, Task

\* A count that is exact up to the call in progress does not wrap when the
\* call adjusts it.
LEMMA AdjustExact ==
  ASSUME NEW mod \in Nat, NEW lim \in Nat, lim < mod,
         NEW free \in 0..lim, NEW c \in 0..(mod - 1), TypeOK, task # Idle,
         task.call = "alloc" => c = free + 1,
         task.call = "dealloc" => c = free - 1
  PROVE  Adjust(c, mod) = free
<1>1. task.call \in {"alloc", "dealloc"}
  BY TaskType DEF Task
<1>2. CASE task.call = "alloc"
  BY <1>2 DEF Adjust, DecCount
<1>3. CASE task.call = "dealloc"
  BY <1>3 DEF Adjust, IncCount
<1>4. QED
  BY <1>1, <1>2, <1>3

\* A count stays in its range whatever its value.
LEMMA AdjustType ==
  ASSUME NEW mod \in Nat, NEW c \in 0..(mod - 1)
  PROVE  Adjust(c, mod) \in 0..(mod - 1)
BY DEF Adjust, DecCount, IncCount

\* The superblock count.
LEMMA PutSuperInv ==
  ASSUME IInv, PutSuper
  PROVE  IInv'
<1> USE DEF IInv
<1>1. /\ task # Idle /\ task.next = "super"
      /\ sfree' = [sfree EXCEPT ![task.kind] = Adjust(@, SuperMod)]
      /\ task'  = [task EXCEPT !.next = "group"]
      /\ UNCHANGED <<used, gfree, held, crashes>>
  BY DEF PutSuper
<1>2. task \in Task
  BY <1>1, TaskType
<1>3. task' \in Task /\ task'.next = "group" /\ task' # Idle
      /\ task'.kind = task.kind /\ task'.num = task.num
      /\ task'.call = task.call
  BY <1>1, <1>2 DEF Task, Idle
<1>4. TypeOK'
  <2>1. sfree' \in [Kind -> 0..(SuperMod - 1)]
    BY <1>1, <1>2, AdjustType, AllocAssumption DEF TypeOK, Task
  <2>2. QED
    BY <1>1, <1>3, <2>1 DEF TypeOK, Number
<1>5. TaskMarked'
  BY <1>1, <1>3 DEF TaskMarked, Number
<1>6. HeldMarked'
  <2>1. \A k \in Kind : InFlight(k, "alloc")' = InFlight(k, "alloc")
    BY <1>1, <1>3 DEF InFlight
  <2>2. QED
    BY <1>1, <2>1 DEF HeldMarked
<1>7. CountsExact'
  <2> SUFFICES ASSUME crashes = 0, NEW j \in Kind
               PROVE  /\ sfree'[j] = Cardinality(Free(j)) + SuperPending(j)'
                      /\ gfree[j] = Cardinality(Free(j)) + GroupPending(j)'
    BY <1>1 DEF CountsExact, SuperPending, GroupPending, Free, Number
  <2>1. /\ sfree[j] = Cardinality(Free(j)) + SuperPending(j)
        /\ gfree[j] = Cardinality(Free(j)) + GroupPending(j)
    BY DEF CountsExact, SuperPending, GroupPending
  <2>2. SuperPending(j)' = 0 /\ GroupPending(j)' = GroupPending(j)
    BY <1>1, <1>2, <1>3 DEF SuperPending, GroupPending, Pending, Task
  <2>3. Cardinality(Free(j)) \in 0..Limit[j] /\ Limit[j] \in Nat
        /\ Limit[j] < SuperMod /\ SuperMod \in Nat
        /\ sfree[j] \in 0..(SuperMod - 1)
    BY FreeFinite, AllocAssumption DEF TypeOK
  <2>4. CASE j = task.kind
    <3>1. task.call = "alloc" => SuperPending(j) = 1
      BY <1>1, <2>4, PendingValues
    <3>2. task.call = "dealloc" => SuperPending(j) = -1
      BY <1>1, <2>4, PendingValues
    <3>3. Adjust(sfree[j], SuperMod) = Cardinality(Free(j))
      <4>1. task.call = "alloc" => sfree[j] = Cardinality(Free(j)) + 1
        BY <2>1, <3>1
      <4>2. task.call = "dealloc" => sfree[j] = Cardinality(Free(j)) - 1
        BY <2>1, <2>3, <3>2
      <4>3. QED
        BY <4>1, <4>2, <2>3, <1>1, AdjustExact
    <3>4. sfree'[j] = Adjust(sfree[j], SuperMod)
      BY <1>1, <2>4 DEF TypeOK
    <3>5. QED
      BY <2>1, <2>2, <2>3, <3>3, <3>4
  <2>5. CASE j # task.kind
    <3>1. sfree'[j] = sfree[j] /\ SuperPending(j) = 0
      BY <1>1, <2>5, PendingValues DEF TypeOK
    <3>2. QED
      BY <3>1, <2>1, <2>2
  <2>6. QED
    BY <2>4, <2>5
<1>8. QED
  BY <1>4, <1>5, <1>6, <1>7

\* The group descriptor's count; an allocator's number is handed out.
LEMMA PutGroupInv ==
  ASSUME IInv, PutGroup
  PROVE  IInv'
<1> USE DEF IInv
<1>1. /\ task # Idle /\ task.next = "group"
      /\ gfree' = [gfree EXCEPT ![task.kind] = Adjust(@, GroupMod)]
      /\ held'  = IF task.call = "alloc"
                  THEN [held EXCEPT ![task.kind] = @ \cup {task.num}]
                  ELSE held
      /\ task' = Idle
      /\ UNCHANGED <<used, sfree, crashes>>
  BY DEF PutGroup
<1>2. task \in Task
  BY <1>1, TaskType
<1>3. TypeOK'
  <2>1. gfree' \in [Kind -> 0..(GroupMod - 1)]
    BY <1>1, <1>2, AdjustType, AllocAssumption DEF TypeOK, Task
  <2>2. held' \in [Kind -> SUBSET Nat]
    BY <1>1, <1>2 DEF TypeOK, Task
  <2>3. QED
    BY <1>1, <2>1, <2>2 DEF TypeOK, Number
<1>4. TaskMarked'
  BY <1>1 DEF TaskMarked
<1>5. HeldMarked'
  <2>1. \A k \in Kind :
          held'[k] \subseteq held[k] \cup InFlight(k, "alloc")
    BY <1>1, <1>2 DEF InFlight, TypeOK, Task
  <2>2. \A k \in Kind : InFlight(k, "alloc")' = {}
    BY <1>1 DEF InFlight
  <2>3. QED
    BY <1>1, <2>1, <2>2 DEF HeldMarked
<1>6. CountsExact'
  <2> SUFFICES ASSUME crashes = 0, NEW j \in Kind
               PROVE  /\ sfree[j] = Cardinality(Free(j)) + SuperPending(j)'
                      /\ gfree'[j] = Cardinality(Free(j)) + GroupPending(j)'
    BY <1>1 DEF CountsExact, SuperPending, GroupPending, Free, Number
  <2>1. /\ sfree[j] = Cardinality(Free(j)) + SuperPending(j)
        /\ gfree[j] = Cardinality(Free(j)) + GroupPending(j)
    BY DEF CountsExact, SuperPending, GroupPending
  <2>2. SuperPending(j)' = 0 /\ GroupPending(j)' = 0 /\ SuperPending(j) = 0
    BY <1>1, <1>2, PendingValues DEF SuperPending, GroupPending, Pending, Task
  <2>3. Cardinality(Free(j)) \in 0..Limit[j] /\ Limit[j] \in Nat
        /\ Limit[j] < GroupMod /\ GroupMod \in Nat
        /\ gfree[j] \in 0..(GroupMod - 1)
    BY FreeFinite, AllocAssumption DEF TypeOK
  <2>4. CASE j = task.kind
    <3>1. task.call = "alloc" => GroupPending(j) = 1
      BY <1>1, <2>4, PendingValues
    <3>2. task.call = "dealloc" => GroupPending(j) = -1
      BY <1>1, <2>4, PendingValues
    <3>3. Adjust(gfree[j], GroupMod) = Cardinality(Free(j))
      <4>1. task.call = "alloc" => gfree[j] = Cardinality(Free(j)) + 1
        BY <2>1, <3>1
      <4>2. task.call = "dealloc" => gfree[j] = Cardinality(Free(j)) - 1
        BY <2>1, <2>3, <3>2
      <4>3. QED
        BY <4>1, <4>2, <2>3, <1>1, AdjustExact
    <3>4. gfree'[j] = Adjust(gfree[j], GroupMod)
      BY <1>1, <2>4 DEF TypeOK
    <3>5. QED
      BY <2>1, <2>2, <2>3, <3>3, <3>4
  <2>5. CASE j # task.kind
    <3>1. gfree'[j] = gfree[j] /\ GroupPending(j) = 0
      BY <1>1, <2>5, PendingValues DEF TypeOK
    <3>2. QED
      BY <3>1, <2>1, <2>2
  <2>6. QED
    BY <2>4, <2>5
<1>7. QED
  BY <1>3, <1>4, <1>5, <1>6

\* A crash forgets numbers, never marks or clears a bit.
LEMMA CrashInv ==
  ASSUME IInv, Crash
  PROVE  IInv'
<1> USE DEF IInv
<1>1. /\ crashes' = crashes + 1 /\ task' = Idle
      /\ \A k \in Kind : held'[k] \subseteq held[k]
      /\ held' \in [Kind -> SUBSET (UNION {held[k] : k \in Kind})]
      /\ UNCHANGED <<used, sfree, gfree>>
  BY DEF Crash
<1>2. TypeOK'
  <2>1. UNION {held[k] : k \in Kind} \subseteq Nat
    BY DEF TypeOK
  <2>2. held' \in [Kind -> SUBSET Nat]
    BY <1>1, <2>1
  <2>3. QED
    BY <1>1, <2>2 DEF TypeOK, Number
<1>3. TaskMarked'
  BY <1>1 DEF TaskMarked
<1>4. HeldMarked'
  <2>1. \A k \in Kind : InFlight(k, "alloc")' = {}
    BY <1>1 DEF InFlight
  <2>2. QED
    BY <1>1, <2>1 DEF HeldMarked
<1>5. CountsExact'
  BY <1>1 DEF TypeOK, CountsExact
<1>6. QED
  BY <1>2, <1>3, <1>4, <1>5

-----------------------------------------------------------------------------
\* The inductive invariant.
THEOREM Invariant == Spec => []IInv
<1>1. IInv /\ [Next]_vars => IInv'
  <2> SUFFICES ASSUME IInv, [Next]_vars PROVE IInv'
    OBVIOUS
  <2>1. ASSUME NEW k \in Kind, Alloc(k) PROVE IInv'
    BY <2>1, AllocInv
  <2>2. ASSUME NEW k \in Kind, NEW n \in Number(k), Dealloc(k, n) PROVE IInv'
    BY <2>2, DeallocInv
  <2>3. CASE PutSuper
    BY <2>3, PutSuperInv
  <2>4. CASE PutGroup
    BY <2>4, PutGroupInv
  <2>5. CASE Crash
    BY <2>5, CrashInv
  <2>6. CASE UNCHANGED vars
    BY <2>6 DEF vars, IInv, TypeOK, TaskMarked, HeldMarked, CountsExact,
                Number, Free, InFlight, Pending
  <2>7. QED
    BY <2>1, <2>2, <2>3, <2>4, <2>5, <2>6 DEF Next
<1>2. QED
  BY <1>1, InitInv, PTL DEF Spec

\* Types: among them, the count fields never leave the range of their width.
THEOREM TypeCorrect == Spec => []TypeOK
<1>1. IInv => TypeOK
  BY DEF IInv
<1>2. QED
  BY <1>1, Invariant, PTL

\* No number in use is ever handed out twice, however calls and crashes mix.
THEOREM NeverTwice == Spec => []HeldMarked
<1>1. IInv => HeldMarked
  BY DEF IInv
<1>2. QED
  BY <1>1, Invariant, PTL

\* Without a crash both free counts are exact and never wrap.
THEOREM CountsStayExact == Spec => []CountsExact
<1>1. IInv => CountsExact
  BY DEF IInv
<1>2. QED
  BY <1>1, Invariant, PTL

\* No call reclaims or hands out what a crash has leaked.
THEOREM LeaksStay == Spec => LeakPermanent
<1>1. IInv /\ [Next]_vars => [\A k \in Kind : Leaked(k) \subseteq Leaked(k)']_vars
  <2> SUFFICES ASSUME TypeOK, Next, NEW j \in Kind
               PROVE  Leaked(j) \subseteq Leaked(j)'
    BY DEF IInv
  <2>1. ASSUME NEW k \in Kind, Alloc(k) PROVE Leaked(j) \subseteq Leaked(j)'
    <3>1. PICK n \in Free(k) :
            /\ used' = [used EXCEPT ![k] = @ \cup {n}]
            /\ task' = [call |-> "alloc", kind |-> k, num |-> n,
                        next |-> "super"]
      BY <2>1 DEF Alloc
    <3>2. task = Idle /\ held' = held /\ n \notin used[k]
      BY <2>1 DEF Alloc, Free
    <3>3. used[j] \subseteq used'[j]
      BY <3>1 DEF TypeOK
    <3>4. InFlight(j, "alloc")' \cap used[j] = {}
      BY <3>1, <3>2 DEF InFlight
    <3>5. QED
      BY <3>2, <3>3, <3>4 DEF Leaked
  <2>2. ASSUME NEW k \in Kind, NEW n \in Number(k), Dealloc(k, n)
        PROVE  Leaked(j) \subseteq Leaked(j)'
    <3>1. /\ n \in held[k] /\ task'.call = "dealloc"
          /\ used' = [used EXCEPT ![k] = @ \ {n}]
          /\ held' = [held EXCEPT ![k] = @ \ {n}]
      BY <2>2 DEF Dealloc
    <3>2. InFlight(j, "alloc")' = {}
      BY <3>1 DEF InFlight
    <3>3. used[j] \ held[j] \subseteq used'[j] /\ held'[j] \subseteq held[j]
      BY <3>1 DEF TypeOK
    <3>4. QED
      BY <3>2, <3>3 DEF Leaked
  <2>3. CASE PutSuper
    <3>1. task \in Task
      BY <2>3, TaskType DEF PutSuper
    <3>2. InFlight(j, "alloc")' = InFlight(j, "alloc")
      BY <2>3, <3>1 DEF PutSuper, InFlight, Task, Idle
    <3>3. QED
      BY <2>3, <3>2 DEF PutSuper, Leaked
  <2>4. CASE PutGroup
    <3>1. InFlight(j, "alloc")' = {}
      BY <2>4 DEF PutGroup, InFlight
    <3>2. held'[j] \subseteq held[j] \cup InFlight(j, "alloc")
      BY <2>4, TaskType DEF PutGroup, InFlight, TypeOK, Task
    <3>3. used'[j] = used[j]
      BY <2>4 DEF PutGroup
    <3>4. QED
      BY <3>1, <3>2, <3>3 DEF Leaked
  <2>5. CASE Crash
    <3>1. InFlight(j, "alloc")' = {}
      BY <2>5 DEF Crash, InFlight
    <3>2. QED
      BY <2>5, <3>1 DEF Crash, Leaked
  <2>6. QED
    BY <2>1, <2>2, <2>3, <2>4, <2>5 DEF Next
<1>2. QED
  BY <1>1, Invariant, PTL DEF Spec, LeakPermanent

-----------------------------------------------------------------------------
(***************************************************************************)
(* Counts that wrap                                                        *)
(***************************************************************************)
Splits(a, q, m, r) == a = q * m + r

LEMMA Splitting ==
  ASSUME NEW m \in Nat, m > 0, NEW a \in Int
  PROVE  /\ a \div m \in Int /\ (a % m) \in 0..(m - 1)
         /\ Splits(a, a \div m, m, a % m)
<1>1. (a % m) \in 0..(m - 1)
  OBVIOUS
<1>2. a = ((a \div m) * m) + (a % m)
  OBVIOUS
<1>3. a \div m \in Int
  OBVIOUS
<1>4. QED
  BY <1>1, <1>2, <1>3 DEF Splits

\* The remainder is the only number below m that a differs from by a multiple.
LEMMA Remainder ==
  ASSUME NEW m \in Nat, m > 0, NEW a \in Int, NEW q \in Int, NEW r \in 0..(m - 1),
         Splits(a, q, m, r)
  PROVE  a % m = r
<1> DEFINE p == a \div m
           s == a % m
<1>1. p \in Int /\ s \in 0..(m - 1) /\ Splits(a, p, m, s)
  BY Splitting
<1> HIDE DEF p, s
<1>2. (q - p) * m = s - r
  BY <1>1 DEF Splits
<1>3. CASE q - p >= 1
  <2>1. (q - p) * m >= m
    BY <1>1, <1>3
  <2>2. QED
    BY <1>1, <1>2, <2>1
<1>4. CASE q - p <= -1
  <2>1. (p - q) * m >= m
    BY <1>1, <1>4
  <2>2. QED
    BY <1>1, <1>2, <2>1
<1>5. CASE q - p = 0
  <2>1. (q - p) * m = 0
    BY <1>5
  <2>2. QED
    BY <1>1, <1>2, <2>1 DEF s
<1>6. QED
  BY <1>1, <1>3, <1>4, <1>5

\* A count that wraps stays what it counts, modulo the width of the field.
LEMMA CountsModulo ==
  ASSUME NEW m \in Nat, m > 0, NEW a \in Int
  PROVE  /\ DecCount(a % m, m) = (a - 1) % m
         /\ IncCount(a % m, m) = (a + 1) % m
<1> DEFINE q == a \div m
           r == a % m
           d == DecCount(r, m)
           i == IncCount(r, m)
<1>1. q \in Int /\ r \in 0..(m - 1) /\ Splits(a, q, m, r)
  BY Splitting
<1> HIDE DEF q, r
<1>2. d \in 0..(m - 1) /\ i \in 0..(m - 1)
  BY <1>1 DEF DecCount, IncCount
<1>3. /\ Splits(a - 1, IF r = 0 THEN q - 1 ELSE q, m, d)
      /\ Splits(a + 1, IF r = m - 1 THEN q + 1 ELSE q, m, i)
  BY <1>1 DEF DecCount, IncCount, Splits
<1> HIDE DEF d, i
<1>4. (IF r = 0 THEN q - 1 ELSE q) \in Int
      /\ (IF r = m - 1 THEN q + 1 ELSE q) \in Int
  BY <1>1
<1>5. (a - 1) % m = d /\ (a + 1) % m = i
  <2> DEFINE lo == a - 1
             hi == a + 1
  <2>1. lo \in Int /\ hi \in Int
    OBVIOUS
  <2> HIDE DEF lo, hi
  <2>2. lo % m = d
    BY <1>2, <1>3, <1>4, <2>1, Remainder DEF lo
  <2>3. hi % m = i
    BY <1>2, <1>3, <1>4, <2>1, Remainder DEF hi
  <2>4. QED
    BY <2>2, <2>3 DEF lo, hi
<1>6. QED
  BY <1>5 DEF d, i, r

LEMMA SmallRemainder ==
  ASSUME NEW m \in Nat, NEW a \in 0..(m - 1)
  PROVE  a % m = a
<1>1. m > 0 /\ a \in Int /\ Splits(a, 0, m, a)
  BY DEF Splits
<1>2. QED
  BY <1>1, Remainder

\* One count, against what it should be, after n crashes.
Drifts(c, x, m, n) == \E d \in (-n)..n : c = (x + d) % m

LEMMA DriftDef ==
  CountDrift <=> \A k \in Kind :
    /\ Drifts(sfree[k], Cardinality(Free(k)) + SuperPending(k), SuperMod, crashes)
    /\ Drifts(gfree[k], Cardinality(Free(k)) + GroupPending(k), GroupMod, crashes)
BY DEF CountDrift, Drifts, SuperPending, GroupPending

\* An increment or decrement keeps the drift.
LEMMA AdjustDrifts ==
  ASSUME NEW m \in Nat, m > 0, NEW n \in Nat, NEW x \in Int, NEW c,
         Drifts(c, x, m, n), TypeOK, task # Idle
  PROVE  Drifts(Adjust(c, m), IF task.call = "alloc" THEN x - 1 ELSE x + 1, m, n)
<1>1. PICK d \in (-n)..n : c = (x + d) % m
  BY DEF Drifts
<1>2. /\ DecCount(c, m) = ((x + d) - 1) % m
      /\ IncCount(c, m) = ((x + d) + 1) % m
  <2>1. x + d \in Int
    OBVIOUS
  <2>2. QED
    BY <1>1, <2>1, CountsModulo
<1>3. (x + d) - 1 = (x - 1) + d /\ (x + d) + 1 = (x + 1) + d
  OBVIOUS
<1>4. QED
  BY <1>2, <1>3 DEF Drifts, Adjust

\* A crash leaves a count by at most one further away.
LEMMA CrashDrifts ==
  ASSUME NEW m \in Nat, NEW n \in Nat, NEW x \in Int, NEW c,
         NEW p \in {-1, 0, 1}, Drifts(c, x + p, m, n)
  PROVE  Drifts(c, x, m, n + 1)
<1>1. PICK d \in (-n)..n : c = ((x + p) + d) % m
  BY DEF Drifts
<1>2. (x + p) + d = x + (p + d) /\ p + d \in (-(n + 1))..(n + 1)
  OBVIOUS
<1>3. QED
  BY <1>1, <1>2 DEF Drifts

LEMMA DriftStep ==
  ASSUME IInv, CountDrift, [Next]_vars
  PROVE  CountDrift'
<1> DEFINE F(j) == Cardinality(Free(j))
           D(j) == /\ Drifts(sfree'[j], Cardinality(Free(j)') + SuperPending(j)', SuperMod, crashes')
                   /\ Drifts(gfree'[j], Cardinality(Free(j)') + GroupPending(j)', GroupMod, crashes')
<1> SUFFICES ASSUME NEW j \in Kind PROVE D(j)
  BY DEF CountDrift, Drifts, SuperPending, GroupPending
<1>1. /\ F(j) \in Int /\ crashes \in Nat
      /\ SuperMod \in Nat /\ GroupMod \in Nat /\ SuperMod > 0 /\ GroupMod > 0
      /\ sfree \in [Kind -> 0..(SuperMod - 1)] /\ gfree \in [Kind -> 0..(GroupMod - 1)]
  BY FreeFinite, AllocAssumption DEF IInv, TypeOK
<1>2. /\ Drifts(sfree[j], F(j) + SuperPending(j), SuperMod, crashes)
      /\ Drifts(gfree[j], F(j) + GroupPending(j), GroupMod, crashes)
  BY DriftDef
<1>3. SuperPending(j) \in {-1, 0, 1} /\ GroupPending(j) \in {-1, 0, 1}
  BY DEF SuperPending, GroupPending, Pending
<1>4. ASSUME NEW k \in Kind, Alloc(k) PROVE D(j)
  <2>1. PICK n \in Free(k) :
          /\ used' = [used EXCEPT ![k] = @ \cup {n}]
          /\ task' = [call |-> "alloc", kind |-> k, num |-> n, next |-> "super"]
    BY <1>4 DEF Alloc
  <2>2. task = Idle /\ sfree' = sfree /\ gfree' = gfree /\ crashes' = crashes
    BY <1>4 DEF Alloc
  <2>3. SuperPending(j) = 0 /\ GroupPending(j) = 0
    BY <2>2, PendingValues
  <2>4. task' # Idle /\ Idle' = Idle
    BY <2>1 DEF Idle
  <2>5. SuperPending(j)' = (IF j = k THEN 1 ELSE 0)
        /\ GroupPending(j)' = (IF j = k THEN 1 ELSE 0)
    BY <2>1, <2>4 DEF SuperPending, GroupPending, Pending
  <2>6. Cardinality(Free(j)') = IF j = k THEN F(j) - 1 ELSE F(j)
    BY <2>1, SetBit DEF IInv
  <2>7. Cardinality(Free(j)') + SuperPending(j)' = F(j) + SuperPending(j)
        /\ Cardinality(Free(j)') + GroupPending(j)' = F(j) + GroupPending(j)
    BY <1>1, <2>3, <2>5, <2>6
  <2>8. QED
    BY <1>2, <2>2, <2>7
<1>5. ASSUME NEW k \in Kind, NEW n \in Number(k), Dealloc(k, n) PROVE D(j)
  <2>1. /\ n \in used[k] /\ used' = [used EXCEPT ![k] = @ \ {n}]
        /\ task' = [call |-> "dealloc", kind |-> k, num |-> n, next |-> "super"]
        /\ task = Idle /\ sfree' = sfree /\ gfree' = gfree /\ crashes' = crashes
    BY <1>5 DEF Dealloc, IInv, HeldMarked
  <2>2. SuperPending(j) = 0 /\ GroupPending(j) = 0
    BY <2>1, PendingValues
  <2>3. task' # Idle /\ Idle' = Idle
    BY <2>1 DEF Idle
  <2>4. SuperPending(j)' = (IF j = k THEN -1 ELSE 0)
        /\ GroupPending(j)' = (IF j = k THEN -1 ELSE 0)
    BY <2>1, <2>3 DEF SuperPending, GroupPending, Pending
  <2>5. Cardinality(Free(j)') = IF j = k THEN F(j) + 1 ELSE F(j)
    BY <2>1, ClearBit DEF IInv
  <2>6. Cardinality(Free(j)') + SuperPending(j)' = F(j) + SuperPending(j)
        /\ Cardinality(Free(j)') + GroupPending(j)' = F(j) + GroupPending(j)
    BY <1>1, <2>2, <2>4, <2>5
  <2>7. QED
    BY <1>2, <2>1, <2>6
<1>6. CASE PutSuper
  <2>1. /\ task # Idle /\ task.next = "super" /\ task \in Task
        /\ sfree' = [sfree EXCEPT ![task.kind] = Adjust(@, SuperMod)]
        /\ task' = [task EXCEPT !.next = "group"]
        /\ gfree' = gfree /\ crashes' = crashes /\ Free(j)' = Free(j)
    BY <1>6, TaskType DEF PutSuper, Free, Number, IInv
  <2>2. task' # Idle /\ task'.next = "group" /\ task'.kind = task.kind
        /\ task'.call = task.call /\ task.call \in {"alloc", "dealloc"}
    BY <2>1 DEF Task, Idle
  <2>3. SuperPending(j)' = 0 /\ GroupPending(j)' = GroupPending(j)
    BY <2>1, <2>2 DEF SuperPending, GroupPending, Pending
  <2>4. CASE j = task.kind
    <3>1. SuperPending(j) = IF task.call = "alloc" THEN 1 ELSE -1
      BY <2>1, <2>2, <2>4, PendingValues
    <3>2. Drifts(Adjust(sfree[j], SuperMod),
                 IF task.call = "alloc" THEN (F(j) + SuperPending(j)) - 1
                                        ELSE (F(j) + SuperPending(j)) + 1,
                 SuperMod, crashes)
      <4>1. F(j) + SuperPending(j) \in Int
        BY <1>1, <1>3
      <4>2. TypeOK
        BY DEF IInv
      <4>3. QED
        BY <1>1, <1>2, <2>1, <4>1, <4>2, AdjustDrifts
    <3>3. (IF task.call = "alloc" THEN (F(j) + SuperPending(j)) - 1
                                  ELSE (F(j) + SuperPending(j)) + 1) = F(j) + 0
      BY <3>1, <1>1
    <3>4. sfree'[j] = Adjust(sfree[j], SuperMod)
      BY <1>1, <2>1, <2>4
    <3>5. QED
      BY <1>2, <2>1, <2>3, <3>2, <3>3, <3>4
  <2>5. CASE j # task.kind
    <3>1. sfree'[j] = sfree[j] /\ SuperPending(j) = 0
      BY <1>1, <2>1, <2>5, PendingValues
    <3>2. QED
      BY <1>2, <2>1, <2>3, <3>1
  <2>6. QED
    BY <2>4, <2>5
<1>7. CASE PutGroup
  <2>1. /\ task # Idle /\ task.next = "group" /\ task \in Task
        /\ gfree' = [gfree EXCEPT ![task.kind] = Adjust(@, GroupMod)]
        /\ task' = Idle
        /\ sfree' = sfree /\ crashes' = crashes /\ Free(j)' = Free(j)
    BY <1>7, TaskType DEF PutGroup, Free, Number, IInv
  <2>2. SuperPending(j)' = 0 /\ GroupPending(j)' = 0 /\ SuperPending(j) = 0
        /\ task.call \in {"alloc", "dealloc"}
    BY <2>1, PendingValues DEF SuperPending, GroupPending, Pending, Task, Idle
  <2>3. CASE j = task.kind
    <3>1. GroupPending(j) = IF task.call = "alloc" THEN 1 ELSE -1
      BY <2>1, <2>2, <2>3, PendingValues
    <3>2. Drifts(Adjust(gfree[j], GroupMod),
                 IF task.call = "alloc" THEN (F(j) + GroupPending(j)) - 1
                                        ELSE (F(j) + GroupPending(j)) + 1,
                 GroupMod, crashes)
      <4>1. F(j) + GroupPending(j) \in Int
        BY <1>1, <1>3
      <4>2. TypeOK
        BY DEF IInv
      <4>3. QED
        BY <1>1, <1>2, <2>1, <4>1, <4>2, AdjustDrifts
    <3>3. (IF task.call = "alloc" THEN (F(j) + GroupPending(j)) - 1
                                  ELSE (F(j) + GroupPending(j)) + 1) = F(j) + 0
      BY <3>1, <1>1
    <3>4. gfree'[j] = Adjust(gfree[j], GroupMod)
      BY <1>1, <2>1, <2>3
    <3>5. QED
      BY <1>2, <2>1, <2>2, <3>2, <3>3, <3>4
  <2>4. CASE j # task.kind
    <3>1. gfree'[j] = gfree[j] /\ GroupPending(j) = 0
      BY <1>1, <2>1, <2>4, PendingValues
    <3>2. QED
      BY <1>2, <2>1, <2>2, <3>1
  <2>5. QED
    BY <2>3, <2>4
<1>8. CASE Crash
  <2>1. /\ crashes' = crashes + 1 /\ task' = Idle /\ sfree' = sfree /\ gfree' = gfree
        /\ Free(j)' = Free(j)
    BY <1>8 DEF Crash, Free, Number
  <2>2. SuperPending(j)' = 0 /\ GroupPending(j)' = 0
    BY <2>1 DEF SuperPending, GroupPending, Pending, Idle
  <2>3. /\ Drifts(sfree[j], F(j), SuperMod, crashes + 1)
        /\ Drifts(gfree[j], F(j), GroupMod, crashes + 1)
    <3> HIDE DEF F
    <3>1. QED
      BY <1>1, <1>2, <1>3, CrashDrifts
  <2>4. F(j) + 0 = F(j)
    BY <1>1
  <2>5. QED
    BY <2>1, <2>2, <2>3, <2>4
<1>9. CASE UNCHANGED vars
  <2>1. /\ Free(j)' = Free(j) /\ SuperPending(j)' = SuperPending(j)
        /\ GroupPending(j)' = GroupPending(j) /\ sfree' = sfree /\ gfree' = gfree
        /\ crashes' = crashes
    BY <1>9 DEF vars, Free, Number, SuperPending, GroupPending, Pending
  <2>2. QED
    BY <1>2, <2>1
<1>10. QED
  <2> HIDE DEF D
  <2>1. QED
    BY <1>4, <1>5, <1>6, <1>7, <1>8, <1>9 DEF Next

\* Each crash shifts a count by at most one, and nothing else does.
THEOREM DriftBounded == Spec => []CountDrift
<1>1. Init => CountDrift
  <2> SUFFICES ASSUME Init, NEW k \in Kind
               PROVE  /\ Drifts(sfree[k], Cardinality(Free(k)) + SuperPending(k), SuperMod, crashes)
                      /\ Drifts(gfree[k], Cardinality(Free(k)) + GroupPending(k), GroupMod, crashes)
    BY DriftDef
  <2>1. /\ sfree[k] = Cardinality(Free(k)) /\ gfree[k] = Cardinality(Free(k))
        /\ crashes = 0 /\ task = Idle
    BY DEF Init, Free
  <2>2. SuperPending(k) = 0 /\ GroupPending(k) = 0
    BY <2>1, PendingValues
  <2>3. /\ Cardinality(Free(k)) \in 0..(SuperMod - 1) /\ SuperMod \in Nat
        /\ Cardinality(Free(k)) \in 0..(GroupMod - 1) /\ GroupMod \in Nat
    <3>1. Cardinality(Free(k)) \in 0..Limit[k]
      <4>1. used[k] \subseteq Number(k)
        BY AllocAssumption DEF Init, Number
      <4>2. QED
        BY FreeFinite
    <3>2. QED
      BY <3>1, AllocAssumption
  <2>4. /\ sfree[k] = ((Cardinality(Free(k)) + 0) + 0) % SuperMod
        /\ gfree[k] = ((Cardinality(Free(k)) + 0) + 0) % GroupMod
    BY <2>1, <2>3, SmallRemainder
  <2>5. 0 \in (-crashes)..crashes
    BY <2>1
  <2>6. QED
    BY <2>2, <2>4, <2>5 DEF Drifts
<1>2. IInv /\ CountDrift /\ [Next]_vars => CountDrift'
  BY DriftStep
<1>3. QED
  BY <1>1, <1>2, Invariant, PTL DEF Spec
=============================================================================
