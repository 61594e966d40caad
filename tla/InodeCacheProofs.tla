-------------------------- MODULE InodeCacheProofs --------------------------
(***************************************************************************)
(* Proofs about InodeCache for every table size, every set of inodes and   *)
(* every finite set of pointer variables.                                  *)
(***************************************************************************)
EXTENDS InodeCache, FiniteSetTheorems, TLAPS

\* The pointers to a slot.
Refs(s) == {h \in Holder : ptr[h] = s}

\* The properties the runs check, together inductive: iget needs the counts
\* to know that a slot with count zero has no pointer, iput needs Unique to
\* write back without touching the disk copy of another slot.
IInv ==
  /\ TypeOK
  /\ Unique
  /\ PointersValid
  /\ RefsCounted
  /\ Coherent

-----------------------------------------------------------------------------
\* The pointers to a slot are finitely many.
LEMMA RefsFinite ==
  \A s : IsFiniteSet(Refs(s))
BY CacheAssumption, FS_Subset DEF Refs

\* Setting a null pointer adds one to the pointers of its target only.
LEMMA PointAdds ==
  ASSUME TypeOK, NEW h \in Holder, NEW s \in Slot, NEW k,
         ptr[h] = NoSlot, Point(h, s, k)
  PROVE  \A t \in Slot :
           Cardinality(Refs(t)') = IF t = s THEN Cardinality(Refs(t)) + 1
                                            ELSE Cardinality(Refs(t))
<1>1. NoSlot \notin Slot
  BY CacheAssumption DEF Slot
<1>2. Refs(s)' = Refs(s) \cup {h} /\ h \notin Refs(s)
  BY <1>1 DEF Refs, Point, TypeOK
<1>3. Cardinality(Refs(s)') = Cardinality(Refs(s)) + 1
  BY <1>2, RefsFinite, FS_AddElement
<1>4. \A t \in Slot \ {s} : Refs(t)' = Refs(t)
  BY <1>1 DEF Refs, Point, TypeOK
<1>5. QED
  BY <1>3, <1>4

\* Clearing a pointer takes one from the pointers of its target only.
LEMMA UnpointRemoves ==
  ASSUME TypeOK, NEW h \in Holder, NEW s \in Slot, ptr[h] = s,
         Point(h, NoSlot, NoKey)
  PROVE  \A t \in Slot :
           Cardinality(Refs(t)') = IF t = s THEN Cardinality(Refs(t)) - 1
                                            ELSE Cardinality(Refs(t))
<1>1. NoSlot \notin Slot
  BY CacheAssumption DEF Slot
<1>2. Refs(s)' = Refs(s) \ {h} /\ h \in Refs(s)
  BY <1>1 DEF Refs, Point, TypeOK
<1>3. Cardinality(Refs(s)') = Cardinality(Refs(s)) - 1
  BY <1>2, RefsFinite, FS_RemoveElement
<1>4. \A t \in Slot \ {s} : Refs(t)' = Refs(t)
  BY <1>1 DEF Refs, Point, TypeOK
<1>5. QED
  BY <1>3, <1>4

\* A slot with reference count zero has no pointer.
LEMMA UnusedUnpointed ==
  ASSUME TypeOK, RefsCounted, qi = Running,
         NEW s \in Slot, minode[s].refCount = 0
  PROVE  Refs(s) = {}
<1>1. Cardinality(Refs(s)) = 0
  BY DEF RefsCounted, Refs
<1>2. QED
  BY <1>1, RefsFinite, FS_EmptySet

-----------------------------------------------------------------------------
\* mount_root establishes the invariant on whatever disk it finds.
LEMMA InitInv == Init => IInv
<1> SUFFICES ASSUME Init PROVE IInv
  OBVIOUS
<1>1. 0 \in Slot /\ NoSlot \notin Slot
  BY CacheAssumption DEF Slot
<1>2. IsFiniteSet(RootHolder) /\ Cardinality(RootHolder) \in Nat
      /\ Cardinality(RootHolder) # 0
  BY CacheAssumption, FS_Subset, FS_CardinalityType, FS_EmptySet
<1>3. \A s \in Slot : minode[s] =
        IF s = 0 THEN [refCount |-> Cardinality(RootHolder), key |-> RootKey,
                       dirty |-> FALSE, INODE |-> disk[RootKey]]
                 ELSE [refCount |-> 0, key |-> NoKey,
                       dirty |-> FALSE, INODE |-> Blank]
  BY DEF Init, BootTable
<1>4. TypeOK
  <2>1. minode \in [Slot -> MINODE]
    BY <1>2, CacheAssumption DEF Init, BootTable, MINODE
  <2>2. \A s \in Slot : minode[s].refCount # 0 => minode[s].key \in Key
    BY <1>3, CacheAssumption
  <2>3. ptr \in [Holder -> Slot \cup {NoSlot}]
    BY <1>1 DEF Init, BootPtr
  <2>4. asked \in [Holder -> Key \cup {NoKey}]
    BY CacheAssumption DEF Init, BootAsked
  <2>5. QED
    BY <2>1, <2>2, <2>3, <2>4 DEF Init, TypeOK
<1>5. Unique
  BY <1>3 DEF Unique
<1>6. PointersValid
  BY <1>1, <1>2, <1>3 DEF Init, PointersValid, BootPtr, BootAsked
<1>7. RefsCounted
  <2>1. {h \in Holder : ptr[h] = 0} = RootHolder
    BY <1>1, CacheAssumption DEF Init, BootPtr
  <2>2. ASSUME NEW s \in Slot
        PROVE  minode[s].refCount = Cardinality({h \in Holder : ptr[h] = s})
    <3>1. CASE s = 0
      BY <3>1, <2>1, <1>3
    <3>2. CASE s # 0
      <4>1. {h \in Holder : ptr[h] = s} = {}
        BY <1>1, <3>2 DEF Init, BootPtr
      <4>2. Cardinality({h \in Holder : ptr[h] = s}) = 0
        BY <4>1, FS_EmptySet
      <4>3. minode[s].refCount = 0
        BY <1>3, <3>2
      <4>4. QED
        BY <4>2, <4>3
    <3>3. QED
      BY <3>1, <3>2
  <2>3. QED
    BY <2>2 DEF RefsCounted
<1>8. Coherent
  BY <1>3 DEF Init, Coherent
<1>9. QED
  BY <1>4, <1>5, <1>6, <1>7, <1>8 DEF IInv

-----------------------------------------------------------------------------
\* Sharing a slot: the count grows with the pointers, nothing else changes.
LEMMA IgetFoundInv ==
  ASSUME IInv, NEW h \in Holder, NEW k \in Key, IgetFound(h, k)
  PROVE  IInv'
<1> USE DEF IInv
<1>1. PICK s \in Slot :
        /\ s \in Found(k)
        /\ minode' = [minode EXCEPT ![s].refCount = @ + 1]
        /\ Point(h, s, k)
  BY DEF IgetFound, IsFirst
<1>2. qi = Running /\ qi' = qi /\ disk' = disk /\ ptr[h] = NoSlot
  BY DEF IgetFound
<1>3. minode[s].refCount # 0 /\ minode[s].key = k
  BY <1>1 DEF Found
<1>4. \A t \in Slot :
        /\ minode'[t].key = minode[t].key
        /\ minode'[t].dirty = minode[t].dirty
        /\ minode'[t].INODE = minode[t].INODE
        /\ minode'[t].refCount = IF t = s THEN minode[t].refCount + 1
                                           ELSE minode[t].refCount
  BY <1>1 DEF TypeOK, MINODE
<1>5. \A t \in Slot : minode[t].refCount \in Nat
  BY DEF TypeOK, MINODE
<1>6. TypeOK'
  <2>1. minode' \in [Slot -> MINODE]
    BY <1>1, <1>5 DEF TypeOK, MINODE
  <2>2. \A t \in Slot : minode'[t].refCount # 0 => minode'[t].key \in Key
    BY <1>3, <1>4 DEF TypeOK
  <2>3. QED
    BY <1>1, <1>2, <2>1, <2>2 DEF TypeOK, Point
<1>7. Unique'
  BY <1>3, <1>4 DEF Unique
<1>8. PointersValid'
  <2>1. \A g \in Holder : ptr'[g] = (IF g = h THEN s ELSE ptr[g])
                        /\ asked'[g] = (IF g = h THEN k ELSE asked[g])
    BY <1>1 DEF Point, TypeOK
  <2>2. \A g \in Holder : ptr[g] \in Slot \cup {NoSlot}
    BY DEF TypeOK
  <2>3. QED
    BY <1>2, <1>3, <1>4, <1>5, <2>1, <2>2 DEF PointersValid
<1>9. RefsCounted'
  <2>1. \A t \in Slot : Cardinality(Refs(t)') =
          IF t = s THEN Cardinality(Refs(t)) + 1 ELSE Cardinality(Refs(t))
    BY <1>1, <1>2, PointAdds
  <2>2. QED
    BY <1>2, <1>4, <2>1 DEF RefsCounted, Refs
<1>10. Coherent'
  BY <1>2, <1>3, <1>4 DEF Coherent
<1>11. QED
  BY <1>6, <1>7, <1>8, <1>9, <1>10

\* Recycling a slot: its count is zero, so that no pointer sees the change.
LEMMA IgetLoadInv ==
  ASSUME IInv, NEW h \in Holder, NEW k \in Key, IgetLoad(h, k)
  PROVE  IInv'
<1> USE DEF IInv
<1>1. PICK s \in Slot :
        /\ s \in Unused
        /\ minode' = [minode EXCEPT ![s].refCount = 1, ![s].key = k,
                                    ![s].INODE = disk[k]]
        /\ Point(h, s, k)
  BY DEF IgetLoad, IsFirst
<1>2. qi = Running /\ qi' = qi /\ disk' = disk /\ ptr[h] = NoSlot
      /\ Found(k) = {}
  BY DEF IgetLoad
<1>3. minode[s].refCount = 0 /\ Refs(s) = {}
  BY <1>1, <1>2, UnusedUnpointed DEF Unused
<1>4. \A t \in Slot :
        /\ t # s => minode'[t] = minode[t]
        /\ t = s => /\ minode'[t].refCount = 1
                   /\ minode'[t].key = k
                   /\ minode'[t].INODE = disk[k]
                   /\ minode'[t].dirty = minode[t].dirty
  BY <1>1 DEF TypeOK, MINODE
<1>5. TypeOK'
  <2>1. minode' \in [Slot -> MINODE]
    <3>1. disk[k] \in Content /\ minode[s] \in MINODE
      BY DEF TypeOK
    <3>2. [minode[s] EXCEPT !.refCount = 1, !.key = k, !.INODE = disk[k]]
            \in MINODE
      BY <3>1 DEF MINODE
    <3>3. minode' = [minode EXCEPT ![s] = [minode[s] EXCEPT
                       !.refCount = 1, !.key = k, !.INODE = disk[k]]]
      BY <1>1 DEF TypeOK, MINODE
    <3>4. QED
      BY <3>2, <3>3 DEF TypeOK
  <2>2. \A t \in Slot : minode'[t].refCount # 0 => minode'[t].key \in Key
    BY <1>4 DEF TypeOK
  <2>3. QED
    BY <1>1, <1>2, <2>1, <2>2 DEF TypeOK, Point
<1>6. Unique'
  <2>1. \A t \in Slot : minode[t].refCount # 0 => minode[t].key # k
    BY <1>2 DEF Found
  <2>2. QED
    BY <1>4, <2>1 DEF Unique
<1>7. PointersValid'
  <2>1. \A g \in Holder : ptr'[g] = (IF g = h THEN s ELSE ptr[g])
                        /\ asked'[g] = (IF g = h THEN k ELSE asked[g])
    BY <1>1 DEF Point, TypeOK
  <2>2. \A g \in Holder : ptr[g] \in Slot \cup {NoSlot} /\ ptr[g] # s
    BY <1>3 DEF TypeOK, Refs
  <2>3. QED
    BY <1>2, <1>4, <2>1, <2>2 DEF PointersValid
<1>8. RefsCounted'
  <2>1. \A t \in Slot : Cardinality(Refs(t)') =
          IF t = s THEN Cardinality(Refs(t)) + 1 ELSE Cardinality(Refs(t))
    BY <1>1, <1>2, PointAdds
  <2>2. Cardinality(Refs(s)) = 0
    BY <1>3, FS_EmptySet
  <2>3. \A t \in Slot \ {s} : Cardinality(Refs(t)) = minode[t].refCount
    BY <1>2 DEF RefsCounted, Refs
  <2>4. \A t \in Slot : minode'[t].refCount = Cardinality(Refs(t)')
    BY <1>4, <2>1, <2>2, <2>3
  <2>5. QED
    BY <2>4 DEF RefsCounted, Refs
<1>9. Coherent'
  BY <1>2, <1>4 DEF Coherent
<1>10. QED
  BY <1>5, <1>6, <1>7, <1>8, <1>9

\* Dropping a reference, possibly with a write-back: the disk copy of a
\* released slot is no other slot's, because an inode is cached once.
LEMMA ReleaseInv ==
  ASSUME TypeOK, Unique, Coherent, NEW s \in Slot,
         minode[s].refCount > 0, Release(s)
  PROVE  /\ minode' \in [Slot -> MINODE]
         /\ disk' \in [Key -> Content]
         /\ \A t \in Slot : /\ minode'[t].key = minode[t].key
                            /\ minode'[t].refCount =
                                 IF t = s THEN minode[t].refCount - 1
                                          ELSE minode[t].refCount
         /\ Unique' /\ Coherent'
<1>1. minode' = [minode EXCEPT ![s].refCount = @ - 1]
  BY DEF Release
<1>2. \A t \in Slot :
        /\ minode'[t].key = minode[t].key
        /\ minode'[t].dirty = minode[t].dirty
        /\ minode'[t].INODE = minode[t].INODE
        /\ minode'[t].refCount = IF t = s THEN minode[t].refCount - 1
                                           ELSE minode[t].refCount
  BY <1>1 DEF TypeOK, MINODE
<1>3. minode[s].refCount \in Nat /\ minode[s].key \in Key
      /\ minode[s].INODE \in Content
  BY DEF TypeOK, MINODE
<1>4. minode' \in [Slot -> MINODE]
  BY <1>1, <1>3 DEF TypeOK, MINODE
<1>5. disk' \in [Key -> Content]
  BY <1>3 DEF Release, TypeOK
<1>6. Unique'
  BY <1>2, <1>3 DEF Unique
<1>7. Coherent'
  <2> SUFFICES ASSUME NEW t \in Slot, minode'[t].refCount # 0,
                      ~minode'[t].dirty
               PROVE  minode'[t].INODE = disk'[minode'[t].key]
    BY DEF Coherent
  <2>1. minode[t].refCount # 0 /\ ~minode[t].dirty
    BY <1>2, <1>3
  <2>2. minode[t].INODE = disk[minode[t].key]
    BY <2>1 DEF Coherent
  <2>3. CASE t = s
    BY <2>1, <2>2, <2>3, <1>2 DEF Release
  <2>4. CASE t # s
    <3>1. minode[t].key # minode[s].key
      BY <2>1, <2>4, <1>3 DEF Unique
    <3>2. disk'[minode[t].key] = disk[minode[t].key]
      BY <3>1 DEF Release, TypeOK
    <3>3. QED
      BY <3>2, <2>2, <1>2
  <2>5. QED
    BY <2>3, <2>4
<1>8. QED
  BY <1>2, <1>4, <1>5, <1>6, <1>7

\* iput: one pointer and one reference go together.
LEMMA IputInv ==
  ASSUME IInv, NEW h \in Holder, Iput(h)
  PROVE  IInv'
<1> USE DEF IInv
<1> DEFINE s == ptr[h]
<1>1. /\ qi = Running /\ qi' = qi
      /\ s \in Slot /\ s # NoSlot
      /\ Release(s) /\ Point(h, NoSlot, NoKey)
  BY DEF Iput, TypeOK
<1>2. minode[s].refCount > 0
  BY <1>1 DEF PointersValid
<1>3. /\ minode' \in [Slot -> MINODE]
      /\ disk' \in [Key -> Content]
      /\ \A t \in Slot : /\ minode'[t].key = minode[t].key
                         /\ minode'[t].refCount =
                              IF t = s THEN minode[t].refCount - 1
                                       ELSE minode[t].refCount
      /\ Unique' /\ Coherent'
  <2> HIDE DEF s
  <2> QED
    BY <1>1, <1>2, ReleaseInv
<1>4. \A t \in Slot : minode[t].refCount \in Nat
  BY DEF TypeOK, MINODE
<1>5. \A t \in Slot : Cardinality(Refs(t)') =
        IF t = s THEN Cardinality(Refs(t)) - 1 ELSE Cardinality(Refs(t))
  BY <1>1, UnpointRemoves
<1>6. \A t \in Slot : minode[t].refCount = Cardinality(Refs(t))
  BY <1>1 DEF RefsCounted, Refs
<1>7. \A t \in Slot : minode'[t].refCount = Cardinality(Refs(t)')
  BY <1>3, <1>5, <1>6
<1>8. TypeOK'
  <2>1. \A t \in Slot : minode'[t].refCount # 0 => minode'[t].key \in Key
    BY <1>2, <1>3, <1>4 DEF TypeOK
  <2>2. ptr' \in [Holder -> Slot \cup {NoSlot}]
        /\ asked' \in [Holder -> Key \cup {NoKey}]
    BY <1>1 DEF Point, TypeOK
  <2>3. QED
    BY <1>1, <1>3, <2>1, <2>2 DEF TypeOK
<1>9. RefsCounted'
  BY <1>7 DEF RefsCounted, Refs
<1>10. PointersValid'
  <2> SUFFICES ASSUME NEW g \in Holder, ptr'[g] # NoSlot
               PROVE  /\ minode'[ptr'[g]].refCount > 0
                      /\ minode'[ptr'[g]].key = asked'[g]
    BY DEF PointersValid
  <2>1. g # h /\ ptr'[g] = ptr[g] /\ asked'[g] = asked[g]
    BY <1>1 DEF Point, TypeOK
  <2>2. ptr[g] \in Slot /\ minode[ptr[g]].key = asked[g]
    BY <2>1, <1>1 DEF TypeOK, PointersValid
  <2>3. minode'[ptr[g]].refCount \in Nat
    BY <2>2, <1>3 DEF MINODE
  <2>4. minode'[ptr[g]].refCount # 0
    <3>1. g \in Refs(ptr[g])'
      BY <2>1 DEF Refs
    <3>2. PICK t \in Slot : t = ptr[g]
      BY <2>2
    <3>3. g \in Refs(t)'
      BY <2>1, <3>2 DEF Refs
    <3>4. IsFiniteSet(Refs(t)')
      BY CacheAssumption, FS_Subset DEF Refs
    <3>5. Cardinality(Refs(t)') # 0
      BY <3>3, <3>4, FS_EmptySet
    <3>6. QED
      BY <3>2, <3>5, <1>7
  <2>5. QED
    BY <2>1, <2>2, <2>3, <2>4, <1>3
<1>11. QED
  BY <1>3, <1>8, <1>9, <1>10

\* A store through a pointer: the slot's own copy changes and is dirty.
LEMMA UpdateInv ==
  ASSUME IInv, NEW h \in Holder, NEW c \in Content, Update(h, c)
  PROVE  IInv'
<1> USE DEF IInv
<1>1. /\ ptr[h] \in Slot
      /\ minode' = [minode EXCEPT ![ptr[h]].INODE = c, ![ptr[h]].dirty = TRUE]
      /\ UNCHANGED <<disk, ptr, asked, qi>>
  BY DEF Update, TypeOK
<1>2. \A t \in Slot :
        /\ minode'[t].refCount = minode[t].refCount
        /\ minode'[t].key = minode[t].key
        /\ t # ptr[h] => minode'[t] = minode[t]
        /\ t = ptr[h] => minode'[t].dirty
  BY <1>1 DEF TypeOK, MINODE
<1>3. minode' \in [Slot -> MINODE]
  <2>1. [minode[ptr[h]] EXCEPT !.INODE = c, !.dirty = TRUE] \in MINODE
    BY <1>1 DEF TypeOK, MINODE
  <2>2. minode' = [minode EXCEPT ![ptr[h]] =
                    [minode[ptr[h]] EXCEPT !.INODE = c, !.dirty = TRUE]]
    BY <1>1 DEF TypeOK, MINODE
  <2>3. QED
    BY <2>1, <2>2 DEF TypeOK
<1>4. TypeOK'
  BY <1>1, <1>2, <1>3 DEF TypeOK
<1>5. Unique'
  BY <1>2 DEF Unique
<1>6. PointersValid'
  BY <1>1, <1>2 DEF PointersValid, TypeOK
<1>7. RefsCounted'
  BY <1>1, <1>2 DEF RefsCounted
<1>8. Coherent'
  <2> SUFFICES ASSUME NEW t \in Slot, minode'[t].refCount # 0,
                      ~minode'[t].dirty
               PROVE  minode'[t].INODE = disk'[minode'[t].key]
    BY DEF Coherent
  <2>1. t # ptr[h] /\ minode'[t] = minode[t] /\ disk' = disk
    BY <1>1, <1>2
  <2>2. QED
    BY <2>1 DEF Coherent
<1>9. QED
  BY <1>4, <1>5, <1>6, <1>7, <1>8

\* quit: from its first step on no pointer is used any more.
LEMMA QuittingInv ==
  ASSUME IInv, Quit \/ QuitSlot
  PROVE  IInv'
<1> USE DEF IInv
<1>1. qi' # Running /\ qi' \in 0..NMINODE /\ UNCHANGED <<ptr, asked>>
  BY CacheAssumption DEF Quit, QuitSlot, Slot, Running
<1>2. CASE UNCHANGED <<minode, disk>>
  <2>1. TypeOK' /\ Unique' /\ Coherent'
    BY <1>1, <1>2 DEF TypeOK, Unique, Coherent
  <2>2. QED
    BY <1>1, <2>1 DEF PointersValid, RefsCounted
<1>3. CASE qi \in Slot /\ minode[qi].refCount > 0 /\ Release(qi)
  <2>1. PICK s \in Slot : minode[s].refCount > 0 /\ Release(s)
    BY <1>3
  <2>2. /\ minode' \in [Slot -> MINODE]
        /\ disk' \in [Key -> Content]
        /\ \A t \in Slot : /\ minode'[t].key = minode[t].key
                           /\ minode'[t].refCount =
                                IF t = s THEN minode[t].refCount - 1
                                         ELSE minode[t].refCount
        /\ Unique' /\ Coherent'
    BY <2>1, ReleaseInv
  <2>3. \A t \in Slot : minode'[t].refCount # 0 => minode'[t].key \in Key
    BY <2>1, <2>2 DEF TypeOK, MINODE
  <2>4. TypeOK'
    BY <1>1, <2>2, <2>3 DEF TypeOK
  <2>5. QED
    BY <1>1, <2>2, <2>4 DEF PointersValid, RefsCounted
<1>4. QED
  BY <1>2, <1>3 DEF Quit, QuitSlot

\* A restart is an initial state again, whatever state the process died in.
LEMMA RebootInit ==
  ASSUME TypeOK, Reboot
  PROVE  Init'
BY DEF TypeOK, Reboot, Init

\* Every step keeps the invariant or restarts the program.
LEMMA StepInv == IInv /\ [Next]_vars => IInv' \/ Init'
<1> SUFFICES ASSUME IInv, [Next]_vars PROVE IInv' \/ Init'
  OBVIOUS
<1>1. ASSUME NEW h \in Holder, NEW k \in Key,
             IgetFound(h, k) \/ IgetLoad(h, k)
      PROVE  IInv'
  BY <1>1, IgetFoundInv, IgetLoadInv
<1>2. ASSUME NEW h \in Holder, Iput(h) PROVE IInv'
  BY <1>2, IputInv
<1>3. ASSUME NEW h \in Holder, NEW c \in Content, Update(h, c) PROVE IInv'
  BY <1>3, UpdateInv
<1>4. CASE Quit \/ QuitSlot
  BY <1>4, QuittingInv
<1>5. CASE Reboot
  BY <1>5, RebootInit DEF IInv
<1>6. CASE UNCHANGED vars
  BY <1>6 DEF vars, IInv, TypeOK, Unique, PointersValid, RefsCounted, Coherent
<1>7. QED
  BY <1>1, <1>2, <1>3, <1>4, <1>5, <1>6 DEF Next, IgetPanic, Exit, Crash

\* The inductive invariant, for every table size and every client.
THEOREM Invariant == Spec => []IInv
BY InitInv, StepInv, PTL DEF Spec

\* Types, and the write-back invariant: what iput skips writing is on the disk.
THEOREM TypeCorrect == Spec => []TypeOK
<1>1. IInv => TypeOK
  BY DEF IInv
<1>2. QED
  BY <1>1, Invariant, PTL

\* An inode is cached at most once, at every moment, quit included.
THEOREM CachedOnce == Spec => []Unique
<1>1. IInv => Unique
  BY DEF IInv
<1>2. QED
  BY <1>1, Invariant, PTL

\* No pointer that is held is ever left dangling or aliased by iget.
THEOREM PointersStayValid == Spec => []PointersValid
<1>1. IInv => PointersValid
  BY DEF IInv
<1>2. QED
  BY <1>1, Invariant, PTL

\* Reference counts count pointers.
THEOREM CountsAreRefs == Spec => []RefsCounted
<1>1. IInv => RefsCounted
  BY DEF IInv
<1>2. QED
  BY <1>1, Invariant, PTL

\* Skipping the write-back of an inode not marked dirty loses nothing.
THEOREM CleanIsOnDisk == Spec => []Coherent
<1>1. IInv => Coherent
  BY DEF IInv
<1>2. QED
  BY <1>1, Invariant, PTL

-----------------------------------------------------------------------------
(***************************************************************************)
(* The cache implements the store with one value per inode.                *)
(***************************************************************************)

\* The current value is that of whatever slot holds the inode, or the disk's.
CurrentIs ==
  \A k \in Key :
    /\ \A s \in Slot : minode[s].refCount # 0 /\ minode[s].key = k
         => Current(k) = minode[s].INODE
    /\ (\A s \in Slot : minode[s].refCount # 0 => minode[s].key # k)
         => Current(k) = disk[k]

\* Caching an inode once makes its current value unambiguous.
LEMMA CurrentDetermined == IInv => CurrentIs
<1> SUFFICES ASSUME Unique, NEW k \in Key
             PROVE  /\ \A s \in Slot : minode[s].refCount # 0
                                       /\ minode[s].key = k
                         => Current(k) = minode[s].INODE
                    /\ (\A s \in Slot : minode[s].refCount # 0
                                         => minode[s].key # k)
                         => Current(k) = disk[k]
  BY DEF IInv, CurrentIs
<1>1. ASSUME NEW s \in Slot, minode[s].refCount # 0, minode[s].key = k
      PROVE  Current(k) = minode[s].INODE
  <2>1. s \in Found(k) /\ \A t \in Slot : t \in Found(k) => t = s
    BY <1>1 DEF Found, Unique
  <2>2. (CHOOSE t \in Slot : t \in Found(k)) = s
    BY <2>1
  <2>3. QED
    BY <2>1, <2>2 DEF Current
<1>2. ASSUME \A s \in Slot : minode[s].refCount # 0 => minode[s].key # k
      PROVE  Current(k) = disk[k]
  BY <1>2 DEF Current, Found
<1>3. QED
  BY <1>1, <1>2

\* Releasing a slot changes no current value, and writes at most the current
\* value of one inode.
LEMMA ReleaseStep ==
  ASSUME IInv, IInv', CurrentIs, CurrentIs',
         NEW s \in Slot, minode[s].refCount > 0, Release(s)
  PROVE  /\ \A k \in Key : Current(k)' = Current(k)
         /\ \/ disk' = disk
            \/ disk' = [disk EXCEPT ![minode[s].key] = Current(minode[s].key)]
<1>1. minode[s].refCount \in Nat \ {0} /\ minode[s].key \in Key
  BY DEF IInv, TypeOK, MINODE
<1>2. Current(minode[s].key) = minode[s].INODE
  BY <1>1 DEF CurrentIs
<1>3. \A t \in Slot :
        /\ minode'[t].key = minode[t].key
        /\ minode'[t].dirty = minode[t].dirty
        /\ minode'[t].INODE = minode[t].INODE
        /\ minode'[t].refCount = IF t = s THEN minode[t].refCount - 1
                                           ELSE minode[t].refCount
  BY DEF Release, IInv, TypeOK, MINODE
<1>4. \/ disk' = disk
      \/ disk' = [disk EXCEPT ![minode[s].key] = Current(minode[s].key)]
  BY <1>2 DEF Release
<1>5. ASSUME NEW k \in Key, k # minode[s].key
      PROVE  Current(k)' = Current(k)
  <2>1. disk'[k] = disk[k]
    BY <1>4, <1>5 DEF IInv, TypeOK
  <2>2. CASE \E t \in Slot : minode[t].refCount # 0 /\ minode[t].key = k
    <3>1. PICK t \in Slot : minode[t].refCount # 0 /\ minode[t].key = k
      BY <2>2
    <3>2. t # s /\ minode'[t].refCount # 0 /\ minode'[t].key = k
          /\ minode'[t].INODE = minode[t].INODE
      BY <3>1, <1>5, <1>3
    <3>3. Current(k) = minode[t].INODE
      BY <3>1 DEF CurrentIs
    <3>4. Current(k)' = minode'[t].INODE
      BY <3>2 DEF CurrentIs
    <3>5. QED
      BY <3>2, <3>3, <3>4
  <2>3. CASE \A t \in Slot : minode[t].refCount # 0 => minode[t].key # k
    <3>1. \A t \in Slot : minode'[t].refCount # 0 => minode'[t].key # k
      BY <2>3, <1>3, <1>5
    <3>2. Current(k) = disk[k]
      BY <2>3 DEF CurrentIs
    <3>3. Current(k)' = disk'[k]
      BY <3>1 DEF CurrentIs
    <3>4. QED
      BY <2>1, <3>2, <3>3
  <2>4. QED
    BY <2>2, <2>3
<1>6. ASSUME NEW k \in Key, k = minode[s].key
      PROVE  Current(k)' = Current(k)
  <2>1. CASE minode[s].refCount # 1
    <3>1. minode'[s].refCount # 0 /\ minode'[s].key = k
      BY <2>1, <1>1, <1>3, <1>6
    <3>2. Current(k)' = minode'[s].INODE
      BY <3>1 DEF CurrentIs
    <3>3. QED
      BY <3>2, <1>2, <1>3, <1>6
  <2>2. CASE minode[s].refCount = 1
    <3>1. \A t \in Slot : minode'[t].refCount # 0 => minode'[t].key # k
      BY <2>2, <1>1, <1>3, <1>6 DEF IInv, Unique
    <3>2. Current(k)' = disk'[k]
      BY <3>1 DEF CurrentIs
    <3>3. disk'[k] = minode[s].INODE
      <4>1. CASE minode[s].dirty
        BY <4>1, <2>2, <1>6 DEF Release, IInv, TypeOK
      <4>2. CASE ~minode[s].dirty
        BY <4>2, <2>2, <1>6 DEF Release, IInv, Coherent
      <4>3. QED
        BY <4>1, <4>2
    <3>4. QED
      BY <3>2, <3>3, <1>2, <1>6
  <2>3. QED
    BY <2>1, <2>2
<1>7. QED
  BY <1>4, <1>5, <1>6

\* iget changes no current value, whether it shares a slot or loads one.
LEMMA IgetStep ==
  ASSUME IInv, IInv', CurrentIs, CurrentIs',
         NEW h \in Holder, NEW k \in Key, IgetFound(h, k) \/ IgetLoad(h, k)
  PROVE  disk' = disk /\ \A j \in Key : Current(j)' = Current(j)
<1>1. PICK s \in Slot :
        \/ /\ s \in Found(k)
           /\ minode' = [minode EXCEPT ![s].refCount = @ + 1]
        \/ /\ Found(k) = {} /\ s \in Unused
           /\ minode' = [minode EXCEPT ![s].refCount = 1, ![s].key = k,
                                       ![s].INODE = disk[k]]
  BY DEF IgetFound, IgetLoad, IsFirst
<1>2. disk' = disk
  BY DEF IgetFound, IgetLoad
<1>3. minode[s].refCount \in Nat
  BY DEF IInv, TypeOK, MINODE
<1>4. /\ \A t \in Slot \ {s} : minode'[t] = minode[t]
      /\ minode'[s].refCount # 0 /\ minode'[s].key = k
      /\ minode'[s].INODE = Current(k)
  <2>1. CASE s \in Found(k)
             /\ minode' = [minode EXCEPT ![s].refCount = @ + 1]
    BY <2>1, <1>3 DEF IInv, TypeOK, MINODE, Found, CurrentIs
  <2>2. CASE /\ Found(k) = {} /\ s \in Unused
             /\ minode' = [minode EXCEPT ![s].refCount = 1, ![s].key = k,
                                         ![s].INODE = disk[k]]
    <3>1. Current(k) = disk[k]
      BY <2>2 DEF CurrentIs, Found
    <3>2. QED
      BY <2>2, <3>1 DEF IInv, TypeOK, MINODE
  <2>3. QED
    BY <1>1, <2>1, <2>2
<1>5. minode[s].refCount # 0 => minode[s].key = k
  BY <1>1 DEF Found, Unused
<1>6. ASSUME NEW j \in Key PROVE Current(j)' = Current(j)
  <2>1. CASE j = k
    <3>1. Current(j)' = minode'[s].INODE
      BY <2>1, <1>4 DEF CurrentIs
    <3>2. QED
      BY <3>1, <2>1, <1>4
  <2>2. CASE j # k /\ \E t \in Slot : minode[t].refCount # 0
                                     /\ minode[t].key = j
    <3>1. PICK t \in Slot : minode[t].refCount # 0 /\ minode[t].key = j
      BY <2>2
    <3>2. minode'[t] = minode[t]
      BY <3>1, <2>2, <1>4, <1>5
    <3>3. Current(j) = minode[t].INODE
      BY <3>1 DEF CurrentIs
    <3>4. Current(j)' = minode'[t].INODE
      BY <3>1, <3>2 DEF CurrentIs
    <3>5. QED
      BY <3>2, <3>3, <3>4
  <2>3. CASE j # k /\ \A t \in Slot : minode[t].refCount # 0
                                     => minode[t].key # j
    <3>1. \A t \in Slot : minode'[t].refCount # 0 => minode'[t].key # j
      BY <2>3, <1>4
    <3>2. Current(j) = disk[j]
      BY <2>3 DEF CurrentIs
    <3>3. Current(j)' = disk'[j]
      BY <3>1 DEF CurrentIs
    <3>4. QED
      BY <3>2, <3>3, <1>2
  <2>4. QED
    BY <2>1, <2>2, <2>3
<1>7. QED
  BY <1>2, <1>6

\* A store through a pointer changes the current value of its inode alone.
LEMMA UpdateStep ==
  ASSUME IInv, IInv', CurrentIs, CurrentIs',
         NEW h \in Holder, NEW c \in Content, Update(h, c)
  PROVE  /\ disk' = disk
         /\ asked[h] \in Key
         /\ \A j \in Key : Current(j)' = IF j = asked[h] THEN c ELSE Current(j)
<1>1. PICK s \in Slot :
        /\ minode' = [minode EXCEPT ![s].INODE = c, ![s].dirty = TRUE]
        /\ minode[s].refCount # 0
        /\ minode[s].key = asked[h]
  <2>1. /\ ptr[h] \in Slot /\ minode[ptr[h]].refCount > 0
        /\ minode[ptr[h]].key = asked[h]
        /\ minode' = [minode EXCEPT ![ptr[h]].INODE = c,
                                    ![ptr[h]].dirty = TRUE]
    BY DEF Update, IInv, TypeOK, PointersValid
  <2>2. minode[ptr[h]].refCount # 0
    BY <2>1
  <2>3. QED
    BY <2>1, <2>2, Zenon
<1>2. disk' = disk
  BY DEF Update
<1>3. \A t \in Slot :
        /\ minode'[t].refCount = minode[t].refCount
        /\ minode'[t].key = minode[t].key
        /\ minode'[t].INODE = IF t = s THEN c ELSE minode[t].INODE
  BY <1>1 DEF IInv, TypeOK, MINODE
<1>4. minode[s].key \in Key
  BY <1>1 DEF IInv, TypeOK
<1>5. ASSUME NEW j \in Key
      PROVE  Current(j)' = IF j = minode[s].key THEN c ELSE Current(j)
  <2>1. CASE \E t \in Slot : minode[t].refCount # 0 /\ minode[t].key = j
    <3>1. PICK t \in Slot : minode[t].refCount # 0 /\ minode[t].key = j
      BY <2>1
    <3>2. minode'[t].refCount # 0 /\ minode'[t].key = j
      BY <3>1, <1>3
    <3>3. Current(j)' = minode'[t].INODE
      BY <3>2 DEF CurrentIs
    <3>4. Current(j) = minode[t].INODE
      BY <3>1 DEF CurrentIs
    <3>5. t = s <=> j = minode[s].key
      BY <3>1, <1>1 DEF IInv, Unique
    <3>6. QED
      BY <3>3, <3>4, <3>5, <1>3
  <2>2. CASE \A t \in Slot : minode[t].refCount # 0 => minode[t].key # j
    <3>1. \A t \in Slot : minode'[t].refCount # 0 => minode'[t].key # j
      BY <2>2, <1>3
    <3>2. Current(j) = disk[j]
      BY <2>2 DEF CurrentIs
    <3>3. Current(j)' = disk'[j]
      BY <3>1 DEF CurrentIs
    <3>4. j # minode[s].key
      BY <2>2, <1>1
    <3>5. QED
      BY <3>2, <3>3, <3>4, <1>2
  <2>3. QED
    BY <2>1, <2>2
<1>6. QED
  BY <1>1, <1>2, <1>4, <1>5

\* After a restart the current values are those of the disk.
LEMMA RebootStep ==
  ASSUME CurrentIs', Reboot
  PROVE  disk' = disk /\ \A k \in Key : Current(k)' = disk[k]
<1>1. disk' = disk
  BY DEF Reboot
<1>2. ASSUME NEW k \in Key PROVE Current(k)' = disk'[k]
  <2>1. 0 \in Slot /\ \A s \in Slot : minode'[s] = BootTable(disk)[s]
    BY CacheAssumption DEF Reboot, Slot
  <2>2. \A s \in Slot : minode'[s].refCount # 0
          => s = 0 /\ minode'[s].key = RootKey
             /\ minode'[s].INODE = disk[RootKey]
    BY <2>1 DEF BootTable
  <2>3. CASE \E s \in Slot : minode'[s].refCount # 0 /\ minode'[s].key = k
    <3>1. PICK s \in Slot : minode'[s].refCount # 0 /\ minode'[s].key = k
      BY <2>3
    <3>2. Current(k)' = minode'[s].INODE
      BY <3>1 DEF CurrentIs
    <3>3. QED
      BY <3>1, <3>2, <2>2, <1>1
  <2>4. CASE \A s \in Slot : minode'[s].refCount # 0 => minode'[s].key # k
    BY <2>4 DEF CurrentIs
  <2>5. QED
    BY <2>3, <2>4
<1>3. QED
  BY <1>1, <1>2

\* A null pointer was obtained for nothing.
NullAsked ==
  qi = Running => \A h \in Holder : ptr[h] = NoSlot => asked[h] = NoKey

LEMMA NullAskedInv == Spec => []NullAsked
<1>1. Init => NullAsked
  BY CacheAssumption DEF Init, NullAsked, BootPtr, BootAsked
<1>2. IInv /\ NullAsked /\ [Next]_vars => NullAsked'
  <2> SUFFICES ASSUME IInv, NullAsked, [Next]_vars PROVE NullAsked'
    OBVIOUS
  <2>1. ASSUME NEW h \in Holder, NEW s, NEW k, Point(h, s, k), qi' = qi,
               s = NoSlot => k = NoKey
        PROVE  NullAsked'
    BY <2>1 DEF Point, NullAsked, IInv, TypeOK
  <2>2. ASSUME NEW h \in Holder, NEW k \in Key,
               IgetFound(h, k) \/ IgetLoad(h, k)
        PROVE  NullAsked'
    <3>1. PICK s \in Slot : Point(h, s, k) /\ qi' = qi
      BY <2>2 DEF IgetFound, IgetLoad
    <3>2. s # NoSlot
      BY CacheAssumption DEF Slot
    <3>3. QED
      BY <3>1, <3>2, <2>1
  <2>3. ASSUME NEW h \in Holder, Iput(h) PROVE NullAsked'
    BY <2>3, <2>1 DEF Iput
  <2>4. CASE Reboot
    BY <2>4, CacheAssumption DEF Reboot, NullAsked, BootPtr, BootAsked
  <2>5. CASE UNCHANGED <<ptr, asked>> /\ (qi' = Running => qi = Running)
    BY <2>5 DEF NullAsked
  <2>6. ASSUME NEW h \in Holder, NEW c \in Content, Update(h, c)
        PROVE  NullAsked'
    BY <2>6, <2>5 DEF Update
  <2>7. CASE Quit \/ QuitSlot
    <3>1. qi' # Running /\ UNCHANGED <<ptr, asked>>
      BY <2>7, CacheAssumption DEF Quit, QuitSlot, Slot, Running
    <3>2. QED
      BY <3>1 DEF NullAsked
  <2>8. CASE UNCHANGED vars
    BY <2>8, <2>5 DEF vars
  <2>9. QED
    BY <2>2, <2>3, <2>4, <2>6, <2>7, <2>8 DEF Next, IgetPanic, Exit, Crash
<1>3. QED
  BY <1>1, <1>2, Invariant, PTL DEF Spec

\* iput makes the current value stable exactly when it puts the last pointer.
LEMMA IputStep ==
  ASSUME IInv, IInv', CurrentIs, CurrentIs', NullAsked,
         NEW h \in Holder, Iput(h)
  PROVE  /\ \A k \in Key : Current(k)' = Current(k)
         /\ asked[h] \in Key
         /\ asked' = [asked EXCEPT ![h] = NoKey]
         /\ disk' = IF Store!Shared(h) THEN disk
                    ELSE [disk EXCEPT ![asked[h]] = Current(asked[h])]
<1>1. PICK s \in Slot :
        /\ s = ptr[h] /\ Release(s)
        /\ minode[s].refCount > 0 /\ minode[s].key = asked[h]
  BY DEF Iput, IInv, TypeOK, PointersValid
<1>2. /\ qi = Running /\ qi' = Running
      /\ ptr' = [ptr EXCEPT ![h] = NoSlot]
      /\ asked' = [asked EXCEPT ![h] = NoKey]
  BY DEF Iput, Point
<1>3. minode[s].refCount \in Nat \ {0} /\ asked[h] \in Key
  BY <1>1 DEF IInv, TypeOK, MINODE
<1>4. \A k \in Key : Current(k)' = Current(k)
  BY <1>1, ReleaseStep
<1>5. Current(asked[h]) = minode[s].INODE
  BY <1>1, <1>3 DEF CurrentIs
<1>6. minode'[s].refCount = minode[s].refCount - 1
  BY <1>1, <1>3 DEF Release, IInv, TypeOK, MINODE
<1>7. minode'[s].refCount = Cardinality({g \in Holder : ptr'[g] = s})
  BY <1>2 DEF IInv, RefsCounted
<1>8. IsFiniteSet({g \in Holder : ptr'[g] = s})
  BY CacheAssumption, FS_Subset
<1>9. CASE Store!Shared(h)
  <2>1. PICK g \in Holder : g # h /\ asked[g] = asked[h]
    BY <1>9 DEF Store!Shared
  <2>2. ptr[g] # NoSlot
    BY <2>1, <1>2, <1>3, CacheAssumption DEF NullAsked
  <2>3. ptr[g] \in Slot /\ minode[ptr[g]].refCount > 0
        /\ minode[ptr[g]].key = minode[s].key
    BY <2>1, <2>2, <1>1, <1>2 DEF IInv, TypeOK, PointersValid
  <2>4. ptr[g] = s
    BY <2>3, <1>1 DEF IInv, Unique
  <2>5. ptr'[g] = s
    BY <2>1, <2>4, <1>2 DEF IInv, TypeOK
  <2>6. Cardinality({x \in Holder : ptr'[x] = s}) # 0
    BY <2>5, <1>8, FS_EmptySet
  <2>7. minode[s].refCount - 1 > 0
    BY <2>6, <1>3, <1>6, <1>7
  <2>8. disk' = disk
    BY <2>7, <1>1 DEF Release
  <2>9. QED
    BY <1>2, <1>3, <1>4, <1>9, <2>8
<1>10. CASE ~Store!Shared(h)
  <2>1. ASSUME NEW g \in Holder, ptr'[g] = s PROVE FALSE
    <3>1. s # NoSlot
      BY CacheAssumption DEF Slot
    <3>2. g # h /\ ptr[g] = s
      BY <2>1, <3>1, <1>2 DEF IInv, TypeOK
    <3>3. asked[g] = asked[h]
      BY <3>1, <3>2, <1>1, <1>2 DEF IInv, PointersValid
    <3>4. QED
      BY <3>2, <3>3, <1>10 DEF Store!Shared
  <2>2. {x \in Holder : ptr'[x] = s} = {}
    BY <2>1
  <2>3. minode[s].refCount - 1 = 0
    BY <2>2, <1>6, <1>7, FS_EmptySet
  <2>4. disk' = [disk EXCEPT ![asked[h]] = Current(asked[h])]
    <3>1. CASE minode[s].dirty
      BY <3>1, <2>3, <1>1, <1>5 DEF Release
    <3>2. CASE ~minode[s].dirty
      <4>1. disk' = disk
        BY <3>2, <1>1 DEF Release
      <4>2. disk[asked[h]] = Current(asked[h])
        BY <3>2, <1>1, <1>5 DEF IInv, Coherent
      <4>3. QED
        BY <4>1, <4>2, <1>3 DEF IInv, TypeOK
    <3>3. QED
      BY <3>1, <3>2
  <2>5. QED
    BY <1>2, <1>3, <1>4, <1>10, <2>4
<1>11. QED
  BY <1>9, <1>10

\* Every step of the cache is a step of the store, or changes neither its
\* current nor its stable values.
LEMMA StoreStep ==
  ASSUME IInv, IInv', CurrentIs, CurrentIs', NullAsked, [Next]_vars
  PROVE  [Store!Next]_(Store!vars)
<1> DEFINE v == [k \in Key |-> Current(k)]
<1>1. ASSUME UNCHANGED <<disk, asked>>, \A k \in Key : Current(k)' = Current(k)
      PROVE  UNCHANGED Store!vars
  <2>1. v' = v
    BY <1>1
  <2>2. QED
    BY <1>1, <2>1 DEF Store!vars
<1>2. ASSUME NEW h \in Holder, NEW k \in Key,
             IgetFound(h, k) \/ IgetLoad(h, k)
      PROVE  [Store!Next]_(Store!vars)
  <2>1. disk' = disk /\ v' = v
    BY <1>2, IgetStep
  <2>2. asked[h] = NoKey /\ asked' = [asked EXCEPT ![h] = k]
    BY <1>2 DEF IgetFound, IgetLoad, Point, NullAsked
  <2>3. Store!Open(h, k)
    BY <2>1, <2>2 DEF Store!Open
  <2>4. QED
    BY <2>3 DEF Store!Next
<1>3. ASSUME NEW h \in Holder, Iput(h)
      PROVE  [Store!Next]_(Store!vars)
  <2>1. v' = v
    BY <1>3, IputStep
  <2>2. asked[h] \in Key /\ asked[h] # NoKey
    BY <1>3, IputStep, CacheAssumption
  <2>3. disk' = IF Store!Shared(h) THEN disk
                ELSE [disk EXCEPT ![asked[h]] = v[asked[h]]]
    BY <1>3, <2>2, IputStep
  <2>4. asked' = [asked EXCEPT ![h] = NoKey]
    BY <1>3, IputStep
  <2>5. Store!Close(h)
    BY <2>1, <2>2, <2>3, <2>4 DEF Store!Close
  <2>6. QED
    BY <2>5 DEF Store!Next
<1>4. ASSUME NEW h \in Holder, NEW c \in Content, Update(h, c)
      PROVE  [Store!Next]_(Store!vars)
  <2>1. disk' = disk /\ asked[h] \in Key /\ asked[h] # NoKey
    BY <1>4, UpdateStep, CacheAssumption
  <2>2. v' = [v EXCEPT ![asked[h]] = c]
    BY <1>4, UpdateStep
  <2>3. asked' = asked
    BY <1>4 DEF Update
  <2>4. Store!Write(h, c)
    BY <2>1, <2>2, <2>3 DEF Store!Write
  <2>5. QED
    BY <2>4 DEF Store!Next
<1>5. CASE Quit \/ QuitSlot
  <2>1. asked' = asked
    BY <1>5 DEF Quit, QuitSlot
  <2>2. CASE UNCHANGED <<minode, disk>>
    <3>1. \A k \in Key : Current(k)' = Current(k)
      BY <2>2 DEF Current, Found
    <3>2. QED
      BY <2>1, <2>2, <3>1, <1>1
  <2>3. ASSUME NEW s \in Slot, minode[s].refCount > 0, Release(s)
        PROVE  [Store!Next]_(Store!vars)
    <3>1. minode[s].key \in Key
      BY <2>3 DEF IInv, TypeOK, MINODE
    <3>2. \A k \in Key : Current(k)' = Current(k)
      BY <2>3, ReleaseStep
    <3>3. CASE disk' = disk
      BY <2>1, <3>2, <3>3, <1>1
    <3>4. CASE disk' = [disk EXCEPT ![minode[s].key] = Current(minode[s].key)]
      <4>1. v' = v
        BY <3>2
      <4>2. disk' = [disk EXCEPT ![minode[s].key] = v[minode[s].key]]
        BY <3>1, <3>4
      <4>3. Store!Sync(minode[s].key)
        BY <4>1, <4>2, <2>1 DEF Store!Sync
      <4>4. QED
        BY <3>1, <4>3 DEF Store!Next
    <3>5. QED
      BY <2>3, <3>3, <3>4, ReleaseStep
  <2>4. QED
    BY <1>5, <2>2, <2>3 DEF Quit, QuitSlot
<1>6. CASE Reboot
  <2>1. disk' = disk /\ \A k \in Key : Current(k)' = disk[k]
    BY <1>6, RebootStep
  <2>2. v' = disk
    BY <2>1 DEF IInv, TypeOK
  <2>3. asked' = Store!Boot
    BY <1>6 DEF Reboot, BootAsked, Store!Boot
  <2>4. Store!Stop
    BY <2>1, <2>2, <2>3 DEF Store!Stop
  <2>5. QED
    BY <2>4 DEF Store!Next
<1>7. CASE UNCHANGED vars
  <2>1. \A k \in Key : Current(k)' = Current(k)
    BY <1>7 DEF vars, Current, Found
  <2>2. QED
    BY <1>7, <2>1, <1>1 DEF vars
<1>8. QED
  BY <1>2, <1>3, <1>4, <1>5, <1>6, <1>7
  DEF Next, IgetPanic, Exit, Crash

\* The table as mount_root fills it shows the disk's own values.
LEMMA StoreInit == Init /\ IInv /\ CurrentIs => Store!Init
<1> SUFFICES ASSUME Init, CurrentIs PROVE Store!Init
  OBVIOUS
<1>1. \A s \in Slot : minode[s].refCount # 0
        => minode[s].key = RootKey /\ minode[s].INODE = disk[RootKey]
  BY DEF Init, BootTable
<1>2. \A k \in Key : Current(k) = disk[k]
  BY <1>1 DEF CurrentIs
<1>3. [k \in Key |-> Current(k)] = disk
  BY <1>2 DEF Init
<1>4. asked = Store!Boot
  BY DEF Init, BootAsked, Store!Boot
<1>5. QED
  BY <1>3, <1>4 DEF Init, Store!Init

\* iget, iput and quit implement the store, for every table size, every set
\* of inodes and every finite set of pointers, crashes included.
THEOREM Refinement == Spec => ImplementsStore
<1>1. Init => Store!Init
  BY InitInv, CurrentDetermined, StoreInit
<1>2. IInv /\ CurrentIs /\ NullAsked /\ IInv' /\ CurrentIs' /\ [Next]_vars
        => [Store!Next]_(Store!vars)
  BY StoreStep
<1>3. QED
  BY <1>1, <1>2, Invariant, NullAskedInv, CurrentDetermined, PTL
  DEF Spec, ImplementsStore, Store!Spec
=============================================================================
