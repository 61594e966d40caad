----------------------------- MODULE Allocator -----------------------------
(***************************************************************************)
(* The inode and block allocators of util.c: ialloc/idalloc and            *)
(* balloc/bdalloc.  The two pairs are the same code over two bitmaps, so   *)
(* every variable is a function of the kind of bitmap.                     *)
(*                                                                         *)
(* One call performs three writes: the bitmap block, then the free count   *)
(* of the superblock, then the free count of the group descriptor.  Each   *)
(* put_block is one step here, because the process can be killed between   *)
(* any two of them and nothing on the disk is repaired at the next start.  *)
(***************************************************************************)
EXTENDS Integers, FiniteSets

CONSTANTS
  Kind,        \* the two bitmaps, inode and block
  Limit,       \* [Kind -> Nat]: ninodes and nblocks
  Reserved,    \* [Kind -> sets of numbers]: what mke2fs marks in use
  SuperMod,    \* 2^32, the range of s_free_*_count
  GroupMod,    \* 2^16, the range of bg_free_*_count
  MaxCrash     \* bound on the number of crashes of a behaviour

ASSUME AllocAssumption ==
  /\ Limit \in [Kind -> Nat]
  /\ \A k \in Kind : Reserved[k] \subseteq 1..Limit[k]
  /\ SuperMod \in Nat /\ GroupMod \in Nat
  /\ \A k \in Kind : Limit[k] < SuperMod /\ Limit[k] < GroupMod
  /\ MaxCrash \in Nat

VARIABLES
  used,        \* disk: the numbers whose bit is set in the bitmap
  sfree,       \* disk: the free counts of the superblock
  gfree,       \* disk: the free counts of the group descriptor
  task,        \* the call in progress and the write it does next
  held,        \* numbers callers were given and have not given back
  crashes      \* how often the process was killed

vars == <<used, sfree, gfree, task, held, crashes>>

Number(k) == 1..Limit[k]
Free(k)   == Number(k) \ used[k]

Idle == [call |-> "none"]
Task == [call : {"alloc", "dealloc"}, kind : Kind, num : Nat,
         next : {"super", "group"}]

TypeOK ==
  /\ used \in [Kind -> SUBSET Nat]
  /\ \A k \in Kind : used[k] \subseteq Number(k)
  /\ sfree \in [Kind -> 0..(SuperMod - 1)]
  /\ gfree \in [Kind -> 0..(GroupMod - 1)]
  /\ task \in {Idle} \cup Task
  /\ held \in [Kind -> SUBSET Nat]
  /\ crashes \in Nat

(***************************************************************************)
(* The count fields are unsigned: they wrap at both ends.                  *)
(***************************************************************************)
\* Faulty variant: the count is signed.
DecCount_Signed(c, mod) == c - 1

DecCount(c, mod) == IF c = 0 THEN mod - 1 ELSE c - 1
IncCount(c, mod) == IF c = mod - 1 THEN 0 ELSE c + 1

\* Faulty variant: idalloc and bdalloc decrement.
Adjust_DownOnly(c, mod) == DecCount(c, mod)

Adjust(c, mod) == IF task.call = "alloc" THEN DecCount(c, mod)
                                         ELSE IncCount(c, mod)

(***************************************************************************)
(* A freshly made file system: the bitmap and both counts agree.           *)
(***************************************************************************)
Init ==
  /\ used    = [k \in Kind |-> Reserved[k]]
  /\ sfree   = [k \in Kind |-> Cardinality(Number(k) \ Reserved[k])]
  /\ gfree   = [k \in Kind |-> Cardinality(Number(k) \ Reserved[k])]
  /\ task    = Idle
  /\ held    = [k \in Kind |-> {}]
  /\ crashes = 0

(***************************************************************************)
(* ialloc and balloc: the first clear bit is set and the bitmap written.   *)
(* With no clear bit they return 0 and write nothing, which is no step.    *)
(***************************************************************************)
Alloc(k) ==
  /\ task = Idle
  /\ \E n \in Free(k) :
       /\ 1..(n - 1) \subseteq used[k]
       /\ used' = [used EXCEPT ![k] = @ \cup {n}]
       /\ task' = [call |-> "alloc", kind |-> k, num |-> n, next |-> "super"]
  /\ UNCHANGED <<sfree, gfree, held, crashes>>

\* Faulty variant: the bit cleared is that of the next number.
Dealloc_NextBit(k, n) ==
  /\ task = Idle
  /\ n \in held[k]
  /\ n <= Limit[k]
  /\ used' = [used EXCEPT ![k] = @ \ {n + 1}]
  /\ held' = [held EXCEPT ![k] = @ \ {n}]
  /\ task' = [call |-> "dealloc", kind |-> k, num |-> n, next |-> "super"]
  /\ UNCHANGED <<sfree, gfree, crashes>>

(***************************************************************************)
(* idalloc and bdalloc: the bit is cleared and the bitmap written.  The    *)
(* caller gives back a number it holds; a number out of range is refused.  *)
(***************************************************************************)
Dealloc(k, n) ==
  /\ task = Idle
  /\ n \in held[k]
  /\ n <= Limit[k]
  /\ used' = [used EXCEPT ![k] = @ \ {n}]
  /\ held' = [held EXCEPT ![k] = @ \ {n}]
  /\ task' = [call |-> "dealloc", kind |-> k, num |-> n, next |-> "super"]
  /\ UNCHANGED <<sfree, gfree, crashes>>

\* Faulty variant: the superblock is not updated.
PutSuper_Forgotten ==
  /\ task # Idle
  /\ task.next = "super"
  /\ task' = [task EXCEPT !.next = "group"]
  /\ UNCHANGED <<used, sfree, gfree, held, crashes>>

\* The first half of dec/incFreeInodes and dec/incFreeBlocks.
PutSuper ==
  /\ task # Idle
  /\ task.next = "super"
  /\ sfree' = [sfree EXCEPT ![task.kind] = Adjust(@, SuperMod)]
  /\ task'  = [task EXCEPT !.next = "group"]
  /\ UNCHANGED <<used, gfree, held, crashes>>

\* The second half; the call returns, and an allocator hands its number out.
PutGroup ==
  /\ task # Idle
  /\ task.next = "group"
  /\ gfree' = [gfree EXCEPT ![task.kind] = Adjust(@, GroupMod)]
  /\ held'  = IF task.call = "alloc"
              THEN [held EXCEPT ![task.kind] = @ \cup {task.num}]
              ELSE held
  /\ task'  = Idle
  /\ UNCHANGED <<used, sfree, crashes>>

(***************************************************************************)
(* The process is killed.  The call in progress is lost, and so is every   *)
(* number that its caller had not yet recorded in an inode or a directory. *)
(***************************************************************************)
Crash ==
  /\ crashes < MaxCrash
  /\ crashes' = crashes + 1
  /\ task' = Idle
  /\ held' \in [Kind -> SUBSET (UNION {held[k] : k \in Kind})]
  /\ \A k \in Kind : held'[k] \subseteq held[k]
  /\ UNCHANGED <<used, sfree, gfree>>

Next ==
  \/ \E k \in Kind : Alloc(k)
  \/ \E k \in Kind : \E n \in Number(k) : Dealloc(k, n)
  \/ PutSuper
  \/ PutGroup
  \/ Crash

Spec == Init /\ [][Next]_vars

-----------------------------------------------------------------------------
(***************************************************************************)
(* Properties                                                              *)
(***************************************************************************)

\* The number the call in progress is about.
InFlight(k, c) == IF task # Idle /\ task.kind = k /\ task.call = c
                  THEN {task.num} ELSE {}

\* Whatever the order of calls and crashes, a number a caller holds has its
\* bit set, so that the search for a clear bit never hands it out again, and
\* the numbers reserved by mke2fs (the metadata) are never handed out.
HeldMarked ==
  \A k \in Kind :
    /\ Reserved[k] \cup held[k] \cup InFlight(k, "alloc") \subseteq used[k]
    /\ Reserved[k] \cap (held[k] \cup InFlight(k, "alloc")) = {}
    /\ held[k] \cap InFlight(k, "alloc") = {}

\* What a count that the call in progress has not yet updated still misses.
Pending(k, nexts) ==
  IF task = Idle \/ task.kind # k \/ task.next \notin nexts THEN 0
  ELSE IF task.call = "alloc" THEN 1 ELSE -1

\* As long as no crash has cut a call short, the superblock and the group
\* descriptor both count exactly the clear bits, and never wrap.
CountsExact ==
  crashes = 0 =>
    \A k \in Kind :
      /\ sfree[k] = Cardinality(Free(k)) + Pending(k, {"super"})
      /\ gfree[k] = Cardinality(Free(k)) + Pending(k, {"super", "group"})

\* Each crash shifts a count by at most one against the bitmap, in either
\* direction, modulo the width of the field: counts are only incremented and
\* decremented, so a drift is never repaired and crashes add up.
CountDrift ==
  \A k \in Kind : \E d, e \in (-crashes)..crashes :
    /\ sfree[k] = (Cardinality(Free(k)) + Pending(k, {"super"}) + d) % SuperMod
    /\ gfree[k] = (Cardinality(Free(k)) + Pending(k, {"super", "group"}) + e)
                    % GroupMod

\* Marked in the bitmap, but known to nobody.
Leaked(k) == used[k] \ (Reserved[k] \cup held[k] \cup InFlight(k, "alloc"))

\* A number leaked by a crash stays leaked: no later call frees it or hands
\* it out, because mount_root repairs nothing.
LeakPermanent == [][\A k \in Kind : Leaked(k) \subseteq Leaked(k)']_vars
=============================================================================
