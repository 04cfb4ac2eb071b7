----------------------------- MODULE ReadyRing -----------------------------
(***************************************************************************)
(* The ready queue of session-core.c: a ring of trial indexes kept in an   *)
(* int array whose free cells hold -1, read at ready_head and written at   *)
(* ready_tail.  Pure operators; SessionCore keeps the variables.           *)
(*                                                                         *)
(* The array is also reallocated (extend_lists) when a client joins.  The  *)
(* rotation that precedes the reallocation works on unsigned long words    *)
(* although the cells are ints, so what it does depends on the data model  *)
(* of the build: one int per word (ILP32) or two (LP64).                   *)
(***************************************************************************)
EXTENDS Integers

CONSTANTS MinCap,     \* the smallest capacity array_grow() returns (8 in the code)
          WordInts    \* ints per unsigned long: 1 on ILP32, 2 on LP64

ASSUME RingAssumption ==
  /\ MinCap \in Nat \ {0}
  /\ WordInts \in {1, 2}

NoTrial == -1         \* a free cell

Cells(cap) == 0 .. cap - 1

(* array_grow(): the capacity it leaves behind when asked with n.          *)
array_grow(n) == IF n >= MinCap THEN 2 * n ELSE MinCap

(* The index after p.  (Suffixed operators here and in the other modules   *)
(* are slips of the code that a property must notice.)                     *)
Advance_NoWrap(p, cap) == p + 1

Advance_Twice(p, cap) == (p + 2) % cap

Advance(p, cap) == (p + 1) % cap

(***************************************************************************)
(* The three reverse_array() calls of extend_lists: together they rotate   *)
(* the words of the array left by head.  array_grow sized the array in     *)
(* pointers, so on LP64 its cap words hold 2 * cap ints, of which the      *)
(* upper half was zeroed at allocation and is rotated in.                  *)
(***************************************************************************)
Rotate(ready, head, cap) ==
  LET memory(j) == IF j < cap THEN ready[j] ELSE 0
  IN  [j \in Cells(cap) |-> memory((j + WordInts * head) % (WordInts * cap))]

(* What extend_lists leaves of the ring when the capacity grows to newcap. *)
Extend(ready, head, tail, cap, newcap) ==
  LET realign == tail <= head /\ ready[head] # NoTrial
      moved   == IF realign THEN Rotate(ready, head, cap) ELSE ready
  IN  [ready |-> [j \in Cells(newcap) |-> IF j < cap THEN moved[j] ELSE NoTrial],
       head  |-> IF realign THEN 0 ELSE head,
       tail  |-> IF realign THEN cap - tail ELSE tail]

-----------------------------------------------------------------------------
(* The free cells of a ring are those from tail up to head.                *)
WellShaped(ready, head, tail, cap) ==
  IF head = tail
    THEN \A p, q \in Cells(cap) : ready[p] = NoTrial <=> ready[q] = NoTrial
    ELSE \A p \in Cells(cap) : ready[p] # NoTrial <=>
           IF head < tail THEN head <= p /\ p < tail ELSE head <= p \/ p < tail

(* The abstraction: the queue a ring stands for, oldest trial first.       *)
Contents(ready, head, cap) ==
  LET cell(n) == ready[(head + n - 1) % cap]
      size    == CHOOSE n \in 0 .. cap :
                   /\ \A m \in 1 .. n : cell(m) # NoTrial
                   /\ n < cap => cell(n + 1) = NoTrial
  IN  [n \in 1 .. size |-> cell(n)]

=============================================================================
