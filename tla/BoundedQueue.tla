--------------------------- MODULE BoundedQueue ----------------------------
(***************************************************************************)
(* What the classes of queue.py promise: a bounded collection that items   *)
(* are put into and taken from in the order of its kind.                   *)
(***************************************************************************)
EXTENDS SequencesExt

CONSTANTS Item, Maxsize

VARIABLES kind, deque, took    \* the kind of queue; what is in it, what was taken

Init == kind \in {"fifo", "lifo", "priority", "simple"} /\ deque = <<>> /\ took = {}

\* Every item is put once; SimpleQueue has no bound, nor has a queue of size 0.
Put(x) ==
  /\ x \notin ToSet(deque) \cup took
  /\ kind # "simple" /\ Maxsize > 0 => Len(deque) < Maxsize
  /\ deque' = Append(deque, x)
  /\ UNCHANGED <<kind, took>>

\* The place of the item to take: the oldest, the youngest, the lowest.
Chosen(k) ==
  CASE kind \in {"fifo", "simple"} -> k = 1
    [] kind = "lifo" -> k = Len(deque)
    [] kind = "priority" -> \A j \in DOMAIN deque : deque[k] <= deque[j]

Take ==
  \E k \in DOMAIN deque :
    /\ Chosen(k)
    /\ took' = took \cup {deque[k]}
    /\ deque' = RemoveAt(deque, k)
    /\ UNCHANGED kind

Next == Take \/ \E x \in Item : Put(x)
Spec == Init /\ [][Next]_<<kind, deque, took>>
============================================================================
