---------------------------- MODULE QueueProofs -----------------------------
(***************************************************************************)
(* For any threads, items, size and kind of queue, and whatever the        *)
(* threads call: the events that all of them share tell the truth to       *)
(* whoever waits on them, every item that was put is counted, the          *)
(* semaphore of SimpleQueue has a unit for every item, and all of it is a  *)
(* bounded queue, BoundedQueue.                                            *)
(***************************************************************************)
EXTENDS Queue, SequenceTheorems, FiniteSetTheorems, WellFoundedInduction, TLAPS

----------------------------------------------------------------------------
(* Sequences whose elements come and go.                                   *)

\* A set of natural numbers has a least one.
LEMMA LeastOf ==
  ASSUME NEW T, T \subseteq Nat, T # {}
  PROVE  Min(T) \in T
<1> DEFINE R == OpToRel(<, Nat)
<1>1. IsWellFoundedOn(R, Nat)
  BY NatLessThanWellFounded
<1>2. \A x, y \in Nat : <<y, x>> \in R <=> y < x
  BY DEF OpToRel
<1> HIDE DEF R
<1>3. PICK x \in T : \A y \in T : ~ (<<y, x>> \in R)
  BY <1>1, WFMin
<1>4. ASSUME NEW y \in T
      PROVE  x =< y
  <2>1. x \in Nat /\ y \in Nat /\ ~(y < x)
    BY <1>2, <1>3
  <2> QED
    BY <2>1
<1> QED
  BY <1>4 DEF Min

\* RemoveAt() takes out the k-th element and closes the gap.
LEMMA RemoveAtGap ==
  ASSUME NEW S, NEW s \in Seq(S), NEW k \in DOMAIN s
  PROVE  /\ RemoveAt(s, k) \in Seq(S) /\ Len(RemoveAt(s, k)) = Len(s) - 1
         /\ \A i \in DOMAIN RemoveAt(s, k) :
              RemoveAt(s, k)[i] = IF i < k THEN s[i] ELSE s[i + 1]
<1> DEFINE a == SubSeq(s, 1, k - 1)
           b == SubSeq(s, k + 1, Len(s))
<1>1. k \in 1..Len(s) /\ Len(s) \in Nat /\ \A i \in 1..Len(s) : s[i] \in S
  OBVIOUS
<1>2. a \in Seq(S) /\ Len(a) = k - 1 /\ \A i \in 1..(k - 1) : a[i] = s[i]
  <2>1. \A i \in 1..(k - 1) : s[i] \in S
    BY <1>1
  <2>2. a \in Seq(S) /\ Len(a) = (IF 1 <= k - 1 THEN k - 1 ELSE 0)
        /\ \A i \in 1..(k - 1) : a[i] = s[1 + i - 1]
    BY <1>1, <2>1, SubSeqProperties
  <2> HIDE DEF a
  <2> QED
    BY <1>1, <2>2
<1>3. b \in Seq(S) /\ Len(b) = Len(s) - k /\ \A i \in 1..(Len(s) - k) : b[i] = s[k + i]
  <2>1. \A i \in (k + 1)..Len(s) : s[i] \in S
    BY <1>1
  <2>2. b \in Seq(S) /\ Len(b) = (IF k + 1 <= Len(s) THEN Len(s) - (k + 1) + 1 ELSE 0)
        /\ \A i \in 1..(Len(s) - (k + 1) + 1) : b[i] = s[k + 1 + i - 1]
    BY <1>1, <2>1, SubSeqProperties
  <2> HIDE DEF b
  <2> QED
    BY <1>1, <2>2
<1>4. RemoveAt(s, k) = a \o b
  BY DEF RemoveAt
<1> HIDE DEF a, b
<1>5. /\ a \o b \in Seq(S) /\ Len(a \o b) = Len(s) - 1
      /\ \A i \in 1..(Len(s) - 1) : (a \o b)[i] = IF i <= k - 1 THEN a[i] ELSE b[i - (k - 1)]
  <2>1. /\ a \o b \in Seq(S) /\ Len(a \o b) = Len(a) + Len(b)
        /\ \A i \in 1..(Len(a) + Len(b)) :
             (a \o b)[i] = IF i <= Len(a) THEN a[i] ELSE b[i - Len(a)]
    BY <1>2, <1>3, ConcatProperties
  <2>2. Len(a) + Len(b) = Len(s) - 1
    BY <1>1, <1>2, <1>3
  <2> QED
    BY <1>2, <2>1, <2>2
<1>6. ASSUME NEW i \in 1..(Len(s) - 1)
      PROVE  (a \o b)[i] = IF i < k THEN s[i] ELSE s[i + 1]
  <2>1. CASE i < k
    BY <1>1, <1>2, <1>5, <2>1
  <2>2. CASE ~(i < k)
    <3>1. i - (k - 1) \in 1..(Len(s) - k) /\ k + (i - (k - 1)) = i + 1 /\ ~(i <= k - 1)
      BY <1>1, <2>2
    <3> QED
      BY <1>3, <1>5, <2>2, <3>1
  <2> QED
    BY <2>1, <2>2
<1> QED
  BY <1>1, <1>4, <1>5, <1>6

\* What is left when an element of a sequence without repetition is taken out: the others.
LEMMA RemoveAtOthers ==
  ASSUME NEW S, NEW s \in Seq(S), NEW k \in DOMAIN s,
         IsInjective(s)
  PROVE  LET r == RemoveAt(s, k)
         IN  /\ r \in Seq(S) /\ Len(r) = Len(s) - 1
             /\ ToSet(r) = ToSet(s) \ {s[k]}
             /\ IsInjective(r)
<1> DEFINE r == RemoveAt(s, k)
<1>1. /\ r \in Seq(S) /\ Len(r) = Len(s) - 1 /\ DOMAIN r = 1..(Len(s) - 1)
      /\ \A i \in DOMAIN r : r[i] = IF i < k THEN s[i] ELSE s[i + 1]
  BY RemoveAtGap
<1>2. Len(s) \in Nat /\ DOMAIN s = 1..Len(s) /\ k \in 1..Len(s)
  OBVIOUS
<1> HIDE DEF r
<1>3. ASSUME NEW i \in DOMAIN r
      PROVE  \E j \in DOMAIN s : j # k /\ r[i] = s[j] /\ j = IF i < k THEN i ELSE i + 1
  BY <1>1, <1>2
<1>4. ASSUME NEW j \in DOMAIN s, j # k
      PROVE  \E i \in DOMAIN r : r[i] = s[j]
  <2>1. CASE j < k
    <3>1. j \in DOMAIN r
      BY <1>1, <1>2, <2>1
    <3> QED
      BY <1>1, <2>1, <3>1
  <2>2. CASE ~(j < k)
    <3>1. j - 1 \in DOMAIN r /\ ~(j - 1 < k) /\ (j - 1) + 1 = j
      BY <1>1, <1>2, <1>4, <2>2
    <3> QED
      BY <1>1, <3>1
  <2> QED
    BY <2>1, <2>2
<1>5. ToSet(r) = ToSet(s) \ {s[k]}
  BY <1>3, <1>4 DEF ToSet, IsInjective
<1>6. IsInjective(r)
  BY <1>1, <1>2, <1>3 DEF IsInjective
<1> QED
  BY <1>1, <1>5, <1>6 DEF r

\* RemoveFirst() is RemoveAt() of a place where the element is.
LEMMA RemoveFirstAt ==
  ASSUME NEW S, NEW s \in Seq(S), NEW e
  PROVE  \/ e \notin ToSet(s) /\ RemoveFirst(s, e) = s
         \/ \E k \in DOMAIN s : s[k] = e /\ RemoveFirst(s, e) = RemoveAt(s, k)
<1> DEFINE I == {i \in 1..Len(s) : s[i] = e}
<1>1. CASE I = {}
  <2>1. RemoveFirst(s, e) = s
    BY <1>1 DEF RemoveFirst
  <2>2. DOMAIN s = 1..Len(s)
    OBVIOUS
  <2>3. e \notin ToSet(s)
    BY <1>1, <2>2 DEF ToSet
  <2> QED
    BY <2>1, <2>3
<1>2. CASE I # {}
  <2>1. I \subseteq Nat
    OBVIOUS
  <2>2. Min(I) \in I
    BY <1>2, <2>1, LeastOf
  <2>3. RemoveFirst(s, e) = RemoveAt(s, Min(I))
    BY <1>2 DEF RemoveFirst, SelectInSeq
  <2>4. Min(I) \in DOMAIN s /\ s[Min(I)] = e
    BY <2>2
  <2> HIDE DEF I
  <2> QED
    BY <2>3, <2>4
<1> QED
  BY <1>1, <1>2

\* The sequence stays one, and where the element was there once, the others stay.
LEMMA RemoveFirstOthers ==
  ASSUME NEW S, NEW s \in Seq(S), NEW e
  PROVE  LET r == RemoveFirst(s, e)
         IN  /\ r \in Seq(S)
             /\ IsInjective(s) => ToSet(r) = ToSet(s) \ {e} /\ IsInjective(r)
<1>1. CASE e \notin ToSet(s) /\ RemoveFirst(s, e) = s
  BY <1>1
<1>2. CASE \E k \in DOMAIN s : s[k] = e /\ RemoveFirst(s, e) = RemoveAt(s, k)
  BY <1>2, RemoveAtGap, RemoveAtOthers
<1> QED
  BY <1>1, <1>2, RemoveFirstAt

\* Append() of an element that is not in the sequence.
LEMMA AppendOthers ==
  ASSUME NEW S, NEW s \in Seq(S), NEW x \in S
  PROVE  LET r == Append(s, x)
         IN  /\ r \in Seq(S) /\ Len(r) = Len(s) + 1 /\ Len(s) \in Nat
             /\ ToSet(r) = ToSet(s) \cup {x}
             /\ (x \notin ToSet(s) /\ IsInjective(s))
                  => IsInjective(r)
<1> DEFINE r == Append(s, x)
<1>1. /\ r \in Seq(S) /\ Len(r) = Len(s) + 1 /\ Len(s) \in Nat /\ DOMAIN s = 1..Len(s)
      /\ DOMAIN r = 1..(Len(s) + 1)
      /\ \A i \in 1..Len(s) : r[i] = s[i]
      /\ r[Len(s) + 1] = x
  OBVIOUS
<1> HIDE DEF r
<1>2. \A i \in DOMAIN r : i \in DOMAIN s \/ i = Len(s) + 1
  BY <1>1
<1>3. Len(s) + 1 \in DOMAIN r /\ DOMAIN s \subseteq DOMAIN r
  BY <1>1
<1>4. ToSet(r) = ToSet(s) \cup {x}
  BY <1>1, <1>2, <1>3 DEF ToSet
<1>5. ASSUME x \notin ToSet(s), IsInjective(s)
      PROVE  IsInjective(r)
  BY <1>1, <1>2, <1>5 DEF ToSet, IsInjective
<1> QED
  BY <1>1, <1>4, <1>5 DEF r

\* Tail() of a sequence without repetition.
LEMMA TailOthers ==
  ASSUME NEW S, NEW s \in Seq(S), s # <<>>,
         IsInjective(s)
  PROVE  LET r == Tail(s)
         IN  /\ r \in Seq(S)
             /\ Head(s) \in ToSet(s) /\ ToSet(r) = ToSet(s) \ {Head(s)}
             /\ IsInjective(r)
<1> DEFINE r == Tail(s)
<1>1. /\ r \in Seq(S) /\ Len(s) \in Nat /\ Len(s) >= 1 /\ DOMAIN s = 1..Len(s)
      /\ DOMAIN r = 1..(Len(s) - 1) /\ Head(s) = s[1]
      /\ \A i \in DOMAIN r : r[i] = s[i + 1]
  OBVIOUS
<1> HIDE DEF r
<1>2. \A i \in DOMAIN r : i + 1 \in DOMAIN s /\ i + 1 # 1
  BY <1>1
<1>3. \A j \in DOMAIN s : j # 1 => j - 1 \in DOMAIN r /\ (j - 1) + 1 = j
  BY <1>1
<1>4. ToSet(r) = ToSet(s) \ {Head(s)} /\ Head(s) \in ToSet(s)
  <2>1. 1 \in DOMAIN s
    BY <1>1
  <2>2. ASSUME NEW i \in DOMAIN r
        PROVE  r[i] \in ToSet(s) \ {Head(s)}
    BY <1>1, <1>2, <2>1 DEF ToSet, IsInjective
  <2>3. ASSUME NEW j \in DOMAIN s, s[j] # Head(s)
        PROVE  s[j] \in ToSet(r)
    BY <1>1, <1>3, <2>3 DEF ToSet
  <2> QED
    BY <1>1, <2>1, <2>2, <2>3 DEF ToSet
<1>5. IsInjective(r)
  BY <1>1, <1>2 DEF IsInjective
<1> QED
  BY <1>1, <1>4, <1>5 DEF r

----------------------------------------------------------------------------
(* The events.                                                              *)

Label == {"idle", "enter", "wait", "asleep", "gaveup", "release", "pop"}

\* The types that the argument needs.
Shapes ==
  /\ flag \in [Event -> BOOLEAN] /\ unfinished \in Nat
  /\ waiters = [c \in Cond |-> waiters[c]]
  /\ pc \in [Thread -> Label]
  /\ \A t \in Thread : call[t].op \in {"get", "put", "join"}
  /\ call = [t \in Thread |-> call[t]]
  /\ \A t \in Thread : pc[t] \in {"release", "pop"} => Simple

\* The threads that wait, or are about to, for an event.
On_Event(e) == {t \in Thread : pc[t] \in {"wait", "asleep", "gaveup"} /\ On(t) = e}

\* The two halves of EventsTell: what the waiting threads may believe, and that none
\* sleeps on an event that is set.
Believed == \A e \in Event : On_Event(e) # {} => flag[e] \/ Nothing(e)
NoneAsleep == \A e \in Event : flag[e] => waiters[e] = <<>>

EInv == Shapes /\ Believed /\ NoneAsleep

----------------------------------------------------------------------------
\* Event.set() of e, after which nobody waits on it without cause.
LEMMA SetTells ==
  ASSUME NEW fl \in [Event -> BOOLEAN], NEW e \in Event, waiters = [c \in Cond |-> waiters[c]],
         Set(fl, waiters, e)
  PROVE  /\ flag' \in [Event -> BOOLEAN] /\ flag'[e] /\ waiters'[e] = <<>>
         /\ waiters' = [c \in Cond |-> waiters'[c]]
         /\ \A o \in Event \ {e} : flag'[o] = fl[o] /\ waiters'[o] = waiters[o]
BY DEF Set, Cond, Event

\* What On(t) may be.
LEMMA OnType ==
  ASSUME Shapes, NEW t \in Thread
  PROVE  On(t) \in Cond /\ (~Simple => On(t) \in Event) /\ (Simple => On(t) = "count")
BY DEF On, Shapes, Cond, Event

\* A step of one thread, that leaves the calls of the others alone: what they believe
\* stays true, and what it goes to wait for is not there.
LEMMA StepBelieved ==
  ASSUME Shapes, Believed, NEW t \in Thread, NEW l \in Label, pc' = [pc EXCEPT ![t] = l],
         kind' = kind, \A u \in Thread \ {t} : call'[u] = call[u],
         \A e \in Event : On_Event(e) # {} /\ (flag[e] \/ Nothing(e)) => flag'[e] \/ Nothing(e)',
         l \in {"wait", "asleep", "gaveup"} =>
           \A e \in Event : On(t)' = e => flag'[e] \/ Nothing(e)'
  PROVE  Believed'
<1>1. /\ pc' \in [Thread -> Label] /\ pc'[t] = l
      /\ \A u \in Thread \ {t} : pc'[u] = pc[u] /\ On(u)' = On(u)
  BY DEF Shapes, On, Simple
<1> SUFFICES ASSUME NEW e \in Event, NEW u \in Thread,
                    pc'[u] \in {"wait", "asleep", "gaveup"}, On(u)' = e
             PROVE  flag'[e] \/ Nothing(e)'
  BY DEF Believed, On_Event
<1>2. CASE u = t
  BY <1>1, <1>2
<1>3. CASE u # t
  <2>1. u \in On_Event(e)
    BY <1>1, <1>3 DEF On_Event
  <2> QED
    BY <2>1 DEF Believed
<1> QED
  BY <1>2, <1>3

\* At first nobody waits.
LEMMA InitEInv == Init => EInv
BY DEF Init, EInv, Shapes, Believed, NoneAsleep, On_Event, Label, Event, Cond, NoCall

\* A call begins; a waiter wakes, or its time is up: the events are as they were.
LEMMA MovesEInv == ASSUME EInv, NEW t \in Thread, Call(t) \/ Wake(t) \/ TimedOut(t) PROVE EInv'
<1> USE DEF EInv
<1>1. /\ UNCHANGED <<kind, deque, unfinished, flag, waiters>>
      /\ \A e \in Event : Nothing(e)' = Nothing(e)
  BY DEF Call, Wake, TimedOut, Goto, Nothing, Full
<1>2. PICK l \in {"enter", "gaveup"} :
        pc' = [pc EXCEPT ![t] = l] /\ (l = "gaveup" => pc[t] = "asleep" /\ call' = call)
  BY DEF Call, Wake, TimedOut, Goto, Asleep
<1>3. Shapes'
  <2>1. /\ call' = [u \in Thread |-> call'[u]]
        /\ \A u \in Thread : call'[u].op \in {"get", "put", "join"}
    BY DEF Call, Wake, TimedOut, Goto, Shapes
  <2> QED
    BY <1>1, <1>2, <2>1 DEF Shapes, Label, Simple
<1>4. \A u \in Thread \ {t} : call'[u] = call[u]
  BY DEF Call, Wake, TimedOut, Goto, Shapes
<1>5. l = "gaveup" => \A e \in Event : On(t)' = e => flag'[e] \/ Nothing(e)'
  BY <1>1, <1>2 DEF On, Simple, Believed, On_Event
<1>6. Believed'
  BY <1>1, <1>2, <1>4, <1>5, StepBelieved DEF Label
<1> QED
  BY <1>1, <1>3, <1>6 DEF NoneAsleep

\* Event.wait() goes to sleep only with the flag clear; who gave up takes itself out.
LEMMA WaitEInv == ASSUME EInv, NEW t \in Thread, Wait(t) PROVE EInv'
<1> USE DEF EInv
<1>1. /\ UNCHANGED <<kind, deque, unfinished, flag, call>> /\ pc[t] = "wait"
      /\ \A e \in Event : Nothing(e)' = Nothing(e)
      /\ On(t) \in Cond /\ On(t)' = On(t)
  BY OnType DEF Wait, Goto, Nothing, Full, On, Simple
<1>2. PICK l \in {"enter", "asleep"} : pc' = [pc EXCEPT ![t] = l]
  BY DEF Wait, Goto
<1>3. /\ waiters' = [c \in Cond |-> waiters'[c]]
      /\ \A e \in Event : waiters'[e] = waiters[e] \/ (e = On(t) /\ ~flag[e])
  BY <1>1 DEF Wait, Shapes, Cond, Event
<1>4. Believed'
  <2>1. \A e \in Event : On(t)' = e => flag'[e] \/ Nothing(e)'
    BY <1>1 DEF Believed, On_Event
  <2> QED
    BY <1>1, <1>2, <2>1, StepBelieved DEF Label
<1>5. Shapes'
  BY <1>1, <1>2, <1>3 DEF Shapes, Label, Simple
<1> QED
  BY <1>1, <1>3, <1>4, <1>5 DEF NoneAsleep

\* Who gave up takes itself out of the waiters, and no other.
LEMMA GaveUpEInv == ASSUME EInv, NEW t \in Thread, GaveUp(t) PROVE EInv'
<1> USE DEF EInv, Simple
<1>1. /\ UNCHANGED <<kind, deque, unfinished, flag>>
      /\ \A e \in Event : Nothing(e)' = Nothing(e)
      /\ On(t) \in Cond /\ waiters' = [waiters EXCEPT ![On(t)] = RemoveFirst(@, t)]
  BY OnType DEF GaveUp, Nothing, Full
<1>2. /\ \E l \in {"pop", "idle"} : pc' = [pc EXCEPT ![t] = l] /\ (l = "pop" => Simple)
      /\ call' = call \/ call' = [call EXCEPT ![t] = NoCall]
  BY DEF GaveUp, Goto, Return
<1>3. RemoveFirst(<<>>, t) = <<>>
  BY DEF RemoveFirst
<1>4. /\ waiters' = [c \in Cond |-> waiters'[c]]
      /\ \A e \in Event : waiters[e] = <<>> => waiters'[e] = <<>>
  BY <1>1, <1>3 DEF Shapes, Cond, Event
<1>5. Shapes' /\ \A u \in Thread \ {t} : call'[u] = call[u]
  BY <1>1, <1>2, <1>4 DEF Shapes, Label, NoCall, Simple
<1>6. Believed'
  BY <1>1, <1>2, <1>5, StepBelieved DEF Label
<1> QED
  BY <1>1, <1>4, <1>5, <1>6 DEF NoneAsleep

\* get() and put() set the event that the other waits for.
LEMMA GetEInv == ASSUME EInv, NEW t \in Thread, Get(t) PROVE EInv'
<1> USE DEF EInv
<1>1. /\ UNCHANGED <<kind, unfinished>> /\ deque # <<>>
      /\ Set(flag, waiters, "not_full") /\ pc' = [pc EXCEPT ![t] = "idle"]
      /\ call' = [call EXCEPT ![t] = NoCall]
  BY DEF Get, Return
<1>2. /\ flag' \in [Event -> BOOLEAN] /\ flag'["not_full"] /\ waiters'["not_full"] = <<>>
      /\ waiters' = [c \in Cond |-> waiters'[c]]
      /\ \A o \in Event \ {"not_full"} : flag'[o] = flag[o] /\ waiters'[o] = waiters[o]
  BY <1>1, SetTells DEF Shapes, Event
<1>3. \A e \in Event : flag[e] \/ Nothing(e) => flag'[e] \/ Nothing(e)'
  BY <1>1, <1>2 DEF Nothing, Event
<1>4. Shapes' /\ \A u \in Thread \ {t} : call'[u] = call[u]
  BY <1>1, <1>2 DEF Shapes, Label, NoCall, Simple
<1>5. Believed'
  BY <1>1, <1>3, <1>4, StepBelieved DEF Label
<1> QED
  BY <1>2, <1>4, <1>5 DEF NoneAsleep

\* put() clears the event of join(), with an item unfinished, and sets that of get().
LEMMA PutEInv == ASSUME EInv, NEW t \in Thread, Put(t) PROVE EInv'
<1> USE DEF EInv
<1> DEFINE fl == [flag EXCEPT !["finished"] = FALSE]
<1>1. /\ kind' = kind /\ unfinished' = unfinished + 1 /\ ~Full
      /\ Set(fl, waiters, "not_empty") /\ pc' = [pc EXCEPT ![t] = "idle"]
      /\ call' = [call EXCEPT ![t] = NoCall]
  BY DEF Put, Return
<1>2. /\ fl \in [Event -> BOOLEAN] /\ ~fl["finished"]
      /\ \A o \in Event \ {"finished"} : fl[o] = flag[o]
  BY DEF Shapes, Event
<1> HIDE DEF fl
<1>3. /\ flag' \in [Event -> BOOLEAN] /\ flag'["not_empty"] /\ waiters'["not_empty"] = <<>>
      /\ waiters' = [c \in Cond |-> waiters'[c]]
      /\ \A o \in Event \ {"not_empty"} : flag'[o] = fl[o] /\ waiters'[o] = waiters[o]
  BY <1>1, <1>2, SetTells DEF Shapes, Event
<1>4. \A e \in Event : flag[e] \/ Nothing(e) => flag'[e] \/ Nothing(e)'
  <2>1. flag["not_full"] \/ Nothing("not_full") => flag'["not_full"]
    BY <1>1, <1>2, <1>3 DEF Nothing, Event
  <2>2. Nothing("finished")'
    BY <1>1 DEF Nothing, Shapes
  <2> QED
    BY <1>3, <2>1, <2>2 DEF Event
<1>5. Shapes' /\ \A u \in Thread \ {t} : call'[u] = call[u]
  BY <1>1, <1>3 DEF Shapes, Label, NoCall, Simple
<1>6. Believed'
  BY <1>1, <1>4, <1>5, StepBelieved DEF Label
<1> QED
  BY <1>2, <1>3, <1>5, <1>6 DEF NoneAsleep, Event

\* The event is cleared, and waited for, by who has found nothing.
LEMMA BlockedEInv == ASSUME EInv, NEW t \in Thread, Blocked(t) \/ Join(t) PROVE EInv'
<1> USE DEF EInv
<1>1. /\ UNCHANGED <<kind, deque, unfinished, waiters>> /\ ~Simple
      /\ \A e \in Event : Nothing(e)' = Nothing(e)
  BY DEF Blocked, Join, Nothing, Full
<1>2. CASE /\ pc' = [pc EXCEPT ![t] = "wait"] /\ call' = call /\ Nothing(On(t))
           /\ flag' = flag \/ flag' = [flag EXCEPT ![On(t)] = FALSE]
  <2>1. On(t) \in Event /\ On(t)' = On(t)
    BY <1>1, <1>2, OnType DEF On, Simple
  <2>2. Shapes' /\ \A e \in Event : flag'[e] = flag[e] \/ (e = On(t) /\ ~flag'[e])
    BY <1>1, <1>2, <2>1 DEF Shapes, Label, Simple
  <2>3. Believed'
    BY <1>1, <1>2, <2>1, <2>2, StepBelieved DEF Label
  <2> QED
    BY <1>1, <2>2, <2>3 DEF NoneAsleep
<1>3. CASE /\ pc' = [pc EXCEPT ![t] = "idle"] /\ call' = [call EXCEPT ![t] = NoCall]
           /\ flag' = flag
  <2>1. Shapes' /\ \A u \in Thread \ {t} : call'[u] = call[u]
    BY <1>1, <1>3 DEF Shapes, Label, NoCall, Simple
  <2>2. Believed'
    BY <1>1, <1>3, <2>1, StepBelieved DEF Label
  <2> QED
    BY <1>1, <1>3, <2>1, <2>2 DEF NoneAsleep
<1>4. \/ /\ pc' = [pc EXCEPT ![t] = "wait"] /\ call' = call /\ Nothing(On(t))
         /\ flag' = flag \/ flag' = [flag EXCEPT ![On(t)] = FALSE]
      \/ /\ pc' = [pc EXCEPT ![t] = "idle"] /\ call' = [call EXCEPT ![t] = NoCall]
         /\ flag' = flag
  BY <1>1 DEF Blocked, Join, Goto, Return, On, Nothing
<1> QED
  BY <1>2, <1>3, <1>4

\* task_done() sets the event of join() with the last item, and leaves it otherwise.
LEMMA TaskDoneEInv == ASSUME EInv, TaskDone PROVE EInv'
<1> USE DEF EInv
<1>1. /\ UNCHANGED <<kind, deque, pc, call>> /\ unfinished' = unfinished - 1
      /\ unfinished' \in Nat
      /\ IF unfinished' = 0 THEN Set(flag, waiters, "finished") ELSE UNCHANGED <<flag, waiters>>
  BY DEF TaskDone, Shapes
<1>2. /\ flag' \in [Event -> BOOLEAN] /\ waiters' = [c \in Cond |-> waiters'[c]]
      /\ unfinished' = 0 => flag'["finished"] /\ waiters'["finished"] = <<>>
      /\ unfinished' # 0 => UNCHANGED <<flag, waiters>>
      /\ \A o \in Event \ {"finished"} : flag'[o] = flag[o] /\ waiters'[o] = waiters[o]
  BY <1>1, SetTells DEF Shapes, Event
<1>3. \A e \in Event : flag[e] \/ Nothing(e) => flag'[e] \/ Nothing(e)'
  <2>1. \A e \in {"not_empty", "not_full"} : Nothing(e)' = Nothing(e)
    BY <1>1 DEF Nothing, Full
  <2>2. flag'["finished"] \/ Nothing("finished")'
    <3>1. unfinished' \in Nat
      BY <1>1
    <3>2. unfinished' = 0 \/ unfinished' > 0
      BY <3>1
    <3>3. Nothing("finished")' <=> unfinished' > 0
      BY DEF Nothing
    <3> QED
      BY <1>2, <3>2, <3>3
  <2> QED
    BY <1>2, <2>1, <2>2 DEF Event
<1>4. \A e \in Event : On_Event(e)' = On_Event(e)
  BY <1>1 DEF On_Event, On, Simple
<1> QED
  <2>1. Shapes'
    BY <1>1, <1>2 DEF Shapes, Simple
  <2>2. Believed'
    BY <1>3, <1>4 DEF Believed
  <2>3. NoneAsleep'
    BY <1>2 DEF NoneAsleep, Event
  <2> QED
    BY <2>1, <2>2, <2>3

\* SimpleQueue has a semaphore instead: nobody waits on an event.
LEMMA SimpleEInv ==
  ASSUME EInv, NEW t \in Thread, SimplePut(t) \/ Release(t) \/ Acquire(t) \/ SimplePop(t)
  PROVE  EInv'
<1> USE DEF EInv
<1>1. Simple /\ Simple' /\ UNCHANGED <<flag, unfinished>>
  BY DEF SimplePut, Release, Acquire, SimplePop, Simple, Shapes
<1>2. /\ \E l \in {"release", "pop", "idle", "asleep"} : pc' = [pc EXCEPT ![t] = l]
      /\ call' = call \/ call' = [call EXCEPT ![t] = NoCall]
  BY DEF SimplePut, Release, Acquire, SimplePop, Goto, Return
<1>3. /\ waiters' = [c \in Cond |-> waiters'[c]]
      /\ \A e \in Event : waiters'[e] = waiters[e]
  BY DEF SimplePut, Release, Acquire, SimplePop, Notify, Shapes, Cond, Event
<1>4. Shapes'
  BY <1>1, <1>2, <1>3 DEF Shapes, Label, NoCall
<1>5. Believed'
  BY <1>1 DEF Believed, On_Event, On, Event
<1> QED
  BY <1>1, <1>3, <1>4, <1>5 DEF NoneAsleep

\* Every step of the program.
LEMMA StepEInv == EInv /\ [Next]_vars => EInv'
<1> SUFFICES ASSUME EInv, [Next]_vars PROVE EInv'
  OBVIOUS
<1>1. CASE UNCHANGED vars
  BY <1>1
  DEF vars, EInv, Shapes, Believed, NoneAsleep, On_Event, On, Simple, Nothing, Full
<1> QED
  BY <1>1, MovesEInv, WaitEInv, GaveUpEInv, GetEInv, PutEInv, BlockedEInv, TaskDoneEInv,
     SimpleEInv
  DEF Next, Step

\* The events are shared, one thread clears what was set for another, and wait() runs
\* without the mutex; still nobody waits for what is there on an event that is clear, and
\* nobody sleeps on one that is set.
THEOREM QueueEventsTell == Spec => []EventsTell
<1>1. EInv => EventsTell
  BY DEF EInv, Believed, NoneAsleep, On_Event, EventsTell
<1> QED
  BY InitEInv, StepEInv, <1>1, PTL DEF Spec

----------------------------------------------------------------------------
(* The items.                                                               *)

\* What is in the queue, what was taken and what is still to be put are all different.
Distinct ==
  /\ IsInjective(deque) /\ ToSet(deque) \cap took = {}
  /\ \A t \in Thread : call[t].item # NoItem =>
       /\ \A u \in Thread : call[u].item = call[t].item => u = t
       /\ pc[t] # "release" => call[t].item \notin ToSet(deque) \cup took

\* Who puts has an item; only SimpleQueue has a semaphore to acquire and release.
Placed ==
  /\ IsFiniteSet(took)
  /\ \A t \in Thread : call[t].op = "put" => call[t].item # NoItem
  /\ \A t \in Thread : pc[t] \in {"release", "pop"} => Simple

\* What join() waits for.
Counted ==
  ~Simple => /\ unfinished = Len(deque) + Cardinality(took) - done
             /\ flag["finished"] <=> unfinished = 0

CInv == TypeOK /\ Counted /\ Distinct /\ Placed

----------------------------------------------------------------------------
\* Event.set() of e leaves the other events as they were.
LEMMA SetTypes ==
  ASSUME TypeOK, NEW fl \in [Event -> BOOLEAN], NEW e \in Event, Set(fl, waiters, e)
  PROVE  /\ flag' \in [Event -> BOOLEAN] /\ flag'[e]
         /\ \A o \in Event \ {e} : flag'[o] = fl[o]
         /\ waiters' \in [Cond -> Seq(Thread)]
<1>1. waiters \in [Cond -> Seq(Thread)] /\ e \in Cond /\ <<>> \in Seq(Thread)
  BY DEF TypeOK, Cond
<1> QED
  BY <1>1 DEF Set

\* A step that leaves the items where they are, of a thread that goes on with its call or
\* leaves it.
LEMMA QuietCInv ==
  ASSUME CInv, NEW t \in Thread, NEW l \in Label,
         UNCHANGED <<kind, deque, unfinished, took, done>>,
         flag' \in [Event -> BOOLEAN], flag'["finished"] = flag["finished"],
         waiters' \in [Cond -> Seq(Thread)], value' \in Nat,
         pc' = [pc EXCEPT ![t] = l], l \in {"release", "pop"} => Simple,
         \/ call' = call /\ pc[t] # "release"
         \/ call' = [call EXCEPT ![t] = NoCall]
  PROVE  CInv'
<1> USE DEF CInv
<1>1. /\ pc' \in [Thread -> Label] /\ Simple' = Simple /\ pc'[t] = l
      /\ \A u \in Thread \ {t} : pc'[u] = pc[u] /\ call'[u] = call[u]
      /\ call'[t] \in {call[t], NoCall} /\ (pc[t] = "release" => call'[t] = NoCall)
  BY DEF TypeOK, Label, Simple
<1>2. TypeOK'
  <2>1. call' \in
          [Thread -> [op : {"get", "put", "join"}, mode : Mode, item : Item \cup {NoItem}]]
    <3>1. NoCall \in [op : {"get", "put", "join"}, mode : Mode, item : Item \cup {NoItem}]
      BY DEF NoCall, Mode
    <3> QED
      BY <3>1 DEF TypeOK
  <2> QED
    BY <1>1, <2>1 DEF TypeOK, Label
<1>3. Counted'
  BY <1>1 DEF Counted
<1>4. Placed'
  BY <1>1 DEF Placed, NoCall
<1>5. Distinct'
  <2>1. \A u \in Thread : call'[u].item # NoItem =>
          call'[u] = call[u] /\ (pc'[u] # "release" => pc[u] # "release")
    BY <1>1 DEF NoCall
  <2> QED
    BY <2>1 DEF Distinct
<1> QED
  BY <1>2, <1>3, <1>4, <1>5

\* The item of a put() is added to the queue, and those that are still to be put remain so.
LEMMA AddedDistinct ==
  ASSUME CInv, NEW t \in Thread, pc[t] = "enter", call[t].op = "put",
         deque' = Append(deque, call[t].item), took' = took,
         NEW l \in {"idle", "release"}, pc' = [pc EXCEPT ![t] = l],
         call' = IF l = "idle" THEN [call EXCEPT ![t] = NoCall] ELSE call
  PROVE  /\ call[t].item \in Item /\ call[t].item \notin ToSet(deque) \cup took
         /\ deque' \in Seq(Item) /\ Len(deque') = Len(deque) + 1
         /\ Distinct'
<1> USE DEF CInv
<1> DEFINE x == call[t].item
<1>1. x \in Item /\ x \notin ToSet(deque) \cup took /\ x # NoItem
  BY DEF TypeOK, Distinct, Placed
<1>2. /\ deque' \in Seq(Item) /\ Len(deque') = Len(deque) + 1
      /\ ToSet(deque') = ToSet(deque) \cup {x} /\ IsInjective(deque')
  BY <1>1, AppendOthers DEF TypeOK, Distinct
<1>3. \A u \in Thread : call'[u].item # NoItem =>
        call'[u] = call[u] /\ (pc'[u] # "release" => pc[u] # "release" /\ u # t)
  BY DEF TypeOK, NoCall
<1>4. \A u \in Thread \ {t} : call[u].item # x
  BY <1>1 DEF Distinct
<1>5. Distinct'
  BY <1>1, <1>2, <1>3, <1>4 DEF Distinct
<1> QED
  BY <1>1, <1>2, <1>5

\* The item that is taken is counted among those taken.
LEMMA PoppedDistinct ==
  ASSUME CInv, Pop, NEW t \in Thread,
         pc' = [pc EXCEPT ![t] = "idle"], call' = [call EXCEPT ![t] = NoCall]
  PROVE  /\ deque' \in Seq(Item) /\ Len(deque') = Len(deque) - 1 /\ Len(deque) \in Nat
         /\ took' \in SUBSET Item /\ IsFiniteSet(took')
         /\ Cardinality(took') = Cardinality(took) + 1 /\ Cardinality(took) \in Nat
         /\ Distinct'
<1> USE DEF CInv
<1>1. PICK k \in DOMAIN deque : took' = took \cup {deque[k]} /\ deque' = RemoveAt(deque, k)
  BY DEF Pop
<1>2. /\ deque \in Seq(Item) /\ deque[k] \in Item /\ deque[k] \in ToSet(deque)
      /\ deque[k] \notin took
  BY DEF TypeOK, Distinct, ToSet
<1>3. /\ deque' \in Seq(Item) /\ Len(deque') = Len(deque) - 1 /\ Len(deque) \in Nat
      /\ ToSet(deque') = ToSet(deque) \ {deque[k]} /\ IsInjective(deque')
  BY <1>1, <1>2, RemoveAtOthers DEF Distinct
<1>4. /\ IsFiniteSet(took') /\ Cardinality(took') = Cardinality(took) + 1
      /\ Cardinality(took) \in Nat
  BY <1>1, <1>2, FS_AddElement, FS_CardinalityType DEF Placed
<1>5. took' \in SUBSET Item
  BY <1>1, <1>2 DEF TypeOK
<1>6. \A u \in Thread : call'[u].item # NoItem => call'[u] = call[u] /\ pc'[u] = pc[u]
  BY DEF TypeOK, NoCall
<1>7. Distinct'
  BY <1>1, <1>2, <1>3, <1>6 DEF Distinct
<1> QED
  BY <1>3, <1>4, <1>5, <1>7

\* At first there is nothing.
LEMMA InitCInv == Init => CInv
<1> SUFFICES ASSUME Init PROVE CInv
  OBVIOUS
<1>1. TypeOK
  BY DEF Init, TypeOK, NoCall, Mode, Cond, Event
<1>2. Counted
  <2>1. /\ Len(deque) = 0 /\ Cardinality(took) = 0 /\ done = 0 /\ unfinished = 0
        /\ flag["finished"]
    BY FS_EmptySet DEF Init, Event
  <2> QED
    BY <2>1 DEF Counted
<1>3. Placed
  BY FS_EmptySet DEF Init, Placed, NoCall
<1>4. Distinct
  BY DEF Init, Distinct, NoCall, IsInjective, ToSet
<1> QED
  BY <1>1, <1>2, <1>3, <1>4 DEF CInv

\* The steps that neither add nor take an item.
LEMMA WaitingCInv ==
  ASSUME CInv, NEW t \in Thread,
         Wait(t) \/ Wake(t) \/ TimedOut(t) \/ Blocked(t) \/ Join(t)
  PROVE  CInv'
<1>1. UNCHANGED <<kind, deque, unfinished, value, took, done>>
  BY DEF Wait, Wake, TimedOut, Blocked, Join
<1>2. /\ \E l \in Label \ {"release", "pop"} : pc' = [pc EXCEPT ![t] = l]
      /\ call' = call \/ call' = [call EXCEPT ![t] = NoCall]
      /\ pc[t] # "release"
  BY DEF Wait, Wake, TimedOut, Asleep, Blocked, Join, Goto, Return, Label
<1>3. /\ On(t) \in Cond
      /\ ~Simple /\ call[t].op \in {"get", "put"} => On(t) \in Event \ {"finished"}
  BY DEF CInv, TypeOK, On, Cond, Event
<1>4. waiters' \in [Cond -> Seq(Thread)]
  <2>1. waiters \in [Cond -> Seq(Thread)] /\ Append(waiters[On(t)], t) \in Seq(Thread)
    BY <1>3, AppendOthers DEF CInv, TypeOK
  <2>2. waiters' = waiters \/ waiters' = [waiters EXCEPT ![On(t)] = Append(@, t)]
    BY DEF Wait, Wake, TimedOut, Blocked, Join
  <2> QED
    BY <2>1, <2>2
<1>5. flag' \in [Event -> BOOLEAN] /\ flag'["finished"] = flag["finished"]
  <2>1. \/ flag' = flag
        \/ On(t) \in Event \ {"finished"} /\ flag' = [flag EXCEPT ![On(t)] = FALSE]
    BY <1>3 DEF Wait, Wake, TimedOut, Blocked, Join
  <2>2. flag \in [Event -> BOOLEAN] /\ "finished" \in Event
    BY DEF CInv, TypeOK, Event
  <2>3. ASSUME NEW e \in Event \ {"finished"}, flag' = [flag EXCEPT ![e] = FALSE]
        PROVE  flag' \in [Event -> BOOLEAN] /\ flag'["finished"] = flag["finished"]
    BY <2>2, <2>3
  <2> QED
    BY <2>1, <2>2, <2>3
<1>6. value' \in Nat
  BY <1>1 DEF CInv, TypeOK
<1> QED
  BY <1>1, <1>2, <1>4, <1>5, <1>6, QuietCInv

\* The semaphore: its value and its waiters.
LEMMA SemaphoreCInv ==
  ASSUME CInv, NEW t \in Thread, GaveUp(t) \/ Release(t) \/ Acquire(t)
  PROVE  CInv'
<1>1. UNCHANGED <<kind, deque, unfinished, flag, took, done>>
  BY DEF GaveUp, Release, Acquire
<1>2. /\ \E l \in Label \ {"release"} : pc' = [pc EXCEPT ![t] = l] /\ (l = "pop" => Simple)
      /\ (call' = call /\ pc[t] # "release") \/ call' = [call EXCEPT ![t] = NoCall]
  BY DEF GaveUp, Release, Acquire, Goto, Return, Label
<1>3. On(t) \in Cond /\ "count" \in Cond /\ waiters \in [Cond -> Seq(Thread)]
  BY DEF CInv, TypeOK, On, Cond, Event
<1>4. waiters' \in [Cond -> Seq(Thread)]
  <2>1. CASE GaveUp(t)
    BY <1>3, <2>1, RemoveFirstOthers DEF GaveUp
  <2>2. CASE Release(t) \/ Acquire(t)
    <3> DEFINE w == waiters["count"]
    <3>1. /\ w \in Seq(Thread) /\ Append(w, t) \in Seq(Thread)
          /\ w # <<>> => Tail(w) \in Seq(Thread)
      BY <1>3
    <3>2. \E v \in {w, Append(w, t)} \cup (IF w = <<>> THEN {} ELSE {Tail(w)}) :
             waiters' = [waiters EXCEPT !["count"] = v]
      BY <1>3, <2>2 DEF Release, Acquire, Notify
    <3> QED
      BY <1>3, <3>1, <3>2
  <2> QED
    BY <2>1, <2>2
<1>5. value' \in Nat
  BY DEF CInv, TypeOK, GaveUp, Release, Acquire
<1>6. flag' \in [Event -> BOOLEAN] /\ flag'["finished"] = flag["finished"]
  BY <1>1 DEF CInv, TypeOK
<1> QED
  BY <1>1, <1>2, <1>4, <1>5, <1>6, QuietCInv

\* A new call takes an item that nobody has.
LEMMA CallCInv ==
  ASSUME CInv, NEW t \in Thread, Call(t)
  PROVE  CInv'
<1> USE DEF CInv
<1>1. PICK o \in {"get", "put", "join"}, m \in Mode, x \in Unused \cup {NoItem} :
        /\ o = "put" <=> x # NoItem
        /\ call' = [call EXCEPT ![t] = [op |-> o, mode |-> m, item |-> x]]
  BY DEF Call
<1>2. /\ UNCHANGED <<kind, deque, unfinished, flag, value, waiters, took, done>>
      /\ pc[t] = "idle" /\ pc' = [pc EXCEPT ![t] = "enter"]
  BY DEF Call
<1>3. x # NoItem => /\ x \in Item /\ x \notin ToSet(deque) \cup took
                    /\ \A u \in Thread : call[u].item # x
  BY DEF Unused
<1>4. TypeOK'
  BY <1>1, <1>2, <1>3 DEF TypeOK
<1>5. Counted' /\ Placed'
  BY <1>1, <1>2 DEF Counted, Placed, Simple, TypeOK
<1>6. Distinct'
  <2>1. \A u \in Thread \ {t} : call'[u] = call[u] /\ pc'[u] = pc[u]
    BY <1>1, <1>2 DEF TypeOK
  <2>2. call'[t].item = x /\ pc'[t] = "enter"
    BY <1>1, <1>2 DEF TypeOK
  <2> QED
    BY <1>2, <1>3, <2>1, <2>2 DEF Distinct
<1> QED
  BY <1>4, <1>5, <1>6

\* get(), under the mutex.
LEMMA GetCInv ==
  ASSUME CInv, NEW t \in Thread, Get(t) \/ SimplePop(t)
  PROVE  CInv' /\ Pop /\ kind' = kind
<1> USE DEF CInv
<1>1. /\ Pop /\ UNCHANGED <<kind, unfinished, value, done>>
      /\ pc' = [pc EXCEPT ![t] = "idle"] /\ call' = [call EXCEPT ![t] = NoCall]
  BY DEF Get, SimplePop, Return
<1>2. /\ flag' \in [Event -> BOOLEAN] /\ flag'["finished"] = flag["finished"]
      /\ waiters' \in [Cond -> Seq(Thread)]
  <2>1. CASE Get(t)
    BY <2>1, SetTypes DEF Get, TypeOK, Event
  <2>2. CASE SimplePop(t)
    BY <2>2 DEF SimplePop, TypeOK
  <2> QED
    BY <2>1, <2>2
<1>3. /\ deque' \in Seq(Item) /\ Len(deque') = Len(deque) - 1 /\ Len(deque) \in Nat
      /\ took' \in SUBSET Item /\ IsFiniteSet(took')
      /\ Cardinality(took') = Cardinality(took) + 1 /\ Cardinality(took) \in Nat
      /\ Distinct'
  BY <1>1, PoppedDistinct
<1>4. \A u \in Thread : call'[u] \in {call[u], NoCall} /\ pc'[u] \in {pc[u], "idle"}
  BY <1>1 DEF TypeOK
<1>5. TypeOK'
  <2>1. NoCall \in [op : {"get", "put", "join"}, mode : Mode, item : Item \cup {NoItem}]
    BY DEF NoCall, Mode
  <2> QED
    BY <1>1, <1>2, <1>3, <2>1 DEF TypeOK
<1>6. Counted'
  <2>1. Len(deque') + Cardinality(took') = Len(deque) + Cardinality(took)
    BY <1>3
  <2>2. unfinished' = unfinished /\ done' = done /\ Simple' = Simple
    BY <1>1 DEF Simple
  <2>3. ~Simple => unfinished' = Len(deque') + Cardinality(took') - done'
    <3>1. ~Simple => unfinished = Len(deque) + Cardinality(took) - done
      BY DEF Counted
    <3>2. done \in Nat
      BY DEF TypeOK
    <3> QED
      BY <1>3, <2>2, <3>1, <3>2
  <2>4. ~Simple => (flag'["finished"] <=> unfinished' = 0)
    BY <1>2, <2>2 DEF Counted
  <2> QED
    BY <2>2, <2>3, <2>4 DEF Counted
<1>7. Placed'
  BY <1>1, <1>3, <1>4 DEF Placed, Simple, NoCall
<1> QED
  BY <1>1, <1>3, <1>5, <1>6, <1>7

\* put(), which finds room.
LEMMA PutCInv ==
  ASSUME CInv, NEW t \in Thread, Put(t) \/ SimplePut(t)
  PROVE  /\ CInv' /\ UNCHANGED <<kind, took>> /\ deque' = Append(deque, call[t].item)
         /\ call[t].item \in Item /\ call[t].item \notin ToSet(deque) \cup took
         /\ Simple \/ ~Full
<1> USE DEF CInv
<1> DEFINE l == IF Simple THEN "release" ELSE "idle"
<1>1. /\ pc[t] = "enter" /\ call[t].op = "put" /\ deque' = Append(deque, call[t].item)
      /\ UNCHANGED <<kind, value, took, done>> /\ (Simple \/ ~Full)
      /\ pc' = [pc EXCEPT ![t] = l]
      /\ call' = IF l = "idle" THEN [call EXCEPT ![t] = NoCall] ELSE call
  BY DEF Put, SimplePut, Goto, Return
<1>2. /\ call[t].item \in Item /\ call[t].item \notin ToSet(deque) \cup took
      /\ deque' \in Seq(Item) /\ Len(deque') = Len(deque) + 1
      /\ Distinct'
  BY <1>1, AddedDistinct
<1>3. Len(deque) \in Nat /\ Cardinality(took) \in Nat /\ done \in Nat /\ unfinished \in Nat
  BY FS_CardinalityType DEF TypeOK, Placed
<1>4. /\ flag' \in [Event -> BOOLEAN] /\ waiters' \in [Cond -> Seq(Thread)]
      /\ ~Simple => ~flag'["finished"] /\ unfinished' = unfinished + 1
      /\ unfinished' \in Nat
  <2>1. CASE Put(t)
    <3> DEFINE fl == [flag EXCEPT !["finished"] = FALSE]
    <3>1. fl \in [Event -> BOOLEAN] /\ fl["finished"] = FALSE
      BY DEF TypeOK, Event
    <3>2. unfinished' = unfinished + 1 /\ Set(fl, waiters, "not_empty")
      BY <2>1 DEF Put
    <3> HIDE DEF fl
    <3>3. /\ flag' \in [Event -> BOOLEAN] /\ waiters' \in [Cond -> Seq(Thread)]
          /\ flag'["finished"] = fl["finished"]
      BY <3>1, <3>2, SetTypes DEF Event
    <3> QED
      BY <1>3, <3>1, <3>2, <3>3
  <2>2. CASE SimplePut(t)
    BY <2>2 DEF SimplePut, TypeOK
  <2> QED
    BY <2>1, <2>2
<1>5. TypeOK'
  <2>1. NoCall \in [op : {"get", "put", "join"}, mode : Mode, item : Item \cup {NoItem}]
    BY DEF NoCall, Mode
  <2> QED
    BY <1>1, <1>2, <1>4, <2>1 DEF TypeOK
<1>6. Counted'
  <2>1. CASE ~Simple
    <3>1. unfinished' = Len(deque') + Cardinality(took') - done' /\ unfinished' # 0
      BY <1>1, <1>2, <1>3, <1>4, <2>1 DEF Counted
    <3> QED
      BY <1>4, <2>1, <3>1 DEF Counted
  <2>2. CASE Simple
    BY <1>1, <2>2 DEF Counted, Simple
  <2> QED
    BY <2>1, <2>2
<1>7. Placed'
  <2>1. \A u \in Thread : call'[u] \in {call[u], NoCall} /\ (pc'[u] = pc[u] \/ pc'[u] = l)
    BY <1>1 DEF TypeOK
  <2> QED
    BY <1>1, <2>1 DEF Placed, Simple, NoCall
<1> QED
  BY <1>1, <1>2, <1>5, <1>6, <1>7

\* task_done() reports one item that was taken.
LEMMA TaskDoneCInv ==
  ASSUME CInv, TaskDone
  PROVE  CInv' /\ UNCHANGED <<kind, deque, took>>
<1> USE DEF CInv
<1>1. /\ ~Simple /\ unfinished > 0 /\ done' = done + 1 /\ unfinished' = unfinished - 1
      /\ UNCHANGED <<kind, deque, value, pc, call, took>>
  BY DEF TaskDone
<1>2. unfinished \in Nat /\ done \in Nat /\ unfinished' \in Nat
  BY <1>1 DEF TypeOK
<1>3. /\ flag' \in [Event -> BOOLEAN] /\ waiters' \in [Cond -> Seq(Thread)]
      /\ flag'["finished"] = IF unfinished' = 0 THEN TRUE ELSE flag["finished"]
  <2>1. CASE unfinished' = 0
    BY <2>1, SetTypes DEF TaskDone, TypeOK, Event
  <2>2. CASE unfinished' # 0
    BY <2>2 DEF TaskDone, TypeOK
  <2> QED
    BY <2>1, <2>2
<1>4. TypeOK'
  BY <1>1, <1>2, <1>3 DEF TypeOK
<1>5. Counted'
  <2>1. Len(deque) \in Nat /\ Cardinality(took) \in Nat
    BY FS_CardinalityType DEF TypeOK, Placed
  <2>2. unfinished' = Len(deque') + Cardinality(took') - done'
    BY <1>1, <1>2, <2>1 DEF Counted
  <2>3. ~flag["finished"]
    BY <1>1 DEF Counted
  <2> QED
    BY <1>3, <2>2, <2>3 DEF Counted, TypeOK
<1>6. Distinct' /\ Placed'
  BY <1>1 DEF Distinct, Placed, Simple
<1> QED
  BY <1>1, <1>4, <1>5, <1>6

\* Every step.
LEMMA StepCInv == CInv /\ [Next]_vars => CInv'
<1> SUFFICES ASSUME CInv, [Next]_vars PROVE CInv'
  OBVIOUS
<1>1. CASE UNCHANGED vars
  BY <1>1 DEF vars, CInv, TypeOK, Counted, Distinct, Placed, Simple
<1> QED
  BY <1>1, WaitingCInv, SemaphoreCInv, CallCInv, GetCInv, PutCInv, TaskDoneCInv DEF Next, Step

\* unfinished_tasks counts what is in the queue or taken and not yet reported done, and the
\* event of join() is set exactly when there is none: task_done() once for each item taken
\* never raises ValueError.
THEOREM QueueTasksCounted == Spec => []TasksCounted
<1>1. CInv => TasksCounted
  BY DEF CInv, Counted, TasksCounted
<1> QED
  BY InitCInv, StepCInv, <1>1, PTL DEF Spec

\* get() and put() are Take and Put of the abstract queue; every other step is none.
LEMMA StepAbstract == CInv /\ [Next]_vars => [Abstract!Next]_<<kind, deque, took>>
<1> SUFFICES ASSUME CInv, [Next]_vars PROVE [Abstract!Next]_<<kind, deque, took>>
  OBVIOUS
<1>1. ASSUME NEW t \in Thread, Get(t) \/ SimplePop(t)
      PROVE  Abstract!Take
  <2>1. kind' = kind
    BY <1>1, GetCInv
  <2>2. PICK k \in DOMAIN deque :
          Chosen(k) /\ took' = took \cup {deque[k]} /\ deque' = RemoveAt(deque, k)
    BY <1>1, GetCInv DEF Pop
  <2>3. Abstract!Chosen(k)
    BY <2>2 DEF Chosen, Abstract!Chosen
  <2> QED
    BY <2>1, <2>2, <2>3 DEF Abstract!Take, Abstract!RemoveAt, RemoveAt
<1>2. ASSUME NEW t \in Thread, Put(t) \/ SimplePut(t)
      PROVE  \E x \in Item : Abstract!Put(x)
  <2>1. /\ UNCHANGED <<kind, took>> /\ deque' = Append(deque, call[t].item)
        /\ call[t].item \in Item /\ call[t].item \notin ToSet(deque) \cup took
        /\ Simple \/ ~Full
    BY <1>2, PutCInv
  <2>2. kind # "simple" /\ Maxsize > 0 => Len(deque) < Maxsize
    <3>1. Len(deque) \in Nat /\ Maxsize \in Nat
      BY QueueAssumption DEF CInv, TypeOK
    <3> QED
      BY <2>1, <3>1 DEF Simple, Full
  <2> QED
    BY <2>1, <2>2 DEF Abstract!Put, Abstract!ToSet, ToSet
<1>3. ASSUME NEW t \in Thread, Call(t) \/ Wait(t) \/ Wake(t) \/ GaveUp(t) \/ TimedOut(t)
                               \/ Blocked(t) \/ Join(t) \/ Release(t) \/ Acquire(t)
      PROVE  UNCHANGED <<kind, deque, took>>
  BY <1>3 DEF Call, Wait, Wake, GaveUp, TimedOut, Blocked, Join, Release, Acquire
<1>4. CASE UNCHANGED vars
  BY <1>4 DEF vars
<1> QED
  BY <1>1, <1>2, <1>3, <1>4, TaskDoneCInv DEF Next, Step, Abstract!Next

\* With all its locks, events and waiters a queue is the abstract one: no item is lost,
\* repeated or taken out of its order, and the bound is kept.
THEOREM QueueImplements == Spec => QueueSpec
<1>1. Init => Abstract!Init
  BY DEF Init, Abstract!Init
<1> QED
  BY <1>1, InitCInv, StepCInv, StepAbstract, PTL DEF Spec, QueueSpec, Abstract!Spec

----------------------------------------------------------------------------
(* The semaphore of SimpleQueue.                                            *)

\* The threads that have put an item and not yet released the semaphore for it, or have
\* acquired it and not yet taken one.
Holders == {t \in Thread : pc[t] \in {"pop", "release"}}

\* The waiters of the semaphore are in get(), asleep or giving up, none of them twice.
Waits ==
  /\ IsInjective(waiters["count"])
  /\ \A t \in ToSet(waiters["count"]) : pc[t] \in {"asleep", "gaveup"}
  /\ \A t \in Thread : pc[t] # "wait" /\ (pc[t] \in {"asleep", "gaveup"} => call[t].op = "get")

\* Every item has its unit: in the semaphore or with a thread.
Units == IsFiniteSet(Holders) /\ value + Cardinality(Holders) = Len(deque)

\* While anybody sleeps, every unit in the semaphore has a thread coming for it.
Coming ==
  IsFiniteSet(OnTheWay) /\ (waiters["count"] # <<>> => value <= Cardinality(OnTheWay))

SInv == CInv /\ (Simple => Waits /\ Units /\ Coming)

\* A set that one element joins or leaves.
LEMMA OneMoves ==
  ASSUME NEW A, NEW B, IsFiniteSet(A), NEW x, A \ {x} = B \ {x}
  PROVE  /\ IsFiniteSet(B) /\ Cardinality(A) \in Nat /\ Cardinality(B) \in Nat
         /\ x \in A /\ x \notin B => Cardinality(A) = Cardinality(B) + 1
         /\ x \in B /\ x \notin A => Cardinality(B) = Cardinality(A) + 1
         /\ (x \in A <=> x \in B) => B = A
         /\ Cardinality(A) <= Cardinality(B) + 1
         /\ (x \in A => x \in B) => Cardinality(A) <= Cardinality(B)
<1>1. CASE x \in A /\ x \notin B
  <2>1. B = A \ {x} /\ Cardinality(A) \in Nat
    BY <1>1, FS_CardinalityType
  <2>2. IsFiniteSet(B) /\ Cardinality(B) = Cardinality(A) - 1
    BY <1>1, <2>1, FS_RemoveElement
  <2>3. Cardinality(B) \in Nat
    BY <2>2, FS_CardinalityType
  <2> QED
    BY <1>1, <2>1, <2>2, <2>3
<1>2. CASE x \in B /\ x \notin A
  <2>1. B = A \cup {x} /\ Cardinality(A) \in Nat
    BY <1>2, FS_CardinalityType
  <2>2. IsFiniteSet(B) /\ Cardinality(B) = Cardinality(A) + 1
    BY <1>2, <2>1, FS_AddElement
  <2> QED
    BY <1>2, <2>1, <2>2
<1>3. CASE x \in A <=> x \in B
  <2>1. B = A
    BY <1>3
  <2> QED
    BY <1>3, <2>1, FS_CardinalityType
<1> QED
  BY <1>1, <1>2, <1>3

\* A thread that goes from one place in the code to another.
LEMMA HoldersMove ==
  ASSUME TypeOK, IsFiniteSet(Holders), NEW t \in Thread, NEW l \in Label,
         pc' = [pc EXCEPT ![t] = l]
  PROVE  /\ IsFiniteSet(Holders') /\ Cardinality(Holders) \in Nat /\ Cardinality(Holders') \in Nat
         /\ pc[t] \in {"pop", "release"} /\ l \notin {"pop", "release"}
              => Cardinality(Holders) = Cardinality(Holders') + 1
         /\ pc[t] \notin {"pop", "release"} /\ l \in {"pop", "release"}
              => Cardinality(Holders') = Cardinality(Holders) + 1
         /\ (pc[t] \in {"pop", "release"} <=> l \in {"pop", "release"})
              => Cardinality(Holders') = Cardinality(Holders)
<1>1. pc' \in [Thread -> Label] /\ pc'[t] = l /\ \A u \in Thread \ {t} : pc'[u] = pc[u]
  BY DEF TypeOK, Label
<1>2. Holders \ {t} = Holders' \ {t}
  BY <1>1 DEF Holders
<1>3. /\ t \in Holders <=> pc[t] \in {"pop", "release"}
      /\ t \in Holders' <=> l \in {"pop", "release"}
  BY <1>1 DEF Holders
<1> QED
  BY <1>2, <1>3, OneMoves

\* At first nobody waits.
LEMMA InitSInv == Init => SInv
<1> SUFFICES ASSUME Init PROVE SInv
  OBVIOUS
<1>1. waiters["count"] = <<>> /\ value = 0 /\ Len(deque) = 0 /\ \A t \in Thread : pc[t] = "idle"
  BY DEF Init, Cond
<1>2. Holders = {} /\ OnTheWay = {}
  BY <1>1 DEF Holders, OnTheWay
<1>3. Waits
  BY <1>1 DEF Waits, IsInjective, ToSet
<1>4. Units /\ Coming
  BY <1>1, <1>2, FS_EmptySet DEF Units, Coming
<1> QED
  BY <1>3, <1>4, InitCInv DEF SInv

\* A call begins, a thread that was notified wakes, or one that was not has its time up.
LEMMA MovesSInv ==
  ASSUME SInv, Simple, NEW t \in Thread, Call(t) \/ Wake(t) \/ TimedOut(t)
  PROVE  (Waits /\ Units /\ Coming)'
<1>1. UNCHANGED <<deque, value, waiters>>
  BY DEF Call, Wake, TimedOut
<1>2. On(t) = "count" /\ TypeOK /\ Waits /\ Units /\ Coming
  BY DEF SInv, CInv, On
<1>3. PICK l \in {"enter", "gaveup"} :
        /\ pc' = [pc EXCEPT ![t] = l]
        /\ pc[t] \in {"idle", "asleep"}
        /\ pc[t] = "asleep" => call' = call /\ (t \in ToSet(waiters["count"]) <=> l = "gaveup")
        /\ pc[t] = "idle" => l = "enter"
  BY <1>2 DEF Call, Wake, TimedOut, Asleep, Goto
<1>4. /\ pc'[t] = l /\ \A u \in Thread \ {t} : pc'[u] = pc[u] /\ call'[u] = call[u]
  BY <1>2, <1>3 DEF TypeOK, Call, Wake, TimedOut, Goto
<1>5. Waits'
  BY <1>1, <1>2, <1>3, <1>4 DEF Waits
<1>6. Units'
  BY <1>1, <1>2, <1>3, HoldersMove DEF Units, Label
<1>7. Coming'
  <2>1. OnTheWay \ {t} = OnTheWay' \ {t} /\ (t \in OnTheWay => t \in OnTheWay')
    BY <1>1, <1>2, <1>3, <1>4 DEF OnTheWay, Waits
  <2>2. /\ IsFiniteSet(OnTheWay') /\ Cardinality(OnTheWay) <= Cardinality(OnTheWay')
        /\ Cardinality(OnTheWay) \in Nat /\ Cardinality(OnTheWay') \in Nat /\ value \in Nat
    <3>1. IsFiniteSet(OnTheWay) /\ value \in Nat
      BY <1>2 DEF Coming, TypeOK
    <3> QED
      BY <2>1, <3>1, OneMoves
  <2> QED
    BY <1>1, <1>2, <2>2 DEF Coming
<1> QED
  BY <1>5, <1>6, <1>7

\* Who gave up takes itself out of the waiters, and a unit with it if there is one.
LEMMA GaveUpSInv ==
  ASSUME SInv, Simple, NEW t \in Thread, GaveUp(t)
  PROVE  (Waits /\ Units /\ Coming)'
<1> DEFINE w == waiters["count"]
<1>1. On(t) = "count" /\ TypeOK /\ Waits /\ Units /\ Coming /\ value \in Nat
  BY DEF SInv, CInv, On, TypeOK
<1>2. /\ pc[t] = "gaveup" /\ deque' = deque
      /\ waiters' = [waiters EXCEPT !["count"] = RemoveFirst(@, t)]
      /\ \/ value > 0 /\ value' = value - 1 /\ pc' = [pc EXCEPT ![t] = "pop"] /\ call' = call
         \/ /\ value = 0 /\ value' = 0
            /\ pc' = [pc EXCEPT ![t] = "idle"] /\ call' = [call EXCEPT ![t] = NoCall]
  BY <1>1 DEF GaveUp, Goto, Return
<1>3. w \in Seq(Thread) /\ IsInjective(w) /\ w' = RemoveFirst(w, t)
  BY <1>1, <1>2 DEF TypeOK, Cond, Waits
<1>4. ToSet(w') = ToSet(w) \ {t} /\ IsInjective(w') /\ w' \in Seq(Thread)
  BY <1>3, RemoveFirstOthers
<1>5. /\ pc'[t] \in {"pop", "idle"}
      /\ \A u \in Thread \ {t} : pc'[u] = pc[u] /\ call'[u] = call[u]
  BY <1>1, <1>2 DEF TypeOK
<1>6. Waits'
  <2>1. ToSet(w) \subseteq Thread
    BY <1>3 DEF ToSet
  <2> QED
    BY <1>1, <1>4, <1>5, <2>1 DEF Waits
<1>7. Units'
  <2>1. CASE value > 0
    BY <1>1, <1>2, <2>1, HoldersMove DEF Units, Label
  <2>2. CASE value = 0
    BY <1>1, <1>2, <2>2, HoldersMove DEF Units, Label
  <2> QED
    BY <1>1, <2>1, <2>2
<1>8. Coming'
  <2>1. OnTheWay \ {t} = OnTheWay' \ {t} /\ t \notin OnTheWay'
    BY <1>2, <1>4, <1>5 DEF OnTheWay
  <2>2. /\ IsFiniteSet(OnTheWay') /\ Cardinality(OnTheWay) <= Cardinality(OnTheWay') + 1
        /\ Cardinality(OnTheWay) \in Nat /\ Cardinality(OnTheWay') \in Nat
    <3>1. IsFiniteSet(OnTheWay)
      BY <1>1 DEF Coming
    <3> QED
      BY <2>1, <3>1, OneMoves
  <2>3. w = <<>> => w' = <<>>
    <3>1. w = <<>> => ~ \E i \in 1..Len(w) : w[i] = t
      OBVIOUS
    <3> QED
      BY <1>3, <3>1 DEF RemoveFirst
  <2>4. w' # <<>> => value' <= Cardinality(OnTheWay')
    BY <1>1, <1>2, <2>2, <2>3 DEF Coming
  <2> QED
    BY <2>2, <2>4 DEF Coming
<1> QED
  BY <1>6, <1>7, <1>8

\* release() gives its unit back, and wakes a waiter that is on its way for it.
LEMMA ReleaseSInv ==
  ASSUME SInv, Simple, NEW t \in Thread, Release(t)
  PROVE  (Waits /\ Units /\ Coming)'
<1> DEFINE w == waiters["count"]
<1>1. TypeOK /\ Waits /\ Units /\ Coming /\ value \in Nat
  BY DEF SInv, CInv, TypeOK
<1>2. /\ pc[t] = "release" /\ deque' = deque /\ value' = value + 1
      /\ waiters' = [waiters EXCEPT !["count"] = IF @ = <<>> THEN @ ELSE Tail(@)]
      /\ pc' = [pc EXCEPT ![t] = "idle"] /\ call' = [call EXCEPT ![t] = NoCall]
  BY DEF Release, Notify, Return
<1>3. w \in Seq(Thread) /\ IsInjective(w) /\ w' = IF w = <<>> THEN w ELSE Tail(w)
  BY <1>1, <1>2 DEF TypeOK, Cond, Waits
<1>4. /\ pc'[t] = "idle" /\ \A u \in Thread \ {t} : pc'[u] = pc[u] /\ call'[u] = call[u]
  BY <1>1, <1>2 DEF TypeOK
<1>5. ToSet(w) \subseteq Thread \ {t}
  BY <1>1, <1>2, <1>3 DEF Waits, ToSet
<1>6. /\ IsInjective(w') /\ w' \in Seq(Thread) /\ ToSet(w') \subseteq ToSet(w)
      /\ w # <<>> => Head(w) \in ToSet(w) /\ ToSet(w') = ToSet(w) \ {Head(w)}
  BY <1>3, TailOthers
<1>7. Waits'
  BY <1>1, <1>4, <1>5, <1>6 DEF Waits
<1>8. Units'
  <2>1. IsFiniteSet(Holders') /\ Cardinality(Holders) = Cardinality(Holders') + 1
        /\ Cardinality(Holders') \in Nat
    BY <1>1, <1>2, HoldersMove DEF Units, Label
  <2> QED
    BY <1>1, <1>2, <2>1 DEF Units
<1>9. Coming'
  <2>1. CASE w = <<>>
    <3>1. OnTheWay \ {t} = OnTheWay' \ {t} /\ w' = <<>>
      BY <1>2, <1>3, <1>4, <2>1 DEF OnTheWay
    <3> QED
      BY <1>1, <3>1, OneMoves DEF Coming
  <2>2. CASE w # <<>>
    <3> DEFINE h == Head(w)
    <3>1. /\ h \in Thread \ {t} /\ pc[h] \in {"asleep", "gaveup"}
          /\ h \in ToSet(w) /\ h \notin ToSet(w')
      BY <1>1, <1>5, <1>6, <2>2 DEF Waits
    <3>2. OnTheWay \ {h} = OnTheWay' \ {h} /\ h \notin OnTheWay /\ h \in OnTheWay'
      BY <1>2, <1>4, <1>6, <2>2, <3>1 DEF OnTheWay
    <3>3. /\ IsFiniteSet(OnTheWay') /\ Cardinality(OnTheWay') = Cardinality(OnTheWay) + 1
          /\ Cardinality(OnTheWay) \in Nat
      BY <1>1, <3>2, OneMoves DEF Coming
    <3>4. value' <= Cardinality(OnTheWay')
      BY <1>1, <1>2, <2>2, <3>3 DEF Coming
    <3> QED
      BY <3>3, <3>4 DEF Coming
  <2> QED
    BY <2>1, <2>2
<1> QED
  BY <1>7, <1>8, <1>9

\* acquire() takes a unit, or waits, or gives up at once.
LEMMA AcquireSInv ==
  ASSUME SInv, Simple, NEW t \in Thread, Acquire(t)
  PROVE  (Waits /\ Units /\ Coming)'
<1> DEFINE w == waiters["count"]
<1>1. TypeOK /\ Waits /\ Units /\ Coming /\ value \in Nat /\ w \in Seq(Thread) /\ IsInjective(w)
  BY DEF SInv, CInv, TypeOK, Cond, Waits
<1>2. /\ pc[t] = "enter" /\ call[t].op = "get" /\ deque' = deque
      /\ t \notin ToSet(w) /\ t \in OnTheWay
  BY <1>1 DEF Acquire, Waits, OnTheWay
<1>3. CASE value > 0 /\ value' = value - 1 /\ Goto(t, "pop") /\ waiters' = waiters
  <2>1. /\ pc' = [pc EXCEPT ![t] = "pop"] /\ call' = call /\ w' = w
        /\ pc'[t] = "pop" /\ \A u \in Thread \ {t} : pc'[u] = pc[u]
    BY <1>1, <1>3 DEF Goto, TypeOK
  <2>2. Waits'
    BY <1>1, <1>2, <2>1 DEF Waits
  <2>3. Units'
    <3>1. IsFiniteSet(Holders') /\ Cardinality(Holders') = Cardinality(Holders) + 1
          /\ Cardinality(Holders) \in Nat
      BY <1>1, <1>2, <2>1, HoldersMove DEF Units, Label
    <3> QED
      BY <1>1, <1>2, <1>3, <3>1 DEF Units
  <2>4. OnTheWay \ {t} = OnTheWay' \ {t} /\ t \notin OnTheWay'
    BY <2>1 DEF OnTheWay
  <2>5. /\ IsFiniteSet(OnTheWay') /\ Cardinality(OnTheWay) = Cardinality(OnTheWay') + 1
        /\ Cardinality(OnTheWay') \in Nat
    BY <1>1, <1>2, <2>4, OneMoves DEF Coming
  <2>6. w' # <<>> => value' <= Cardinality(OnTheWay')
    BY <1>1, <1>3, <2>1, <2>5 DEF Coming
  <2> QED
    BY <2>2, <2>3, <2>5, <2>6 DEF Coming
<1>4. CASE /\ value = 0 /\ value' = value
           /\ \/ waiters' = [waiters EXCEPT !["count"] = Append(@, t)] /\ Goto(t, "asleep")
              \/ waiters' = waiters /\ Return(t)
  <2>1. PICK l \in {"asleep", "idle"} :
          /\ pc' = [pc EXCEPT ![t] = l] /\ (l = "asleep" => call' = call)
          /\ w' = IF l = "asleep" THEN Append(w, t) ELSE w
    BY <1>4 DEF Goto, Return, TypeOK, SInv, CInv, Cond
  <2>2. /\ pc'[t] = l /\ \A u \in Thread \ {t} : pc'[u] = pc[u] /\ call'[u] = call[u]
    BY <1>1, <1>4, <2>1 DEF Goto, Return, TypeOK
  <2>3. /\ IsInjective(w') /\ ToSet(w') = IF l = "asleep" THEN ToSet(w) \cup {t} ELSE ToSet(w)
        /\ ToSet(w) \subseteq Thread \ {t}
    <3>1. ToSet(w) \subseteq Thread
      BY <1>1 DEF ToSet
    <3>2. CASE l = "idle"
      BY <1>1, <1>2, <2>1, <3>1, <3>2
    <3>3. CASE l = "asleep"
      <4>1. w' = Append(w, t)
        BY <2>1, <3>3
      <4>2. IsInjective(Append(w, t)) /\ ToSet(Append(w, t)) = ToSet(w) \cup {t}
        BY <1>1, <1>2, AppendOthers
      <4> QED
        BY <1>2, <3>1, <3>3, <4>1, <4>2
    <3> QED
      BY <3>2, <3>3
  <2>4. Waits'
    BY <1>1, <1>2, <2>1, <2>2, <2>3 DEF Waits
  <2>5. Units'
    BY <1>1, <1>2, <1>4, <2>1, HoldersMove DEF Units, Label
  <2>6. OnTheWay \ {t} = OnTheWay' \ {t}
    BY <2>2, <2>3 DEF OnTheWay
  <2>7. IsFiniteSet(OnTheWay') /\ Cardinality(OnTheWay') \in Nat
    BY <1>1, <2>6, OneMoves DEF Coming
  <2> QED
    BY <1>4, <2>4, <2>5, <2>7 DEF Coming
<1> QED
  BY <1>1, <1>3, <1>4 DEF Acquire

\* put() appends its item before it releases the semaphore for it.
LEMMA SimplePutSInv ==
  ASSUME SInv, Simple, NEW t \in Thread, SimplePut(t)
  PROVE  (Waits /\ Units /\ Coming)'
<1>1. TypeOK /\ Waits /\ Units /\ Coming /\ value \in Nat
  BY DEF SInv, CInv, TypeOK
<1>2. /\ pc[t] = "enter" /\ call[t].op = "put" /\ UNCHANGED <<value, waiters, call>>
      /\ pc' = [pc EXCEPT ![t] = "release"]
  BY DEF SimplePut, Goto
<1>3. Len(deque') = Len(deque) + 1 /\ Len(deque) \in Nat
  <2>1. deque' = Append(deque, call[t].item) /\ call[t].item \in Item /\ deque \in Seq(Item)
    BY PutCInv DEF SInv, CInv, TypeOK
  <2> QED
    BY <2>1, AppendOthers
<1>4. pc'[t] = "release" /\ \A u \in Thread \ {t} : pc'[u] = pc[u]
  BY <1>1, <1>2 DEF TypeOK
<1>5. Waits'
  BY <1>1, <1>2, <1>4 DEF Waits
<1>6. Units'
  <2>1. IsFiniteSet(Holders') /\ Cardinality(Holders') = Cardinality(Holders) + 1
        /\ Cardinality(Holders) \in Nat /\ Cardinality(Holders') \in Nat
    BY <1>1, <1>2, HoldersMove DEF Units, Label
  <2>2. value + Cardinality(Holders) = Len(deque) /\ value' = value
    BY <1>1, <1>2 DEF Units
  <2>3. value' + Cardinality(Holders') = Len(deque')
    BY <1>1, <1>3, <2>1, <2>2
  <2> QED
    BY <2>1, <2>3 DEF Units
<1>7. OnTheWay' = OnTheWay
  BY <1>2, <1>4 DEF OnTheWay
<1> QED
  BY <1>1, <1>2, <1>5, <1>6, <1>7 DEF Coming

\* Who acquired the semaphore takes its item.
LEMMA SimplePopSInv ==
  ASSUME SInv, Simple, NEW t \in Thread, SimplePop(t)
  PROVE  (Waits /\ Units /\ Coming)'
<1>1. TypeOK /\ Waits /\ Units /\ Coming /\ value \in Nat
  BY DEF SInv, CInv, TypeOK
<1>2. /\ pc[t] = "pop" /\ UNCHANGED <<value, waiters>> /\ Pop
      /\ pc' = [pc EXCEPT ![t] = "idle"] /\ call' = [call EXCEPT ![t] = NoCall]
  BY DEF SimplePop, Return
<1>3. Len(deque') = Len(deque) - 1 /\ Len(deque) \in Nat
  BY <1>2, PoppedDistinct DEF SInv
<1>4. pc'[t] = "idle" /\ \A u \in Thread \ {t} : pc'[u] = pc[u] /\ call'[u] = call[u]
  BY <1>1, <1>2 DEF TypeOK
<1>5. Waits'
  <2>1. t \notin ToSet(waiters["count"])
    BY <1>1, <1>2 DEF Waits
  <2>2. ToSet(waiters["count"]) \subseteq Thread
    BY <1>1 DEF TypeOK, ToSet, Cond
  <2> QED
    BY <1>1, <1>2, <1>4, <2>1, <2>2 DEF Waits
<1>6. Units'
  <2>1. IsFiniteSet(Holders') /\ Cardinality(Holders) = Cardinality(Holders') + 1
        /\ Cardinality(Holders) \in Nat /\ Cardinality(Holders') \in Nat
    BY <1>1, <1>2, HoldersMove DEF Units, Label
  <2> QED
    BY <1>1, <1>2, <1>3, <2>1 DEF Units
<1>7. OnTheWay' = OnTheWay
  BY <1>2, <1>4 DEF OnTheWay
<1> QED
  BY <1>1, <1>2, <1>5, <1>6, <1>7 DEF Coming

\* Every step; those of the other queues do not happen to a SimpleQueue.
LEMMA StepSInv == SInv /\ [Next]_vars => SInv'
<1> SUFFICES ASSUME SInv, [Next]_vars PROVE SInv'
  OBVIOUS
<1>1. CInv'
  BY StepCInv DEF SInv
<1>2. Simple' = Simple
  BY DEF Next, Step, Call, Wait, Wake, GaveUp, TimedOut, Get, Put, Blocked, Join,
         SimplePut, Release, Acquire, SimplePop, TaskDone, vars, Simple
<1>3. ASSUME Simple PROVE (Waits /\ Units /\ Coming)'
  <2>1. Waits /\ Units /\ Coming
    BY <1>3 DEF SInv
  <2>2. CASE UNCHANGED vars
    BY <2>1, <2>2 DEF vars, Waits, Units, Coming, Holders, OnTheWay
  <2>3. ASSUME NEW t \in Thread
        PROVE  ~Wait(t) /\ ~Get(t) /\ ~Put(t) /\ ~Blocked(t) /\ ~Join(t)
    BY <1>3, <2>1 DEF Wait, Get, Put, Blocked, Join, Waits
  <2>4. ~TaskDone
    BY <1>3 DEF TaskDone
  <2> QED
    BY <1>3, <2>2, <2>3, <2>4, MovesSInv, GaveUpSInv, ReleaseSInv, AcquireSInv,
       SimplePutSInv, SimplePopSInv
    DEF Next, Step
<1> QED
  BY <1>1, <1>2, <1>3 DEF SInv

\* A thread of SimpleQueue.get() that has acquired the semaphore finds an item to pop, and
\* while anybody waits, each unit of the semaphore has a thread that comes for it.
THEOREM QueueSemaphoreTells == Spec => []SemaphoreTells
<1>1. ASSUME SInv, Simple PROVE value + Cardinality(InPop) <= Len(deque)
  <2>1. /\ Units /\ value \in Nat /\ InPop \in SUBSET Holders
    BY <1>1 DEF SInv, CInv, TypeOK, InPop, Holders
  <2>2. /\ Cardinality(InPop) <= Cardinality(Holders)
        /\ Cardinality(InPop) \in Nat /\ Cardinality(Holders) \in Nat
    BY <2>1, FS_Subset, FS_CardinalityType DEF Units
  <2> QED
    BY <2>1, <2>2 DEF Units
<1>2. SInv => SemaphoreTells
  BY <1>1 DEF SInv, Coming, SemaphoreTells
<1> QED
  BY InitSInv, StepSInv, <1>2, PTL DEF Spec
=============================================================================
