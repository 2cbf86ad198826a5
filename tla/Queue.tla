------------------------------- MODULE Queue -------------------------------
(***************************************************************************)
(* Queue, LifoQueue, PriorityQueue and SimpleQueue of queue.py, with the   *)
(* Event, Semaphore and Condition of threading.py that they wait on, used  *)
(* by any number of threads.  A step is what a thread does while it holds  *)
(* one lock: the body of a method under Queue._mutex or Semaphore._cond,   *)
(* the check-and-wait of Event.wait() under Event._cond.  Between two of   *)
(* them every other thread may run, and a timed waiter may give up.        *)
(***************************************************************************)
EXTENDS Integers, FiniteSets, SequencesExt

CONSTANTS
  Thread,    \* the threads that use the queue
  Calls,     \* set of <<t, o>>: thread t calls method o, "get", "put" or "join"
  Item,      \* bound: what is put, once each; in a PriorityQueue the priorities
  Maxsize    \* maxsize; 0 for an unbounded queue

ASSUME QueueAssumption ==
  /\ Calls \subseteq Thread \X {"get", "put", "join"}
  /\ Item \subseteq Nat \ {0} /\ Maxsize \in Nat

Event == {"not_empty", "not_full", "finished"}
Cond == Event \cup {"count"}       \* the conditions; "count" is the semaphore's
Mode == {"block", "timed", "nowait"}

VARIABLES
  kind,        \* the class of the queue, one for each behaviour
  deque,       \* _deque
  unfinished,  \* _unfinished_tasks
  flag,        \* Event._flag
  value,       \* Semaphore._value
  waiters,     \* Condition._waiters
  pc,          \* per thread: where in the code it is
  call,        \* per thread: the method, its block and timeout, its item
  took,        \* history: the items taken
  done         \* history: calls of task_done()

vars == <<kind, deque, unfinished, flag, value, waiters, pc, call, took, done>>

NoItem == 0
NoCall == [op |-> "get", mode |-> "block", item |-> NoItem]
Simple == kind = "simple"

Init ==
  /\ kind \in {"fifo", "lifo", "priority", "simple"}
  /\ deque = <<>> /\ unfinished = 0
  /\ flag = [e \in Event |-> e = "finished"] /\ value = 0
  /\ waiters = [c \in Cond |-> <<>>]
  /\ pc = [t \in Thread |-> "idle"]
  /\ call = [t \in Thread |-> NoCall]
  /\ took = {} /\ done = 0

Goto(t, l) == pc' = [pc EXCEPT ![t] = l] /\ UNCHANGED call
Return(t) == pc' = [pc EXCEPT ![t] = "idle"] /\ call' = [call EXCEPT ![t] = NoCall]

----------------------------------------------------------------------------
(* Condition and Event                                                     *)

\* What the method waits on.
On(t) ==
  CASE Simple -> "count"
    [] ~Simple /\ call[t].op = "get" -> "not_empty"
    [] ~Simple /\ call[t].op = "put" -> "not_full"
    [] ~Simple /\ call[t].op = "join" -> "finished"

\* Event.set(): the flag, and notify_all().
Set_One(fl, ws, e) ==
  /\ flag' = [fl EXCEPT ![e] = TRUE]
  /\ waiters' = [ws EXCEPT ![e] = IF @ = <<>> THEN @ ELSE Tail(@)]
Set(fl, ws, e) ==
  /\ flag' = [fl EXCEPT ![e] = TRUE]
  /\ waiters' = [ws EXCEPT ![e] = <<>>]

\* Condition.notify(), of one waiter.
Notify_None(c) == waiters' = waiters
Notify(c) == waiters' = [waiters EXCEPT ![c] = IF @ = <<>> THEN @ ELSE Tail(@)]

\* Event.wait(), from the call to the wait for the waiter lock: with the flag set
\* it returns at once.
Wait(t) ==
  /\ pc[t] = "wait"
  /\ IF flag[On(t)]
     THEN Goto(t, "enter") /\ UNCHANGED waiters
     ELSE Goto(t, "asleep") /\ waiters' = [waiters EXCEPT ![On(t)] = Append(@, t)]
  /\ UNCHANGED <<kind, deque, unfinished, flag, value, took, done>>

\* A notified waiter takes its lock and goes for the one it released.
Asleep(t) == pc[t] = "asleep" /\ t \in ToSet(waiters[On(t)])
Wake(t) ==
  /\ pc[t] = "asleep" /\ ~Asleep(t)
  /\ Goto(t, "enter")
  /\ UNCHANGED <<kind, deque, unfinished, flag, value, waiters, took, done>>

\* The timeout of waiter.acquire() has passed.  The thread has yet to take the
\* lock of the condition again, and may be notified before.
TimedOut(t) ==
  /\ Asleep(t) /\ call[t].mode = "timed"
  /\ Goto(t, "gaveup")
  /\ UNCHANGED <<kind, deque, unfinished, flag, value, waiters, took, done>>

\* Having given up, it takes itself out of _waiters.  Event.wait() returns False
\* and get() and put() raise; Semaphore.acquire() looks at the value once more.
GaveUp(t) ==
  /\ pc[t] = "gaveup"
  /\ waiters' = [waiters EXCEPT ![On(t)] = RemoveFirst(@, t)]
  /\ IF Simple /\ value > 0
     THEN value' = value - 1 /\ Goto(t, "pop")
     ELSE Return(t) /\ UNCHANGED value
  /\ UNCHANGED <<kind, deque, unfinished, flag, took, done>>

----------------------------------------------------------------------------
(* Queue, LifoQueue, PriorityQueue.  Each action is the code from where it *)
(* takes _mutex to where it releases it.                                   *)

Full == Maxsize > 0 /\ Len(deque) >= Maxsize

\* _get() of the class; heapq keeps the least item first.
Chosen(k) ==
  CASE kind \in {"fifo", "simple"} -> k = 1
    [] kind = "lifo" -> k = Len(deque)
    [] kind = "priority" -> \A j \in DOMAIN deque : deque[k] <= deque[j]

Pop_Head == deque # <<>> /\ took' = took \cup {Head(deque)} /\ deque' = Tail(deque)
Pop ==
  \E k \in DOMAIN deque :
    Chosen(k) /\ took' = took \cup {deque[k]} /\ deque' = RemoveAt(deque, k)

Get(t) ==
  /\ ~Simple /\ pc[t] = "enter" /\ call[t].op = "get" /\ deque # <<>>
  /\ Pop
  /\ Set(flag, waiters, "not_full")
  /\ Return(t)
  /\ UNCHANGED <<kind, unfinished, value, done>>

Put_Unfinished(t) ==
  /\ ~Simple /\ pc[t] = "enter" /\ call[t].op = "put" /\ ~Full
  /\ deque' = Append(deque, call[t].item)
  /\ unfinished' = unfinished + 1
  /\ Set(flag, waiters, "not_empty")
  /\ Return(t)
  /\ UNCHANGED <<kind, value, took, done>>
Put(t) ==
  /\ ~Simple /\ pc[t] = "enter" /\ call[t].op = "put" /\ ~Full
  /\ deque' = Append(deque, call[t].item)
  /\ unfinished' = unfinished + 1
  /\ Set([flag EXCEPT !["finished"] = FALSE], waiters, "not_empty")
  /\ Return(t)
  /\ UNCHANGED <<kind, value, took, done>>

\* Nothing to take or no room: raise at once, or clear the event and go to wait
\* for it; a timed call may find that its time is up.
Blocked(t) ==
  /\ ~Simple /\ pc[t] = "enter"
  /\ (call[t].op = "get" /\ deque = <<>>) \/ (call[t].op = "put" /\ Full)
  /\ \/ /\ call[t].mode # "nowait"
        /\ flag' = [flag EXCEPT ![On(t)] = FALSE]
        /\ Goto(t, "wait")
     \/ /\ call[t].mode # "block"
        /\ Return(t)
        /\ UNCHANGED flag
  /\ UNCHANGED <<kind, deque, unfinished, value, waiters, took, done>>

Join(t) ==
  /\ ~Simple /\ pc[t] = "enter" /\ call[t].op = "join"
  /\ IF unfinished > 0 THEN Goto(t, "wait") ELSE Return(t)
  /\ UNCHANGED <<kind, deque, unfinished, flag, value, waiters, took, done>>

\* task_done(), by a thread of the program, once for an item taken.
TaskDone_Late ==
  /\ ~Simple /\ done < Cardinality(took) /\ unfinished > 0
  /\ done' = done + 1
  /\ unfinished' = unfinished - 1
  /\ IF unfinished = 0 THEN Set(flag, waiters, "finished") ELSE UNCHANGED <<flag, waiters>>
  /\ UNCHANGED <<kind, deque, value, pc, call, took>>
TaskDone ==
  /\ ~Simple /\ done < Cardinality(took) /\ unfinished > 0
  /\ done' = done + 1
  /\ unfinished' = unfinished - 1
  /\ IF unfinished' = 0 THEN Set(flag, waiters, "finished") ELSE UNCHANGED <<flag, waiters>>
  /\ UNCHANGED <<kind, deque, value, pc, call, took>>

----------------------------------------------------------------------------
(* SimpleQueue on Semaphore                                                *)

SimplePut(t) ==
  /\ Simple /\ pc[t] = "enter" /\ call[t].op = "put"
  /\ deque' = Append(deque, call[t].item)
  /\ Goto(t, "release")
  /\ UNCHANGED <<kind, unfinished, flag, value, waiters, took, done>>

\* Semaphore.release()
Release(t) ==
  /\ pc[t] = "release"
  /\ value' = value + 1 /\ Notify("count")
  /\ Return(t)
  /\ UNCHANGED <<kind, deque, unfinished, flag, took, done>>

\* Semaphore.acquire(): the value is there, or the thread waits, or gives up at
\* once, having found its time up or not blocking.
Acquire(t) ==
  /\ Simple /\ pc[t] = "enter" /\ call[t].op = "get"
  /\ IF value > 0
     THEN value' = value - 1 /\ Goto(t, "pop") /\ UNCHANGED waiters
     ELSE /\ UNCHANGED value
          /\ \/ /\ call[t].mode # "nowait"
                /\ waiters' = [waiters EXCEPT !["count"] = Append(@, t)]
                /\ Goto(t, "asleep")
             \/ /\ call[t].mode # "block"
                /\ Return(t) /\ UNCHANGED waiters
  /\ UNCHANGED <<kind, deque, unfinished, flag, took, done>>

SimplePop(t) ==
  /\ pc[t] = "pop"
  /\ Pop
  /\ Return(t)
  /\ UNCHANGED <<kind, unfinished, flag, value, waiters, done>>

----------------------------------------------------------------------------
\* The program calls; SimpleQueue has no join(), nor does its put() block.  Where
\* the order of the items is all that counts they are put in the order of numbers.
Unused == Item \ (ToSet(deque) \cup took \cup {call[t].item : t \in Thread})

Call(t) ==
  /\ pc[t] = "idle"
  /\ \E o \in {"get", "put", "join"}, m \in Mode, x \in Unused \cup {NoItem} :
       /\ <<t, o>> \in Calls
       /\ o = "join" => ~Simple /\ m = "block"
       /\ o = "put" /\ Simple => m = "block"
       /\ o = "put" <=> x # NoItem
       /\ o = "put" /\ kind # "priority" => \A y \in Unused : x <= y
       /\ call' = [call EXCEPT ![t] = [op |-> o, mode |-> m, item |-> x]]
  /\ pc' = [pc EXCEPT ![t] = "enter"]
  /\ UNCHANGED <<kind, deque, unfinished, flag, value, waiters, took, done>>

Step(t) ==
  \/ Wait(t) \/ Wake(t) \/ GaveUp(t)
  \/ Get(t) \/ Put(t) \/ Blocked(t) \/ Join(t)
  \/ SimplePut(t) \/ Release(t) \/ Acquire(t) \/ SimplePop(t)

Next == TaskDone \/ \E t \in Thread : Call(t) \/ Step(t) \/ TimedOut(t)

\* Every thread runs.
Spec == Init /\ [][Next]_vars /\ \A t \in Thread : WF_vars(Step(t))

----------------------------------------------------------------------------
(* Properties.                                                             *)

TypeOK ==
  /\ kind \in {"fifo", "lifo", "priority", "simple"}
  /\ deque \in Seq(Item) /\ took \in SUBSET Item
  /\ unfinished \in Nat /\ value \in Nat /\ done \in Nat
  /\ flag \in [Event -> BOOLEAN]
  /\ waiters \in [Cond -> Seq(Thread)]
  /\ pc \in [Thread -> {"idle", "enter", "wait", "asleep", "gaveup", "release", "pop"}]
  /\ call \in [Thread -> [op : {"get", "put", "join"}, mode : Mode, item : Item \cup {NoItem}]]

\* The reason that a method waits: what it needs is not there.
Nothing(e) ==
  CASE e = "not_empty" -> deque = <<>>
    [] e = "not_full" -> Full
    [] e = "finished" -> unfinished > 0

\* The events are shared: one waiter clears what a put() for another has set, and
\* wait() runs without _mutex.  Still, an event is clear only while there is
\* nothing to wait for, as nobody clears it but under _mutex having found so; and
\* nobody is left asleep on an event that is set.  (The timeout may still pass
\* between the notification and the wake-up: that get() raises Empty, that put()
\* Full, without looking again.)
EventsTell ==
  \A e \in Event :
    /\ (\E t \in Thread : pc[t] \in {"wait", "asleep", "gaveup"} /\ On(t) = e)
         => flag[e] \/ Nothing(e)
    /\ flag[e] => waiters[e] = <<>>

\* The variables have their types, and "a task_done() call was received for every
\* item that had been put()": what join() waits for is what is in the queue or not
\* yet reported done, so that a program that reports each item once never sees the
\* ValueError.
TasksCounted ==
  /\ TypeOK
  /\ ~Simple => /\ unfinished = Len(deque) + Cardinality(took) - done
                /\ flag["finished"] <=> unfinished = 0

InPop == {t \in Thread : pc[t] = "pop"}
OnTheWay == {t \in Thread : pc[t] \in {"asleep", "gaveup"} /\ t \notin ToSet(waiters["count"])}
            \cup {t \in Thread : pc[t] = "enter" /\ call[t].op = "get"}

\* SimpleQueue: a thread that acquired the semaphore finds an item to pop, whoever
\* appended and popped meanwhile; and no notification is lost on a waiter that gave
\* up: while anybody sleeps, each unit of the semaphore has a thread coming for it.
SemaphoreTells ==
  Simple =>
    /\ value + Cardinality(InPop) <= Len(deque)
    /\ waiters["count"] # <<>> => value <= Cardinality(OnTheWay)

Abstract == INSTANCE BoundedQueue

\* No item is lost, repeated or taken out of its order, and the bound is kept.
QueueSpec == Abstract!Spec

\* Somebody who waits for what is there comes back, unless another takes it first.
Wanted(t) ==
  CASE call[t].op = "get" -> deque # <<>>
    [] call[t].op = "put" -> ~Full \/ Simple
    [] call[t].op = "join" -> unfinished = 0

Served ==
  \A t \in Thread : (pc[t] # "idle" /\ Wanted(t)) ~> (pc[t] = "idle" \/ ~Wanted(t))
============================================================================
