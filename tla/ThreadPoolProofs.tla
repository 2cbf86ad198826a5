-------------------------- MODULE ThreadPoolProofs --------------------------
(***************************************************************************)
(* However the clients and the workers of a pool race, a future is         *)
(* cancelled or its function runs, once, its callbacks are called once and *)
(* not before its end, and there are never more than max_workers workers:  *)
(* for any number of threads, futures and callbacks, and any programs of   *)
(* the clients.                                                            *)
(***************************************************************************)
EXTENDS ThreadPool, SequenceTheorems, FiniteSetTheorems, WellFoundedInduction, TLAPS

\* A function that was called has left its future running or finished, for good.
Ran ==
  /\ state \in [Future -> Ended \cup {"none", "PENDING", "RUNNING"}]
  /\ ran \in [Future -> {0, 1}]
  /\ \A f \in Future : ran[f] = 1 => state[f] \in {"RUNNING", "FINISHED"}

\* What a step may do to the future f: nothing, what its owner does while it is
\* pending, or what the worker does that has taken it.
Moves(f) ==
  \/ state'[f] = state[f] /\ ran'[f] = ran[f]
  \/ state[f] = "none" /\ state'[f] = "PENDING" /\ ran'[f] = ran[f]
  \/ state[f] = "PENDING" /\ state'[f] \in {"CANCELLED", "FINISHED"} /\ ran'[f] = ran[f]
  \/ state[f] = "PENDING" /\ state'[f] = "RUNNING" /\ ran'[f] = ran[f] + 1
  \/ state[f] = "CANCELLED" /\ state'[f] = "CANCELLED_AND_NOTIFIED" /\ ran'[f] = ran[f]

\* Both histories stay functions over the futures.
Shaped ==
  /\ state' \in [Future -> Ended \cup {"none", "PENDING", "RUNNING"}]
  /\ DOMAIN ran' = Future /\ ran' = [f \in Future |-> ran'[f]]

----------------------------------------------------------------------------
\* At first nothing has run.
LEMMA InitRan == Init => Ran
BY DEF Init, Ran, Ended

\* The calls of a client: submit(), cancel() and set_result() alone touch a future, and
\* only one that is new or pending.
LEMMA ClientMoves ==
  ASSUME Ran, NEW c \in Client, Calls(c) \/ ClientStep(c) \/ ResultTimeout(c)
  PROVE  Shaped /\ \A f \in Future : Moves(f)
<1>1. CASE UNCHANGED <<state, ran>>
  BY <1>1 DEF Shaped, Moves, Ran
<1>2. ASSUME NEW g \in Future, NEW s \in {"PENDING", "CANCELLED", "FINISHED"},
             state' = [state EXCEPT ![g] = s], ran' = ran,
             IF s = "PENDING" THEN state[g] = "none" ELSE state[g] = "PENDING"
      PROVE  Shaped /\ \A f \in Future : Moves(f)
  BY <1>2 DEF Shaped, Moves, Ran, Ended
<1>3. CASE Calls(c)
  <2>1. ASSUME NEW f \in Future, Submit(c, f) \/ Cancel(c, f) \/ SetResult(c, f)
        PROVE  \E g \in Future, s \in {"PENDING", "CANCELLED", "FINISHED"} :
                 /\ state' = [state EXCEPT ![g] = s] /\ ran' = ran
                 /\ IF s = "PENDING" THEN state[g] = "none" ELSE state[g] = "PENDING"
    BY <2>1 DEF Submit, Cancel, SetResult, End, SetState, hist
  <2>2. ASSUME NEW f \in Future, Result(c, f)
        PROVE  UNCHANGED <<state, ran>>
    BY <2>2 DEF Result, hist
  <2>3. ASSUME NEW w \in Watched,
               AddDoneCallback(c, w[1], w[2]) \/ RemoveDoneCallback(c, w[1], w[2])
        PROVE  UNCHANGED <<state, ran>>
    BY <2>3 DEF AddDoneCallback, RemoveDoneCallback
  <2>4. ASSUME NEW wait \in BOOLEAN, Shutdown(c, wait)
        PROVE  UNCHANGED <<state, ran>>
    BY <2>4 DEF Shutdown, hist
  <2> QED
    BY <1>1, <1>2, <1>3, <2>1, <2>2, <2>3, <2>4 DEF Calls
<1>4. CASE ClientStep(c) \/ ResultTimeout(c)
  BY <1>1, <1>4 DEF ClientStep, Invoke, ResultReturns, NotifyAll, Join, ResultTimeout, hist
<1> QED
  BY <1>3, <1>4

\* A worker: run() calls the function of a pending future, or notes that it was cancelled.
LEMMA WorkerMoves ==
  ASSUME Ran, NEW w \in Worker, WorkerStep(w)
  PROVE  Shaped /\ \A f \in Future : Moves(f)
<1>1. CASE UNCHANGED <<state, ran>>
  BY <1>1 DEF Shaped, Moves, Ran
<1>2. CASE Run(w)
  <2>1. CASE state[fut[w]] = "CANCELLED"
    <3>1. state' = [state EXCEPT ![fut[w]] = "CANCELLED_AND_NOTIFIED"] /\ ran' = ran
      BY <1>2, <2>1 DEF Run, SetState
    <3> QED
      BY <2>1, <3>1 DEF Shaped, Moves, Ran, Ended
  <2>2. CASE state[fut[w]] = "PENDING"
    <3>1. /\ state' = [state EXCEPT ![fut[w]] = "RUNNING"]
          /\ ran' = [ran EXCEPT ![fut[w]] = @ + 1]
      BY <1>2, <2>2 DEF Run
    <3> QED
      BY <2>2, <3>1 DEF Shaped, Moves, Ran, Ended
  <2>3. CASE state[fut[w]] \notin {"CANCELLED", "PENDING"}
    <3>1. UNCHANGED <<state, ran>>
      BY <1>2, <2>3 DEF Run
    <3> QED
      BY <3>1 DEF Shaped, Moves, Ran
  <2> QED
    BY <2>1, <2>2, <2>3
<1>3. CASE WorkerSets(w)
  <2>1. CASE state[fut[w]] = "PENDING"
    <3>1. state' = [state EXCEPT ![fut[w]] = "FINISHED"] /\ ran' = ran
      BY <1>3, <2>1 DEF WorkerSets, End, SetState, hist
    <3> QED
      BY <2>1, <3>1 DEF Shaped, Moves, Ran, Ended
  <2>2. CASE state[fut[w]] # "PENDING"
    BY <1>1, <1>3, <2>2 DEF WorkerSets, hist
  <2> QED
    BY <2>1, <2>2
<1>4. CASE ~(Run(w) \/ WorkerSets(w))
  BY <1>1, <1>4
  DEF WorkerStep, Initializer, WorkerWaits, WorkerWakes, WorkerLeaves, WorkerTakes, Fn, hist
<1> QED
  BY <1>2, <1>3, <1>4

\* Every step of the program moves a future forward or not at all.
LEMMA StepMoves == ASSUME Ran, [Next]_vars PROVE Shaped /\ \A f \in Future : Moves(f)
<1>1. CASE UNCHANGED vars
  BY <1>1 DEF vars, hist, Shaped, Moves, Ran
<1> QED
  BY <1>1, ClientMoves, WorkerMoves DEF Next

\* A function that ran was of a future that is running or ended.
LEMMA SpecRan == Spec => []Ran
<1>1. Ran /\ [Next]_vars => Ran'
  <2> SUFFICES ASSUME Ran, [Next]_vars PROVE Ran'
    OBVIOUS
  <2>1. Shaped /\ \A f \in Future : Moves(f)
    BY StepMoves
  <2>2. \A f \in Future : ran'[f] \in {0, 1}
                          /\ (ran'[f] = 1 => state'[f] \in {"RUNNING", "FINISHED"})
    BY <2>1 DEF Moves, Ran
  <2> QED
    BY <2>1, <2>2 DEF Shaped, Ran
<1> QED
  BY InitRan, <1>1, PTL DEF Spec

\* "Cancel the future if possible": a future is cancelled or its function runs, never
\* both and never twice, and what has ended stays as it ended.
THEOREM PoolOnceOrNever == Spec => OnceOrNever
<1>1. Ran /\ Ran' /\ [Next]_vars =>
        [\A f \in Future :
           /\ ran'[f] <= 1
           /\ state'[f] \in {"CANCELLED", "CANCELLED_AND_NOTIFIED"} => ran'[f] = 0
           /\ state[f] = "FINISHED" => state'[f] = "FINISHED"
           /\ state[f] \in Ended \ {"FINISHED"} => state'[f] \in Ended \ {"FINISHED"}]_vars
  <2> SUFFICES ASSUME Ran, Ran', [Next]_vars, NEW f \in Future
               PROVE  /\ ran'[f] <= 1
                      /\ state'[f] \in {"CANCELLED", "CANCELLED_AND_NOTIFIED"} => ran'[f] = 0
                      /\ state[f] = "FINISHED" => state'[f] = "FINISHED"
                      /\ state[f] \in Ended \ {"FINISHED"} => state'[f] \in Ended \ {"FINISHED"}
    OBVIOUS
  <2>1. Moves(f)
    BY StepMoves
  <2> QED
    BY <2>1 DEF Moves, Ran, Ended
<1> QED
  BY SpecRan, <1>1, PTL DEF Spec, OnceOrNever

----------------------------------------------------------------------------
\* The executor knows every worker that has not ended, and knows no more than it may
\* have; once a shutdown(wait=True) has returned, nothing is submitted.
Known ==
  /\ pc = [a \in Actor |-> pc[a]]
  /\ IsFiniteSet(threads) /\ Cardinality(threads) <= MaxWorkers
  /\ Alive \subseteq threads
  /\ \A c \in Client : pc[c] \in {"s_notify", "s_join"} => shutdown
  /\ closed => shutdown /\ Alive = {}

\* At first there are no threads.
LEMMA InitKnown == Init => Known
BY PoolAssumption, FS_EmptySet DEF Init, Known, Alive, Actor

\* submit(): the threads that died are forgotten before one is added.
LEMMA SubmitKnown == ASSUME Known, NEW c \in Client, NEW f \in Future, Submit(c, f) PROVE Known'
<1> USE DEF Known
<1>1. ~shutdown /\ UNCHANGED <<shutdown, closed>>
  BY DEF Submit, hist
<1>2. IsFiniteSet(Adjusted) /\ Cardinality(Adjusted) <= Cardinality(threads)
  BY FS_Subset DEF Adjusted
<1>3. CASE Cardinality(Adjusted) < MaxWorkers
  <2>1. PICK w : threads' = Adjusted \cup {w} /\ pc' = [pc EXCEPT ![w] = "init"]
    BY <1>3 DEF Submit, Goto
  <2>2. IsFiniteSet(threads') /\ Cardinality(threads') <= Cardinality(Adjusted) + 1
    <3>1. Cardinality(threads') \in {Cardinality(Adjusted), Cardinality(Adjusted) + 1}
      BY <1>2, <2>1, FS_AddElement
    <3> QED
      BY <1>2, <2>1, <3>1, FS_AddElement, FS_CardinalityType
  <2>3. Cardinality(threads') <= MaxWorkers
    BY <1>2, <1>3, <2>2, FS_CardinalityType, PoolAssumption
  <2>4. pc' = [a \in Actor |-> pc'[a]] /\ Alive' \subseteq Alive \cup {w}
    BY <2>1 DEF Alive
  <2> QED
    BY <1>1, <2>1, <2>2, <2>3, <2>4 DEF Adjusted
<1>4. CASE ~(Cardinality(Adjusted) < MaxWorkers)
  <2>1. threads' = Adjusted /\ pc' = pc
    BY <1>4 DEF Submit
  <2>2. Cardinality(threads') <= MaxWorkers
    BY <1>2, <2>1, FS_CardinalityType, PoolAssumption
  <2> QED
    BY <1>1, <1>2, <2>1, <2>2 DEF Alive, Adjusted
<1> QED
  BY <1>3, <1>4

\* Steps that touch no thread of the pool.
LEMMA UnmovedKnown == ASSUME Known, UNCHANGED <<pc, threads, shutdown, closed>> PROVE Known'
BY DEF Known, Alive

\* No other step brings a worker to life, or makes a client join before the flag is set.
LEMMA OthersKnown ==
  ASSUME Known, threads' = threads, shutdown => shutdown', closed' = closed,
         NEW a \in Actor, NEW l, pc' = [pc EXCEPT ![a] = l],
         a \in Worker => a \in Alive,
         l \in {"s_notify", "s_join"} => shutdown'
  PROVE  Known'
<1>1. pc' = [b \in Actor |-> pc'[b]]
  BY DEF Known
<1>2. Alive' \subseteq Alive
  BY DEF Known, Alive, Actor
<1>3. \A c \in Client : pc'[c] \in {"s_notify", "s_join"} => shutdown'
  BY DEF Known, Actor
<1> QED
  BY <1>1, <1>2, <1>3 DEF Known

\* The join of shutdown(wait=True) has seen all of the threads end.
LEMMA JoinKnown == ASSUME Known, NEW c \in Client, Join(c) PROVE Known'
<1>1. /\ Alive = {} /\ shutdown /\ UNCHANGED <<threads, shutdown>> /\ closed'
      /\ pc' = [pc EXCEPT ![c] = "idle"]
  BY DEF Join, Known, Return, With, pool
<1> QED
  BY <1>1, PoolAssumption DEF Known, Alive

\* Whatever a client does.
LEMMA ClientKnown ==
  ASSUME Known, NEW c \in Client, Calls(c) \/ ClientStep(c) \/ ResultTimeout(c)
  PROVE  Known'
<1>1. c \in Actor /\ c \notin Worker
  BY PoolAssumption DEF Actor
<1>2. ASSUME UNCHANGED <<pool, closed>>, NEW l \in {"idle", "invoke", "result", "s_join"},
             pc' = [pc EXCEPT ![c] = l], l = "s_join" => pc[c] = "s_notify"
      PROVE  Known'
  BY <1>1, <1>2, OthersKnown DEF Known, pool
<1>3. CASE Calls(c)
  <2>1. ASSUME NEW f \in Future, Submit(c, f) PROVE Known'
    BY <2>1, SubmitKnown
  <2>2. ASSUME NEW f \in Future, Cancel(c, f) \/ SetResult(c, f) PROVE Known'
    BY <1>2, <2>2 DEF Cancel, SetResult, End, With, hist
  <2>3. ASSUME NEW f \in Future, Result(c, f) PROVE Known'
    BY <1>2, <2>3 DEF Result, With, hist
  <2>4. ASSUME NEW w \in Watched,
               AddDoneCallback(c, w[1], w[2]) \/ RemoveDoneCallback(c, w[1], w[2])
        PROVE  Known'
    BY <2>4, UnmovedKnown DEF AddDoneCallback, RemoveDoneCallback, pool
  <2>5. ASSUME NEW wait \in BOOLEAN, Shutdown(c, wait) PROVE Known'
    BY <1>1, <2>5, OthersKnown DEF Shutdown, With, hist
  <2> QED
    BY <1>3, <2>1, <2>2, <2>3, <2>4, <2>5 DEF Calls
<1>4. CASE Invoke(c)
  BY <1>1, <1>2, <1>4, UnmovedKnown DEF Invoke, Return, With, pool
<1>5. CASE ResultReturns(c) \/ ResultTimeout(c)
  BY <1>1, <1>2, <1>5 DEF ResultReturns, ResultTimeout, Return, With, hist
<1>6. CASE NotifyAll(c)
  <2>1. /\ UNCHANGED <<threads, shutdown, closed>> /\ shutdown
        /\ \E l \in {"s_join", "idle"} : pc' = [pc EXCEPT ![c] = l]
    BY <1>6 DEF NotifyAll, Goto, Return, With, hist, Known
  <2> QED
    BY <1>1, <2>1, OthersKnown
<1>7. CASE Join(c)
  BY <1>7, JoinKnown
<1> QED
  BY <1>3, <1>4, <1>5, <1>6, <1>7 DEF ClientStep

\* Whatever a worker does: it never starts another.
LEMMA WorkerKnown == ASSUME Known, NEW w \in Worker, WorkerStep(w) PROVE Known'
<1>1. /\ w \in Actor /\ UNCHANGED <<threads, shutdown, closed>>
      /\ pc[w] \notin {"unborn", "dead"}
      /\ \E l \in {"check", "dead", "asleep", "run", "fn", "set_result", "set_exception",
                    "invoke"} : pc' = [pc EXCEPT ![w] = l]
  BY PoolAssumption
  DEF WorkerStep, Initializer, WorkerWaits, WorkerWakes, WorkerLeaves, WorkerTakes, Run, Fn,
      WorkerSets, End, Goto, With, Return, hist, pool, Actor
<1> QED
  BY <1>1, OthersKnown DEF Alive

\* The invariant holds of the program.
LEMMA SpecKnown == Spec => []Known
<1>1. Known /\ [Next]_vars => Known'
  <2>1. CASE UNCHANGED vars
    BY <2>1, UnmovedKnown DEF vars, pool, hist
  <2> QED
    BY <2>1, ClientKnown, WorkerKnown DEF Next
<1> QED
  BY InitKnown, <1>1, PTL DEF Spec

\* There are never more than max_workers threads, though workers die and are replaced,
\* and none once a shutdown(wait=True) has returned.
THEOREM PoolWorkersBounded == Spec => []WorkersBounded
<1>1. Known => WorkersBounded
  BY FS_Subset, FS_CardinalityType, PoolAssumption DEF Known, WorkersBounded
<1> QED
  BY SpecKnown, <1>1, PTL

----------------------------------------------------------------------------
\* What submit() makes is new; of the workers no more have started than it has made futures.
Submitted == {f \in Work : state[f] # "none"}
Started == {w \in Worker : pc[w] # "unborn"}
Begun ==
  /\ \A f \in Future : state[f] = "none" => f \in Work
  /\ Cardinality(Started) <= Cardinality(Submitted)

\* Who is busy with a future has one.
Held ==
  \A a \in Actor : pc[a] \in {"invoke", "result", "run", "fn", "set_result", "set_exception"} =>
    fut[a] \in Future

\* One thread at most calls the callbacks of a future, that has ended; those that it has
\* passed were called, the others not, but for what is removed while it goes on.
InTurn ==
  \A a \in Actor : pc[a] = "invoke" =>
    /\ state[fut[a]] \in Ended /\ idx[a] \in Nat \ {0}
    /\ \A b \in Actor : pc[b] = "invoke" /\ fut[b] = fut[a] => b = a
    /\ \A i \in DOMAIN cbs[fut[a]] :
         IF i < idx[a] THEN fut[a] \notin cut => called[fut[a]][cbs[fut[a]][i]] = 1
         ELSE called[fut[a]][cbs[fut[a]][i]] = 0

\* Before the end nothing is called, and after it, nothing is left to call.
OnTime ==
  \A f \in Future :
    /\ IsInjective(cbs[f])
    /\ state[f] \notin Ended => \A k \in Callback : called[f][k] = 0
    /\ state[f] \in Ended /\ f \notin cut \cup Calling =>
         \A i \in DOMAIN cbs[f] : called[f][cbs[f][i]] = 1

CbInv == TypeOK /\ Begun /\ Held /\ InTurn /\ OnTime

\* A set of natural numbers has a least one.
LEMMA LeastOf ==
  ASSUME NEW T, T \subseteq Nat, T # {}
  PROVE  Min(T) \in T
<1> DEFINE R == OpToRel(<, Nat)
<1>1. IsWellFoundedOn(R, Nat)
  BY NatLessThanWellFounded
<1>2. \A x, y \in Nat : <<y, x>> \in R <=> y < x
  BY DEF OpToRel
<1> HIDE DEF R
<1>3. PICK x \in T : \A y \in T : ~ (<<y, x>> \in R)
  BY <1>1, WFMin
<1>4. ASSUME NEW y \in T
      PROVE  x =< y
  <2>1. x \in Nat /\ y \in Nat /\ ~(y < x)
    BY <1>2, <1>3
  <2> QED
    BY <2>1
<1> QED
  BY <1>4 DEF Min

\* RemoveAt() takes out the k-th element and closes the gap.
LEMMA RemoveAtGap ==
  ASSUME NEW S, NEW s \in Seq(S), NEW k \in DOMAIN s
  PROVE  /\ RemoveAt(s, k) \in Seq(S) /\ Len(RemoveAt(s, k)) = Len(s) - 1
         /\ \A i \in DOMAIN RemoveAt(s, k) :
              RemoveAt(s, k)[i] = IF i < k THEN s[i] ELSE s[i + 1]
<1> DEFINE a == SubSeq(s, 1, k - 1)
           b == SubSeq(s, k + 1, Len(s))
<1>1. k \in 1..Len(s) /\ Len(s) \in Nat /\ \A i \in 1..Len(s) : s[i] \in S
  OBVIOUS
<1>2. a \in Seq(S) /\ Len(a) = k - 1 /\ \A i \in 1..(k - 1) : a[i] = s[i]
  <2>1. \A i \in 1..(k - 1) : s[i] \in S
    BY <1>1
  <2>2. a \in Seq(S) /\ Len(a) = (IF 1 <= k - 1 THEN k - 1 ELSE 0)
        /\ \A i \in 1..(k - 1) : a[i] = s[1 + i - 1]
    BY <1>1, <2>1, SubSeqProperties
  <2> HIDE DEF a
  <2> QED
    BY <1>1, <2>2
<1>3. b \in Seq(S) /\ Len(b) = Len(s) - k /\ \A i \in 1..(Len(s) - k) : b[i] = s[k + i]
  <2>1. \A i \in (k + 1)..Len(s) : s[i] \in S
    BY <1>1
  <2>2. b \in Seq(S) /\ Len(b) = (IF k + 1 <= Len(s) THEN Len(s) - (k + 1) + 1 ELSE 0)
        /\ \A i \in 1..(Len(s) - (k + 1) + 1) : b[i] = s[k + 1 + i - 1]
    BY <1>1, <2>1, SubSeqProperties
  <2> HIDE DEF b
  <2> QED
    BY <1>1, <2>2
<1>4. RemoveAt(s, k) = a \o b
  BY DEF RemoveAt
<1> HIDE DEF a, b
<1>5. /\ a \o b \in Seq(S) /\ Len(a \o b) = Len(s) - 1
      /\ \A i \in 1..(Len(s) - 1) : (a \o b)[i] = IF i <= k - 1 THEN a[i] ELSE b[i - (k - 1)]
  <2>1. /\ a \o b \in Seq(S) /\ Len(a \o b) = Len(a) + Len(b)
        /\ \A i \in 1..(Len(a) + Len(b)) :
             (a \o b)[i] = IF i <= Len(a) THEN a[i] ELSE b[i - Len(a)]
    BY <1>2, <1>3, ConcatProperties
  <2>2. Len(a) + Len(b) = Len(s) - 1
    BY <1>1, <1>2, <1>3
  <2> QED
    BY <1>2, <2>1, <2>2
<1>6. ASSUME NEW i \in 1..(Len(s) - 1)
      PROVE  (a \o b)[i] = IF i < k THEN s[i] ELSE s[i + 1]
  <2>1. CASE i < k
    BY <1>1, <1>2, <1>5, <2>1
  <2>2. CASE ~(i < k)
    <3>1. i - (k - 1) \in 1..(Len(s) - k) /\ k + (i - (k - 1)) = i + 1 /\ ~(i <= k - 1)
      BY <1>1, <2>2
    <3> QED
      BY <1>3, <1>5, <2>2, <3>1
  <2> QED
    BY <2>1, <2>2
<1> QED
  BY <1>1, <1>4, <1>5, <1>6

\* RemoveFirst() is RemoveAt() of a place where the element is.
LEMMA RemoveFirstAt ==
  ASSUME NEW S, NEW s \in Seq(S), NEW e
  PROVE  \/ e \notin ToSet(s) /\ RemoveFirst(s, e) = s
         \/ \E k \in DOMAIN s : s[k] = e /\ RemoveFirst(s, e) = RemoveAt(s, k)
<1> DEFINE I == {i \in 1..Len(s) : s[i] = e}
<1>1. CASE I = {}
  <2>1. RemoveFirst(s, e) = s
    BY <1>1 DEF RemoveFirst
  <2>2. DOMAIN s = 1..Len(s)
    OBVIOUS
  <2>3. e \notin ToSet(s)
    BY <1>1, <2>2 DEF ToSet
  <2> QED
    BY <2>1, <2>3
<1>2. CASE I # {}
  <2>1. I \subseteq Nat
    OBVIOUS
  <2>2. Min(I) \in I
    BY <1>2, <2>1, LeastOf
  <2>3. RemoveFirst(s, e) = RemoveAt(s, Min(I))
    BY <1>2 DEF RemoveFirst, SelectInSeq
  <2>4. Min(I) \in DOMAIN s /\ s[Min(I)] = e
    BY <2>2
  <2> HIDE DEF I
  <2> QED
    BY <2>3, <2>4
<1> QED
  BY <1>1, <1>2

\* What RemoveFirst() leaves of a sequence without repetition: its elements in their order.
LEMMA RemoveFirstOrder ==
  ASSUME NEW S, NEW s \in Seq(S), NEW e, IsInjective(s)
  PROVE  LET r == RemoveFirst(s, e)
         IN  /\ r \in Seq(S) /\ IsInjective(r)
             /\ \A i \in DOMAIN r : \E j \in DOMAIN s : i <= j /\ r[i] = s[j]
<1> DEFINE r == RemoveFirst(s, e)
<1>1. CASE r = s
  BY <1>1
<1>2. CASE \E k \in DOMAIN s : r = RemoveAt(s, k)
  <2>1. PICK k \in DOMAIN s : r = RemoveAt(s, k)
    BY <1>2
  <2>2. /\ r \in Seq(S) /\ Len(r) = Len(s) - 1
        /\ \A i \in DOMAIN r : r[i] = IF i < k THEN s[i] ELSE s[i + 1]
    BY <2>1, RemoveAtGap
  <2>3. Len(s) \in Nat /\ DOMAIN s = 1..Len(s) /\ DOMAIN r = 1..(Len(s) - 1) /\ k \in 1..Len(s)
    BY <2>2
  <2> HIDE DEF r
  <2>4. ASSUME NEW i \in DOMAIN r
        PROVE  \E j \in DOMAIN s : i <= j /\ r[i] = s[j] /\ j = IF i < k THEN i ELSE i + 1
    BY <2>2, <2>3
  <2>5. IsInjective(r)
    BY <2>2, <2>3, <2>4 DEF IsInjective
  <2> QED
    BY <2>2, <2>4, <2>5 DEF r
<1> QED
  BY <1>1, <1>2, RemoveFirstAt

----------------------------------------------------------------------------
\* At first there are no callbacks and no threads of the pool.
LEMMA InitCb == Init => CbInv
<1> SUFFICES ASSUME Init PROVE CbInv
  OBVIOUS
<1>1. TypeOK
  <2>1. /\ ran \in [Future -> 0..1] /\ called \in [Future -> [Callback -> 0..1]]
        /\ idx \in [Actor -> Nat]
    BY DEF Init
  <2>2. /\ state \in [Future -> Ended \cup {"none", "PENDING", "RUNNING"}]
        /\ cbs \in [Future -> Seq(Callback)]
        /\ work_queue \in Seq(Work) /\ qwaiters \in Seq(Worker)
    BY DEF Init
  <2> QED
    BY <2>1, <2>2 DEF Init, TypeOK
<1>2. Begun
  <2>1. Started = {} /\ Submitted = {}
    BY PoolAssumption DEF Init, Started, Submitted, Actor, Future
  <2> QED
    BY <2>1, FS_EmptySet DEF Init, Begun, Future
<1>3. Held /\ InTurn
  BY DEF Init, Held, InTurn
<1>4. OnTime
  BY DEF Init, OnTime, IsInjective, Ended
<1> QED
  BY <1>1, <1>2, <1>3, <1>4 DEF CbInv

\* Where a thread may be, and what TypeOK says of the variables of the threads.
Place == {"idle", "invoke", "result", "s_notify", "s_join", "unborn", "init", "check", "asleep",
          "run", "fn", "set_result", "set_exception", "dead"}
Locals ==
  /\ pc \in [Actor -> Place] /\ fut \in [Actor -> Future \cup {NoFuture}]
  /\ idx \in [Actor -> Nat] /\ opt \in [Client -> BOOLEAN]

\* A thread that goes somewhere keeps the type of its variables.
LEMMA GoLocals ==
  ASSUME CbInv, NEW a \in Actor, NEW l \in Place,
         \/ Goto(a, l)
         \/ \E f \in Future \cup {NoFuture}, i \in Nat, o \in BOOLEAN : With(a, l, f, i, o)
         \/ l = "idle" /\ Return(a)
  PROVE  Locals'
<1>1. Locals
  BY DEF CbInv, TypeOK, Locals, Place
<1>2. CASE Goto(a, l)
  BY <1>1, <1>2 DEF Goto, Locals
<1>3. ASSUME NEW m \in Place, NEW f \in Future \cup {NoFuture}, NEW i \in Nat, NEW o \in BOOLEAN,
             With(a, m, f, i, o)
      PROVE  Locals'
  BY <1>1, <1>3 DEF With, Locals
<1>4. CASE Return(a)
  BY <1>3, <1>4 DEF Return, Place
<1> QED
  BY <1>2, <1>3, <1>4

\* Steps that make no future and start no worker.
LEMMA OthersBegun ==
  ASSUME CbInv, \A f \in Future : state'[f] = "none" <=> state[f] = "none",
         \A w \in Worker : pc'[w] = "unborn" <=> pc[w] = "unborn"
  PROVE  Begun'
<1>1. Submitted' = Submitted /\ Started' = Started
  BY DEF Submitted, Started, Future
<1> QED
  BY <1>1 DEF CbInv, Begun

\* A step that ends no future, of a thread that calls no callbacks, leaves the lists alone.
Quiet(a) ==
  /\ UNCHANGED <<cbs, called, cut>>
  /\ \A f \in Future : state'[f] \in Ended <=> state[f] \in Ended
  /\ pc[a] # "invoke" /\ pc'[a] # "invoke"
  /\ \A b \in Actor \ {a} : pc'[b] = pc[b] /\ fut'[b] = fut[b] /\ idx'[b] = idx[b]

\* After such a step nothing is called early, and nothing is forgotten.
LEMMA QuietCb ==
  ASSUME CbInv, NEW a \in Actor, Quiet(a)
  PROVE  (InTurn /\ OnTime)'
<1>1. Calling' = Calling
  BY DEF Calling, Quiet
<1>2. InTurn'
  BY DEF CbInv, InTurn, Held, Quiet
<1>3. OnTime'
  BY <1>1 DEF CbInv, OnTime, Quiet
<1> QED
  BY <1>2, <1>3

\* cancel(), set_result() and set_exception(): from now on the thread calls the callbacks.
LEMMA EndCb ==
  ASSUME CbInv, NEW a \in Actor, NEW f \in Future, NEW s \in Ended,
         state[f] = "PENDING", pc[a] # "invoke", End(a, f, s), UNCHANGED <<cbs, called, cut>>
  PROVE  (InTurn /\ OnTime)'
<1>1. /\ state' = [state EXCEPT ![f] = s] /\ pc' = [pc EXCEPT ![a] = "invoke"]
      /\ fut' = [fut EXCEPT ![a] = f] /\ idx' = [idx EXCEPT ![a] = 1]
  BY DEF End, SetState, With
<1>2. \A b \in Actor : pc[b] = "invoke" => fut[b] # f
  BY DEF CbInv, InTurn, Ended
<1>3. \A k \in Callback : called[f][k] = 0
  BY DEF CbInv, OnTime, Ended
<1>4. /\ cbs[f] \in Seq(Callback)
      /\ \A i \in DOMAIN cbs[f] : i \in Nat \ {0} /\ cbs[f][i] \in Callback
  BY DEF CbInv, TypeOK
<1>5. InTurn'
  BY <1>1, <1>2, <1>3, <1>4 DEF CbInv, InTurn, Held, TypeOK
<1>6. Calling' = Calling \cup {f}
  BY <1>1, <1>2 DEF Calling, CbInv, TypeOK
<1>7. OnTime'
  BY <1>1, <1>6 DEF CbInv, OnTime, TypeOK
<1> QED
  BY <1>5, <1>7

\* _invoke_callbacks() calls the next, that was not called, or is at the end.
LEMMA InvokeCb ==
  ASSUME CbInv, NEW a \in Actor, Invoke(a)
  PROVE  (InTurn /\ OnTime)' /\ called' \in [Future -> [Callback -> 0..1]]
<1> DEFINE f == fut[a]
           n == idx[a]
<1>1. pc[a] = "invoke" /\ UNCHANGED <<state, cbs, cut>>
  BY DEF Invoke
<1>2. /\ f \in Future /\ state[f] \in Ended /\ n \in Nat \ {0}
      /\ \A b \in Actor : pc[b] = "invoke" /\ fut[b] = f => b = a
      /\ \A i \in DOMAIN cbs[f] : IF i < n THEN f \notin cut => called[f][cbs[f][i]] = 1
                                  ELSE called[f][cbs[f][i]] = 0
  BY <1>1 DEF CbInv, Held, InTurn
<1>3. cbs[f] \in Seq(Callback) /\ DOMAIN cbs[f] = 1..Len(cbs[f]) /\ Len(cbs[f]) \in Nat
  BY <1>2 DEF CbInv, TypeOK
<1>4. IsInjective(cbs[f])
  BY <1>2 DEF CbInv, OnTime
<1>5. CASE n <= Len(cbs[f])
  <2> DEFINE k == cbs[f][n]
  <2>1. /\ called' = [called EXCEPT ![f][k] = @ + 1] /\ idx' = [idx EXCEPT ![a] = n + 1]
        /\ UNCHANGED <<pc, fut>>
    BY <1>5 DEF Invoke
  <2>2. n \in DOMAIN cbs[f] /\ k \in Callback /\ called[f][k] = 0
    BY <1>2, <1>3, <1>5
  <2> HIDE DEF k
  <2>3. /\ called' \in [Future -> [Callback -> 0..1]] /\ called'[f][k] = 1
        /\ \A l \in Callback : l # k => called'[f][l] = called[f][l]
        /\ \A g \in Future : g # f => called'[g] = called[g]
    BY <1>2, <2>1, <2>2 DEF CbInv, TypeOK
  <2>4. \A i \in DOMAIN cbs[f] : i # n => cbs[f][i] # k /\ cbs[f][i] \in Callback
    BY <1>3, <1>4, <2>2 DEF k, IsInjective
  <2>5. \A i \in DOMAIN cbs[f] : IF i < n + 1 THEN f \notin cut => called'[f][cbs[f][i]] = 1
                                 ELSE called'[f][cbs[f][i]] = 0
    <3>1. ASSUME NEW i \in DOMAIN cbs[f], i # n
          PROVE  called'[f][cbs[f][i]] = called[f][cbs[f][i]] /\ (i < n + 1 <=> i < n)
      BY <1>2, <1>3, <2>3, <2>4, <3>1
    <3>2. called'[f][cbs[f][n]] = 1 /\ n < n + 1
      BY <1>2, <2>3 DEF k
    <3> QED
      BY <1>2, <3>1, <3>2
  <2>6. InTurn'
    <3>1. \A b \in Actor : pc[b] = "invoke" /\ b # a => fut[b] \in Future /\ fut[b] # f
      BY <1>2 DEF CbInv, Held
    <3> QED
      BY <1>1, <1>2, <2>1, <2>3, <2>5, <3>1 DEF CbInv, InTurn, TypeOK
  <2>7. OnTime'
    <3>1. f \in Calling /\ Calling' = Calling
      BY <1>1, <2>1 DEF Calling
    <3> QED
      BY <1>1, <1>2, <2>3, <3>1 DEF CbInv, OnTime
  <2> QED
    BY <2>3, <2>6, <2>7
<1>6. CASE ~(n <= Len(cbs[f]))
  <2>1. /\ pc' = [pc EXCEPT ![a] = IF a \in Client THEN "idle" ELSE "check"]
        /\ fut' = [fut EXCEPT ![a] = NoFuture] /\ idx' = [idx EXCEPT ![a] = 0] /\ called' = called
    BY <1>6 DEF Invoke, Return, With
  <2>2. InTurn'
    BY <1>1, <2>1 DEF CbInv, InTurn, Held, TypeOK
  <2>3. Calling' = Calling \ {f}
    BY <1>1, <1>2, <2>1 DEF Calling, CbInv, TypeOK
  <2>4. f \notin cut => \A i \in DOMAIN cbs[f] : called[f][cbs[f][i]] = 1
    BY <1>2, <1>3, <1>6
  <2>5. OnTime'
    BY <1>1, <2>1, <2>3, <2>4 DEF CbInv, OnTime
  <2> QED
    BY <2>1, <2>2, <2>5 DEF CbInv, TypeOK
<1> QED
  BY <1>5, <1>6

\* So does a whole turn of its loop.
LEMMA InvokeStepCb ==
  ASSUME CbInv, NEW a \in Actor, Invoke(a)
  PROVE  CbInv'
<1>1. /\ pc[a] = "invoke" /\ UNCHANGED <<does, state, cbs, rwaiters, pool, ran, cut, closed>>
      /\ \/ idx' = [idx EXCEPT ![a] = @ + 1] /\ UNCHANGED <<pc, fut, opt>>
         \/ Return(a)
  BY DEF Invoke
<1>2. TypeOK'
  <2>1. called' \in [Future -> [Callback -> 0..1]]
    BY InvokeCb
  <2>2. Locals'
    <3>1. Return(a) => Locals'
      BY GoLocals DEF Return, Place
    <3>2. idx[a] + 1 \in Nat /\ Locals
      BY DEF CbInv, TypeOK, Locals, Place
    <3> QED
      BY <1>1, <3>1, <3>2 DEF Locals
  <2> QED
    BY <1>1, <2>1, <2>2 DEF CbInv, TypeOK, Locals, Place, pool
<1>3. Held'
  BY <1>1 DEF Return, With, CbInv, Held, TypeOK
<1>4. Begun'
  BY <1>1, OthersBegun DEF Return, With, CbInv, TypeOK, Actor
<1> QED
  BY <1>2, <1>3, <1>4, InvokeCb DEF CbInv

\* add_done_callback(): the list ends with k, or k is called and not kept.
LEMMA AddCb ==
  ASSUME CbInv, NEW c \in Actor, NEW f \in Future, NEW k \in Callback, AddDoneCallback(c, f, k)
  PROVE  (TypeOK /\ InTurn /\ OnTime)'
<1>1. /\ UNCHANGED <<state, cut, pc, fut, idx>> /\ called[f][k] = 0 /\ k \notin ToSet(cbs[f])
      /\ Calling' = Calling
  BY DEF AddDoneCallback, Calling
<1>2. cbs[f] \in Seq(Callback) /\ \A i \in DOMAIN cbs[f] : cbs[f][i] # k /\ cbs[f][i] \in Callback
  BY <1>1 DEF CbInv, TypeOK, ToSet
<1>3. CASE state[f] \notin Ended
  <2>1. cbs' = [cbs EXCEPT ![f] = Append(@, k)] /\ called' = called
    BY <1>3 DEF AddDoneCallback
  <2>2. Append(cbs[f], k) \in Seq(Callback) /\ IsInjective(Append(cbs[f], k))
    BY <1>2 DEF CbInv, OnTime, IsInjective
  <2>3. TypeOK'
    BY <2>1, <2>2 DEF AddDoneCallback, CbInv, TypeOK, pool
  <2>4. InTurn'
    BY <1>1, <1>3, <2>1 DEF CbInv, InTurn, Held, TypeOK
  <2>5. OnTime'
    BY <1>1, <1>3, <2>1, <2>2 DEF CbInv, OnTime, TypeOK
  <2> QED
    BY <2>3, <2>4, <2>5
<1>4. CASE state[f] \in Ended
  <2>1. called' = [called EXCEPT ![f][k] = @ + 1] /\ cbs' = cbs
    BY <1>4 DEF AddDoneCallback
  <2>2. /\ called' \in [Future -> [Callback -> 0..1]]
        /\ \A l \in Callback : l # k => called'[f][l] = called[f][l]
        /\ \A g \in Future : g # f => called'[g] = called[g]
    BY <1>1, <2>1 DEF CbInv, TypeOK
  <2>3. TypeOK'
    BY <2>1, <2>2 DEF AddDoneCallback, CbInv, TypeOK, pool
  <2>4. InTurn'
    BY <1>1, <1>2, <2>1, <2>2 DEF CbInv, InTurn, Held
  <2>5. OnTime'
    BY <1>1, <1>2, <1>4, <2>1, <2>2 DEF CbInv, OnTime
  <2> QED
    BY <2>3, <2>4, <2>5
<1> QED
  BY <1>3, <1>4

\* remove_done_callback(): the others keep their order; a thread that is calling them
\* may pass over one, which cut then tells.
LEMMA RemoveCb ==
  ASSUME CbInv, NEW c \in Actor, NEW f \in Future, NEW k, RemoveDoneCallback(c, f, k)
  PROVE  (TypeOK /\ InTurn /\ OnTime)'
<1> DEFINE r == RemoveFirst(cbs[f], k)
<1>1. /\ cbs' = [cbs EXCEPT ![f] = r] /\ UNCHANGED <<state, called, pc, fut, idx>>
      /\ cut' = IF f \in Calling THEN cut \cup {f} ELSE cut
      /\ Calling' = Calling
  BY DEF RemoveDoneCallback, Calling
<1>2. /\ r \in Seq(Callback) /\ IsInjective(r)
      /\ \A i \in DOMAIN r :
           i \in Nat /\ \E j \in DOMAIN cbs[f] : j \in Nat /\ i <= j /\ r[i] = cbs[f][j]
  <2>1. cbs[f] \in Seq(Callback) /\ IsInjective(cbs[f])
    BY DEF CbInv, TypeOK, OnTime
  <2>2. /\ r \in Seq(Callback) /\ IsInjective(r)
        /\ \A i \in DOMAIN r : \E j \in DOMAIN cbs[f] : i <= j /\ r[i] = cbs[f][j]
    BY <2>1, RemoveFirstOrder
  <2> HIDE DEF r
  <2> QED
    BY <2>1, <2>2
<1> HIDE DEF r
<1>3. TypeOK'
  BY <1>1, <1>2 DEF RemoveDoneCallback, CbInv, TypeOK, pool
<1>4. InTurn'
  <2>1. ASSUME NEW a \in Actor, pc[a] = "invoke", fut[a] = f
        PROVE  /\ f \in cut' /\ idx[a] \in Nat
               /\ \A i \in DOMAIN r : ~(i < idx[a]) => called[f][r[i]] = 0
    BY <1>1, <1>2, <2>1 DEF Calling, CbInv, InTurn
  <2> QED
    BY <1>1, <2>1 DEF CbInv, InTurn, Held, TypeOK
<1>5. OnTime'
  BY <1>1, <1>2 DEF CbInv, OnTime, TypeOK
<1> QED
  BY <1>3, <1>4, <1>5

\* submit(): there is a worker left to start, and its thread is new.
LEMMA SubmitCb ==
  ASSUME CbInv, NEW c \in Client, NEW f \in Future, Submit(c, f)
  PROVE  CbInv'
<1>1. /\ f \in Work /\ state[f] = "none" /\ state' = [state EXCEPT ![f] = "PENDING"]
      /\ UNCHANGED <<does, cbs, rwaiters, shutdown, ran, called, cut, closed>>
  BY DEF Submit, CbInv, Begun, hist
<1>2. /\ IsFiniteSet(Started) /\ IsFiniteSet(Submitted)
      /\ Cardinality(Submitted) + 1 <= Cardinality(Work)
      /\ Submitted' = Submitted \cup {f}
      /\ Cardinality(Submitted') = Cardinality(Submitted) + 1
  <2>1. Submitted' = Submitted \cup {f} /\ f \notin Submitted
    BY <1>1 DEF Submitted, CbInv, TypeOK, Future
  <2>2. IsFiniteSet(Submitted) /\ IsFiniteSet(Started)
    BY FS_Subset, PoolAssumption DEF Submitted, Started
  <2>3. Cardinality(Submitted \cup {f}) = Cardinality(Submitted) + 1
    BY <2>1, <2>2, FS_AddElement
  <2>4. Cardinality(Submitted \cup {f}) <= Cardinality(Work)
    BY <1>1, FS_Subset, PoolAssumption DEF Submitted
  <2> QED
    BY <2>1, <2>2, <2>3, <2>4
<1>3. \E v \in Worker : pc[v] = "unborn"
  <2>1. SUFFICES ASSUME Started = Worker PROVE FALSE
    BY DEF Started
  <2>2. Cardinality(Started) <= Cardinality(Submitted)
    BY DEF CbInv, Begun
  <2>3. Cardinality(Worker) \in Nat /\ Cardinality(Work) \in Nat /\ Cardinality(Submitted) \in Nat
    BY <1>2, FS_CardinalityType, PoolAssumption
  <2> QED
    BY <1>2, <2>1, <2>2, <2>3, PoolAssumption
<1> DEFINE w == CHOOSE v \in Worker : pc[v] = "unborn"
<1>4. w \in Worker /\ pc[w] = "unborn" /\ w \in Actor
  BY <1>3 DEF Actor
<1>5. \/ /\ pc' = [pc EXCEPT ![w] = "init"] /\ UNCHANGED <<fut, idx, opt>>
         /\ threads' = Adjusted \cup {w}
      \/ UNCHANGED <<pc, fut, idx, opt>> /\ threads' = Adjusted
  BY DEF Submit, Goto
<1> HIDE DEF w
<1>6. TypeOK'
  <2>1. threads' \in SUBSET Worker
    BY <1>4, <1>5 DEF Adjusted, CbInv, TypeOK
  <2>2. work_queue' \in Seq(Work) /\ qwaiters' \in Seq(Worker)
    BY <1>1 DEF Submit, CbInv, TypeOK
  <2>3. state' \in [Future -> Ended \cup {"none", "PENDING", "RUNNING"}]
    BY <1>1 DEF CbInv, TypeOK
  <2> QED
    BY <1>1, <1>4, <1>5, <2>1, <2>2, <2>3 DEF CbInv, TypeOK
<1>7. Begun'
  <2>1. Started' \subseteq Started \cup {w}
    BY <1>4, <1>5 DEF Started, CbInv, TypeOK, Actor
  <2>2. IsFiniteSet(Started \cup {w}) /\ Cardinality(Started \cup {w}) <= Cardinality(Started) + 1
    <3>1. IsFiniteSet(Started \cup {w}) /\ Cardinality(Started \cup {w}) \in
            {Cardinality(Started), Cardinality(Started) + 1}
      BY <1>2, FS_AddElement
    <3>2. Cardinality(Started) \in Nat
      BY <1>2, FS_CardinalityType
    <3> QED
      BY <3>1, <3>2
  <2>3. Cardinality(Started') <= Cardinality(Started \cup {w}) /\ Cardinality(Started') \in Nat
    BY <2>1, <2>2, FS_Subset, FS_CardinalityType
  <2>4. Cardinality(Started) \in Nat /\ Cardinality(Submitted) \in Nat
        /\ Cardinality(Started) <= Cardinality(Submitted) /\ Cardinality(Started \cup {w}) \in Nat
    BY <1>2, <2>2, FS_CardinalityType DEF CbInv, Begun
  <2>5. Cardinality(Started') <= Cardinality(Submitted')
    BY <1>2, <2>2, <2>3, <2>4
  <2> QED
    BY <1>1, <2>5 DEF CbInv, Begun, TypeOK
<1>8. Held'
  BY <1>4, <1>5 DEF CbInv, Held, TypeOK
<1>9. (InTurn /\ OnTime)'
  <2>1. Quiet(w) \/ UNCHANGED <<pc, fut, idx>>
    BY <1>1, <1>4, <1>5 DEF Quiet, CbInv, TypeOK, Ended
  <2>2. CASE Quiet(w)
    BY <1>4, <2>2, QuietCb
  <2>3. CASE UNCHANGED <<pc, fut, idx>>
    <3>1. Calling' = Calling
      BY <2>3 DEF Calling
    <3>2. InTurn'
      BY <1>1, <2>3 DEF CbInv, InTurn, Held, TypeOK, Ended
    <3> QED
      BY <1>1, <3>1, <3>2 DEF CbInv, OnTime, TypeOK, Ended
  <2> QED
    BY <2>1, <2>2, <2>3
<1> QED
  BY <1>6, <1>7, <1>8, <1>9 DEF CbInv

\* The other steps of a client.
LEMMA ClientCb ==
  ASSUME CbInv, Ran', NEW c \in Client, Calls(c) \/ ClientStep(c) \/ ResultTimeout(c)
  PROVE  CbInv'
<1>0. c \in Actor /\ c \in Client /\ c \notin Worker /\ Worker \subseteq Actor
  BY PoolAssumption DEF Actor
<1>1. CASE \E f \in Future : Submit(c, f)
  BY <1>0, <1>1, SubmitCb
<1>2. CASE \E f \in Future : Cancel(c, f) \/ SetResult(c, f)
  <2>1. PICK f \in Future, s \in {"CANCELLED", "FINISHED"} :
          /\ pc[c] = "idle" /\ state[f] = "PENDING" /\ End(c, f, s)
          /\ UNCHANGED <<does, cbs, pool, hist>>
    BY <1>0, <1>2 DEF Cancel, SetResult
  <2>2. (InTurn /\ OnTime)'
    BY <1>0, <2>1, EndCb DEF Ended, hist
  <2>3. TypeOK'
    BY <1>0, <2>1 DEF End, SetState, With, CbInv, TypeOK, Ended, pool, hist
  <2>4. Held'
    BY <1>0, <2>1 DEF End, With, CbInv, Held, TypeOK, Actor
  <2>5. Begun'
    BY <1>0, <2>1, OthersBegun DEF End, SetState, With, CbInv, TypeOK
  <2> QED
    BY <1>0, <2>2, <2>3, <2>4, <2>5 DEF CbInv
<1>3. CASE \E w \in Watched : AddDoneCallback(c, w[1], w[2])
  <2>1. PICK f \in Future, k \in Callback : AddDoneCallback(c, f, k)
    BY <1>3, PoolAssumption DEF Future
  <2>2. UNCHANGED <<pc, fut, state>>
    BY <1>0, <2>1 DEF AddDoneCallback
  <2>3. Held' /\ Begun'
    BY <1>0, <2>2, OthersBegun DEF CbInv, Held
  <2> QED
    BY <1>0, <2>1, <2>3, AddCb DEF CbInv
<1>4. CASE \E w \in Watched : RemoveDoneCallback(c, w[1], w[2])
  <2>1. PICK f \in Future, k \in Callback : RemoveDoneCallback(c, f, k)
    BY <1>4, PoolAssumption DEF Future
  <2>2. UNCHANGED <<pc, fut, state>>
    BY <1>0, <2>1 DEF RemoveDoneCallback
  <2>3. Held' /\ Begun'
    BY <1>0, <2>2, OthersBegun DEF CbInv, Held
  <2> QED
    BY <1>0, <2>1, <2>3, RemoveCb DEF CbInv
<1>5. CASE Invoke(c)
  BY <1>0, <1>5, InvokeStepCb
<1>6. CASE \/ \E f \in Future : Result(c, f)
           \/ \E wait \in BOOLEAN : Shutdown(c, wait)
           \/ ResultReturns(c) \/ ResultTimeout(c) \/ NotifyAll(c) \/ Join(c)
  <2>1. /\ UNCHANGED <<state, cbs, called, cut, ran>> /\ Quiet(c)
        /\ \A w \in Worker : pc'[w] = pc[w]
    BY <1>0, <1>6 DEF Result, Shutdown, ResultReturns, ResultTimeout, NotifyAll, Join, Goto,
                      Return, With, Quiet, pool, hist, CbInv, TypeOK
  <2>2. TypeOK'
    <3>1. CASE (\E f \in Future : Result(c, f)) \/ ResultReturns(c) \/ ResultTimeout(c)
      <4>1. Locals'
        BY <1>0, <3>1, GoLocals DEF Result, ResultReturns, ResultTimeout, Place
      <4>2. rwaiters' \in [Future -> SUBSET Client]
        <5>1. rwaiters \in [Future -> SUBSET Client]
          BY DEF CbInv, TypeOK
        <5>2. \/ rwaiters' = rwaiters
              \/ \E f \in Future : rwaiters' = [rwaiters EXCEPT ![f] = @ \cup {c}]
              \/ rwaiters' = [rwaiters EXCEPT ![fut[c]] = @ \ {c}]
          BY <3>1 DEF Result, ResultReturns, ResultTimeout
        <5> QED
          BY <5>1, <5>2
      <4> QED
        BY <3>1, <4>1, <4>2
        DEF Result, ResultReturns, ResultTimeout, Locals, Place, CbInv, TypeOK, pool, hist
    <3>2. CASE (\E wait \in BOOLEAN : Shutdown(c, wait)) \/ NotifyAll(c) \/ Join(c)
      <4>1. Locals'
        BY <1>0, <3>2, GoLocals DEF Shutdown, NotifyAll, Join, Place
      <4>2. shutdown' \in BOOLEAN /\ qwaiters' \in Seq(Worker) /\ closed' \in BOOLEAN
        <5>1. shutdown \in BOOLEAN /\ qwaiters \in Seq(Worker) /\ closed \in BOOLEAN
          BY DEF CbInv, TypeOK
        <5>2. qwaiters' = qwaiters \/ qwaiters' = <<>>
          BY <3>2 DEF Shutdown, NotifyAll, Join, pool
        <5>3. shutdown' \in {shutdown, TRUE} /\ closed' \in {closed, TRUE}
          BY <3>2 DEF Shutdown, NotifyAll, Join, pool, hist
        <5>4. shutdown' \in BOOLEAN /\ closed' \in BOOLEAN
          BY <5>1, <5>3, Zenon
        <5>5. qwaiters' \in Seq(Worker)
          BY <5>1, <5>2, EmptySeq
        <5> QED
          BY <5>4, <5>5
      <4> QED
        BY <3>2, <4>1, <4>2
        DEF Shutdown, NotifyAll, Join, Locals, Place, CbInv, TypeOK, pool, hist
    <3> QED
      BY <1>0, <1>6, <3>1, <3>2
  <2>3. Held'
    BY <1>0, <1>6 DEF Result, Shutdown, ResultReturns, ResultTimeout, NotifyAll, Join, Goto,
                      Return, With, CbInv, Held, TypeOK, Actor
  <2>4. Begun'
    BY <1>0, <2>1, OthersBegun
  <2> QED
    BY <1>0, <2>1, <2>2, <2>3, <2>4, QuietCb DEF CbInv
<1> QED
  BY <1>0, <1>1, <1>2, <1>3, <1>4, <1>5, <1>6 DEF Calls, ClientStep

\* The steps of a worker.
LEMMA WorkerCb ==
  ASSUME CbInv, Ran', NEW w \in Worker, WorkerStep(w)
  PROVE  CbInv'
<1>0. w \in Actor /\ w \in Worker /\ w \notin Client /\ Worker \subseteq Actor
  BY PoolAssumption DEF Actor
<1>1. CASE WorkerSets(w) /\ state[fut[w]] = "PENDING"
  <2>1. /\ pc[w] \in {"set_result", "set_exception"} /\ End(w, fut[w], "FINISHED")
        /\ fut[w] \in Future /\ state[fut[w]] = "PENDING" /\ UNCHANGED <<does, cbs, pool, hist>>
    BY <1>0, <1>1 DEF WorkerSets, CbInv, Held
  <2>2. (InTurn /\ OnTime)'
    BY <1>0, <2>1, EndCb DEF Ended, hist
  <2>3. TypeOK'
    BY <1>0, <2>1 DEF End, SetState, With, CbInv, TypeOK, Ended, pool, hist
  <2>4. Held'
    BY <1>0, <2>1 DEF End, With, CbInv, Held, TypeOK, Actor
  <2>5. Begun'
    BY <1>0, <2>1, OthersBegun DEF End, SetState, With, CbInv, TypeOK
  <2> QED
    BY <1>0, <2>2, <2>3, <2>4, <2>5 DEF CbInv
<1>2. CASE Run(w)
  <2> DEFINE f == fut[w]
  <2>1. f \in Future /\ pc[w] = "run" /\ UNCHANGED <<does, cbs, pool, called, cut, closed>>
    BY <1>0, <1>2 DEF Run, CbInv, Held
  <2>2. \/ /\ state[f] = "CANCELLED"
           /\ state' = [state EXCEPT ![f] = "CANCELLED_AND_NOTIFIED"]
           /\ rwaiters' = [rwaiters EXCEPT ![f] = {}]
           /\ With(w, "check", NoFuture, 0, FALSE)
        \/ /\ state[f] = "PENDING" /\ state' = [state EXCEPT ![f] = "RUNNING"]
           /\ UNCHANGED rwaiters /\ Goto(w, "fn")
        \/ UNCHANGED <<state, rwaiters>> /\ With(w, "dead", NoFuture, 0, FALSE)
    BY <1>0, <1>2 DEF Run, SetState, Return
  <2>3. Quiet(w)
    BY <1>0, <2>1, <2>2 DEF Quiet, Goto, With, CbInv, TypeOK, Ended
  <2>4. ran' \in [Future -> 0..1]
    <3>1. ran' \in [Future -> {0, 1}]
      BY DEF Ran
    <3> QED
      BY <3>1
  <2>5. TypeOK'
    <3>1. Locals'
      BY <1>0, <2>2, GoLocals DEF Place
    <3>2. /\ state' \in [Future -> Ended \cup {"none", "PENDING", "RUNNING"}]
          /\ rwaiters' \in [Future -> SUBSET Client]
      BY <1>0, <2>1, <2>2 DEF CbInv, TypeOK, Ended
    <3> QED
      BY <1>0, <2>1, <2>4, <3>1, <3>2 DEF Locals, Place, CbInv, TypeOK, pool
  <2>6. Held'
    BY <1>0, <2>1, <2>2 DEF Goto, With, CbInv, Held, TypeOK, Actor
  <2>7. Begun'
    BY <1>0, <2>1, <2>2, OthersBegun DEF Goto, With, CbInv, TypeOK
  <2> QED
    BY <1>0, <2>3, <2>5, <2>6, <2>7, QuietCb DEF CbInv
<1>3. CASE \/ Initializer(w) \/ WorkerWaits(w) \/ WorkerWakes(w) \/ WorkerLeaves(w)
           \/ WorkerTakes(w) \/ Fn(w)
           \/ WorkerSets(w) /\ state[fut[w]] # "PENDING"
  <2>1. /\ UNCHANGED <<state, cbs, called, cut>> /\ Quiet(w)
        /\ \A v \in Worker : pc'[v] = "unborn" <=> pc[v] = "unborn"
    BY <1>0, <1>3
    DEF Initializer, WorkerWaits, WorkerWakes, WorkerLeaves, WorkerTakes, Fn, WorkerSets, Goto,
        With, Quiet, pool, hist, CbInv, TypeOK
  <2>2. TypeOK'
    <3>1. work_queue # <<>> => Head(work_queue) \in Future
      BY DEF CbInv, TypeOK, Future
    <3>2. Locals'
      BY <1>0, <1>3, <3>1, GoLocals
      DEF Initializer, WorkerWaits, WorkerWakes, WorkerLeaves, WorkerTakes, Fn, WorkerSets, Place
    <3>3. work_queue' \in Seq(Work) /\ qwaiters' \in Seq(Worker)
      <4>1. work_queue \in Seq(Work) /\ qwaiters \in Seq(Worker)
        BY DEF CbInv, TypeOK
      <4>2. \/ UNCHANGED <<work_queue, qwaiters>>
            \/ work_queue # <<>> /\ work_queue' = Tail(work_queue) /\ UNCHANGED qwaiters
            \/ qwaiters' = Append(qwaiters, w) /\ UNCHANGED work_queue
        BY <1>3 DEF Initializer, WorkerWaits, WorkerWakes, WorkerLeaves, WorkerTakes, Fn,
                    WorkerSets, pool
      <4>3. /\ work_queue # <<>> => Tail(work_queue) \in Seq(Work)
            /\ Append(qwaiters, w) \in Seq(Worker)
        BY <4>1
      <4> QED
        BY <4>1, <4>2, <4>3
    <3>4. UNCHANGED <<state, cbs, rwaiters, threads, shutdown, ran, called, cut, closed>>
      BY <1>3
      DEF Initializer, WorkerWaits, WorkerWakes, WorkerLeaves, WorkerTakes, Fn, WorkerSets, pool, hist
    <3> QED
      BY <3>2, <3>3, <3>4 DEF Locals, Place, CbInv, TypeOK
  <2>3. Held'
    <3>1. work_queue # <<>> => Head(work_queue) \in Future
      BY DEF CbInv, TypeOK, Future
    <3>2. \/ \E l \in {"check", "dead", "asleep"} : Goto(w, l)
          \/ work_queue # <<>> /\ With(w, "run", Head(work_queue), 0, FALSE)
          \/ /\ pc[w] \in {"fn", "set_result"}
             /\ \E l \in {"set_result", "set_exception"} : Goto(w, l)
          \/ With(w, "dead", NoFuture, 0, FALSE)
      BY <1>3 DEF Initializer, WorkerWaits, WorkerWakes, WorkerLeaves, WorkerTakes, Fn, WorkerSets
    <3> QED
      BY <1>0, <3>1, <3>2 DEF Goto, With, CbInv, TypeOK, Held
  <2>4. Begun'
    BY <1>0, <2>1, OthersBegun
  <2> QED
    BY <1>0, <2>1, <2>2, <2>3, <2>4, QuietCb DEF CbInv
<1> QED
  BY <1>1, <1>2, <1>3 DEF WorkerStep

\* Every step keeps the callbacks in order.
LEMMA SpecCb == Spec => []CbInv
<1>1. CbInv /\ Ran' /\ [Next]_vars => CbInv'
  <2> SUFFICES ASSUME CbInv, Ran', [Next]_vars PROVE CbInv'
    OBVIOUS
  <2>1. CASE UNCHANGED vars
    <3>1. TypeOK' /\ Begun'
      BY <2>1, OthersBegun DEF vars, pool, hist, CbInv, TypeOK
    <3>2. Held' /\ InTurn' /\ OnTime'
      BY <2>1 DEF vars, hist, CbInv, Held, InTurn, OnTime, Calling
    <3> QED
      BY <3>1, <3>2 DEF CbInv
  <2> QED
    BY <2>1, ClientCb, WorkerCb DEF Next
<1> QED
  BY InitCb, SpecRan, <1>1, PTL DEF Spec

\* "Add a callback to be called when the future is done": a callback is never called
\* before, nor twice, and once nobody is calling callbacks any more, each was called,
\* however the calls of cancel(), set_result(), add_done_callback() and
\* remove_done_callback() race, unless one was removed while others were called.
THEOREM PoolCallbacksOnce == Spec => []CallbacksOnce
<1>1. CbInv => CallbacksOnce
  <2> SUFFICES ASSUME CbInv PROVE CallbacksOnce
    OBVIOUS
  <2>1. ASSUME NEW f \in Future, NEW k \in Callback, called[f][k] > 0
        PROVE  state[f] \in Ended
    BY <2>1 DEF CbInv, OnTime
  <2>2. ASSUME NEW f \in Future, NEW k \in ToSet(cbs[f]), state[f] \in Ended,
               f \notin cut \cup Calling
        PROVE  called[f][k] = 1
    BY <2>2 DEF CbInv, OnTime, TypeOK, ToSet
  <2> QED
    BY <2>1, <2>2 DEF CbInv, CallbacksOnce
<1> QED
  BY SpecCb, <1>1, PTL
=============================================================================
