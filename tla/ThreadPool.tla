----------------------------- MODULE ThreadPool ----------------------------
(***************************************************************************)
(* Future and ThreadPoolExecutor of concurrent/futures/__init__.py: client *)
(* threads that submit, cancel, wait for results, add and remove callbacks *)
(* and shut down, and the workers of the pool.  A step is what a thread    *)
(* does under one lock (Future._condition, _queue_condition); callbacks    *)
(* and functions run under none.  Calls that find nothing to do (cancel()  *)
(* of what runs, result() of what has ended) are not steps.                *)
(***************************************************************************)
EXTENDS Integers, FiniteSets, SequencesExt

CONSTANTS
  Client,      \* the threads of the program
  Worker,      \* the threads that the pool may start, at most one for each submit()
  Work,        \* the futures that submit() makes
  Promise,     \* the futures the program makes
  Callback,    \* functions for add_done_callback()
  Watched,     \* bound: set of <<f, k>>: k may be added to the callbacks of f, once
  Programs,    \* bound: sets of <<c, m>>: the methods m that each client c calls
  MaxWorkers   \* max_workers

ASSUME PoolAssumption ==
  /\ IsFiniteSet(Work) /\ IsFiniteSet(Worker) /\ Cardinality(Worker) >= Cardinality(Work)
  /\ Client \cap Worker = {} /\ Work \cap Promise = {}
  /\ Watched \subseteq ((Work \cup Promise) \X Callback)
  /\ \A p \in Programs : p \subseteq (Client \X {"submit", "cancel", "set_result", "result",
       "add_done_callback", "remove_done_callback", "shutdown"})
  /\ MaxWorkers \in Nat \ {0}

Future == Work \cup Promise
Actor == Client \cup Worker
Ended == {"CANCELLED", "CANCELLED_AND_NOTIFIED", "FINISHED"}
NoFuture == "nofuture"

VARIABLES
  does,        \* the program, one for each behaviour
  state,       \* Future._state; "none" before submit()
  cbs,         \* Future._done_callbacks
  rwaiters,    \* Future._condition: the threads in result() or exception()
  work_queue,  \* _work_queue: the futures of its items
  threads,     \* _threads
  shutdown,    \* _shutdown
  qwaiters,    \* _queue_condition: the workers waiting
  pc,          \* per thread: where in the code it is
  fut,         \* per thread: the future it is about
  idx,         \* per thread: its place in the list of callbacks
  opt,         \* per client: the argument of shutdown(wait)
  ran,         \* history: how often the function of an item was called
  called,      \* history: how often a callback was called
  cut,         \* history: futures with a callback removed while others were called
  closed       \* history: a shutdown(wait=True) has returned

pool == <<work_queue, threads, shutdown, qwaiters>>
hist == <<ran, called, cut, closed>>
vars == <<does, state, cbs, rwaiters, pool, pc, fut, idx, opt, hist>>

Init ==
  /\ does \in Programs
  /\ state = [f \in Future |-> IF f \in Work THEN "none" ELSE "PENDING"]
  /\ cbs = [f \in Future |-> <<>>] /\ rwaiters = [f \in Future |-> {}]
  /\ work_queue = <<>> /\ threads = {} /\ shutdown = FALSE /\ qwaiters = <<>>
  /\ pc = [a \in Actor |-> IF a \in Client THEN "idle" ELSE "unborn"]
  /\ fut = [a \in Actor |-> NoFuture] /\ idx = [a \in Actor |-> 0]
  /\ opt = [c \in Client |-> FALSE]
  /\ ran = [f \in Future |-> 0] /\ called = [f \in Future |-> [k \in Callback |-> 0]]
  /\ cut = {} /\ closed = FALSE

Goto(a, l) == pc' = [pc EXCEPT ![a] = l] /\ UNCHANGED <<fut, idx, opt>>
With(a, l, f, i, o) ==
  /\ pc' = [pc EXCEPT ![a] = l]
  /\ fut' = [fut EXCEPT ![a] = f] /\ idx' = [idx EXCEPT ![a] = i]
  /\ opt' = IF a \in Client THEN [opt EXCEPT ![a] = o] ELSE opt
Return(a) == With(a, IF a \in Client THEN "idle" ELSE "check", NoFuture, 0, FALSE)

----------------------------------------------------------------------------
(* Future                                                                  *)

\* Under _condition: the state, and notify_all().
SetState(f, s) ==
  state' = [state EXCEPT ![f] = s] /\ rwaiters' = [rwaiters EXCEPT ![f] = {}]

\* From the release of _condition on the thread goes through the callbacks.
End(a, f, s) == SetState(f, s) /\ With(a, "invoke", f, 1, FALSE)

Cancel(c, f) ==
  /\ pc[c] = "idle" /\ state[f] = "PENDING"
  /\ End(c, f, "CANCELLED")
  /\ UNCHANGED <<does, cbs, pool, hist>>

\* set_result() or set_exception(), called by the program; nothing stops it from calling
\* them for a future that it has from submit().
SetResult(c, f) ==
  /\ pc[c] = "idle" /\ state[f] = "PENDING"
  /\ End(c, f, "FINISHED")
  /\ UNCHANGED <<does, cbs, pool, hist>>

\* _invoke_callbacks(): the loop goes by the index in the list, without the lock.
Invoke(a) ==
  /\ pc[a] = "invoke"
  /\ IF idx[a] <= Len(cbs[fut[a]])
     THEN /\ called' = [called EXCEPT ![fut[a]][cbs[fut[a]][idx[a]]] = @ + 1]
          /\ idx' = [idx EXCEPT ![a] = @ + 1] /\ UNCHANGED <<pc, fut, opt>>
     ELSE Return(a) /\ UNCHANGED called
  /\ UNCHANGED <<does, state, cbs, rwaiters, pool, ran, cut, closed>>

\* add_done_callback(): kept for later, or called at once.
AddDoneCallback_Always(c, f, k) ==
  /\ pc[c] = "idle" /\ state[f] # "none" /\ called[f][k] = 0 /\ k \notin ToSet(cbs[f])
  /\ cbs' = [cbs EXCEPT ![f] = Append(@, k)] /\ UNCHANGED <<pc, fut, idx, opt, called>>
  /\ UNCHANGED <<does, state, rwaiters, pool, ran, cut, closed>>
AddDoneCallback(c, f, k) ==
  /\ pc[c] = "idle" /\ state[f] # "none" /\ called[f][k] = 0 /\ k \notin ToSet(cbs[f])
  /\ IF state[f] \notin Ended
     THEN cbs' = [cbs EXCEPT ![f] = Append(@, k)] /\ UNCHANGED called
     ELSE called' = [called EXCEPT ![f][k] = @ + 1] /\ UNCHANGED cbs
  /\ UNCHANGED <<does, state, rwaiters, pool, pc, fut, idx, opt, ran, cut, closed>>

RemoveDoneCallback(c, f, k) ==
  /\ pc[c] = "idle" /\ k \in ToSet(cbs[f])
  /\ cbs' = [cbs EXCEPT ![f] = RemoveFirst(@, k)]
  /\ cut' = IF \E a \in Actor : pc[a] = "invoke" /\ fut[a] = f THEN cut \cup {f} ELSE cut
  /\ UNCHANGED <<does, state, rwaiters, pool, pc, fut, idx, opt, ran, called, closed>>

\* result() or exception() of a future that has not ended: wait.  One without a
\* timeout is one that does not time out.
Result(c, f) ==
  /\ pc[c] = "idle" /\ state[f] \in {"PENDING", "RUNNING"}
  /\ rwaiters' = [rwaiters EXCEPT ![f] = @ \cup {c}]
  /\ With(c, "result", f, 0, FALSE)
  /\ UNCHANGED <<does, state, cbs, pool, hist>>

\* Notified, the result is returned or raised; or the time is up.
ResultReturns(c) ==
  /\ pc[c] = "result" /\ c \notin rwaiters[fut[c]]
  /\ Return(c)
  /\ UNCHANGED <<does, state, cbs, rwaiters, pool, hist>>
ResultTimeout(c) ==
  /\ pc[c] = "result" /\ c \in rwaiters[fut[c]]
  /\ rwaiters' = [rwaiters EXCEPT ![fut[c]] = @ \ {c}]
  /\ Return(c)
  /\ UNCHANGED <<does, state, cbs, pool, hist>>

----------------------------------------------------------------------------
(* ThreadPoolExecutor and _WorkItem                                        *)

Alive == {w \in Worker : pc[w] \notin {"unborn", "dead"}}

\* submit() with _adjust_thread_count(), under both locks: forget the threads that
\* died, start one more if there may be more, wake one.
Adjusted_Idle == threads \cap {w \in Alive : pc[w] # "asleep"}
Adjusted == threads \cap Alive

Submit(c, f) ==
  /\ pc[c] = "idle" /\ state[f] = "none" /\ ~shutdown
  /\ state' = [state EXCEPT ![f] = "PENDING"]
  /\ work_queue' = Append(work_queue, f)
  /\ IF Cardinality(Adjusted) < MaxWorkers
     THEN LET w == CHOOSE v \in Worker : pc[v] = "unborn"
          IN  threads' = Adjusted \cup {w} /\ Goto(w, "init")
     ELSE threads' = Adjusted /\ UNCHANGED <<pc, fut, idx, opt>>
  /\ qwaiters' = IF qwaiters = <<>> THEN <<>> ELSE Tail(qwaiters)
  /\ UNCHANGED <<does, cbs, rwaiters, shutdown, hist>>

\* shutdown(): the flag under one lock, the notification under the other, the joins
\* under none.
Shutdown(c, wait) ==
  /\ pc[c] = "idle"
  /\ shutdown' = TRUE
  /\ With(c, "s_notify", NoFuture, 0, wait)
  /\ UNCHANGED <<does, state, cbs, rwaiters, work_queue, threads, qwaiters, hist>>

NotifyAll_One(c) ==
  /\ pc[c] = "s_notify"
  /\ qwaiters' = IF qwaiters = <<>> THEN <<>> ELSE Tail(qwaiters)
  /\ IF opt[c] THEN Goto(c, "s_join") ELSE Return(c)
  /\ UNCHANGED <<does, state, cbs, rwaiters, work_queue, threads, shutdown, hist>>
NotifyAll(c) ==
  /\ pc[c] = "s_notify"
  /\ qwaiters' = <<>>
  /\ IF opt[c] THEN Goto(c, "s_join") ELSE Return(c)
  /\ UNCHANGED <<does, state, cbs, rwaiters, work_queue, threads, shutdown, hist>>

Join(c) ==
  /\ pc[c] = "s_join" /\ threads \cap Alive = {}
  /\ closed' = TRUE
  /\ Return(c)
  /\ UNCHANGED <<does, state, cbs, rwaiters, pool, ran, called, cut>>

\* _worker(): the initializer, which may raise.
Initializer(w) ==
  /\ pc[w] = "init"
  /\ \E l \in {"check", "dead"} : Goto(w, l)
  /\ UNCHANGED <<does, state, cbs, rwaiters, pool, hist>>

\* One turn of its loop under _queue_condition.
WorkerWaits(w) ==
  /\ pc[w] = "check" /\ work_queue = <<>> /\ ~shutdown
  /\ qwaiters' = Append(qwaiters, w)
  /\ Goto(w, "asleep")
  /\ UNCHANGED <<does, state, cbs, rwaiters, work_queue, threads, shutdown, hist>>

WorkerWakes(w) ==
  /\ pc[w] = "asleep" /\ w \notin ToSet(qwaiters)
  /\ Goto(w, "check")
  /\ UNCHANGED <<does, state, cbs, rwaiters, pool, hist>>

WorkerLeaves(w) ==
  /\ pc[w] = "check" /\ shutdown
  /\ Goto(w, "dead")
  /\ UNCHANGED <<does, state, cbs, rwaiters, pool, hist>>

WorkerTakes(w) ==
  /\ pc[w] = "check" /\ work_queue # <<>> /\ ~shutdown
  /\ work_queue' = Tail(work_queue)
  /\ With(w, "run", Head(work_queue), 0, FALSE)
  /\ UNCHANGED <<does, state, cbs, rwaiters, threads, shutdown, qwaiters, hist>>

\* run(): set_running_or_notify_cancel(), then the function.
Run_Unchecked(w) ==
  /\ pc[w] = "run"
  /\ SetState(fut[w], "RUNNING")
  /\ Goto(w, "fn") /\ ran' = [ran EXCEPT ![fut[w]] = @ + 1]
  /\ UNCHANGED <<does, cbs, pool, called, cut, closed>>
Run(w) ==
  /\ pc[w] = "run"
  /\ \/ /\ state[fut[w]] = "CANCELLED"
        /\ SetState(fut[w], "CANCELLED_AND_NOTIFIED")
        /\ Return(w) /\ UNCHANGED ran
     \/ /\ state[fut[w]] = "PENDING"
        /\ state' = [state EXCEPT ![fut[w]] = "RUNNING"] /\ UNCHANGED rwaiters
        /\ Goto(w, "fn") /\ ran' = [ran EXCEPT ![fut[w]] = @ + 1]
     \/ /\ state[fut[w]] \notin {"CANCELLED", "PENDING"}  \* raises: the thread ends
        /\ With(w, "dead", NoFuture, 0, FALSE) /\ UNCHANGED <<state, rwaiters, ran>>
  /\ UNCHANGED <<does, cbs, pool, called, cut, closed>>

\* The function returns, or raises.
Fn(w) ==
  /\ pc[w] = "fn"
  /\ \E l \in {"set_result", "set_exception"} : Goto(w, l)
  /\ UNCHANGED <<does, state, cbs, rwaiters, pool, hist>>

\* set_result() and set_exception() raise InvalidStateError unless the future is
\* PENDING.  The first is inside the try, whose handler calls the second; what that
\* raises leaves run() and _worker(), and the thread ends.
WorkerSets(w) ==
  /\ pc[w] \in {"set_result", "set_exception"}
  /\ IF state[fut[w]] = "PENDING" THEN End(w, fut[w], "FINISHED")
     ELSE /\ IF pc[w] = "set_result" THEN Goto(w, "set_exception")
             ELSE With(w, "dead", NoFuture, 0, FALSE)
          /\ UNCHANGED <<does, state, rwaiters>>
  /\ UNCHANGED <<does, cbs, pool, hist>>

----------------------------------------------------------------------------
ClientStep(c) == Invoke(c) \/ ResultReturns(c) \/ NotifyAll(c) \/ Join(c)

WorkerStep(w) ==
  \/ Initializer(w) \/ WorkerWaits(w) \/ WorkerWakes(w) \/ WorkerLeaves(w)
  \/ WorkerTakes(w) \/ Run(w) \/ Fn(w) \/ WorkerSets(w)

\* What submit() returns is new each time; they are made in a fixed order.
NextWork == CHOOSE f \in Future : state[f] = "none" \/ \A g \in Future : state[g] # "none"

Calls(c) ==
  \/ \E f \in Future :
       \/ <<c, "submit">> \in does /\ f = NextWork /\ Submit(c, f)
       \/ <<c, "cancel">> \in does /\ Cancel(c, f)
       \/ <<c, "set_result">> \in does /\ SetResult(c, f)
       \/ <<c, "result">> \in does /\ Result(c, f)
  \/ \E w \in Watched :
       \/ <<c, "add_done_callback">> \in does /\ AddDoneCallback(c, w[1], w[2])
       \/ <<c, "remove_done_callback">> \in does /\ RemoveDoneCallback(c, w[1], w[2])
  \/ <<c, "shutdown">> \in does /\ \E wait \in BOOLEAN : Shutdown(c, wait)

Next ==
  \/ \E c \in Client : Calls(c) \/ ClientStep(c) \/ ResultTimeout(c)
  \/ \E w \in Worker : WorkerStep(w)

\* Every thread runs, the functions and callbacks it calls included.
Spec ==
  /\ Init /\ [][Next]_vars
  /\ \A c \in Client : WF_vars(ClientStep(c))
  /\ \A w \in Worker : WF_vars(WorkerStep(w))

----------------------------------------------------------------------------
(* Properties.                                                             *)

TypeOK ==
  /\ state \in [Future -> Ended \cup {"none", "PENDING", "RUNNING"}]
  /\ cbs \in [Future -> Seq(Callback)] /\ rwaiters \in [Future -> SUBSET Client]
  /\ work_queue \in Seq(Work) /\ threads \in SUBSET Worker
  /\ shutdown \in BOOLEAN /\ qwaiters \in Seq(Worker)
  /\ pc \in [Actor -> {"idle", "invoke", "result", "s_notify", "s_join", "unborn", "init",
                       "check", "asleep", "run", "fn", "set_result", "set_exception", "dead"}]
  /\ fut \in [Actor -> Future \cup {NoFuture}] /\ idx \in [Actor -> Nat]
  /\ opt \in [Client -> BOOLEAN]
  /\ ran \in [Future -> 0..1] /\ called \in [Future -> [Callback -> 0..1]]
  /\ cut \in SUBSET Future /\ closed \in BOOLEAN

\* "Cancel the future if possible": a future is cancelled or its function runs, never
\* both, however cancel() and the worker race; the function runs once; and what has
\* ended stays as it ended.
OnceOrNever ==
  [][\A f \in Future :
       /\ ran'[f] <= 1
       /\ state'[f] \in {"CANCELLED", "CANCELLED_AND_NOTIFIED"} => ran'[f] = 0
       /\ state[f] = "FINISHED" => state'[f] = "FINISHED"
       /\ state[f] \in Ended \ {"FINISHED"} => state'[f] \in Ended \ {"FINISHED"}]_vars

\* There are no more than max_workers threads at a time, and none when
\* shutdown(wait=True) has returned, whoever submitted before, whoever died, whoever was
\* asleep.
WorkersBounded ==
  /\ Cardinality(Alive) <= MaxWorkers
  /\ closed => Alive = {}

Calling == {fut[a] : a \in {a \in Actor : pc[a] = "invoke"}}

\* "Add a callback to be called when the future is done": once it is and nobody is
\* calling callbacks, each was called once, unless one was removed meanwhile (the
\* loop then skips the next); and none was called before.
CallbacksOnce ==
  /\ TypeOK
  /\ \A f \in Future, k \in Callback :
       /\ called[f][k] > 0 => state[f] \in Ended
       /\ (k \in ToSet(cbs[f]) /\ state[f] \in Ended /\ f \notin cut \cup Calling)
            => called[f][k] = 1

\* shutdown() returns, though the flag is set without the lock that the workers check
\* it under; and result() returns once the future has ended.
CallsReturn ==
  \A c \in Client :
    /\ pc[c] \in {"s_notify", "s_join"} ~> pc[c] = "idle"
    /\ (pc[c] = "result" /\ state[fut[c]] \in Ended) ~> pc[c] = "idle"

\* "Execute the work item": a function that the pool has called leaves its future
\* finished.
WorkEnds == \A f \in Work : (ran[f] > 0) ~> (state[f] = "FINISHED")
============================================================================
