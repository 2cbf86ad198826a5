---------------------------- MODULE MCThreadPool ---------------------------
(* Which methods the clients call, and which callbacks there are, in the    *)
(* runs of ThreadPool.                                                      *)
EXTENDS ThreadPool

\* One program is about the pool, one about callbacks, one sets the results of futures
\* that it has from submit().
PoolProgram ==
  ({"a"} \X {"submit", "shutdown"}) \cup ({"b"} \X {"result", "cancel"})
CallbackProgram ==
  ({"a"} \X {"cancel", "set_result"}) \cup
  ({"b"} \X {"cancel", "result", "add_done_callback", "remove_done_callback"})
SetProgram == ({"a"} \X {"submit"}) \cup ({"b"} \X {"set_result"})
PoolOrCallbacks == {PoolProgram, CallbackProgram}
AllPrograms == PoolOrCallbacks \cup {SetProgram}

OnPromise == {"p"} \X Callback
============================================================================
