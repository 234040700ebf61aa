---------------------------- MODULE JbrLifecycle ----------------------------
(***************************************************************************)
(* Start and shutdown of the ejdb2 HTTP gateway (src/src/jbr/jbr.c):       *)
(* jbr_start allocates the JBR struct and, in non-blocking mode, spawns    *)
(* a worker running _jbr_start_thread and waits on a two-party barrier     *)
(* that the worker reaches after a failed http_listen or, after a          *)
(* successful one, from the FIO_CALL_PRE_START callback _jbr_on_pre_start. *)
(* In blocking mode the caller runs _jbr_start_thread itself.              *)
(* jbr_shutdown(pjbr) reads *pjbr, compare-and-swaps jbr->terminated from  *)
(* 0 to 1, the winner stops the event loop and joins the worker, and      *)
(* every caller then runs _jbr_release, which frees *pjbr and zeroes it.   *)
(*                                                                         *)
(* Each label is one atomic step of one thread: a read or write of shared  *)
(* memory, a barrier operation, or a call into facil.io.  The JBR struct   *)
(* is tracked as memory (none, live, freed) so that frees and accesses     *)
(* after a free are visible.                                               *)
(***************************************************************************)
EXTENDS Integers, FiniteSets, TLC

CONSTANTS
  Closers,       \* threads that call jbr_shutdown with the published handle
  MaxCalls,      \* bound on jbr_shutdown calls per closer
  CloseBlocking, \* whether closers also shut down a blocking-mode server
  NULL

STARTER == "starter"   \* the thread calling jbr_start
WORKER  == "worker"    \* the thread pthread_create starts
JBR     == "jbr"       \* the one JBR struct
Threads == {STARTER, WORKER} \cup Closers

\* iwrc values: 0, JBR_ERROR_HTTP_LISTEN, IW_ERROR_ALLOC, IW_ERROR_THREADING_ERRNO.
LISTEN_ERR == 1
ALLOC_ERR  == 2
THREAD_ERR == 3
Rcs == {0, LISTEN_ERR, ALLOC_ERR, THREAD_ERR}

VARIABLES
  http,       \* EJDB_HTTP options: enabled, blocking
  pc,         \* pc[t]: the label thread t executes next
  lp,         \* lp[t]: jbr_shutdown's local `jbr = *pjbr`
  lr,         \* lr[t]: _jbr_release's local `jbr = *pjbr`
  ncalls,     \* ncalls[c]: jbr_shutdown calls closer c has made
  handle,     \* *pjbr, the handle jbr_start publishes to its caller
  mem,        \* the JBR struct: "none", "live" or "freed"
  frees,      \* number of free() calls on the JBR struct
  uaf,        \* some thread accessed the JBR struct after it was freed
  terminated, \* jbr->terminated
  rc,         \* jbr->rc
  arrived,    \* threads that have reached start_barrier
  cb,         \* _jbr_on_pre_start is registered as FIO_CALL_PRE_START
  loop,       \* facil.io reactor: "idle", "running", "stopping", "stopped"
  inReq,      \* the reactor is inside a request handler using jbr
  listen,     \* "none", "bound" or "failed"
  joined,     \* the worker thread has been joined
  startRc     \* what jbr_start returns, NULL until it does

vars == <<http, pc, lp, lr, ncalls, handle, mem, frees, uaf, terminated, rc,
          arrived, cb, loop, inReq, listen, joined, startRc>>

\* A step that reads or writes a field of the JBR struct.
Touch == uaf' = (uaf \/ mem = "freed")

\* free(p).
Free(p) ==
  IF p = NULL THEN UNCHANGED <<mem, frees>>
  ELSE mem' = "freed" /\ frees' = frees + 1

Goto(t, l) == pc' = [pc EXCEPT ![t] = l]

\* Where _jbr_start_thread returns to: the worker exits, the blocking-mode
\* caller continues in jbr_start.
StartThreadReturn(t) == IF t = WORKER THEN "exit" ELSE "b_after"

Init ==
  /\ http \in [enabled : BOOLEAN, blocking : BOOLEAN]
  /\ pc = [t \in Threads |-> CASE t = STARTER -> "start"
                               [] t = WORKER  -> "none"
                               [] OTHER       -> "idle"]
  /\ lp = [t \in Threads |-> NULL]
  /\ lr = [t \in Threads |-> NULL]
  /\ ncalls = [c \in Closers |-> 0]
  /\ handle = NULL /\ mem = "none" /\ frees = 0 /\ uaf = FALSE
  /\ terminated = FALSE /\ rc = 0 /\ arrived = {} /\ cb = FALSE
  /\ loop = "idle" /\ inReq = FALSE /\ listen = "none" /\ joined = FALSE
  /\ startRc = NULL

-----------------------------------------------------------------------------
(* jbr_start                                                               *)

\* *pjbr = 0; return if disabled; calloc the JBR (may fail) with
\* terminated = true.
JbrStart ==
  /\ pc[STARTER] = "start"
  /\ handle' = NULL
  /\ \/ /\ ~http.enabled
        /\ Goto(STARTER, "done") /\ startRc' = 0
        /\ UNCHANGED <<mem, terminated>>
     \/ /\ http.enabled
        /\ Goto(STARTER, "done") /\ startRc' = ALLOC_ERR
        /\ UNCHANGED <<mem, terminated>>
     \/ /\ http.enabled
        /\ mem' = "live" /\ terminated' = TRUE /\ UNCHANGED startRc
        /\ Goto(STARTER, IF http.blocking THEN "b_publish" ELSE "spawn")
  /\ UNCHANGED <<http, lp, lr, ncalls, frees, uaf, rc, arrived, cb, loop,
                 inReq, listen, joined>>

\* Non-blocking: pthread_barrier_init and pthread_create, each of which may
\* fail and then free the JBR and return the error.
Spawn ==
  /\ pc[STARTER] = "spawn"
  /\ \/ /\ Free(JBR) /\ startRc' = THREAD_ERR /\ Goto(STARTER, "done")
     \/ /\ pc' = [pc EXCEPT ![STARTER] = "s_wait", ![WORKER] = "listen"]
        /\ UNCHANGED <<mem, frees, startRc>>
  /\ UNCHANGED <<http, lp, lr, ncalls, handle, uaf, terminated, rc, arrived,
                 cb, loop, inReq, listen, joined>>

\* Mutant: *pjbr = jbr stored before waiting on the barrier.
StarterArrivePublishes ==
  /\ pc[STARTER] = "s_wait"
  /\ arrived' = arrived \cup {STARTER} /\ handle' = JBR
  /\ Goto(STARTER, "s_waiting")
  /\ UNCHANGED <<http, lp, lr, ncalls, mem, frees, uaf, terminated, rc,
                 cb, loop, inReq, listen, joined, startRc>>

\* pthread_barrier_wait(&jbr->start_barrier) by the starter: arrive.
StarterArrive ==
  /\ pc[STARTER] = "s_wait"
  /\ arrived' = arrived \cup {STARTER}
  /\ Goto(STARTER, "s_waiting")
  /\ UNCHANGED <<http, lp, lr, ncalls, handle, mem, frees, uaf, terminated, rc,
                 cb, loop, inReq, listen, joined, startRc>>

\* Mutant: jbr_start not checking jbr->rc after the barrier.
StarterPassIgnoresRc ==
  /\ pc[STARTER] = "s_waiting" /\ arrived = {STARTER, WORKER}
  /\ Touch /\ terminated' = FALSE
  /\ handle' = JBR /\ startRc' = 0 /\ Goto(STARTER, "done")
  /\ UNCHANGED <<http, lp, lr, ncalls, mem, frees, rc, arrived, cb, loop,
                 inReq, listen, joined>>

\* Leave the barrier once both arrived, destroy it, terminated = false,
\* read jbr->rc; on error call jbr_shutdown(pjbr) -- *pjbr is still 0 --
\* and return the error, else publish *pjbr = jbr and return 0.
StarterPass ==
  /\ pc[STARTER] = "s_waiting" /\ arrived = {STARTER, WORKER}
  /\ Touch /\ terminated' = FALSE
  /\ IF rc # 0
       THEN /\ startRc' = rc /\ Goto(STARTER, "sd_read") /\ UNCHANGED handle
       ELSE /\ handle' = JBR /\ startRc' = 0 /\ Goto(STARTER, "done")
  /\ UNCHANGED <<http, lp, lr, ncalls, mem, frees, rc, arrived, cb, loop,
                 inReq, listen, joined>>

\* Blocking: *pjbr = jbr before running the server on this thread.
BlockingPublish ==
  /\ pc[STARTER] = "b_publish"
  /\ handle' = JBR /\ Goto(STARTER, "b_unterm")
  /\ UNCHANGED <<http, lp, lr, ncalls, mem, frees, uaf, terminated, rc,
                 arrived, cb, loop, inReq, listen, joined, startRc>>

\* Blocking: jbr->terminated = false, then _jbr_start_thread(jbr).
BlockingUnterminate ==
  /\ pc[STARTER] = "b_unterm"
  /\ Touch /\ terminated' = FALSE /\ Goto(STARTER, "listen")
  /\ UNCHANGED <<http, lp, lr, ncalls, handle, mem, frees, rc, arrived, cb,
                 loop, inReq, listen, joined, startRc>>

\* Blocking, after the server returned: rc = jbr->rc; jbr->terminated =
\* true; then jbr_shutdown(pjbr) and return rc.
BlockingAfter ==
  /\ pc[STARTER] = "b_after"
  /\ Touch /\ terminated' = TRUE /\ startRc' = rc
  /\ Goto(STARTER, "sd_read")
  /\ UNCHANGED <<http, lp, lr, ncalls, handle, mem, frees, rc, arrived, cb,
                 loop, inReq, listen, joined>>

-----------------------------------------------------------------------------
(* _jbr_start_thread, run by the worker or, in blocking mode, the starter. *)

\* Mutant: the listen error stored as the raw errno instead of the iwrc.
ListenRcErrno(t) ==
  /\ pc[t] = "listen"
  /\ Touch
  /\ \/ listen' = "bound" /\ Goto(t, "loop_start") /\ UNCHANGED rc
     \/ listen' = "failed" /\ rc' = 98 /\ Goto(t, "listen_failed")
  /\ UNCHANGED <<http, lp, lr, ncalls, handle, mem, frees, terminated,
                 arrived, cb, loop, inReq, joined, startRc>>

\* http_listen with the options of jbr->http; on failure jbr->rc is set.
Listen(t) ==
  /\ pc[t] = "listen"
  /\ Touch
  /\ \/ listen' = "bound" /\ Goto(t, "loop_start") /\ UNCHANGED rc
     \/ listen' = "failed" /\ rc' = LISTEN_ERR /\ Goto(t, "listen_failed")
  /\ UNCHANGED <<http, lp, lr, ncalls, handle, mem, frees, terminated,
                 arrived, cb, loop, inReq, joined, startRc>>

\* Mutant: the failure path returning without releasing the barrier.
ListenFailedNoBarrier(t) ==
  /\ pc[t] = "listen_failed"
  /\ Touch
  /\ Goto(t, StartThreadReturn(t))
  /\ UNCHANGED <<http, lp, lr, ncalls, handle, mem, frees, terminated, rc,
                 arrived, cb, loop, inReq, listen, joined, startRc>>

\* After a failed listen: in non-blocking mode arrive at the barrier, then
\* return.
ListenFailed(t) ==
  /\ pc[t] = "listen_failed"
  /\ Touch
  /\ IF ~http.blocking
       THEN arrived' = arrived \cup {t} /\ Goto(t, "fail_waiting")
       ELSE UNCHANGED arrived /\ Goto(t, StartThreadReturn(t))
  /\ UNCHANGED <<http, lp, lr, ncalls, handle, mem, frees, terminated, rc,
                 cb, loop, inReq, listen, joined, startRc>>

\* Leave the barrier once both arrived, and return from the thread.
FailPass(t) ==
  /\ pc[t] = "fail_waiting" /\ arrived = {STARTER, WORKER}
  /\ Goto(t, StartThreadReturn(t))
  /\ UNCHANGED <<http, lp, lr, ncalls, handle, mem, frees, uaf, terminated,
                 rc, arrived, cb, loop, inReq, listen, joined, startRc>>

\* fio_state_callback_add(FIO_CALL_PRE_START, ...) and fio_start: the
\* reactor is marked active, then the PRE_START callbacks run.
LoopStart(t) ==
  /\ pc[t] = "loop_start"
  /\ cb' = TRUE /\ loop' = "running"
  /\ Goto(t, "pre_start")
  /\ UNCHANGED <<http, lp, lr, ncalls, handle, mem, frees, uaf, terminated,
                 rc, arrived, inReq, listen, joined, startRc>>

\* The PRE_START callbacks: _jbr_on_pre_start, when still registered,
\* arrives at the barrier in non-blocking mode.
OnPreStart(t) ==
  /\ pc[t] = "pre_start"
  /\ IF cb
       THEN /\ Touch
            /\ IF ~http.blocking
                 THEN arrived' = arrived \cup {t} /\ Goto(t, "pre_waiting")
                 ELSE UNCHANGED arrived /\ Goto(t, "serve")
       ELSE UNCHANGED <<uaf, arrived>> /\ Goto(t, "serve")
  /\ UNCHANGED <<http, lp, lr, ncalls, handle, mem, frees, terminated, rc,
                 cb, loop, inReq, listen, joined, startRc>>

PreStartPass(t) ==
  /\ pc[t] = "pre_waiting" /\ arrived = {STARTER, WORKER}
  /\ Goto(t, "serve")
  /\ UNCHANGED <<http, lp, lr, ncalls, handle, mem, frees, uaf, terminated,
                 rc, arrived, cb, loop, inReq, listen, joined, startRc>>

\* The reactor calls _jbr_on_http_request, which reads req->udata = jbr.
RequestBegin(t) ==
  /\ pc[t] = "serve" /\ loop = "running" /\ ~inReq
  /\ Touch /\ inReq' = TRUE
  /\ UNCHANGED <<http, pc, lp, lr, ncalls, handle, mem, frees, terminated, rc,
                 arrived, cb, loop, listen, joined, startRc>>

\* The handler finishes, using rctx->jbr->db on the way.
RequestEnd(t) ==
  /\ pc[t] = "serve" /\ inReq
  /\ Touch /\ inReq' = FALSE
  /\ UNCHANGED <<http, pc, lp, lr, ncalls, handle, mem, frees, terminated, rc,
                 arrived, cb, loop, listen, joined, startRc>>

\* fio_start returns once fio_stop was called and the handler in progress
\* has finished.
LoopExit(t) ==
  /\ pc[t] = "serve" /\ loop = "stopping" /\ ~inReq
  /\ loop' = "stopped"
  /\ Goto(t, StartThreadReturn(t))
  /\ UNCHANGED <<http, lp, lr, ncalls, handle, mem, frees, uaf, terminated,
                 rc, arrived, cb, inReq, listen, joined, startRc>>

\* facil.io's own SIGINT/SIGTERM handler stops the reactor.
SignalStop ==
  /\ loop = "running"
  /\ loop' = "stopping"
  /\ UNCHANGED <<http, pc, lp, lr, ncalls, handle, mem, frees, uaf,
                 terminated, rc, arrived, cb, inReq, listen, joined, startRc>>

-----------------------------------------------------------------------------
(* jbr_shutdown and _jbr_release                                           *)

\* A closer holding the handle calls jbr_shutdown(pjbr): after a
\* non-blocking jbr_start returned, or any time for a blocking server.
BeginShutdown(c) ==
  /\ pc[c] \in {"idle", "done"} /\ ncalls[c] < MaxCalls
  /\ IF http.blocking THEN CloseBlocking ELSE pc[STARTER] = "done"
  /\ ncalls' = [ncalls EXCEPT ![c] = @ + 1]
  /\ Goto(c, "sd_read")
  /\ UNCHANGED <<http, lp, lr, handle, mem, frees, uaf, terminated, rc,
                 arrived, cb, loop, inReq, listen, joined, startRc>>

\* if (!*pjbr) return 0; jbr = *pjbr.
ShutdownRead(t) ==
  /\ pc[t] = "sd_read"
  /\ IF handle = NULL
       THEN Goto(t, "done") /\ UNCHANGED lp
       ELSE lp' = [lp EXCEPT ![t] = handle] /\ Goto(t, "sd_cas")
  /\ UNCHANGED <<http, lr, ncalls, handle, mem, frees, uaf, terminated, rc,
                 arrived, cb, loop, inReq, listen, joined, startRc>>

\* __sync_bool_compare_and_swap(&jbr->terminated, 0, 1).
ShutdownCas(t) ==
  /\ pc[t] = "sd_cas"
  /\ Touch
  /\ IF ~terminated
       THEN terminated' = TRUE /\ Goto(t, "sd_stop")
       ELSE UNCHANGED terminated /\ Goto(t, "rel_read")
  /\ UNCHANGED <<http, lp, lr, ncalls, handle, mem, frees, rc, arrived, cb,
                 loop, inReq, listen, joined, startRc>>

\* Mutant: the CAS winner not calling fio_stop.
ShutdownStopNoFioStop(t) ==
  /\ pc[t] = "sd_stop"
  /\ Touch /\ cb' = FALSE
  /\ Goto(t, IF ~http.blocking THEN "sd_join" ELSE "rel_read")
  /\ UNCHANGED <<http, lp, lr, ncalls, handle, mem, frees, terminated, rc,
                 arrived, loop, inReq, listen, joined, startRc>>

\* Mutant: the CAS winner not joining the worker thread.
ShutdownStopNoJoin(t) ==
  /\ pc[t] = "sd_stop"
  /\ Touch /\ cb' = FALSE
  /\ loop' = IF loop = "running" THEN "stopping" ELSE loop
  /\ Goto(t, "rel_read")
  /\ UNCHANGED <<http, lp, lr, ncalls, handle, mem, frees, terminated, rc,
                 arrived, inReq, listen, joined, startRc>>

\* The CAS winner: fio_state_callback_remove, fio_stop (which has no effect
\* on a reactor that has not started), then join the worker unless
\* jbr->http->blocking.
ShutdownStop(t) ==
  /\ pc[t] = "sd_stop"
  /\ Touch /\ cb' = FALSE
  /\ loop' = IF loop = "running" THEN "stopping" ELSE loop
  /\ Goto(t, IF ~http.blocking THEN "sd_join" ELSE "rel_read")
  /\ UNCHANGED <<http, lp, lr, ncalls, handle, mem, frees, terminated, rc,
                 arrived, inReq, listen, joined, startRc>>

\* pthread_join(jbr->worker_thread) returns once the worker has exited.
ShutdownJoin(t) ==
  /\ pc[t] = "sd_join" /\ pc[WORKER] = "exit"
  /\ Touch /\ joined' = TRUE
  /\ Goto(t, "rel_read")
  /\ UNCHANGED <<http, lp, lr, ncalls, handle, mem, frees, terminated, rc,
                 arrived, cb, loop, inReq, listen, startRc>>

\* _jbr_release: JBR jbr = *pjbr.
ReleaseRead(t) ==
  /\ pc[t] = "rel_read"
  /\ lr' = [lr EXCEPT ![t] = handle]
  /\ Goto(t, "rel_free")
  /\ UNCHANGED <<http, lp, ncalls, handle, mem, frees, uaf, terminated, rc,
                 arrived, cb, loop, inReq, listen, joined, startRc>>

\* _jbr_release: free(jbr).
ReleaseFree(t) ==
  /\ pc[t] = "rel_free"
  /\ Free(lr[t])
  /\ Goto(t, "rel_zero")
  /\ UNCHANGED <<http, lp, lr, ncalls, handle, uaf, terminated, rc, arrived,
                 cb, loop, inReq, listen, joined, startRc>>

\* Mutant: _jbr_release and jbr_shutdown not zeroing *pjbr.
ReleaseNoZero(t) ==
  /\ pc[t] = "rel_zero"
  /\ Goto(t, "done")
  /\ UNCHANGED <<http, lp, lr, ncalls, handle, mem, frees, uaf, terminated,
                 rc, arrived, cb, loop, inReq, listen, joined, startRc>>

\* _jbr_release: *pjbr = 0; jbr_shutdown: *pjbr = 0; return 0.
ReleaseZero(t) ==
  /\ pc[t] = "rel_zero"
  /\ handle' = NULL
  /\ Goto(t, "done")
  /\ UNCHANGED <<http, lp, lr, ncalls, mem, frees, uaf, terminated, rc,
                 arrived, cb, loop, inReq, listen, joined, startRc>>

-----------------------------------------------------------------------------

\* The steps of thread t's own code, each enabled at its label.
StartThreadStep(t) ==
  \/ Listen(t) \/ ListenFailed(t) \/ FailPass(t) \/ LoopStart(t)
  \/ OnPreStart(t) \/ PreStartPass(t) \/ RequestEnd(t) \/ LoopExit(t)

ShutdownStep(t) ==
  \/ ShutdownRead(t) \/ ShutdownCas(t) \/ ShutdownStop(t) \/ ShutdownJoin(t)
  \/ ReleaseRead(t) \/ ReleaseFree(t) \/ ReleaseZero(t)

StarterStep ==
  \/ JbrStart \/ Spawn \/ StarterArrive \/ StarterPass
  \/ BlockingPublish \/ BlockingUnterminate \/ BlockingAfter
  \/ StartThreadStep(STARTER) \/ ShutdownStep(STARTER)

Step(t) ==
  CASE t = STARTER -> StarterStep
    [] t = WORKER  -> StartThreadStep(WORKER)
    [] OTHER       -> ShutdownStep(t)

\* Nothing is left to run: every thread has returned.
Finished ==
  /\ pc[STARTER] = "done"
  /\ pc[WORKER] \in {"none", "exit"}
  /\ \A c \in Closers : pc[c] \in {"idle", "done"}
  /\ UNCHANGED vars

Next ==
  \/ JbrStart \/ Spawn \/ StarterArrive \/ StarterPass
  \/ BlockingPublish \/ BlockingUnterminate \/ BlockingAfter
  \/ \E t \in {STARTER, WORKER} :
       \/ Listen(t) \/ ListenFailed(t) \/ FailPass(t) \/ LoopStart(t)
       \/ OnPreStart(t) \/ PreStartPass(t) \/ RequestBegin(t)
       \/ RequestEnd(t) \/ LoopExit(t)
  \/ \E t \in {STARTER} \cup Closers :
       \/ ShutdownRead(t) \/ ShutdownCas(t) \/ ShutdownStop(t)
       \/ ShutdownJoin(t) \/ ReleaseRead(t) \/ ReleaseFree(t)
       \/ ReleaseZero(t)
  \/ \E c \in Closers : BeginShutdown(c)
  \/ SignalStop
  \/ Finished

\* Every thread that can run is eventually scheduled; clients, signals and
\* the closers' decision to shut down are not obliged to happen.
Fairness == \A t \in Threads : WF_vars(Step(t))

Spec == Init /\ [][Next]_vars /\ Fairness

-----------------------------------------------------------------------------
(* Properties                                                              *)

Labels == {"start", "spawn", "s_wait", "s_waiting", "b_publish", "b_unterm",
           "b_after", "listen", "listen_failed", "fail_waiting", "loop_start",
           "pre_start", "pre_waiting", "serve", "exit", "none", "idle",
           "sd_read", "sd_cas", "sd_stop", "sd_join", "rel_read", "rel_free",
           "rel_zero", "done"}

TypeOK ==
  /\ http \in [enabled : BOOLEAN, blocking : BOOLEAN]
  /\ pc \in [Threads -> Labels]
  /\ lp \in [Threads -> {NULL, JBR}] /\ lr \in [Threads -> {NULL, JBR}]
  /\ ncalls \in [Closers -> 0..MaxCalls]
  /\ handle \in {NULL, JBR} /\ mem \in {"none", "live", "freed"}
  /\ frees \in Nat /\ uaf \in BOOLEAN /\ terminated \in BOOLEAN
  /\ rc \in Rcs /\ arrived \subseteq {STARTER, WORKER} /\ cb \in BOOLEAN
  /\ loop \in {"idle", "running", "stopping", "stopped"}
  /\ inReq \in BOOLEAN /\ listen \in {"none", "bound", "failed"}
  /\ joined \in BOOLEAN /\ startRc \in Rcs \cup {NULL}

\* jbr_shutdown may be called any number of times on a handle (the CAS on
\* jbr->terminated and the zeroing of *pjbr are there for it), and the JBR
\* struct is freed at most once whatever the interleaving of jbr_start, the
\* worker and the callers of jbr_shutdown.
NoDoubleFree == frees <= 1

\* No thread -- the reactor serving a request, jbr_start after the blocking
\* server returns, or jbr_shutdown reading jbr->terminated or
\* jbr->http->blocking -- touches the JBR struct after _jbr_release or an
\* error path of jbr_start freed it.
NoUseAfterFree == ~uaf

\* A non-blocking jbr_start returns only after the worker either bound the
\* listener and entered the reactor (it returns 0 and publishes the
\* handle), or failed to listen (it returns JBR_ERROR_HTTP_LISTEN and
\* publishes nothing): the barrier makes the listen outcome visible to the
\* caller at the step where jbr_start returns.
StartReturn == pc[STARTER] # "done" /\ pc'[STARTER] = "done"

StartSeesListenOutcome ==
  [][(StartReturn /\ http.enabled /\ ~http.blocking
        /\ startRc' \in {0, LISTEN_ERR})
       => \/ startRc' = 0 /\ listen' = "bound" /\ loop' # "idle"
             /\ handle' = JBR
          \/ startRc' = LISTEN_ERR /\ listen' = "failed" /\ handle' = NULL
     ]_vars

\* A non-blocking jbr_start always returns: whatever http_listen does, the
\* worker reaches the start barrier.
NonBlockingStartReturns ==
  ~http.blocking => <>(pc[STARTER] = "done")

\* Every jbr_shutdown call returns: the CAS winner's fio_stop ends the
\* reactor, so its pthread_join on the worker completes.
ShutdownReturns ==
  \A c \in Closers : (pc[c] = "sd_read") ~> (pc[c] = "done")

-----------------------------------------------------------------------------
(* The embedding's view, mapped onto JbrServer.                            *)

Server == INSTANCE JbrServer
            WITH blocking <- http.blocking,
                 alloc <- mem,
                 srv <- CASE loop = "running"               -> "serving"
                          [] loop \in {"stopping", "stopped"} -> "stopped"
                          [] OTHER                          -> "idle",
                 pub <- handle # NULL /\ mem = "live",
                 busy <- inReq

\* jbr_start, the worker and jbr_shutdown together keep the contract of
\* JbrServer at every step: the handle is published only before a
\* blocking server runs or after a non-blocking one bound its listener
\* (never to a freed struct), requests run only while the reactor runs,
\* and _jbr_release frees the struct only once the reactor no longer runs
\* and no request is in progress.
ImplementsServer == Server!Spec

====
