------------------------------- MODULE SolverJob -------------------------------
(***************************************************************************)
(* One solve of the optimizer, from the admitted request to the freed slot *)
(* (backend/optimizer/process_runner.py, backend/optimizer/cancellation.py *)
(* and build_explore in backend/routers/optimizer.py).  The request thread *)
(* runs the native solver in a child process, reads its events from a pipe *)
(* under a hard deadline, and always stops the child before the slot is    *)
(* given back.  A "job" answers once; an "explore" streams every event to  *)
(* the client, whose connection may stall or break at any time.            *)
(***************************************************************************)
EXTENDS Naturals, Sequences

CONSTANTS Deadline,     \* hard wall-clock limit, in ticks
          MaxPoints,    \* bound on the sampled points of one explore
          PipeCap       \* events that fit into the pipe

ASSUME BoundsType == Deadline \in Nat /\ MaxPoints \in Nat /\ PipeCap \in Nat \ {0}

VARIABLES kind,         \* "job" or "explore"
          pc,           \* the request thread
          child,        \* the solver process
          made,         \* points the child has computed
          finished,     \* the child computed its result
          pipe,         \* events sent and not received
          elapsed,      \* ticks since the child was started
          connected,    \* the client is there
          cancelled,    \* the cancel event of SolveCancellationMiddleware
          points,       \* points received so far
          pending,      \* the event suspended at "yield", or the job's answer
          received,     \* events the client received
          released,     \* the flag of release_slot
          exits         \* calls of slot.__exit__

vars == <<kind, pc, child, made, finished, pipe, elapsed, connected, cancelled,
          points, pending, received, released, exits>>
childVars  == <<child, made, finished>>
clientVars == <<connected, cancelled, received>>
slotVars   == <<released, exits>>

None     == "none"
Finals   == {"result", "error", "timeout", "partial", "cancelled"}
Events   == {"progress", "result", "error", "cut"}   \* "cut": the child died while it wrote
Alive    == {"solving", "closing"}    \* "closing": the pipe is closed, not yet exited

TypeOK ==
  /\ kind \in {"job", "explore"}
  /\ pc \in {"start", "spawn", "poll", "recv", "check", "send",
             "stop", "term", "kill", "finally", "cleanup", "done", "crashed"}
  /\ child \in {None, "dead"} \cup Alive
  /\ made \in 0..MaxPoints
  /\ finished \in BOOLEAN
  /\ pipe \in Seq(Events) /\ Len(pipe) <= PipeCap
  /\ elapsed \in 0..Deadline
  /\ connected \in BOOLEAN /\ cancelled \in BOOLEAN
  /\ points \in 0..MaxPoints
  /\ pending \in {None, "progress"} \cup Finals
  /\ received \in Seq({"progress"} \cup Finals)
  /\ released \in BOOLEAN /\ exits \in Nat

Init ==
  /\ kind \in {"job", "explore"}
  /\ pc = "start" /\ child = None /\ made = 0 /\ finished = FALSE
  /\ pipe = <<>> /\ elapsed = 0
  /\ connected = TRUE /\ cancelled = FALSE
  /\ points = 0 /\ pending = None /\ received = <<>>
  /\ released = FALSE /\ exits = 0

--------------------------------------------------------------------------------
(* The child process: _job_worker and _explore_worker.                     *)

ReaderOpen == pc \notin {"stop", "term", "kill", "finally", "cleanup", "done", "crashed"}

(* _send: a full pipe blocks the child, a broken one is ignored.           *)
ChildSends(e) ==
  IF ReaderOpen
    THEN /\ Len(pipe) < PipeCap
         /\ pipe' = Append(pipe, e)
    ELSE UNCHANGED pipe

ChildProgress ==
  /\ kind = "explore" /\ child = "solving"
  /\ made < MaxPoints
  /\ made' = made + 1
  /\ ChildSends("progress")
  /\ UNCHANGED <<kind, pc, child, finished, elapsed, clientVars, points, pending, slotVars>>

(* The last event, and connection.close() in the finally block.            *)
ChildEnds(e) ==
  /\ child = "solving"
  /\ child' = "closing"
  /\ finished' = (e = "result")
  /\ ChildSends(e)
  /\ UNCHANGED <<kind, pc, made, elapsed, clientVars, points, pending, slotVars>>

(* A normal exit, or a death without a word (out of memory, a native       *)
(* crash, the SIGTERM of _stop_process), possibly in the middle of a write. *)
ChildExits ==
  /\ child \in Alive
  /\ child' = "dead"
  /\ \/ UNCHANGED pipe
     \/ child = "solving" /\ ReaderOpen /\ Len(pipe) < PipeCap /\ pipe' = Append(pipe, "cut")
  /\ UNCHANGED <<kind, pc, made, finished, elapsed, clientVars, points, pending, slotVars>>

EndOfPipe == pipe = <<>> /\ child \in {"closing", "dead"}

--------------------------------------------------------------------------------
(* The request thread.                                                     *)

Goto(to) == pc' = to

(* check_cancelled() before anything is started.  A generator that was     *)
(* never advanced is closed without running a line of its body, its        *)
(* finally block included.                                                 *)
Start ==
  /\ pc = "start"
  /\ IF cancelled
       THEN /\ Goto("finally") \/ (kind = "explore" /\ Goto("cleanup"))
            /\ pending' = "cancelled"
       ELSE Goto("spawn") /\ UNCHANGED pending
  /\ UNCHANGED <<kind, childVars, pipe, elapsed, clientVars, points, slotVars>>

(* process.start(); the deadline counts from here.                         *)
Spawn ==
  /\ pc = "spawn"
  /\ child' = "solving"
  /\ Goto("poll")
  /\ UNCHANGED <<kind, made, finished, pipe, elapsed, clientVars, points, pending,
                 slotVars>>

SpawnFails ==
  /\ pc = "spawn"
  /\ Goto("finally") /\ pending' = "error"
  /\ UNCHANGED <<kind, childVars, pipe, elapsed, clientVars, points, slotVars>>

(* Leaving the loop without a final event: the timeout result of run_job,  *)
(* the synthesised partial result of stream_explore.                       *)
GiveUp ==
  IF kind = "job"
    THEN Goto("stop") /\ pending' = "timeout"
    ELSE Goto("send") /\ pending' = "partial"

DeadlineReached ==
  /\ pc = "poll" /\ elapsed >= Deadline
  /\ GiveUp
  /\ UNCHANGED <<kind, childVars, pipe, elapsed, clientVars, points, slotVars>>

(* check_cancelled() at the top of the loop.                               *)
CancelSeen ==
  /\ pc = "poll" /\ elapsed < Deadline /\ cancelled
  /\ Goto("stop") /\ pending' = "cancelled"
  /\ UNCHANGED <<kind, childVars, pipe, elapsed, clientVars, points, slotVars>>

(* receive.poll(): true for an event and for the end of the pipe.          *)
Poll ==
  /\ pc = "poll" /\ elapsed < Deadline /\ ~cancelled
  /\ Goto(IF pipe # <<>> \/ EndOfPipe THEN "recv" ELSE "check")
  /\ UNCHANGED <<kind, childVars, pipe, elapsed, clientVars, points, pending, slotVars>>

RecvEOF ==
  /\ pc = "recv" /\ pipe = <<>>
  /\ GiveUp
  /\ UNCHANGED <<kind, childVars, pipe, elapsed, clientVars, points, slotVars>>

(* receive.recv() of half a message raises OSError, which only the finally *)
(* block sees.                                                             *)
RecvCut ==
  /\ pc = "recv" /\ pipe # <<>> /\ Head(pipe) = "cut"
  /\ pipe' = Tail(pipe)
  /\ Goto("stop") /\ pending' = "error"
  /\ UNCHANGED <<kind, childVars, elapsed, clientVars, points, slotVars>>

(* Mutants: every event, or no event, adds a point.                        *)
RecvCounting(counted) ==
  /\ pc = "recv" /\ pipe # <<>> /\ Head(pipe) # "cut" /\ ~cancelled
  /\ pipe' = Tail(pipe)
  /\ Goto(IF kind = "job" \/ Head(pipe) = "error" THEN "stop" ELSE "send")
  /\ pending' = Head(pipe)
  /\ points' = IF Head(pipe) \in counted THEN points + 1 ELSE points
  /\ UNCHANGED <<kind, childVars, elapsed, clientVars, slotVars>>
RecvCountsAll == RecvCounting(Events)
RecvCountsNone == RecvCounting({})

(* receive.recv(), check_cancelled() and what the event asks for.          *)
Recv ==
  /\ pc = "recv" /\ pipe # <<>> /\ Head(pipe) # "cut"
  /\ pipe' = Tail(pipe)
  /\ LET e == Head(pipe) IN
       \/ /\ cancelled
          /\ Goto("stop") /\ pending' = "cancelled"
          /\ UNCHANGED points
       \/ /\ ~cancelled /\ (kind = "job" \/ e = "error")
          /\ Goto("stop") /\ pending' = e
          /\ UNCHANGED points
       \/ /\ ~cancelled /\ kind = "explore" /\ e # "error"
          /\ Goto("send") /\ pending' = e
          /\ points' = IF e = "progress" THEN points + 1 ELSE points
  /\ UNCHANGED <<kind, childVars, elapsed, clientVars, slotVars>>

(* Nothing to read: is the child still there?                              *)
AliveCheck ==
  /\ pc = "check"
  /\ IF child = "dead" THEN GiveUp ELSE Goto("poll") /\ UNCHANGED pending
  /\ UNCHANGED <<kind, childVars, pipe, elapsed, clientVars, points, slotVars>>

(* Mutant: the loop goes on after the result.                              *)
SendDoneLoops ==
  /\ pc = "send" /\ connected
  /\ received' = Append(received, pending)
  /\ Goto("poll")
  /\ pending' = None
  /\ UNCHANGED <<kind, childVars, pipe, elapsed, connected, cancelled, points, slotVars>>

(* The generator is suspended at "yield" while the event is sent.          *)
SendDone ==
  /\ pc = "send" /\ connected
  /\ received' = Append(received, pending)
  /\ Goto(IF pending = "progress" THEN "poll" ELSE "stop")
  /\ pending' = None
  /\ UNCHANGED <<kind, childVars, pipe, elapsed, connected, cancelled, points, slotVars>>

(* The client is gone: the server drops the event and the generator is     *)
(* resumed, or the send fails or the response task is cancelled and the    *)
(* shielded close() raises GeneratorExit at the yield.                     *)
SendLost ==
  /\ pc = "send" /\ ~connected
  /\ \/ Goto(IF pending = "progress" THEN "poll" ELSE "stop") /\ pending' = None
     \/ Goto("stop") /\ pending' = "cancelled"
  /\ UNCHANGED <<kind, childVars, pipe, elapsed, clientVars, points, slotVars>>

(* Mutant: the first join is not checked.                                  *)
JoinedAnyway ==
  /\ pc \in {"stop", "term", "kill"}
  /\ Goto("finally")
  /\ pipe' = <<>>
  /\ UNCHANGED <<kind, childVars, elapsed, clientVars, points, pending, slotVars>>

(* _stop_process: join, then terminate() and join, then kill() and join.   *)
(* The reading end is closed before (finally, receive.close()).            *)
Joined ==
  /\ pc \in {"stop", "term", "kill"} /\ child = "dead"
  /\ Goto("finally")
  /\ pipe' = <<>>
  /\ UNCHANGED <<kind, childVars, elapsed, clientVars, points, pending, slotVars>>

(* Mutant: terminate() again instead of kill().                            *)
TerminateAgain ==
  /\ pc = "term" /\ child \in Alive
  /\ UNCHANGED vars

Terminate ==
  /\ pc = "stop" /\ child \in Alive
  /\ Goto("term")
  /\ UNCHANGED <<kind, childVars, pipe, elapsed, clientVars, points, pending, slotVars>>

Kill ==
  /\ pc = "term" /\ child \in Alive
  /\ child' = "dead"
  /\ Goto("kill")
  /\ UNCHANGED <<kind, made, finished, pipe, elapsed, clientVars, points, pending,
                 slotVars>>

(* Mutant: the flag is not looked at.                                      *)
ReleaseSlotAlways == released' = TRUE /\ exits' = exits + 1

(* release_slot: idempotent, it may be called by the generator's finally   *)
(* block and again by the cleanup of SolveStreamingResponse.               *)
ReleaseSlot ==
  /\ released' = TRUE
  /\ exits' = IF released THEN exits ELSE exits + 1

(* The finally block of _stream, or the end of "with solve_slot" of a job, *)
(* whose answer is then sent.                                              *)
Finally ==
  /\ pc = "finally"
  /\ ReleaseSlot
  /\ Goto(IF kind = "explore" THEN "cleanup" ELSE "done")
  /\ received' = IF kind = "job" /\ connected THEN Append(received, pending) ELSE received
  /\ UNCHANGED <<kind, childVars, pipe, elapsed, connected, cancelled, points, pending>>

Cleanup ==
  /\ pc = "cleanup"
  /\ ReleaseSlot
  /\ Goto("done")
  /\ UNCHANGED <<kind, childVars, pipe, elapsed, clientVars, points, pending>>

--------------------------------------------------------------------------------
(* The environment.                                                        *)

(* http.disconnect reaches the monitor of the middleware.                  *)
Disconnect ==
  /\ connected /\ pc \notin {"done", "crashed"}
  /\ connected' = FALSE
  /\ cancelled' = TRUE
  /\ UNCHANGED <<kind, pc, childVars, pipe, elapsed, received, points, pending, slotVars>>

(* The worker process is killed: the kernel frees its permit, the child    *)
(* goes on by itself.                                                      *)
WorkerDies ==
  /\ pc \notin {"done", "crashed"}
  /\ Goto("crashed")
  /\ connected' = FALSE
  /\ pipe' = <<>>
  /\ UNCHANGED <<kind, childVars, elapsed, cancelled, received, points, pending, slotVars>>

Tick ==
  /\ child # None /\ elapsed < Deadline
  /\ elapsed' = elapsed + 1
  /\ UNCHANGED <<kind, pc, childVars, pipe, clientVars, points, pending, slotVars>>

Parent ==
  \/ Start \/ Spawn \/ SpawnFails \/ DeadlineReached \/ CancelSeen \/ Poll \/ RecvEOF \/ RecvCut \/ Recv
  \/ AliveCheck \/ SendLost \/ Joined \/ Terminate \/ Kill \/ Finally \/ Cleanup

Child == ChildProgress \/ (\E e \in {"result", "error"} : ChildEnds(e)) \/ ChildExits

Ended == pc \in {"done", "crashed"} /\ UNCHANGED vars

Next == Parent \/ Child \/ SendDone \/ Disconnect \/ WorkerDies \/ Tick \/ Ended

Spec == Init /\ [][Next]_vars

(* The thread runs and time passes.  The native solver need never end, and *)
(* a client need never read or leave.                                      *)
FairSpec == Spec /\ WF_vars(Parent) /\ WF_vars(Tick)

--------------------------------------------------------------------------------
(* Properties.                                                             *)

(* The slot bounds the number of solver processes: while the worker lives  *)
(* it is given back only when the child is gone ("Wait for worker          *)
(* termination before releasing its slot", cancellation.py), whatever the  *)
(* order of disconnect, deadline, child death and send failure.            *)
ReleasedAfterChildStops == exits > 0 => child \notin Alive

(* Between the generator's finally block and the response's cleanup, each  *)
(* of which may be the only one to run, the slot is left exactly once: a   *)
(* second __exit__ would free a permit some other solve holds by then.     *)
SlotReleasedOnce == exits <= 1 /\ (pc = "done" => exits = 1)

(* A client that stays gets one final event and nothing after it; only an  *)
(* explore whose child failed ends without.                                *)
AnsweredOnce ==
  /\ \A i \in 1..Len(received) : received[i] \in Finals => i = Len(received)
  /\ pc = "done" /\ connected =>
       \/ received # <<>> /\ received[Len(received)] \in Finals
       \/ kind = "explore" /\ pending = "error"

(* The partial result of a timed-out explore is made of the very points    *)
(* that were streamed to the client before.                                *)
PartialMatchesStream ==
  pending = "partial" /\ connected => points = Len(received)

(* Whatever the native solver does, the slot comes back (or the worker     *)
(* died and the kernel took it), unless a client that is connected and     *)
(* never reads stalls the generator at its yield for good.                 *)
SlotComesBack ==
  \/ <>(pc \in {"done", "crashed"})
  \/ <>[](pc = "send" /\ connected)

(* _timeout_result says "The optimizer exceeded its hard wall-clock time   *)
(* limit.": a child that has finished within the limit is not reported     *)
(* so.                                                                     *)
TimeoutIsHonest == pending = "timeout" /\ finished => elapsed >= Deadline

================================================================================
