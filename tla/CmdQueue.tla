------------------------------ MODULE CmdQueue ------------------------------
(***************************************************************************)
(* The command queue of the Realtek driver, core/rtw_cmd.c: callers hand   *)
(* commands to one command thread, some of them wait for the result, and   *)
(* opening and unloading the device start and stop the thread.             *)
(*                                                                         *)
(* Between the callers, the threads and the controller there are the lock  *)
(* of the queue (every access is one step), two counting semaphores, the   *)
(* flags cmdthd_running and stop_req, which nobody locks, and the mutex    *)
(* sctx_mutex of the contexts in which callers wait.                       *)
(***************************************************************************)
EXTENDS Naturals, Sequences

CONSTANTS
  Cmds,      \* the command objects, each with a caller of its own
  Waiting,   \* those submitted with RTW_CMDF_WAIT_ACK
  MaxStarts  \* bound: how often the thread is started

ASSUME CmdAssumption == Waiting \subseteq Cmds /\ MaxStarts \in Nat

VARIABLES
  queue, cmdSema,            \* cmd_queue and cmd_queue_sema
  running, stopReq,          \* cmdthd_running, stop_req
  termSema,                  \* terminate_cmdthread_sema
  mutex,                     \* sctx_mutex: the thread that holds it, or 0
  cannotRun,                 \* RTW_CANNOT_RUN: bDriverStopped or bSurpriseRemoved
  pc, work,                  \* per thread: its point, its command
  object,                    \* per command: where the object is
  sctx, status,              \* per command: cmdobj->sctx is set; the status in the context
  caller,                    \* per command: where its caller is
  ctl, bup, removing, starts \* who opens and unloads: its point; the device is up; it is
                             \* going for good; threads started so far

flags   == <<running, stopReq, termSema>>
threads == <<pc, work>>
results == <<sctx, status, mutex>>
control == <<ctl, bup, removing, starts, cannotRun>>
vars    == <<queue, cmdSema, running, stopReq, termSema, mutex, cannotRun, pc, work,
             object, sctx, status, caller, ctl, bup, removing, starts>>

Threads == 1 .. MaxStarts
Points == {"none", "starting", "wait", "check", "next", "work", "post", "signal", "clear",
           "free", "exit", "drain", "ended"}
Idle == {"none", "starting", "ended"}
Busy == {"work", "post", "signal", "clear", "free"}

TypeOK ==
  /\ queue \in Seq(Cmds) /\ cmdSema \in Nat
  /\ running \in BOOLEAN /\ stopReq \in BOOLEAN /\ termSema \in Nat
  /\ mutex \in Threads \union {0} /\ cannotRun \in BOOLEAN
  /\ pc \in [Threads -> Points]
  /\ work \in [Threads -> Cmds \union {0}]
  /\ \A t \in Threads : pc[t] \in Busy => work[t] \in Cmds
  /\ object \in [Cmds -> {"none", "filtered", "queued", "taken", "freed"}]
  /\ sctx \in [Cmds -> BOOLEAN] /\ status \in [Cmds -> {"submitted", "done"}]
  /\ caller \in [Cmds -> {"none", "filtered", "posted", "waiting", "woken", "returned"}]
  /\ ctl \in {"idle", "opening", "stop1", "join1", "unload", "stop2", "join2", "flag"}
  /\ bup \in BOOLEAN /\ removing \in BOOLEAN /\ starts \in 0 .. MaxStarts

Init ==
  /\ queue = <<>> /\ cmdSema = 0
  /\ running = FALSE /\ stopReq = FALSE /\ termSema = 0
  /\ mutex = 0 /\ cannotRun = TRUE
  /\ pc = [t \in Threads |-> "none"] /\ work = [t \in Threads |-> 0]
  /\ object = [c \in Cmds |-> "none"]
  /\ sctx = [c \in Cmds |-> FALSE] /\ status = [c \in Cmds |-> "submitted"]
  /\ caller = [c \in Cmds |-> "none"]
  /\ ctl = "idle" /\ bup = FALSE /\ removing = FALSE /\ starts = 0

(***************************************************************************)
(* Callers: rtw_enqueue_cmd and the commands that wait for their result.   *)
(***************************************************************************)
\* rtw_cmd_filter; hw: the hardware is initialised or the command does without.
FilterPasses(hw) == running /\ hw

\* A context on the caller's stack, the object, and the filter.
Submit(c, hw) ==
  /\ caller[c] = "none"
  /\ IF FilterPasses(hw)
       THEN /\ caller' = [caller EXCEPT ![c] = "filtered"]
            /\ object' = [object EXCEPT ![c] = "filtered"]
            /\ sctx' = [sctx EXCEPT ![c] = c \in Waiting]
       ELSE /\ caller' = [caller EXCEPT ![c] = "returned"]
            /\ object' = [object EXCEPT ![c] = "freed"]
            /\ UNCHANGED sctx
  /\ UNCHANGED <<queue, cmdSema, flags, threads, mutex, status, control>>

\* _rtw_enqueue_cmd: the filter is not asked again under the lock.
Enqueue(c) ==
  /\ caller[c] = "filtered"
  /\ caller' = [caller EXCEPT ![c] = "posted"]
  /\ object' = [object EXCEPT ![c] = "queued"]
  /\ queue' = Append(queue, c)
  /\ UNCHANGED <<cmdSema, flags, threads, results, control>>

Up(c) ==
  /\ caller[c] = "posted"
  /\ cmdSema' = cmdSema + 1
  /\ caller' = [caller EXCEPT ![c] = IF c \in Waiting THEN "waiting" ELSE "returned"]
  /\ UNCHANGED <<queue, flags, threads, object, results, control>>

\* rtw_sctx_wait returns: completed, or after two seconds.
Wake(c) ==
  /\ caller[c] = "waiting"
  /\ caller' = [caller EXCEPT ![c] = "woken"]
  /\ UNCHANGED <<queue, cmdSema, flags, threads, object, results, control>>

\* Mutant of Leave: the caller does not wait for the mutex.
LeaveUnlocked(c) ==
  /\ caller[c] = "woken"
  /\ caller' = [caller EXCEPT ![c] = "returned"]
  /\ sctx' = [sctx EXCEPT ![c] = @ /\ status[c] # "submitted"]
  /\ UNCHANGED <<queue, cmdSema, flags, threads, object, status, mutex, control>>

\* Under sctx_mutex: a command that has not been answered must forget the context,
\* which is gone when the caller returns.
Leave(c) ==
  /\ caller[c] = "woken" /\ mutex = 0
  /\ caller' = [caller EXCEPT ![c] = "returned"]
  /\ sctx' = [sctx EXCEPT ![c] = @ /\ status[c] # "submitted"]
  /\ UNCHANGED <<queue, cmdSema, flags, threads, object, status, mutex, control>>

Caller(c) == Enqueue(c) \/ Up(c) \/ Wake(c) \/ Leave(c)

(***************************************************************************)
(* The command thread, rtw_cmd_thread.                                     *)
(***************************************************************************)
Goto(t, from, to) == pc[t] = from /\ pc' = [pc EXCEPT ![t] = to]

\* Mutant of ThreadStarts: the thread initialises the semaphore of its queue.
ThreadStartsAfresh(t) ==
  /\ Goto(t, "starting", "wait")
  /\ stopReq' = FALSE /\ running' = TRUE /\ termSema' = termSema + 1 /\ cmdSema' = 0
  /\ UNCHANGED <<queue, work, object, results, caller, control>>

ThreadStarts(t) ==
  /\ Goto(t, "starting", "wait")
  /\ stopReq' = FALSE /\ running' = TRUE /\ termSema' = termSema + 1
  /\ UNCHANGED <<queue, cmdSema, work, object, results, caller, control>>

TakeToken(t) ==
  /\ cmdSema > 0 /\ Goto(t, "wait", "check")
  /\ cmdSema' = cmdSema - 1
  /\ UNCHANGED <<queue, flags, work, object, results, caller, control>>

Check(t) ==
  /\ Goto(t, "check", IF cannotRun \/ stopReq THEN "exit"
                      ELSE IF queue = <<>> THEN "wait" ELSE "next")
  /\ UNCHANGED <<queue, cmdSema, flags, work, object, results, caller, control>>

\* At _next: stopped, or nothing left.
NextLeaves(t) ==
  /\ cannotRun \/ queue = <<>>
  /\ Goto(t, "next", IF cannotRun THEN "exit" ELSE "wait")
  /\ UNCHANGED <<queue, cmdSema, flags, work, object, results, caller, control>>

Dequeue(t) ==
  /\ ~cannotRun /\ queue # <<>> /\ Goto(t, "next", "work")
  /\ work' = [work EXCEPT ![t] = Head(queue)]
  /\ object' = [object EXCEPT ![Head(queue)] = "taken"]
  /\ queue' = Tail(queue)
  /\ UNCHANGED <<cmdSema, flags, results, caller, control>>

\* The handler runs, or the filter refuses the command this time.
Handle(t) ==
  /\ Goto(t, "work", "post")
  /\ UNCHANGED <<queue, cmdSema, flags, work, object, results, caller, control>>

\* post_process: the mutex is taken; without a context it is released at once.
Post(t) ==
  /\ mutex = 0
  /\ Goto(t, "post", IF sctx[work[t]] THEN "signal" ELSE "free")
  /\ mutex' = IF sctx[work[t]] THEN t ELSE 0
  /\ UNCHANGED <<queue, cmdSema, flags, work, object, sctx, status, caller, control>>

\* rtw_sctx_done_err writes to the caller's stack and wakes it ...
Signal(t) ==
  /\ Goto(t, "signal", "clear")
  /\ status' = [status EXCEPT ![work[t]] = "done"]
  /\ UNCHANGED <<queue, cmdSema, flags, work, object, sctx, mutex, caller, control>>

\* Mutant of Clear: the mutex is kept.
ClearKeepsMutex(t) ==
  /\ Goto(t, "clear", "free")
  /\ sctx' = [sctx EXCEPT ![work[t]] = FALSE]
  /\ UNCHANGED <<queue, cmdSema, flags, work, object, status, mutex, caller, control>>

\* ... and clears the pointer; then the mutex is released.
Clear(t) ==
  /\ Goto(t, "clear", "free")
  /\ sctx' = [sctx EXCEPT ![work[t]] = FALSE]
  /\ mutex' = 0
  /\ UNCHANGED <<queue, cmdSema, flags, work, object, status, caller, control>>

Free(t) ==
  /\ Goto(t, "free", "next")
  /\ object' = [object EXCEPT ![work[t]] = "freed"]
  /\ UNCHANGED <<queue, cmdSema, flags, work, results, caller, control>>

Exit(t) ==
  /\ Goto(t, "exit", "drain")
  /\ running' = FALSE
  /\ UNCHANGED <<queue, cmdSema, stopReq, termSema, work, object, results, caller, control>>

\* What is left in the queue is freed, and nobody is told.
Drain(t) ==
  /\ pc[t] = "drain" /\ queue # <<>>
  /\ object' = [object EXCEPT ![Head(queue)] = "freed"]
  /\ queue' = Tail(queue)
  /\ UNCHANGED <<cmdSema, flags, threads, results, caller, control>>

Terminate(t) ==
  /\ queue = <<>> /\ Goto(t, "drain", "ended")
  /\ termSema' = termSema + 1
  /\ UNCHANGED <<queue, cmdSema, running, stopReq, work, object, results, caller, control>>

Thread(t) ==
  \/ ThreadStarts(t) \/ TakeToken(t) \/ Check(t) \/ NextLeaves(t) \/ Dequeue(t) \/ Handle(t)
  \/ Post(t) \/ Signal(t) \/ Clear(t) \/ Free(t) \/ Exit(t) \/ Drain(t) \/ Terminate(t)

(***************************************************************************)
(* Who opens and unloads the device: _netdev_open, suspend, removal.       *)
(***************************************************************************)
Step(from, to) == ctl = from /\ ctl' = to

\* The chip or the thread cannot be started: the flags are cleared all the same.
OpenFails ==
  /\ ctl = "idle" /\ ~bup /\ ~removing
  /\ cannotRun' = FALSE
  /\ UNCHANGED <<queue, cmdSema, flags, threads, object, results, caller, ctl, bup, removing,
                 starts>>

Open ==
  /\ ~bup /\ ~removing /\ starts < MaxStarts /\ Step("idle", "opening")
  /\ cannotRun' = FALSE
  /\ starts' = starts + 1
  /\ pc' = [pc EXCEPT ![starts'] = "starting"]
  /\ UNCHANGED <<queue, cmdSema, flags, work, object, results, caller, bup, removing>>

\* Mutant of OpenDone: the start does not wait for the thread.
OpenDoneAtOnce ==
  /\ Step("opening", "idle")
  /\ termSema' = termSema - 1 /\ bup' = TRUE
  /\ UNCHANGED <<queue, cmdSema, running, stopReq, threads, object, results, caller, removing,
                 starts, cannotRun>>

OpenDone ==
  /\ termSema > 0 /\ Step("opening", "idle")
  /\ termSema' = termSema - 1 /\ bup' = TRUE
  /\ UNCHANGED <<queue, cmdSema, running, stopReq, threads, object, results, caller, removing,
                 starts, cannotRun>>

\* A transfer that fails for good marks the device as gone.
UrbError ==
  /\ bup /\ ~cannotRun /\ cannotRun' = TRUE
  /\ UNCHANGED <<queue, cmdSema, flags, threads, object, results, caller, ctl, bup, removing,
                 starts>>

Suspend ==
  /\ bup /\ ~cannotRun /\ ~removing /\ Step("idle", "stop1")
  /\ UNCHANGED <<queue, cmdSema, flags, threads, object, results, caller, bup, removing,
                 starts, cannotRun>>

Remove ==
  /\ ~removing /\ Step("idle", "stop1")
  /\ removing' = TRUE /\ cannotRun' = TRUE
  /\ UNCHANGED <<queue, cmdSema, flags, threads, object, results, caller, bup, starts>>

\* Mutant of Stop: the thread is not woken.
StopAsleep(at, join, next) ==
  /\ Step(at, IF running /\ ~stopReq THEN join ELSE next)
  /\ stopReq' = (running \/ stopReq)
  /\ UNCHANGED <<queue, cmdSema, running, termSema, threads, object, results, caller, bup,
                 removing, starts, cannotRun>>

\* rtw_stop_cmd_thread: asked once directly, once more by rtw_dev_unload.
Stop(at, join, next) ==
  /\ Step(at, IF running /\ ~stopReq THEN join ELSE next)
  /\ stopReq' = (running \/ stopReq)
  /\ cmdSema' = IF running /\ ~stopReq THEN cmdSema + 1 ELSE cmdSema
  /\ UNCHANGED <<queue, running, termSema, threads, object, results, caller, bup, removing,
                 starts, cannotRun>>

Join(at, next) ==
  /\ termSema > 0 /\ Step(at, next)
  /\ termSema' = termSema - 1
  /\ UNCHANGED <<queue, cmdSema, running, stopReq, threads, object, results, caller, bup,
                 removing, starts, cannotRun>>

\* rtw_dev_unload, for a device that is up.
Unload ==
  /\ Step("unload", IF bup THEN "stop2" ELSE "idle")
  /\ cannotRun' = (cannotRun \/ bup)
  /\ UNCHANGED <<queue, cmdSema, flags, threads, object, results, caller, bup, removing, starts>>

\* It looks at cmdthd_running for sixty milliseconds, and goes on in any case.
Unloaded ==
  /\ Step("flag", "idle") /\ bup' = FALSE
  /\ UNCHANGED <<queue, cmdSema, flags, threads, object, results, caller, removing, starts,
                 cannotRun>>

Stopping ==
  \/ Stop("stop1", "join1", "unload") \/ Join("join1", "unload") \/ Unload
  \/ Stop("stop2", "join2", "flag") \/ Join("join2", "flag") \/ Unloaded

Next ==
  \/ \E c \in Cmds : Caller(c) \/ \E hw \in BOOLEAN : Submit(c, hw)
  \/ \E t \in Threads : Thread(t)
  \/ OpenFails \/ Open \/ OpenDone \/ UrbError \/ Suspend \/ Remove \/ Stopping

Spec == Init /\ [][Next]_vars

\* The kernel runs every thread that can run, and command handlers finish.
FairSpec ==
  /\ Spec
  /\ \A c \in Cmds : WF_vars(Caller(c))
  /\ \A t \in Threads : WF_vars(Thread(t))
  /\ WF_vars(OpenDone) /\ WF_vars(Stopping)

(***************************************************************************)
(* Properties.                                                             *)
(***************************************************************************)
\* The thread writes the result into a context only while the caller whose stack holds it
\* has not returned, although the caller may give up after two seconds at any moment.
SctxAlive ==
  \A t \in Threads : pc[t] \in {"signal", "clear"} => caller[work[t]] # "returned"

\* A thread that waits for work is not left asleep over a queue that has some.
NoLostWakeup ==
  \A t \in Threads : pc[t] = "wait" /\ queue # <<>> =>
    \/ cmdSema > 0
    \/ \E c \in Cmds : caller[c] = "posted"
    \/ \E u \in Threads : pc[u] \in Busy \union {"check", "next", "exit", "drain"}

\* Whoever stops the thread gets past the joins: the count it waits for always comes.
StopReturns == ctl \in {"stop1", "join1", "stop2", "join2"} ~> ctl = "idle"

\* A command in the queue is executed or freed, unless no thread is left to do it.
EveryCommandLeaves ==
  \A c \in Cmds : object[c] = "queued" ~>
    (object[c] = "freed" \/ \A t \in Threads : pc[t] \in Idle)

\* After the last thread has freed what was in the queue, nothing is put into it.
DrainedStaysEmpty ==
  (starts > 0 /\ \A t \in 1 .. starts : pc[t] = "ended") => queue = <<>>

=============================================================================
