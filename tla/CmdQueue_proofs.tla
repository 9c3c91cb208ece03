--------------------------- MODULE CmdQueue_proofs ---------------------------
(***************************************************************************)
(* Proofs about the command queue: types, the contexts on the callers'     *)
(* stacks, and the wake-ups of the thread, for any number of commands and  *)
(* of starts.                                                              *)
(***************************************************************************)
EXTENDS CmdQueue, SequenceTheorems, TLAPS

\* The shapes of the sequences a step makes.
LEMMA QueueShapes ==
  ASSUME NEW q \in Seq(Cmds), NEW c \in Cmds
  PROVE  /\ Append(q, c) \in Seq(Cmds)
         /\ Append(q, c) # <<>>
         /\ q # <<>> => Head(q) \in Cmds /\ Tail(q) \in Seq(Cmds)
<1>1. Append(q, c) \in Seq(Cmds)
  BY AppendProperties
<1>2. Append(q, c) # <<>>
  BY AppendProperties, EmptySeq
<1>3. q # <<>> => Head(q) \in Cmds /\ Tail(q) \in Seq(Cmds)
  BY HeadTailProperties, EmptySeq
<1>4. QED
  BY <1>1, <1>2, <1>3

LEMMA QueueTail ==
  ASSUME NEW q \in Seq(Cmds), q # <<>>
  PROVE  Head(q) \in Cmds /\ Tail(q) \in Seq(Cmds)
BY HeadTailProperties, EmptySeq

\* TypeOK in two parts, for the two kinds of reasoning its proof needs.
Switches ==
  /\ running \in BOOLEAN /\ stopReq \in BOOLEAN /\ cannotRun \in BOOLEAN
  /\ bup \in BOOLEAN /\ removing \in BOOLEAN

Places ==
  /\ queue \in Seq(Cmds) /\ cmdSema \in Nat /\ termSema \in Nat
  /\ mutex \in Threads \union {0}
  /\ pc \in [Threads -> Points]
  /\ work \in [Threads -> Cmds \union {0}]
  /\ \A t \in Threads : pc[t] \in Busy => work[t] \in Cmds
  /\ object \in [Cmds -> {"none", "filtered", "queued", "taken", "freed"}]
  /\ sctx \in [Cmds -> BOOLEAN] /\ status \in [Cmds -> {"submitted", "done"}]
  /\ caller \in [Cmds -> {"none", "filtered", "posted", "waiting", "woken", "returned"}]
  /\ ctl \in {"idle", "opening", "stop1", "join1", "unload", "stop2", "join2", "flag"}
  /\ starts \in 0 .. MaxStarts

LEMMA TypeParts == TypeOK <=> Switches /\ Places
BY DEF TypeOK, Switches, Places

LEMMA TypeInit == Init => TypeOK
<1> SUFFICES ASSUME Init PROVE Switches /\ Places
  BY TypeParts
<1>1. Switches
  BY Zenon DEF Init, Switches
<1>2. <<>> \in Seq(Cmds) /\ 0 \in 0 .. MaxStarts
  BY CmdAssumption, EmptySeq
<1>3. Places
  BY <1>2, CmdAssumption DEF Init, Places, Points, Busy
<1>4. QED
  BY <1>1, <1>3

LEMMA SwitchesNext == Switches /\ [Next]_vars => Switches'
<1> SUFFICES ASSUME Switches, [Next]_vars PROVE Switches'
  OBVIOUS
<1> USE DEF Switches, flags, control
<1>1. ASSUME NEW c \in Cmds, Caller(c) PROVE Switches'
  BY <1>1, Zenon DEF Caller, Enqueue, Up, Wake, Leave
<1>2. ASSUME NEW c \in Cmds, NEW hw \in BOOLEAN, Submit(c, hw) PROVE Switches'
  BY <1>2, Zenon DEF Submit
<1>3. ASSUME NEW t \in Threads, Thread(t) PROVE Switches'
  BY <1>3, Zenon DEF Thread, ThreadStarts, TakeToken, Check, NextLeaves, Dequeue, Handle, Post,
     Signal, Clear, Free, Exit, Drain, Terminate
<1>4. CASE OpenFails \/ Open \/ OpenDone \/ UrbError \/ Suspend \/ Remove
  BY <1>4, Zenon DEF OpenFails, Open, OpenDone, UrbError, Suspend, Remove
<1>5. CASE Stopping
  BY <1>5, Zenon DEF Stopping, Stop, Join, Unload, Unloaded
<1>6. CASE UNCHANGED vars
  BY <1>6, Zenon DEF vars
<1>7. QED
  BY <1>1, <1>2, <1>3, <1>4, <1>5, <1>6 DEF Next

LEMMA PlacesNext == TypeOK /\ [Next]_vars => Places'
<1> SUFFICES ASSUME Places, [Next]_vars PROVE Places'
  BY TypeParts
<1> USE CmdAssumption
<1>1. ASSUME NEW c \in Cmds, Caller(c) PROVE Places'
  <2>1. CASE Enqueue(c)
    BY <2>1, QueueShapes DEF Places, Enqueue, flags, threads, results, control
  <2>2. CASE Up(c)
    BY <2>2 DEF Places, Up, flags, threads, results, control
  <2>3. CASE Wake(c)
    BY <2>3 DEF Places, Wake, flags, threads, results, control
  <2>4. CASE Leave(c)
    BY <2>4 DEF Places, Leave, flags, threads, control
  <2>5. QED
    BY <1>1, <2>1, <2>2, <2>3, <2>4 DEF Caller
<1>2. ASSUME NEW c \in Cmds, NEW hw \in BOOLEAN, Submit(c, hw) PROVE Places'
  <2>1. (c \in Waiting) \in BOOLEAN
    OBVIOUS
  <2>2. sctx' \in [Cmds -> BOOLEAN]
    BY <1>2, <2>1, Zenon DEF Places, Submit
  <2>3. QED
    BY <1>2, <2>2 DEF Places, Submit, flags, threads, control
<1>3. ASSUME NEW t \in Threads, Thread(t) PROVE Places'
  <2> USE DEF flags, results, control, Goto, Points, Busy
  <2>1. CASE ThreadStarts(t)
    BY <2>1 DEF Places, ThreadStarts
  <2>2. CASE TakeToken(t)
    BY <2>2 DEF Places, TakeToken
  <2>3. CASE Check(t)
    BY <2>3 DEF Places, Check
  <2>4. CASE NextLeaves(t)
    BY <2>4 DEF Places, NextLeaves
  <2>5. CASE Dequeue(t)
    BY <2>5, QueueTail DEF Places, Dequeue
  <2>6. CASE Handle(t)
    BY <2>6 DEF Places, Handle
  <2>7. CASE Post(t)
    BY <2>7 DEF Places, Post
  <2>8. CASE Signal(t)
    BY <2>8 DEF Places, Signal
  <2>9. CASE Clear(t)
    BY <2>9 DEF Places, Clear
  <2>10. CASE Free(t)
    BY <2>10 DEF Places, Free
  <2>11. CASE Exit(t)
    BY <2>11 DEF Places, Exit
  <2>12. CASE Drain(t)
    BY <2>12, QueueTail DEF Places, Drain, threads
  <2>13. CASE Terminate(t)
    BY <2>13 DEF Places, Terminate
  <2>14. QED
    BY <1>3, <2>1, <2>2, <2>3, <2>4, <2>5, <2>6, <2>7, <2>8, <2>9, <2>10, <2>11, <2>12, <2>13
       DEF Thread
<1>4. CASE OpenFails \/ UrbError \/ Suspend \/ Remove
  BY <1>4 DEF Places, results, OpenFails, UrbError, Suspend, Remove, Step, flags, threads
<1>5. CASE Open
  BY <1>5 DEF Places, results, Open, Step, flags, Threads, Points, Busy
<1>6. CASE OpenDone
  BY <1>6 DEF Places, results, OpenDone, Step, threads
<1>7. CASE Stopping
  <2>1. CASE Stop("stop1", "join1", "unload") \/ Stop("stop2", "join2", "flag")
    BY <2>1 DEF Places, results, Stop, Step, threads
  <2>2. CASE Join("join1", "unload") \/ Join("join2", "flag")
    BY <2>2 DEF Places, results, Join, Step, threads
  <2>3. CASE Unload \/ Unloaded
    BY <2>3 DEF Places, results, Unload, Unloaded, Step, flags, threads
  <2>4. QED
    BY <1>7, <2>1, <2>2, <2>3 DEF Stopping
<1>8. CASE UNCHANGED vars
  BY <1>8 DEF Places, results, vars
<1>9. QED
  BY <1>1, <1>2, <1>3, <1>4, <1>5, <1>6, <1>7, <1>8 DEF Next

LEMMA TypeNext == TypeOK /\ [Next]_vars => TypeOK'
<1> SUFFICES ASSUME TypeOK, [Next]_vars PROVE TypeOK'
  OBVIOUS
<1>1. Switches' /\ Places'
  BY SwitchesNext, PlacesNext, TypeParts
<1>2. TypeOK' <=> Switches' /\ Places'
  BY TypeParts, PTL
<1>3. QED
  BY <1>1, <1>2

\* Every variable keeps its type: in particular a thread that handles a command has one, and
\* the count with which starts and stops wait for the thread is never taken below zero.
THEOREM TypeInvariant == Spec => []TypeOK
<1>1. Init => TypeOK
  BY TypeInit
<1>2. TypeOK /\ [Next]_vars => TypeOK'
  BY TypeNext
<1>3. QED
  BY <1>1, <1>2, PTL DEF Spec

\* A thread that has not been started does nothing.
NotYetStarted == \A t \in Threads : t > starts => pc[t] = "none"

LEMMA NotYetInit == Init => NotYetStarted
BY DEF Init, NotYetStarted

LEMMA NotYetNext == TypeOK /\ NotYetStarted /\ [Next]_vars => NotYetStarted'
<1> SUFFICES ASSUME TypeOK, NotYetStarted, [Next]_vars PROVE NotYetStarted'
  OBVIOUS
<1> USE DEF NotYetStarted
<1>1. ASSUME NEW c \in Cmds, Caller(c) PROVE UNCHANGED <<pc, starts>>
  BY <1>1, Zenon DEF Caller, Enqueue, Up, Wake, Leave, threads, control
<1>2. ASSUME NEW c \in Cmds, NEW hw \in BOOLEAN, Submit(c, hw) PROVE UNCHANGED <<pc, starts>>
  BY <1>2, Zenon DEF Submit, threads, control
<1>3. ASSUME NEW t \in Threads, Thread(t) PROVE NotYetStarted'
  <2>1. UNCHANGED starts
    BY <1>3, Zenon DEF Thread, ThreadStarts, TakeToken, Check, NextLeaves, Dequeue, Handle,
       Post, Signal, Clear, Free, Exit, Drain, Terminate, control
  <2>2. \A u \in Threads : u # t => pc'[u] = pc[u]
    BY <1>3 DEF TypeOK, Thread, ThreadStarts, TakeToken, Check, NextLeaves, Dequeue, Handle,
       Post, Signal, Clear, Free, Exit, Drain, Terminate, Goto, threads
  <2>3. pc[t] # "none"
    BY <1>3 DEF Thread, ThreadStarts, TakeToken, Check, NextLeaves, Dequeue, Handle, Post,
       Signal, Clear, Free, Exit, Drain, Terminate, Goto
  <2>4. QED
    BY <2>1, <2>2, <2>3
<1>4. CASE OpenFails \/ UrbError \/ Suspend \/ Remove \/ OpenDone \/ Stopping
  BY <1>4, Zenon DEF OpenFails, UrbError, Suspend, Remove, OpenDone, Stopping, Stop, Join,
     Unload, Unloaded, threads
<1>5. CASE Open
  <2>1. starts' = starts + 1 /\ pc' = [pc EXCEPT ![starts + 1] = "starting"]
    BY <1>5 DEF Open
  <2>2. QED
    BY <2>1, CmdAssumption DEF TypeOK, Threads
<1>6. CASE UNCHANGED vars
  BY <1>6 DEF vars
<1>7. QED
  BY <1>1, <1>2, <1>3, <1>4, <1>5, <1>6 DEF Next

(***************************************************************************)
(* The contexts.  Whoever writes into a context holds the mutex, and the   *)
(* command still points to it; a pointer that is set belongs to a caller   *)
(* that has not returned; and an answer leaves the pointer set only while  *)
(* the thread is about to clear it.                                        *)
(***************************************************************************)
WriterHolds ==
  \A t \in Threads : pc[t] \in {"signal", "clear"} => mutex = t /\ sctx[work[t]]
PointerIsLive ==
  \A c \in Cmds : sctx[c] => c \in Waiting /\ caller[c] \notin {"none", "returned"}
AnswerIsCleared ==
  \A c \in Cmds : sctx[c] /\ status[c] = "done" =>
    \E t \in Threads : pc[t] = "clear" /\ work[t] = c
FreshIsSubmitted == \A c \in Cmds : caller[c] = "none" => status[c] = "submitted"

ContextInv == WriterHolds /\ PointerIsLive /\ AnswerIsCleared /\ FreshIsSubmitted

LEMMA ContextInit == Init => ContextInv
BY DEF Init, ContextInv, WriterHolds, PointerIsLive, AnswerIsCleared, FreshIsSubmitted

LEMMA ContextNext == TypeOK /\ NotYetStarted /\ ContextInv /\ [Next]_vars => ContextInv'
<1> SUFFICES ASSUME TypeOK, NotYetStarted, ContextInv, [Next]_vars PROVE ContextInv'
  OBVIOUS
<1> USE DEF ContextInv, WriterHolds, PointerIsLive, AnswerIsCleared, FreshIsSubmitted, TypeOK,
        Threads
<1>1. ASSUME NEW c \in Cmds, Caller(c) PROVE ContextInv'
  <2> USE DEF flags, threads, results, control
  <2>1. CASE Enqueue(c)
    BY <2>1 DEF Enqueue
  <2>2. CASE Up(c)
    BY <2>2 DEF Up
  <2>3. CASE Wake(c)
    BY <2>3 DEF Wake
  <2>4. CASE Leave(c)
    <3>1. \A d \in Cmds : sctx'[d] => sctx[d] /\ (d = c => status[c] = "done")
      BY <2>4 DEF Leave
    <3>2. ~sctx[c] \/ status[c] # "done"
      BY <2>4 DEF Leave
    <3>3. UNCHANGED <<pc, work, mutex, status>> /\ mutex = 0
      BY <2>4 DEF Leave
    <3>4. caller' = [caller EXCEPT ![c] = "returned"]
      BY <2>4 DEF Leave
    <3>5. \A t \in Threads : pc[t] \notin {"signal", "clear"}
      BY <3>3
    <3>6. QED
      BY <3>1, <3>2, <3>3, <3>4, <3>5
  <2>5. QED
    BY <1>1, <2>1, <2>2, <2>3, <2>4 DEF Caller
<1>2. ASSUME NEW c \in Cmds, NEW hw \in BOOLEAN, Submit(c, hw) PROVE ContextInv'
  <2>1. \A d \in Cmds : d # c => sctx'[d] = sctx[d] /\ caller'[d] = caller[d]
    BY <1>2 DEF Submit
  <2>2. sctx'[c] => c \in Waiting /\ caller'[c] = "filtered"
    BY <1>2 DEF Submit
  <2>3. caller[c] = "none" /\ caller'[c] # "none" /\ UNCHANGED <<pc, work, mutex, status>>
    BY <1>2 DEF Submit, threads
  <2>4. \A t \in Threads : pc[t] \in {"signal", "clear"} => work[t] # c /\ work[t] \in Cmds
    BY <2>3 DEF Busy
  <2>5. WriterHolds'
    BY <2>1, <2>3, <2>4
  <2>6. PointerIsLive' /\ AnswerIsCleared' /\ FreshIsSubmitted'
    BY <2>1, <2>2, <2>3
  <2>7. QED
    BY <2>5, <2>6
<1>3. ASSUME NEW t \in Threads, Thread(t) PROVE ContextInv'
  <2> USE DEF flags, results, threads, control, Goto, Points, Busy
  <2>1. CASE ThreadStarts(t)
    BY <2>1 DEF ThreadStarts
  <2>2. CASE TakeToken(t)
    BY <2>2 DEF TakeToken
  <2>3. CASE Check(t)
    BY <2>3 DEF Check
  <2>4. CASE NextLeaves(t)
    BY <2>4 DEF NextLeaves
  <2>5. CASE Dequeue(t)
    BY <2>5 DEF Dequeue
  <2>6. CASE Handle(t)
    BY <2>6 DEF Handle
  <2>7. CASE Post(t)
    BY <2>7 DEF Post
  <2>8. CASE Signal(t)
    BY <2>8 DEF Signal
  <2>9. CASE Clear(t)
    BY <2>9 DEF Clear
  <2>10. CASE Free(t)
    BY <2>10 DEF Free
  <2>11. CASE Exit(t)
    BY <2>11 DEF Exit
  <2>12. CASE Drain(t)
    BY <2>12 DEF Drain
  <2>13. CASE Terminate(t)
    BY <2>13 DEF Terminate
  <2>14. QED
    BY <1>3, <2>1, <2>2, <2>3, <2>4, <2>5, <2>6, <2>7, <2>8, <2>9, <2>10, <2>11, <2>12, <2>13
       DEF Thread
<1>4. CASE OpenFails \/ UrbError \/ Suspend \/ Remove \/ OpenDone \/ Stopping
  <2>1. UNCHANGED <<pc, work, mutex, sctx, status, caller>>
    BY <1>4, Zenon DEF OpenFails, UrbError, Suspend, Remove, OpenDone, Stopping, Stop, Join,
       Unload, Unloaded, flags, threads, results
  <2>2. QED
    BY <2>1
<1>5. CASE Open
  <2>1. starts + 1 \in Threads /\ pc[starts + 1] = "none"
    BY <1>5, CmdAssumption DEF Open, NotYetStarted
  <2>2. UNCHANGED <<work, mutex, sctx, status, caller>>
    BY <1>5 DEF Open, results
  <2>3. \A t \in Threads : t # starts + 1 => pc'[t] = pc[t]
    BY <1>5 DEF Open
  <2>4. pc'[starts + 1] = "starting"
    BY <1>5, <2>1 DEF Open
  <2>5. QED
    BY <2>1, <2>2, <2>3, <2>4
<1>6. CASE UNCHANGED vars
  BY <1>6 DEF vars
<1>7. QED
  BY <1>1, <1>2, <1>3, <1>4, <1>5, <1>6 DEF Next

\* The thread never writes a result into the context of a caller that has returned
\* (rtw_sctx_done_err and the callers that clear cmdobj->sctx, under sctx_mutex).
THEOREM ContextsAreAlive == Spec => []SctxAlive
<1>1. Init => TypeOK /\ NotYetStarted /\ ContextInv
  BY TypeInit, NotYetInit, ContextInit
<1>2. TypeOK /\ NotYetStarted /\ ContextInv /\ [Next]_vars
        => TypeOK' /\ NotYetStarted' /\ ContextInv'
  BY TypeNext, NotYetNext, ContextNext
<1>3. TypeOK /\ ContextInv => SctxAlive
  BY DEF TypeOK, ContextInv, WriterHolds, PointerIsLive, SctxAlive, Busy
<1>4. QED
  BY <1>1, <1>2, <1>3, PTL DEF Spec

(***************************************************************************)
(* Wake-ups: a queue that is not empty has a token in the semaphore, or a  *)
(* caller about to give one, or a thread that will look at the queue again.*)
(***************************************************************************)
Attended ==
  queue # <<>> =>
    \/ cmdSema > 0
    \/ \E c \in Cmds : caller[c] = "posted"
    \/ \E u \in Threads : pc[u] \in Busy \union {"check", "next", "exit", "drain"}

LEMMA AttendedNext == TypeOK /\ NotYetStarted /\ Attended /\ [Next]_vars => Attended'
<1> SUFFICES ASSUME TypeOK, NotYetStarted, Attended, [Next]_vars PROVE Attended'
  OBVIOUS
<1> USE DEF Attended, TypeOK, Busy
<1>1. ASSUME NEW c \in Cmds, Caller(c) PROVE Attended'
  <2> USE DEF flags, threads, results, control
  <2>1. CASE Enqueue(c)
    BY <2>1 DEF Enqueue
  <2>2. CASE Up(c)
    BY <2>2 DEF Up
  <2>3. CASE Wake(c)
    BY <2>3 DEF Wake
  <2>4. CASE Leave(c)
    BY <2>4 DEF Leave
  <2>5. QED
    BY <1>1, <2>1, <2>2, <2>3, <2>4 DEF Caller
<1>2. ASSUME NEW c \in Cmds, NEW hw \in BOOLEAN, Submit(c, hw) PROVE Attended'
  BY <1>2 DEF Submit, flags, threads, control
<1>3. ASSUME NEW t \in Threads, Thread(t) PROVE Attended'
  <2> USE DEF flags, results, threads, control, Goto
  <2>1. CASE ThreadStarts(t)
    BY <2>1 DEF ThreadStarts
  <2>2. CASE TakeToken(t)
    BY <2>2 DEF TakeToken
  <2>3. CASE Check(t)
    BY <2>3 DEF Check
  <2>4. CASE NextLeaves(t)
    BY <2>4 DEF NextLeaves
  <2>5. CASE Dequeue(t)
    BY <2>5 DEF Dequeue
  <2>6. CASE Handle(t)
    BY <2>6 DEF Handle
  <2>7. CASE Post(t)
    BY <2>7 DEF Post
  <2>8. CASE Signal(t)
    BY <2>8 DEF Signal
  <2>9. CASE Clear(t)
    BY <2>9 DEF Clear
  <2>10. CASE Free(t)
    BY <2>10 DEF Free
  <2>11. CASE Exit(t)
    BY <2>11 DEF Exit
  <2>12. CASE Drain(t)
    BY <2>12 DEF Drain
  <2>13. CASE Terminate(t)
    BY <2>13 DEF Terminate
  <2>14. QED
    BY <1>3, <2>1, <2>2, <2>3, <2>4, <2>5, <2>6, <2>7, <2>8, <2>9, <2>10, <2>11, <2>12, <2>13
       DEF Thread
<1>4. CASE OpenFails \/ UrbError \/ Suspend \/ Remove \/ OpenDone
  BY <1>4 DEF OpenFails, UrbError, Suspend, Remove, OpenDone, flags, threads
<1>5. CASE Stopping
  BY <1>5 DEF Stopping, Stop, Join, Unload, Unloaded, flags, threads
<1>6. CASE Open
  <2>1. starts + 1 \in Threads /\ pc[starts + 1] = "none"
    BY <1>6, CmdAssumption DEF Open, NotYetStarted, Threads
  <2>2. UNCHANGED <<queue, cmdSema, caller>>
    BY <1>6 DEF Open
  <2>3. \A t \in Threads : t # starts + 1 => pc'[t] = pc[t]
    BY <1>6 DEF Open
  <2>4. QED
    BY <2>1, <2>2, <2>3
<1>7. CASE UNCHANGED vars
  BY <1>7 DEF vars
<1>8. QED
  BY <1>1, <1>2, <1>3, <1>4, <1>5, <1>6, <1>7 DEF Next

\* The thread does not sleep over a queue that has commands (rtw_enqueue_cmd adds before it
\* raises the semaphore; rtw_cmd_thread empties the queue before it waits again).
THEOREM NoWakeupIsLost == Spec => []NoLostWakeup
<1>1. Init => TypeOK /\ NotYetStarted /\ Attended
  BY TypeInit, NotYetInit DEF Init, Attended
<1>2. TypeOK /\ NotYetStarted /\ Attended /\ [Next]_vars
        => TypeOK' /\ NotYetStarted' /\ Attended'
  BY TypeNext, NotYetNext, AttendedNext
<1>3. Attended => NoLostWakeup
  BY DEF Attended, NoLostWakeup
<1>4. QED
  BY <1>1, <1>2, <1>3, PTL DEF Spec

=============================================================================
