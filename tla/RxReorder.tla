----------------------------- MODULE RxReorder -----------------------------
(***************************************************************************)
(* The receive reordering buffer of one station and traffic class of the   *)
(* Realtek driver, core/rtw_recv.c, with the block ack negotiation that    *)
(* switches it on and off, core/rtw_mlme_ext.c.                            *)
(*                                                                         *)
(* Four actors share a recv_reorder_ctrl: the receive tasklet (one frame   *)
(* at a time), the timer handler, the command thread that answers an ADDBA *)
(* request, and whoever tears the session down.  The first two take the    *)
(* lock of the pending queue, the last two do not.  A frame is its absolute*)
(* number in the peer's stream; the driver sees that number modulo SeqMod. *)
(***************************************************************************)
EXTENDS Integers, Sequences

CONSTANTS
  SeqMod,    \* sequence numbers are modulo this: 4096
  Half,      \* half of it, what SN_LESS tests: 0x800
  WSize,     \* wsize_b: 64
  GapMax,    \* bound: how far a frame may be ahead of all received before it
  First,     \* the number of the peer's frame before the first one we see
  Last,      \* bound: the last frame of the peer
  MaxAddba   \* bound: ADDBA requests of the peer

ASSUME ReorderAssumption ==
  /\ Half \in Nat \ {0} /\ SeqMod = 2 * Half
  /\ WSize \in Nat \ {0} /\ GapMax \in Nat \ {0}
  /\ 2 * WSize + GapMax <= Half
  /\ First \in Nat /\ Last \in Nat /\ MaxAddba \in Nat

VARIABLES
  agg, top, floor,  \* the peer: aggregating, newest number received of it, oldest it may resend
  delba,            \* a DELBA of the peer is on its way
  addbas,           \* ADDBA requests so far
  enable, indicate, \* preorder_ctrl->enable, ->indicate_seq
  pending,          \* pending_recvframe_queue
  waiting,          \* bReorderWaiting
  timer, fired,     \* reordering_ctrl_timer is armed; its handler has been started
  lock,             \* who holds the lock of the queue
  rx, frame, ahead, \* the tasklet: its point, its frame, and whether that is the newest so far
  cache,            \* prxcache->tid_rxseq
  cmd, accept,      \* add_ba_rsp_hdl: its point, and pparm->status = 0
  stopped,          \* RTW_CANNOT_RUN
  out, cur          \* history: handed up by this session, and still pending of it

peer  == <<agg, top, floor, delba, addbas>>
ctrl  == <<enable, indicate>>
queue == <<pending, waiting, timer, fired, lock>>
task  == <<rx, frame, ahead, cache>>
cmds  == <<cmd, accept>>
hist  == <<out, cur>>
vars  == <<agg, top, floor, delba, addbas, enable, indicate, pending, waiting, timer,
           fired, lock, rx, frame, ahead, cache, cmd, accept, stopped, out, cur>>

\* 0xffff: no multiple of SeqMod, and one more is one.
Uninit == 16 * SeqMod - 1

SeqNum(n) == n % SeqMod
SNLess(a, b) == (a - b) % SeqMod >= Half

\* What a u16 sequence variable of the driver holds.
SeqValues == 0 .. SeqMod - 1 \union {Uninit}

PeerTypes == agg \in BOOLEAN /\ top \in Nat /\ floor \in Nat /\ delba \in BOOLEAN /\ addbas \in Nat
CtrlTypes == enable \in BOOLEAN /\ indicate \in SeqValues
QueueTypes ==
  /\ pending \in Seq(Nat) /\ waiting \in BOOLEAN /\ timer \in BOOLEAN /\ fired \in BOOLEAN
  /\ lock \in {"free", "rx", "timer"}
TaskTypes ==
  /\ rx \in {"idle", "direct", "enter", "loop", "cancel"} /\ frame \in Nat
  /\ ahead \in BOOLEAN /\ cache \in SeqValues
CmdTypes == cmd \in {"idle", "queued", "sent", "reset"} /\ accept \in BOOLEAN /\ stopped \in BOOLEAN
HistTypes == out \in Seq(Nat) /\ cur \in SUBSET Nat
TypeOK == PeerTypes /\ CtrlTypes /\ QueueTypes /\ TaskTypes /\ CmdTypes /\ HistTypes

Init ==
  /\ agg = FALSE /\ top = First /\ floor = First /\ delba = FALSE /\ addbas = 0
  /\ enable = FALSE /\ indicate = Uninit
  /\ pending = <<>> /\ waiting = FALSE /\ timer = FALSE /\ fired = FALSE /\ lock = "free"
  /\ rx = "idle" /\ frame = 0 /\ ahead = FALSE /\ cache = Uninit
  /\ cmd = "idle" /\ accept = FALSE /\ stopped = FALSE
  /\ out = <<>> /\ cur = {}

(***************************************************************************)
(* The peer resends what it has no ack for, within a window of WSize while *)
(* it aggregates and one frame at a time otherwise.  Frames between top    *)
(* and n are lost, or will come later.  The last conjunct is an assumption *)
(* about the peer: it does not send half of the number space while a frame *)
(* is pending.  In a session a frame that far behind has left with the     *)
(* window; what a session has left behind waits for the timer, which frees *)
(* one run of numbers every REORDER_WAIT_TIME.                             *)
(***************************************************************************)
MaySend(n) ==
  /\ n <= top + GapMax /\ n <= Last
  /\ IF agg THEN n >= floor /\ n >= top + 1 - WSize ELSE n >= top
  /\ \A i \in 1 .. Len(pending) : n + 1 - pending[i] < Half

\* The number of the frame goes through recv_decache first; then the reorder
\* control is found disabled (its number taken, the frame handed up) or not.
Receive(n) ==
  /\ rx = "idle" /\ ~stopped /\ MaySend(n)
  /\ cache' = SeqNum(n)
  /\ IF cache = SeqNum(n)
       THEN UNCHANGED <<top, rx, frame, ahead, indicate>>
       ELSE /\ top' = IF n > top THEN n ELSE top
            /\ frame' = n /\ ahead' = (n > top)
            /\ rx' = IF enable THEN "enter" ELSE "direct"
            /\ indicate' = IF enable THEN indicate ELSE SeqNum(n)
  /\ UNCHANGED <<agg, floor, delba, addbas, enable, queue, cmds, stopped, hist>>

\* Mutant: the next number is not reduced.
DirectDoneNoWrap ==
  /\ rx = "direct"
  /\ indicate' = indicate + 1
  /\ rx' = "idle"
  /\ UNCHANGED <<peer, enable, queue, frame, ahead, cache, cmds, stopped, hist>>

\* Back from rtw_recv_indicatepkt: indicate_seq is read again, without the lock.
DirectDone ==
  /\ rx = "direct"
  /\ indicate' = (indicate + 1) % SeqMod
  /\ rx' = "idle"
  /\ UNCHANGED <<peer, enable, queue, frame, ahead, cache, cmds, stopped, hist>>

\* check_indicate_seq.  The end of the window is computed before the window starts.
Started(s) == IF indicate = Uninit THEN s ELSE indicate
TooOldNever(s) == FALSE  \* mutant: the comparison with the start of the window is left out
TooOld(s) == SNLess(s, Started(s))
WinEnd == (indicate + WSize - 1) % SeqMod
Shifted(s) == IF s >= WSize - 1 THEN s + 1 - WSize ELSE SeqMod - 1 - (WSize - (s + 1)) + 1
NextIndicate(s) ==
  IF s = Started(s) THEN (s + 1) % SeqMod
  ELSE IF SNLess(WinEnd, s) THEN Shifted(s) ELSE indicate

\* Mutant: the frame goes to the tail of the list.
PlaceAtTail(s, i) == i = Len(pending) + 1

\* enqueue_reorder_recvframe walks over the frames before s and stops at place i.
Place(s, i) ==
  /\ i \in 1 .. Len(pending) + 1
  /\ \A j \in 1 .. i - 1 : SNLess(SeqNum(pending[j]), s)
  /\ i <= Len(pending) => ~SNLess(SeqNum(pending[i]), s)
IsDuplicate(s, i) == i <= Len(pending) /\ SeqNum(pending[i]) = s
InsertedAt(i, n) == SubSeq(pending, 1, i - 1) \o <<n>> \o SubSeq(pending, i, Len(pending))

DropOld ==
  /\ rx = "enter" /\ lock = "free"
  /\ TooOld(SeqNum(frame))
  /\ rx' = "idle"
  /\ UNCHANGED <<peer, ctrl, queue, frame, ahead, cache, cmds, stopped, hist>>

DropDuplicate ==
  /\ rx = "enter" /\ lock = "free"
  /\ ~TooOld(SeqNum(frame))
  /\ \E i \in 1 .. Len(pending) + 1 : Place(SeqNum(frame), i) /\ IsDuplicate(SeqNum(frame), i)
  /\ indicate' = NextIndicate(SeqNum(frame))
  /\ rx' = "idle"
  /\ UNCHANGED <<peer, enable, queue, frame, ahead, cache, cmds, stopped, hist>>

Enqueue ==
  /\ rx = "enter" /\ lock = "free"
  /\ ~TooOld(SeqNum(frame))
  /\ \E i \in 1 .. Len(pending) + 1 :
       /\ Place(SeqNum(frame), i) /\ ~IsDuplicate(SeqNum(frame), i)
       /\ pending' = InsertedAt(i, frame)
  /\ indicate' = NextIndicate(SeqNum(frame))
  /\ cur' = cur \union {frame}
  /\ rx' = "loop" /\ lock' = "rx"
  /\ UNCHANGED <<peer, enable, waiting, timer, fired, frame, ahead, cache, cmds, stopped, out>>

\* recv_indicatepkts_in_order, one frame of its loop; by the tasklet or by the handler.
HeadReady == pending # <<>> /\ ~SNLess(indicate, SeqNum(Head(pending)))

IndicateHead ==
  /\ lock # "free" /\ HeadReady
  /\ pending' = Tail(pending)
  /\ indicate' = IF indicate = SeqNum(Head(pending)) THEN (indicate + 1) % SeqMod ELSE indicate
  /\ cur' = cur \ {Head(pending)}
  /\ out' = IF Head(pending) \in cur /\ ~stopped THEN Append(out, Head(pending)) ELSE out
  /\ UNCHANGED <<peer, enable, waiting, timer, fired, lock, task, cmds, stopped>>

\* Mutant: the flag is set and the timer is not.
LoopLeavesSomeNoTimer ==
  /\ lock = "rx" /\ ~HeadReady /\ pending # <<>>
  /\ waiting' = TRUE
  /\ lock' = "free" /\ rx' = "idle"
  /\ UNCHANGED <<peer, ctrl, pending, timer, fired, frame, ahead, cache, cmds, stopped, hist>>

\* A frame stays in the buffer: the timer is started unless it is known to run.
LoopLeavesSome ==
  /\ lock = "rx" /\ ~HeadReady /\ pending # <<>>
  /\ waiting' = TRUE
  /\ timer' = (timer \/ ~waiting)
  /\ lock' = "free" /\ rx' = "idle"
  /\ UNCHANGED <<peer, ctrl, pending, fired, frame, ahead, cache, cmds, stopped, hist>>

LoopLeavesNone ==
  /\ lock = "rx" /\ pending = <<>>
  /\ waiting' = FALSE
  /\ lock' = "free" /\ rx' = "cancel"
  /\ UNCHANGED <<peer, ctrl, pending, timer, fired, frame, ahead, cache, cmds, stopped, hist>>

\* _cancel_timer_ex, outside the lock: it waits for a handler that has been started.
Cancel ==
  /\ rx = "cancel" /\ ~fired /\ lock # "timer"
  /\ timer' = FALSE /\ rx' = "idle"
  /\ UNCHANGED <<peer, ctrl, pending, waiting, fired, lock, frame, ahead, cache, cmds, stopped, hist>>

Tasklet == DirectDone \/ DropOld \/ DropDuplicate \/ Enqueue \/ LoopLeavesSome
           \/ LoopLeavesNone \/ Cancel

(***************************************************************************)
(* rtw_reordering_ctrl_timeout_handler.                                    *)
(***************************************************************************)
TimerFires ==
  /\ timer /\ ~fired /\ lock # "timer"
  /\ timer' = FALSE
  /\ fired' = ~stopped
  /\ UNCHANGED <<peer, ctrl, pending, waiting, lock, task, cmds, stopped, hist>>

\* An empty queue counts as a full one: the timer is started again.
TimerFindsNone ==
  /\ fired /\ lock = "free" /\ pending = <<>>
  /\ fired' = FALSE /\ waiting' = FALSE /\ timer' = TRUE
  /\ UNCHANGED <<peer, ctrl, pending, lock, task, cmds, stopped, hist>>

TimerForcesKeepsFlag ==  \* mutant: bReorderWaiting is not cleared
  /\ fired /\ lock = "free" /\ pending # <<>>
  /\ fired' = FALSE /\ lock' = "timer"
  /\ indicate' = SeqNum(Head(pending))
  /\ UNCHANGED <<peer, enable, pending, waiting, timer, task, cmds, stopped, hist>>

TimerForces ==
  /\ fired /\ lock = "free" /\ pending # <<>>
  /\ fired' = FALSE /\ waiting' = FALSE /\ lock' = "timer"
  /\ indicate' = SeqNum(Head(pending))
  /\ UNCHANGED <<peer, enable, pending, timer, task, cmds, stopped, hist>>

TimerDoneNoRearm ==  \* mutant: the handler is content with what it could deliver
  /\ lock = "timer" /\ ~HeadReady
  /\ lock' = "free"
  /\ UNCHANGED <<peer, ctrl, pending, waiting, timer, fired, task, cmds, stopped, hist>>

TimerDone ==
  /\ lock = "timer" /\ ~HeadReady
  /\ timer' = (timer \/ pending # <<>>)
  /\ lock' = "free"
  /\ UNCHANGED <<peer, ctrl, pending, waiting, fired, task, cmds, stopped, hist>>

Handler == TimerFindsNone \/ TimerForces \/ TimerDone

(***************************************************************************)
(* The session: ADDBA request, response, and the two ways it ends.         *)
(***************************************************************************)

\* process_addba_req: at any time, within a session too.  A request that comes while the
\* command thread answers another waits in its queue; here it comes after that, which
\* makes no difference, for a request does nothing but queue its command.
AddbaReq(ok) ==
  /\ ~stopped /\ cmd = "idle" /\ addbas < MaxAddba
  /\ addbas' = addbas + 1
  /\ cmd' = "queued" /\ accept' = ok
  /\ UNCHANGED <<agg, top, floor, delba, ctrl, queue, task, stopped, hist>>

\* issue_addba_rsp_wait_ack: the peer has the answer, or it is lost three times.  What it
\* sent without aggregation before it does not send again.
SendRsp(heard) ==
  /\ cmd = "queued"
  /\ cmd' = "sent"
  /\ agg' = (heard /\ accept)
  /\ floor' = IF agg THEN floor ELSE top
  /\ UNCHANGED <<top, delba, addbas, ctrl, queue, task, accept, stopped, hist>>

\* The command thread does not take the lock.
ResetSeq ==
  /\ cmd = "sent"
  /\ cmd' = "reset"
  /\ indicate' = Uninit
  /\ out' = <<>> /\ cur' = {}
  /\ UNCHANGED <<peer, enable, queue, task, accept, stopped>>

SetEnable ==
  /\ cmd = "reset"
  /\ cmd' = "idle"
  /\ enable' = accept
  /\ out' = <<>> /\ cur' = {}
  /\ UNCHANGED <<peer, indicate, queue, task, accept, stopped>>

PeerStops ==
  /\ agg /\ agg' = FALSE /\ delba' = TRUE
  /\ UNCHANGED <<top, floor, addbas, ctrl, queue, task, cmds, stopped, hist>>

\* OnAction_back, in the tasklet; pending frames stay where they are.
DelbaArrives ==
  /\ delba /\ rx = "idle" /\ ~stopped
  /\ delba' = FALSE /\ enable' = FALSE
  /\ UNCHANGED <<agg, top, floor, addbas, indicate, queue, task, cmds, stopped, hist>>

DelbaLost ==
  /\ delba /\ delba' = FALSE
  /\ UNCHANGED <<agg, top, floor, addbas, ctrl, queue, task, cmds, stopped, hist>>

\* _send_delba_sta_tid as recipient, and rtw_delba_check, in threads of their own.
LocalDelba ==
  /\ enable /\ enable' = FALSE
  /\ UNCHANGED <<peer, indicate, queue, task, cmds, stopped, hist>>

Stop ==
  /\ ~stopped /\ stopped' = TRUE
  /\ UNCHANGED <<peer, ctrl, queue, task, cmds, hist>>

CmdThread == (\E heard \in BOOLEAN : SendRsp(heard)) \/ ResetSeq \/ SetEnable
Teardown == PeerStops \/ DelbaArrives \/ DelbaLost \/ LocalDelba \/ Stop

Next ==
  \/ \E n \in 0 .. Last : Receive(n)
  \/ \E ok \in BOOLEAN : AddbaReq(ok)
  \/ Tasklet \/ IndicateHead \/ TimerFires \/ Handler \/ CmdThread \/ Teardown

Spec == Init /\ [][Next]_vars

\* The kernel runs a scheduled tasklet and an expired timer.
Fairness == WF_vars(Tasklet) /\ SF_vars(IndicateHead) /\ WF_vars(TimerFires) /\ WF_vars(Handler)
FairSpec == Spec /\ Fairness

\* Within a session the frames go up in the order of their numbers, none twice.
Session == INSTANCE OrderedDelivery
ImplementsOrderedDelivery == Session!Spec

\* A frame in the buffer is never forgotten: the timer runs, its handler is
\* about to, or somebody is working on the queue.
NoStall ==
  pending # <<>> => timer \/ fired \/ lock # "free" \/ stopped

\* What the flag bReorderWaiting stands for, while the handler may run.
WaitingMeansTimer == waiting => timer \/ fired \/ stopped

\* The buffer is sorted without wrapping, though only numbers modulo SeqMod are compared.
PendingSorted == \A i, j \in 1 .. Len(pending) : i < j => pending[i] < pending[j]

\* Every frame that enters the buffer leaves it, though frames are missing before it and
\* nothing comes after it.
EveryFrameLeaves ==
  \A n \in First .. Last :
    (\E i \in DOMAIN pending : pending[i] = n)
      ~> ((\A i \in DOMAIN pending : pending[i] # n) \/ stopped)

\* A frame that is newer than all before it is not dropped as an old one.
NewestIsKept == [][DropOld => ~ahead]_vars

=============================================================================
