----------------------------- MODULE SleepQueue -----------------------------
(***************************************************************************)
(* The access point's queues for sleeping stations in the Realtek driver:  *)
(* frames for a station in power save wait in its sleep queue, the TIM in  *)
(* the beacon announces them, and the station fetches them with PS-Poll or *)
(* (U-APSD) with trigger frames.  Broadcasts wait while anyone sleeps and  *)
(* are released by the command thread after the beacon.                    *)
(*                                                                         *)
(* What is done under the lock of the transmit queues is one step.  Three  *)
(* places change a bitmap without it: the command thread clears the bits   *)
(* of the broadcasts and asks silent stations for a sign of life, and the  *)
(* receive tasklet ends a PS-Poll that found no frame.  There each read    *)
(* and each write is a step; a change that somebody else makes between the *)
(* two is undone, and on a second processor it may also be the write that  *)
(* is lost, to a locked statement that had read the bitmap before.  The    *)
(* history variable raced says that something of this kind has happened.   *)
(* (That psta->state is a word of several flags, changed under different   *)
(* locks, is left out: the flags are variables of their own here.)         *)
(*                                                                         *)
(* Of the four access categories two are kept, VO and BE.                  *)
(***************************************************************************)
EXTENDS Integers, Sequences, SequencesExt, FiniteSets

CONSTANTS
  Stas, Bmc,                \* the stations; the station entry of the broadcasts
  Configs,                  \* which categories the stations may ask to be delivery-enabled
  OneCpu,                   \* one processor: bottom halves do not run side by side
  MaxFrames, MaxBroadcasts, \* bounds: frames for stations, frames for all
  MaxCmds,                  \* bound: new work waits while so many commands are queued
  MaxStale                  \* bound: a station sleeps while sleepq_ac_len is no more than
                            \* so much too high

ACs == {"BE", "VO"}

\* The bitmaps have sixteen bits, one of them for the broadcasts.
ASSUME SleepAssumption ==
  /\ IsFiniteSet(Stas) /\ Cardinality(Stas) <= 15 /\ Bmc \notin Stas
  /\ Configs \subseteq [Stas -> SUBSET ACs]
  /\ OneCpu \in BOOLEAN
  /\ MaxFrames \in Nat /\ MaxBroadcasts \in Nat /\ MaxCmds \in Nat
  /\ MaxStale \in Nat

VARIABLES
  delivery,               \* uapsd_vo and uapsd_be of each station, set when it associates
  sleeping, alive,        \* stations with WIFI_SLEEP_STATE, WIFI_STA_ALIVE_CHK_STATE
  dz, tim,                \* sta_dz_bitmap, tim_bitmap
  sleepQ, qlen, acLen,    \* per station: sleep_q, sleepq_len, sleepq_ac_len
  pend,                   \* per station and category: sta_pending
  flight,                 \* per category: the frame between rtw_xmit's two decisions
  direct,                 \* per category: the frame to be sent past the pending queue
  taken,                  \* the frames of the transfer the transmit tasklet is preparing
  given, sent,            \* per station and category: the last frame handed to the driver,
                          \* the last one it has sent (or freed when it came to its turn)
  ie, air,                \* the TIM in the driver's beacon, and in the one on air
  rx,                     \* the receive tasklet in the unlocked end of its work
  cmds, cpc, copy,        \* the command thread: its queue, its point, a bitmap it has read,
  asked, clears,          \* the station it asks for a sign of life, whether a bit changes
  raced,                  \* history: an unlocked change of the bitmaps met another one
  late                    \* history: the stations of which a frame may be overtaken

station == <<delivery, sleeping, alive>>
queues  == <<sleepQ, qlen, acLen, pend>>
path    == <<flight, direct, taken>>
counts  == <<given, sent>>
thread  == <<cpc, copy, asked, clears>>
vars    == <<delivery, sleeping, alive, dz, tim, sleepQ, qlen, acLen, pend, flight, direct,
             taken, given, sent, ie, air, rx, cmds, cpc, copy, asked, clears, raced, late>>

All     == Stas \union {Bmc}
Frames  == [to : All, ac : ACs, no : Nat]
NoFrame == [to |-> Bmc, ac |-> "BE", no |-> 0]
RxIdle  == [at |-> "idle", sta |-> Bmc, seen |-> {}]

\* has_legacy_ac
HasLegacy(s)  == delivery[s] # ACs
Enabled(s, f) == s # Bmc /\ f.ac \in delivery[s]
\* A frame the TIM has to announce: of a legacy category, or any when there is none.
Announced(s, f) == HasLegacy(s) # Enabled(s, f)

\* The frames of one category, and those a trigger delivers to a station.
OfCategory(ac) == {f \in Frames : f.ac = ac}
EnabledOf(s)   == {f \in Frames : Enabled(s, f)}

\* Mutant of LegacyOf: the walk hands frames on without taking them off the queue.
LegacyOfAll(s) == Frames

\* The others, which stay in the sleep queue.
LegacyOf(s) == {f \in Frames : ~Enabled(s, f)}

\* The frames of a queue that belong to a set, in their order: what a walk along one of
\* the driver's lists picks.
Select(q, S) ==
  LET UpTo[i \in 0 .. Len(q)] ==
        IF i = 0 THEN <<>>
        ELSE IF q[i] \in S THEN Append(UpTo[i - 1], q[i]) ELSE UpTo[i - 1]
  IN  UpTo[Len(q)]

TypeOK ==
  /\ delivery \in Configs
  /\ sleeping \subseteq Stas /\ alive \subseteq Stas
  /\ dz \subseteq All /\ tim \subseteq All /\ ie \subseteq All /\ air \subseteq All
  /\ sleepQ \in [All -> Seq(Frames)]
  /\ qlen \in [Stas -> Int] /\ acLen \in [Stas -> Nat]
  /\ pend \in [All -> [ACs -> Seq(Frames)]]
  /\ flight \in [ACs -> Frames] /\ direct \in [ACs -> Frames] /\ taken \in Seq(Frames)
  /\ given \in [All -> [ACs -> Nat]] /\ sent \in [All -> [ACs -> Nat]]
  /\ rx \in [at : {"idle", "test", "len", "read", "write", "tell"}, sta : All,
              seen : SUBSET All]
  /\ cmds \in Seq({"beacon", "bmc", "hiq"})
  /\ cpc \in {"idle", "test", "flush", "tim", "timRead", "dz", "dzRead", "announce",
              "ask", "tell"}
  /\ copy \subseteq All /\ asked \in All /\ clears \in BOOLEAN
  /\ raced \in BOOLEAN /\ late \subseteq Stas

Init ==
  /\ delivery \in Configs
  /\ sleeping = {} /\ alive = {} /\ dz = {} /\ tim = {}
  /\ sleepQ = [x \in All |-> <<>>]
  /\ qlen = [s \in Stas |-> 0] /\ acLen = [s \in Stas |-> 0]
  /\ pend = [x \in All |-> [ac \in ACs |-> <<>>]]
  /\ flight = [ac \in ACs |-> NoFrame] /\ direct = flight /\ taken = <<>>
  /\ given = [x \in All |-> [ac \in ACs |-> 0]] /\ sent = given
  /\ ie = {} /\ air = {} /\ rx = RxIdle
  /\ cmds = <<>> /\ cpc = "idle" /\ copy = {} /\ asked = Bmc /\ clears = FALSE
  /\ raced = FALSE /\ late = {}

\* On one processor nothing comes between two steps of the transmit path, of a tasklet or
\* of expire_timeout_chk, which run with bottom halves off.
Free == OneCpu => /\ \A ac \in ACs : flight[ac] = NoFrame /\ direct[ac] = NoFrame
                  /\ taken = <<>> /\ rx = RxIdle /\ cpc \notin {"ask", "tell"}
Room == Len(cmds) < MaxCmds

\* Whether an unlocked write is lost to a locked statement on another processor.
Lost == IF OneCpu THEN {FALSE} ELSE BOOLEAN

\* _update_beacon and update_BCNTIM: the TIM is written into the beacon, and a command asks
\* for the beacon to be sent to the controller.
UpdateBeacon(set) == ie' = set /\ cmds' = Append(cmds, "beacon")
UpdateBeaconIf(test, set) ==
  IF test THEN UpdateBeacon(set) ELSE UNCHANGED <<ie, cmds>>

\* rtw_xmit_classifier, by way of rtw_hal_xmitframe_enqueue: to the tail of the pending
\* queues, a list of frames for one station.
Classified(x, fs) ==
  [pend EXCEPT ![x] = [ac \in ACs |-> @[ac] \o Select(fs, OfCategory(ac))]]

CountOf(s, fs)      == Len(Select(fs, EnabledOf(s)))
AnyAnnounced(s, fs) == \E i \in DOMAIN fs : Announced(s, fs[i])

\* Mutants of Added: the counter is forgotten; it is counted where the TIM is set.
AddedNever(s, fs)  == 0
AddedWithTim(s, fs) == IF HasLegacy(s) THEN 0 ELSE Len(Select(fs, EnabledOf(s)))

\* What xmitframe_enqueue_for_sleeping_sta adds to sleepq_ac_len for these frames.
Added(s, fs) == CountOf(s, fs)

\* Mutant of NewlyAnnounced: the bit is set before it is tested.
NewlyAnnouncedLate(s, fs) == AnyAnnounced(s, fs) /\ s \notin tim \union {s}

\* update_tim: the frames have to be announced, and the TIM does not name the station yet.
NewlyAnnounced(s, fs) == AnyAnnounced(s, fs) /\ s \notin tim

\* Mutant of AcPending: the best-effort queue stands for all.
AcPendingBestEffort(x, ac) == pend[x]["BE"] # <<>>

\* rtw_txframes_sta_ac_pending
AcPending(x, ac) == pend[x][ac] # <<>>


(***************************************************************************)
(* The transmit path.  The network stack hands in one frame of a category  *)
(* at a time.                                                              *)
(***************************************************************************)
Idle(ac) == flight[ac] = NoFrame /\ direct[ac] = NoFrame

\* rtw_xmit for a station.
Give(s, ac) ==
  /\ Free /\ Room /\ Idle(ac)
  /\ MapThenSumSet(LAMBDA x : given[x]["BE"] + given[x]["VO"], Stas) < MaxFrames
  /\ given' = [given EXCEPT ![s][ac] = @ + 1]
  /\ LET f == [to |-> s, ac |-> ac, no |-> given[s][ac] + 1]
     IN  IF s \in sleeping /\ s \in dz
           THEN /\ sleepQ' = [sleepQ EXCEPT ![s] = Append(@, f)]
                /\ qlen' = [qlen EXCEPT ![s] = @ + 1]
                /\ acLen' = [acLen EXCEPT ![s] = @ + Added(s, <<f>>)]
                /\ tim' = IF Announced(s, f) THEN tim \union {s} ELSE tim
                /\ UpdateBeaconIf(NewlyAnnounced(s, <<f>>), tim')
                /\ UNCHANGED flight
           ELSE /\ flight' = [flight EXCEPT ![ac] = f]
                /\ UNCHANGED <<sleepQ, qlen, acLen, tim, ie, cmds>>
  /\ UNCHANGED <<station, dz, pend, direct, taken, sent, air, rx, thread, raced, late>>

\* rtw_xmit for a broadcast.
GiveBmc ==
  /\ Free /\ Room /\ Idle("BE")
  /\ given[Bmc]["BE"] < MaxBroadcasts
  /\ given' = [given EXCEPT ![Bmc]["BE"] = @ + 1]
  /\ LET f == [to |-> Bmc, ac |-> "BE", no |-> given[Bmc]["BE"] + 1]
     IN  IF dz # {}
           THEN /\ sleepQ' = [sleepQ EXCEPT ![Bmc] = Append(@, f)]
                /\ tim' = tim \union {Bmc} /\ dz' = dz \union {Bmc}
                /\ IF Bmc \in tim
                     THEN cmds' = Append(cmds, "bmc") /\ UNCHANGED ie
                     ELSE UpdateBeacon(tim')
                /\ UNCHANGED flight
           ELSE /\ flight' = [flight EXCEPT !["BE"] = f]
                /\ UNCHANGED <<sleepQ, tim, dz, ie, cmds>>
  /\ UNCHANGED <<station, qlen, acLen, pend, direct, taken, sent, air, rx, thread, raced,
                 late>>

\* The tasklet holds frames of this flow.
Preparing(x, ac) == taken # <<>> /\ taken[1].to = x /\ taken[1].ac = ac

\* pre_xmitframe, under the lock: the frame is to be sent straight away, unless frames of
\* the category are pending or no transfer buffer is left.  The frames that the transmit
\* tasklet holds are not pending any more.
HalXmit(ac, buffer) ==
  /\ flight[ac] # NoFrame
  /\ LET f == flight[ac]  x == f.to
     IN  IF ~AcPending(x, ac) /\ buffer
           THEN /\ direct' = [direct EXCEPT ![ac] = f]
                /\ late' = IF Preparing(x, ac) THEN late \union ({x} \ {Bmc}) ELSE late
                /\ UNCHANGED pend
           ELSE pend' = Classified(x, <<f>>) /\ UNCHANGED <<direct, late>>
  /\ flight' = [flight EXCEPT ![ac] = NoFrame]
  /\ UNCHANGED <<station, dz, tim, sleepQ, qlen, acLen, taken, counts, ie, air, rx, cmds,
                 thread, raced>>

\* xmitframe_direct, without the lock: sent, or freed when it cannot be assembled.
SendDirect(ac) ==
  /\ direct[ac] # NoFrame
  /\ sent' = [sent EXCEPT ![direct[ac].to][ac] = direct[ac].no]
  /\ direct' = [direct EXCEPT ![ac] = NoFrame]
  /\ UNCHANGED <<station, dz, tim, queues, flight, taken, given, ie, air, rx, cmds, thread,
                 raced, late>>

\* The rest of rtw_xmit.
HandsOn == \E ac \in ACs : SendDirect(ac) \/ \E buffer \in BOOLEAN : HalXmit(ac, buffer)

\* rtw_dequeue_xframe, when a buffer is free: the first frame of a transfer.
TakeFrame(x, ac) ==
  /\ Free /\ taken = <<>> /\ pend[x][ac] # <<>>
  /\ taken' = <<Head(pend[x][ac])>>
  /\ pend' = [pend EXCEPT ![x][ac] = Tail(@)]
  /\ UNCHANGED <<station, dz, tim, sleepQ, qlen, acLen, flight, direct, counts, ie, air, rx,
                 cmds, thread, raced, late>>

\* Under the lock again: more frames of the same flow, as many as the transfer has room for.
TakeMore(n) ==
  /\ Len(taken) = 1
  /\ LET x == taken[1].to  ac == taken[1].ac
     IN  /\ n <= Len(pend[x][ac])
         /\ taken' = taken \o SubSeq(pend[x][ac], 1, n)
         /\ pend' = [pend EXCEPT ![x][ac] = SubSeq(@, n + 1, Len(@))]
  /\ UNCHANGED <<station, dz, tim, sleepQ, qlen, acLen, flight, direct, counts, ie, air, rx,
                 cmds, thread, raced, late>>

\* rtw_write_port; the frames that cannot be assembled have been freed instead, and when
\* the only one of a transfer is, nothing is written.
WriteTransfer ==
  /\ taken # <<>>
  /\ sent' = [sent EXCEPT ![taken[1].to][taken[1].ac] = Last(taken).no]
  /\ taken' = <<>>
  /\ UNCHANGED <<station, dz, tim, queues, flight, direct, given, ie, air, rx, cmds, thread,
                 raced, late>>

(***************************************************************************)
(* The station: power management bit, PS-Poll and trigger frames, all of   *)
(* them handled by the receive tasklet.                                    *)
(***************************************************************************)
Receives == Free /\ rx = RxIdle

\* stop_sta_xmit: what is pending for the station moves to its sleep queue, the voice
\* frames first, and what is pending for all to the sleep queue of the broadcasts.
Sleep(s) ==
  /\ Receives /\ Room /\ s \notin sleeping /\ acLen[s] <= MaxStale
  /\ sleeping' = sleeping \union {s}
  /\ late' = IF \E ac \in ACs : flight[ac].to = s THEN late \union {s} ELSE late
  /\ LET moved == pend[s]["VO"] \o pend[s]["BE"]
         bmc   == pend[Bmc]["BE"]
         uc    == IF AnyAnnounced(s, moved) THEN {s} ELSE {}
         bc    == IF bmc = <<>> THEN {} ELSE {Bmc}
     IN  /\ dz' = dz \union {s} \union bc
         /\ sleepQ' = [sleepQ EXCEPT ![s] = @ \o moved, ![Bmc] = @ \o bmc]
         /\ qlen' = [qlen EXCEPT ![s] = @ + Len(moved)]
         /\ acLen' = [acLen EXCEPT ![s] = @ + Added(s, moved)]
         /\ pend' = [pend EXCEPT ![s] = [ac \in ACs |-> <<>>], ![Bmc]["BE"] = <<>>]
         /\ tim' = tim \union uc \union bc
         /\ LET ucNew == NewlyAnnounced(s, moved)  bcNew == ~(bc \subseteq tim)
            IN  /\ ie' = IF ucNew \/ bcNew THEN tim' ELSE ie
                /\ cmds' = cmds \o (IF ucNew THEN <<"beacon">> ELSE <<>>)
                                \o [i \in DOMAIN bmc |->
                                      IF bcNew /\ i = 1 THEN "beacon" ELSE "bmc"]
  /\ UNCHANGED <<delivery, alive, path, counts, air, rx, thread, raced>>

\* Mutant of LastOut: the bitmap is looked at before the station's bit is cleared.
LastOutEarly(up) == dz \ {Bmc} = {}

\* No station is left in the bitmap when these are gone.
LastOut(up) == dz \ (up \union {Bmc}) = {}

\* The locked part of wakeup_sta_to_xmit.  The whole sleep queue becomes pending; the
\* station counts as awake when sleepq_len agrees; with the last sleeper the broadcasts
\* become pending too.
WakeUp(s) ==
  /\ qlen' = [qlen EXCEPT ![s] = @ - Len(sleepQ[s])]
  /\ acLen' = [acLen EXCEPT ![s] = @ - CountOf(s, sleepQ[s])]
  /\ LET up   == IF qlen'[s] = 0 THEN {s} ELSE {}
         out  == Classified(s, sleepQ[s])
         gone == IF LastOut(up) THEN up \union {Bmc} ELSE up
     IN  /\ sleeping' = sleeping \ up /\ alive' = alive \ up
         /\ pend' = IF LastOut(up) THEN [out EXCEPT ![Bmc]["BE"] = @ \o sleepQ[Bmc]] ELSE out
         /\ sleepQ' = [x \in All |-> IF x = s \/ x \in gone THEN <<>> ELSE sleepQ[x]]
         /\ tim' = tim \ gone /\ dz' = dz \ gone
  /\ UNCHANGED <<delivery, path, counts, ie, air, cmds, asked, copy, raced, late>>

\* Its end, without the lock: the beacon is updated when a bit has changed.
Tell(s) == rx' = IF tim' # tim THEN [at |-> "tell", sta |-> s, seen |-> {}] ELSE RxIdle

\* wakeup_sta_to_xmit
Wake(s) ==
  /\ Receives /\ s \in sleeping
  /\ WakeUp(s) /\ Tell(s)
  /\ UNCHANGED <<cpc, clears>>

\* validate_recv_ctrl_frame, PS-Poll: one frame of whatever category, and the TIM bit
\* with the last.  The poll is refused when BE, the category it is given, is
\* delivery-enabled.
PsPoll(s) ==
  /\ Receives /\ Room /\ s \in sleeping /\ "BE" \notin delivery[s]
  /\ alive' = alive \ {s}
  /\ IF s \in dz /\ sleepQ[s] # <<>>
       THEN /\ sleepQ' = [sleepQ EXCEPT ![s] = Tail(@)]
            /\ qlen' = [qlen EXCEPT ![s] = @ - 1]
            /\ pend' = Classified(s, <<Head(sleepQ[s])>>)
            /\ tim' = IF qlen'[s] = 0 THEN tim \ {s} ELSE tim
            /\ UpdateBeaconIf(qlen'[s] = 0, tim')
            /\ UNCHANGED rx
       ELSE /\ rx' = IF s \in dz THEN [at |-> "test", sta |-> s, seen |-> {}] ELSE rx
            /\ UNCHANGED <<tim, sleepQ, qlen, pend, ie, cmds>>
  /\ UNCHANGED <<delivery, sleeping, dz, acLen, path, counts, air, thread, raced, late>>

(***************************************************************************)
(* The end of a PS-Poll that found the queue empty, without the lock.      *)
(***************************************************************************)
RxAt(from) == rx.at = from
RxGoto(to) == rx' = [rx EXCEPT !.at = to]

\* The station is told that nothing waits if its bit is set; else there is nothing to do.
PollTest ==
  /\ RxAt("test")
  /\ IF rx.sta \in tim THEN RxGoto("len") ELSE rx' = RxIdle
  /\ UNCHANGED <<station, dz, tim, queues, path, counts, ie, air, cmds, thread, raced, late>>

\* "error!psta->sleepq_len": a count that is not zero is set to zero.
PollLen ==
  /\ RxAt("len") /\ RxGoto("read")
  /\ \E lost \in Lost :
       /\ qlen' = IF lost THEN qlen ELSE [qlen EXCEPT ![rx.sta] = 0]
       /\ raced' = (raced \/ lost \/ qlen[rx.sta] # 0)
  /\ UNCHANGED <<station, dz, tim, sleepQ, acLen, pend, path, counts, ie, air, cmds, thread,
                 late>>

PollRead ==
  /\ RxAt("read")
  /\ rx' = [rx EXCEPT !.at = "write", !.seen = tim]
  /\ UNCHANGED <<station, dz, tim, queues, path, counts, ie, air, cmds, thread, raced, late>>

\* A frame that has to be announced may have come to the queue since the lock was released.
PollWrite ==
  /\ RxAt("write")
  /\ rx' = [rx EXCEPT !.at = "tell", !.seen = {}]
  /\ \E lost \in Lost :
       /\ tim' = IF lost THEN tim ELSE rx.seen \ {rx.sta}
       /\ raced' = (raced \/ lost \/ rx.seen # tim
                          \/ AnyAnnounced(rx.sta, sleepQ[rx.sta]))
  /\ UNCHANGED <<station, dz, queues, path, counts, ie, air, cmds, thread, late>>

\* update_beacon, of PS-Poll and of wakeup_sta_to_xmit.
RxTell ==
  /\ RxAt("tell") /\ rx' = RxIdle
  /\ UpdateBeacon(tim)
  /\ UNCHANGED <<station, dz, tim, queues, path, counts, air, thread, raced, late>>

RxTail == PollTest \/ PollLen \/ PollRead \/ PollWrite \/ RxTell

\* Mutant of AllDelivered: legacy frames are forgotten.
AllDeliveredOfAny(s, left) == left = 0

\* All that the TIM announces has been delivered by a trigger.
AllDelivered(s, left) == left = 0 /\ ~HasLegacy(s)

\* process_wmmps_data and xmit_delivery_enabled_frames: a trigger frame delivers every
\* delivery-enabled frame.
Trigger(s) ==
  /\ Receives /\ s \in sleeping /\ delivery[s] # {} /\ acLen[s] > 0
  /\ LET out == Select(sleepQ[s], EnabledOf(s))
     IN  /\ sleepQ' = [sleepQ EXCEPT ![s] = Select(@, LegacyOf(s))]
         /\ qlen' = [qlen EXCEPT ![s] = @ - Len(out)]
         /\ pend' = Classified(s, out)
         /\ acLen' = [acLen EXCEPT ![s] = @ - Len(out)]
         /\ tim' = IF AllDelivered(s, acLen'[s]) THEN tim \ {s} ELSE tim
         /\ UpdateBeaconIf(AllDelivered(s, acLen'[s]), tim')
  /\ UNCHANGED <<station, dz, path, counts, air, rx, thread, raced, late>>

(***************************************************************************)
(* The command thread.                                                     *)
(***************************************************************************)
Takes(cmd) == cpc = "idle" /\ Free /\ cmds # <<>> /\ Head(cmds) = cmd
traffic == <<station, qlen, acLen, path, counts, rx, asked, late>>

\* tx_beacon_hdl: the beacon goes to the controller, then the broadcasts are looked at.
TakeBeacon ==
  /\ Takes("beacon")
  /\ air' = ie /\ cmds' = Tail(cmds) /\ cpc' = "test"
  /\ UNCHANGED <<traffic, dz, tim, sleepQ, pend, ie, copy, clears, raced>>

\* chk_bmc_sleepq_hdl, as a command of its own.
TakeBmc ==
  /\ Takes("bmc")
  /\ cmds' = Tail(cmds) /\ cpc' = "test"
  /\ UNCHANGED <<traffic, dz, tim, sleepQ, pend, ie, air, copy, clears, raced>>

\* Its test, without the lock.
TestBmc ==
  /\ cpc = "test" /\ Free
  /\ cpc' = IF Bmc \in tim /\ sleepQ[Bmc] # <<>> THEN "flush" ELSE "idle"
  /\ UNCHANGED <<traffic, dz, tim, sleepQ, pend, ie, air, cmds, copy, clears, raced>>

\* Ten milliseconds later, under the lock: all broadcasts become pending.
FlushBmc ==
  /\ cpc = "flush" /\ Free
  /\ pend' = [pend EXCEPT ![Bmc]["BE"] = @ \o sleepQ[Bmc]]
  /\ sleepQ' = [sleepQ EXCEPT ![Bmc] = <<>>]
  /\ cmds' = Append(cmds, "hiq") /\ cpc' = "idle"
  /\ UNCHANGED <<traffic, dz, tim, ie, air, copy, clears, raced>>

\* rtw_chk_hi_queue_hdl: nothing waits and the controller's queue of broadcasts is empty,
\* or look again.
TakeHiq(empty) ==
  /\ Takes("hiq")
  /\ cpc' = IF sleepQ[Bmc] = <<>> /\ empty THEN "tim" ELSE "idle"
  /\ cmds' = IF sleepQ[Bmc] = <<>> /\ ~empty THEN Append(Tail(cmds), "hiq")
                                             ELSE Tail(cmds)
  /\ UNCHANGED <<traffic, dz, tim, sleepQ, pend, ie, air, copy, clears, raced>>

\* Its two statements that clear a bit of a bitmap nobody holds a lock for.
ReadTim ==
  /\ cpc = "tim" /\ Free
  /\ copy' = tim /\ clears' = (Bmc \in tim) /\ cpc' = "timRead"
  /\ UNCHANGED <<traffic, dz, tim, sleepQ, pend, ie, air, cmds, raced>>

WriteTim ==
  /\ cpc = "timRead" /\ Free
  /\ \E lost \in Lost :
       /\ tim' = IF lost THEN tim ELSE copy \ {Bmc}
       /\ raced' = (raced \/ lost \/ copy # tim)
  /\ copy' = {} /\ cpc' = "dz"
  /\ UNCHANGED <<traffic, dz, sleepQ, pend, ie, air, cmds, clears>>

ReadDz ==
  /\ cpc = "dz" /\ Free
  /\ copy' = dz /\ cpc' = "dzRead"
  /\ UNCHANGED <<traffic, dz, tim, sleepQ, pend, ie, air, cmds, clears, raced>>

\* Mutant of WriteDz: the mask is not inverted.
WriteDzInverted ==
  /\ cpc = "dzRead" /\ Free
  /\ dz' = copy \cap {Bmc} /\ raced' = (raced \/ copy # dz)
  /\ copy' = {} /\ cpc' = "announce"
  /\ UNCHANGED <<traffic, tim, sleepQ, pend, ie, air, cmds, clears>>

WriteDz ==
  /\ cpc = "dzRead" /\ Free
  /\ \E lost \in Lost :
       /\ dz' = IF lost THEN dz ELSE copy \ {Bmc}
       /\ raced' = (raced \/ lost \/ copy # dz)
  /\ copy' = {} /\ cpc' = "announce"
  /\ UNCHANGED <<traffic, tim, sleepQ, pend, ie, air, cmds, clears>>

\* expire_timeout_chk, under a lock of its own: a silent station in power save is asked for
\* a sign of life by a TIM bit of its own.
AliveCheck(s) ==
  /\ cpc = "idle" /\ Free /\ Room /\ s \in sleeping /\ s \notin alive
  /\ alive' = alive \union {s}
  /\ asked' = s /\ copy' = tim /\ cpc' = "ask"
  /\ UNCHANGED <<delivery, sleeping, dz, tim, queues, path, counts, ie, air, rx, cmds,
                 clears, raced, late>>

\* The station may have woken up meanwhile.
WriteAsk ==
  /\ cpc = "ask"
  /\ \E lost \in Lost :
       /\ tim' = IF lost THEN tim ELSE copy \union {asked}
       /\ raced' = (raced \/ lost \/ copy # tim \/ asked \notin sleeping)
  /\ asked' = Bmc /\ copy' = {} /\ clears' = TRUE /\ cpc' = "tell"
  /\ UNCHANGED <<station, dz, queues, path, counts, ie, air, rx, cmds, late>>

\* The same function wakes a station that takes too many of the frame buffers.
ClearSleepQ(s) ==
  /\ cpc = "idle" /\ Free /\ Room /\ qlen[s] # 0
  /\ WakeUp(s)
  /\ clears' = (tim' # tim) /\ cpc' = "tell"
  /\ UNCHANGED rx

\* update_beacon, after each of these.
Announce ==
  /\ cpc = "tell" \/ (cpc = "announce" /\ Free)
  /\ UpdateBeaconIf(clears, tim)
  /\ clears' = FALSE /\ cpc' = "idle"
  /\ UNCHANGED <<traffic, dz, tim, sleepQ, pend, air, copy, raced>>

CmdThread ==
  \/ TakeBeacon \/ TakeBmc \/ TestBmc \/ FlushBmc
  \/ \E empty \in BOOLEAN : TakeHiq(empty)
  \/ ReadTim \/ WriteTim \/ ReadDz \/ WriteDz \/ WriteAsk \/ Announce

Next ==
  \/ \E s \in Stas, ac \in ACs : Give(s, ac)
  \/ GiveBmc
  \/ HandsOn
  \/ \E x \in All, ac \in ACs : TakeFrame(x, ac)
  \/ \E n \in 1 .. MaxFrames + MaxBroadcasts : TakeMore(n)
  \/ WriteTransfer
  \/ \E s \in Stas : Sleep(s) \/ Wake(s) \/ PsPoll(s) \/ Trigger(s)
  \/ RxTail
  \/ \E s \in Stas : AliveCheck(s) \/ ClearSleepQ(s)
  \/ CmdThread

Spec == Init /\ [][Next]_vars

(***************************************************************************)
(* The tasklets and the command thread run; a sleeping station polls when  *)
(* the beacon names it, and sends trigger frames if it uses them.          *)
(***************************************************************************)
Polls(s) == s \in air /\ PsPoll(s)

FairSpec ==
  /\ Spec
  /\ WF_vars(CmdThread) /\ WF_vars(RxTail) /\ WF_vars(HandsOn) /\ WF_vars(WriteTransfer)
  /\ \A s \in Stas : /\ SF_vars(\E ac \in ACs : TakeFrame(s, ac))
                    /\ SF_vars(Polls(s)) /\ SF_vars(Trigger(s))

(***************************************************************************)
(* Properties.                                                             *)
(***************************************************************************)
Carried(f, x, ac) == IF f # NoFrame /\ f.to = x THEN <<f>> ELSE <<>>

\* The frames of one category on their way to a station, oldest first: in the transfer
\* being prepared, pending, asleep, and the one rtw_xmit has at hand.
Way(x, ac) ==
  (IF Preparing(x, ac) THEN taken ELSE <<>>)
  \o pend[x][ac] \o Select(sleepQ[x], OfCategory(ac))
  \o Carried(flight[ac], x, ac) \o Carried(direct[ac], x, ac)

\* However often a station sleeps, polls, triggers and wakes, its frames of one category
\* are neither lost nor doubled nor overtaken on their way through the queues, unless, on
\* a second processor, it goes to sleep between the two decisions of rtw_xmit or a frame is
\* sent straight away while the tasklet prepares an earlier one, or an unlocked change of
\* the bitmaps has met another.
InOrder ==
  ~raced => \A s \in Stas \ late, ac \in ACs :
    [i \in DOMAIN Way(s, ac) |-> Way(s, ac)[i].no]
      = [i \in 1 .. (given[s][ac] - sent[s][ac]) |-> sent[s][ac] + i]

\* The same seen from the controller: of the frames of each category that reach it, none
\* follows a later one, until the station is excused for one of these reasons.
Flows == INSTANCE StationFlows WITH
  given   <- [s \in Stas |-> given[s]],
  sent    <- [s \in Stas |-> sent[s]],
  excused <- IF raced THEN Stas ELSE late
ImplementsFlows == Flows!Spec

\* Once the beacon is up to date, every sleeping station whose queue holds a frame the TIM
\* must announce finds its bit in the beacon on air, as long as no unlocked change of the
\* bitmaps, by the command thread or at the end of a PS-Poll, has met another one or a
\* frame that came meanwhile.
AnnouncedOnAir ==
  \A s \in Stas :
    /\ AnyAnnounced(s, sleepQ[s]) /\ ~raced
    /\ (\A i \in DOMAIN cmds : cmds[i] # "beacon") /\ cpc # "tell"
    => s \in air

\* sleepq_ac_len never falls below the number of delivery-enabled frames that wait, so
\* that a trigger is never answered with "no more data" over waiting frames and the
\* unsigned counter does not wrap.
AcLenEnough == \A s \in Stas : acLen[s] >= CountOf(s, sleepQ[s])

\* A station that is awake has nothing left in its sleep queue and no TIM bit, and when
\* all are awake no broadcast is held back, as long as no unlocked change of the bitmaps or
\* of sleepq_len has met another change.
AwakeMeansEmpty ==
  ~raced =>
    /\ \A s \in Stas \ sleeping : sleepQ[s] = <<>> /\ s \notin tim
    /\ sleeping = {} => sleepQ[Bmc] = <<>> /\ dz = {}

\* The bitmap by which broadcasts are held back names exactly the stations that sleep, as
\* long as no unlocked change of it has met another.
DozeMatches == ~raced => dz \ {Bmc} = sleeping

\* Every frame for a station leaves, an overtaken one too, even when the station never
\* wakes for good: sooner or later nothing is on its way, unless an unlocked change of the
\* bitmaps has met another (it may have taken the announcement back for good).
EveryFrameLeaves ==
  \A s \in Stas, ac \in ACs : Way(s, ac) # <<>> ~> Way(s, ac) = <<>> \/ raced
=============================================================================
