-------------------------- MODULE SleepQueue_proofs --------------------------
(***************************************************************************)
(* Three invariants of the sleep queues, for up to fifteen stations, any   *)
(* number of frames and on any number of processors.                       *)
(*                                                                         *)
(* The counter of delivery-enabled frames is never too low.  The bitmap of *)
(* sleeping stations is exact, and nothing is held back for anyone who is  *)
(* awake, until an unlocked change of a bitmap or of sleepq_len meets      *)
(* another one: what is written back is otherwise what is there, but for   *)
(* one bit.  And what has to be announced gets from the queue through the  *)
(* bitmap into the beacon on air.                                          *)
(***************************************************************************)
EXTENDS SleepQueue, SleepQueueLemmas, TLAPS

-----------------------------------------------------------------------------
(***************************************************************************)
(* Types, and the counter of delivery-enabled frames.  They are one        *)
(* invariant: that the counter stays a natural number when the frames      *)
(* leave is what AcLenEnough says.                                         *)
(***************************************************************************)

CountInv == TypeOK /\ AcLenEnough

\* The frames of two queues are counted queue by queue.
LEMMA CountConcat ==
  ASSUME NEW s, NEW q \in Seq(Frames), NEW r \in Seq(Frames)
  PROVE  /\ CountOf(s, q) \in Nat /\ CountOf(s, r) \in Nat
         /\ CountOf(s, q \o r) = CountOf(s, q) + CountOf(s, r)
  <1>1. Select(q, EnabledOf(s)) \in Seq(Frames) /\ Select(r, EnabledOf(s)) \in Seq(Frames)
    BY SelectType
  <1>2. Select(q \o r, EnabledOf(s)) = Select(q, EnabledOf(s)) \o Select(r, EnabledOf(s))
    BY SelectConcat
  <1> QED  BY <1>1, <1>2, ConcatProperties, LenProperties DEF CountOf

\* The empty queue counts nothing.
LEMMA CountEmpty ==
  ASSUME NEW s
  PROVE  CountOf(s, <<>>) = 0
  BY SelectEmpty, EmptySeq DEF CountOf

\* Nothing that is left after a trigger counts.
LEMMA CountLegacy ==
  ASSUME NEW s, NEW q \in Seq(Frames)
  PROVE  CountOf(s, Select(q, LegacyOf(s))) = 0
  <1>1. Frames \cap (LegacyOf(s) \cap EnabledOf(s)) = {}
    BY DEF LegacyOf, EnabledOf
  <1>2. Select(q, LegacyOf(s) \cap EnabledOf(s)) = <<>>
    BY <1>1, SelectNone
  <1> QED  BY <1>2, SelectTwice, EmptySeq DEF CountOf

\* A queue counts at least what its tail counts.
LEMMA CountTail ==
  ASSUME NEW s, NEW q \in Seq(Frames), q # <<>>
  PROVE  CountOf(s, Tail(q)) <= CountOf(s, q)
  <1>1. /\ <<Head(q)>> \in Seq(Frames) /\ Tail(q) \in Seq(Frames)
        /\ q = <<Head(q)>> \o Tail(q)
    BY HeadThenTail
  <1> HIDE DEF Frames
  <1>2. /\ CountOf(s, <<Head(q)>>) \in Nat /\ CountOf(s, Tail(q)) \in Nat
        /\ CountOf(s, <<Head(q)>> \o Tail(q))
             = CountOf(s, <<Head(q)>>) + CountOf(s, Tail(q))
    BY <1>1, CountConcat
  <1>3. CountOf(s, q) = CountOf(s, <<Head(q)>>) + CountOf(s, Tail(q))
    BY <1>1, <1>2, Zenon
  <1> QED  BY <1>2, <1>3

\* The frames a station has asked for stay the same ones.
LEMMA CountStays ==
  ASSUME UNCHANGED delivery
  PROVE  AcLenEnough' <=> \A s \in Stas : acLen'[s] >= CountOf(s, sleepQ'[s])
  <1>1. \A s : EnabledOf(s)' = EnabledOf(s)
    BY DEF EnabledOf, Enabled
  <1> QED  BY <1>1 DEF AcLenEnough, CountOf

\* The counter stays high enough when one queue changes and its counter follows.
LEMMA CountFollows ==
  ASSUME CountInv, UNCHANGED delivery, NEW s \in Stas, NEW q, NEW n \in Nat,
         n >= CountOf(s, q), sleepQ'[s] = q, acLen' = [acLen EXCEPT ![s] = n],
         \A x \in Stas : x # s => sleepQ'[x] = sleepQ[x]
  PROVE  acLen' \in [Stas -> Nat] /\ AcLenEnough'
  <1>1. acLen' \in [Stas -> Nat]
    BY DEF CountInv, TypeOK
  <1>2. ASSUME NEW x \in Stas PROVE acLen'[x] >= CountOf(x, sleepQ'[x])
    <2>1. acLen[x] >= CountOf(x, sleepQ[x])
      BY DEF CountInv, AcLenEnough
    <2>2. acLen'[x] = IF x = s THEN n ELSE acLen[x]
      BY DEF CountInv, TypeOK
    <2>3. CASE x = s  BY <2>2, <2>3
    <2>4. CASE x # s  BY <2>1, <2>2, <2>4
    <2> QED  BY <2>3, <2>4
  <1> QED  BY <1>1, <1>2, CountStays

\* What rtw_xmit_classifier makes of the pending queues.
LEMMA ClassifiedIs ==
  ASSUME TypeOK, NEW x \in All, NEW fs \in Seq(Frames)
  PROVE  /\ Classified(x, fs) \in [All -> [ACs -> Seq(Frames)]]
         /\ \A y \in All, ac \in ACs :
              Classified(x, fs)[y][ac] =
                IF y = x THEN pend[y][ac] \o Select(fs, OfCategory(ac)) ELSE pend[y][ac]
  <1>1. \A ac \in ACs : pend[x][ac] \o Select(fs, OfCategory(ac)) \in Seq(Frames)
    BY SelectType, ConcatProperties DEF TypeOK
  <1>2. [ac \in ACs |-> pend[x][ac] \o Select(fs, OfCategory(ac))] \in [ACs -> Seq(Frames)]
    BY <1>1
  <1>3. pend \in [All -> [ACs -> Seq(Frames)]]
    BY DEF TypeOK
  <1>4. Classified(x, fs) =
          [pend EXCEPT ![x] = [ac \in ACs |-> pend[x][ac] \o Select(fs, OfCategory(ac))]]
    BY <1>3 DEF Classified
  <1> QED  BY <1>2, <1>3, <1>4

\* Nothing is queued or counted at the start.
LEMMA CountInit == Init => CountInv
  <1> SUFFICES ASSUME Init PROVE CountInv  OBVIOUS
  <1>1. <<>> \in Seq(Frames) /\ <<>> \in Seq({"beacon", "bmc", "hiq"})
    BY EmptySeq
  <1>2. NoFrame \in Frames
    BY DEF NoFrame, Frames, All, ACs
  <1>3. TypeOK
    <2>1. /\ sleepQ \in [All -> Seq(Frames)] /\ pend \in [All -> [ACs -> Seq(Frames)]]
          /\ taken \in Seq(Frames) /\ cmds \in Seq({"beacon", "bmc", "hiq"})
      BY <1>1 DEF Init
    <2>2. flight \in [ACs -> Frames] /\ direct \in [ACs -> Frames]
      BY <1>2 DEF Init
    <2>3. /\ qlen \in [Stas -> Int] /\ acLen \in [Stas -> Nat]
          /\ given \in [All -> [ACs -> Nat]] /\ sent \in [All -> [ACs -> Nat]]
      BY DEF Init
    <2>4. rx \in [at : {"idle", "test", "len", "read", "write", "tell"}, sta : All,
                  seen : SUBSET All]
      BY DEF Init, RxIdle, All
    <2>5. /\ delivery \in Configs /\ sleeping = {} /\ alive = {} /\ dz = {} /\ tim = {}
          /\ ie = {} /\ air = {} /\ cpc = "idle" /\ copy = {} /\ asked = Bmc
          /\ clears = FALSE /\ raced = FALSE /\ late = {}
      BY Zenon DEF Init
    <2> QED  BY <2>1, <2>2, <2>3, <2>4, <2>5 DEF TypeOK, All
  <1>4. AcLenEnough
    <2>1. \A s \in Stas : acLen[s] = 0 /\ sleepQ[s] = <<>>
      BY DEF Init, All
    <2> QED  BY <2>1, CountEmpty DEF AcLenEnough
  <1> QED  BY <1>3, <1>4 DEF CountInv

\* The commands stay commands.
LEMMA CmdsType ==
  ASSUME TypeOK, NEW c \in {"beacon", "bmc", "hiq"}
  PROVE  Append(cmds, c) \in Seq({"beacon", "bmc", "hiq"})
  BY AppendProperties DEF TypeOK

\* One entry of the numbers of frames is set, or of the pending queues.
LEMMA EntryType ==
  ASSUME NEW T, NEW F \in [All -> [ACs -> T]], NEW x \in All, NEW ac \in ACs, NEW n \in T
  PROVE  [F EXCEPT ![x][ac] = n] \in [All -> [ACs -> T]]
  <1>1. [F[x] EXCEPT ![ac] = n] \in [ACs -> T]
    OBVIOUS
  <1> QED  BY <1>1

\* A frame that goes to sleep is counted when it is delivery-enabled.
LEMMA GiveCounts ==
  ASSUME CountInv, NEW s \in Stas, NEW ac \in ACs, Give(s, ac)
  PROVE  CountInv'
  <1> DEFINE f == [to |-> s, ac |-> ac, no |-> given[s][ac] + 1]
  <1>0. /\ given \in [All -> [ACs -> Nat]] /\ flight \in [ACs -> Frames] /\ s \in All
        /\ qlen \in [Stas -> Int] /\ tim \subseteq All /\ ie \subseteq All
    BY DEF CountInv, TypeOK, All
  <1>1. f \in Frames /\ given[s][ac] \in Nat /\ given[s][ac] + 1 \in Nat
    BY <1>0 DEF Frames
  <1>2. /\ given' = [given EXCEPT ![s][ac] = @ + 1]
        /\ UNCHANGED <<delivery, sleeping, alive, dz, pend, direct, taken, sent, air, rx, cpc,
                       copy, asked, clears, raced, late>>
        /\ \/ /\ sleepQ' = [sleepQ EXCEPT ![s] = Append(@, f)]
              /\ qlen' = [qlen EXCEPT ![s] = @ + 1]
              /\ acLen' = [acLen EXCEPT ![s] = @ + Added(s, <<f>>)]
              /\ tim' = tim \/ tim' = tim \union {s}
              /\ flight' = flight
              /\ \/ ie' = tim' /\ cmds' = Append(cmds, "beacon")
                 \/ ie' = ie /\ cmds' = cmds
           \/ /\ flight' = [flight EXCEPT ![ac] = f]
              /\ UNCHANGED <<sleepQ, qlen, acLen, tim, ie, cmds>>
    BY Zenon DEF Give, station, thread, UpdateBeaconIf, UpdateBeacon
  <1> HIDE DEF f
  <1>3. <<f>> \in Seq(Frames) /\ sleepQ[s] \in Seq(Frames)
    BY <1>1 DEF CountInv, TypeOK, All
  <1>4. /\ CountOf(s, sleepQ[s]) \in Nat /\ CountOf(s, <<f>>) \in Nat
        /\ CountOf(s, sleepQ[s] \o <<f>>) = CountOf(s, sleepQ[s]) + CountOf(s, <<f>>)
    BY <1>3, CountConcat
  <1>5. Append(sleepQ[s], f) = sleepQ[s] \o <<f>> /\ Append(sleepQ[s], f) \in Seq(Frames)
    BY <1>1, <1>3, AppendIsConcat, AppendProperties
  <1>6. sleepQ' \in [All -> Seq(Frames)] /\ acLen' \in [Stas -> Nat] /\ AcLenEnough'
    <2>1. CASE UNCHANGED <<sleepQ, acLen>>
      BY <1>2, <2>1, CountStays DEF CountInv, TypeOK, AcLenEnough
    <2>2. CASE /\ sleepQ' = [sleepQ EXCEPT ![s] = Append(@, f)]
               /\ acLen' = [acLen EXCEPT ![s] = @ + Added(s, <<f>>)]
      <3>1. sleepQ' \in [All -> Seq(Frames)]
        BY <1>5, <2>2 DEF CountInv, TypeOK
      <3>2. /\ sleepQ'[s] = sleepQ[s] \o <<f>>
            /\ \A x \in Stas : x # s => sleepQ'[x] = sleepQ[x]
        BY <1>5, <2>2 DEF CountInv, TypeOK, All
      <3>3. /\ acLen[s] + CountOf(s, <<f>>) \in Nat
            /\ acLen[s] + CountOf(s, <<f>>) >= CountOf(s, sleepQ[s] \o <<f>>)
        BY <1>4 DEF CountInv, TypeOK, AcLenEnough
      <3>4. acLen' = [acLen EXCEPT ![s] = acLen[s] + CountOf(s, <<f>>)]
        BY <2>2 DEF Added
      <3> QED  BY <1>2, <3>1, <3>2, <3>3, <3>4, CountFollows
    <2> QED  BY <1>2, <2>1, <2>2
  <1>7. TypeOK'
    <2>1. given' \in [All -> [ACs -> Nat]]
      <3>1. given' = [given EXCEPT ![s][ac] = given[s][ac] + 1]
        BY <1>0, <1>2
      <3> QED  BY <1>0, <1>1, <3>1, EntryType
    <2>2. cmds' \in Seq({"beacon", "bmc", "hiq"})
      BY <1>2, CmdsType DEF CountInv, TypeOK
    <2>3. tim' \subseteq All /\ ie' \subseteq All
      BY <1>0, <1>2
    <2>4. flight' \in [ACs -> Frames] /\ qlen' \in [Stas -> Int]
      <3>1. flight' = flight \/ flight' = [flight EXCEPT ![ac] = f]
        BY <1>2
      <3>2. qlen' = qlen \/ qlen' = [qlen EXCEPT ![s] = qlen[s] + 1]
        BY <1>2
      <3>3. flight' \in [ACs -> Frames]
        BY <1>0, <1>1, <3>1
      <3>4. qlen' \in [Stas -> Int]
        BY <1>0, <3>2
      <3> QED  BY <3>3, <3>4
    <2> QED  BY <1>2, <1>6, <2>1, <2>2, <2>3, <2>4 DEF CountInv, TypeOK
  <1> QED  BY <1>6, <1>7 DEF CountInv

\* A broadcast is not counted.
LEMMA GiveBmcCounts ==
  ASSUME CountInv, GiveBmc
  PROVE  CountInv'
  <1> DEFINE f == [to |-> Bmc, ac |-> "BE", no |-> given[Bmc]["BE"] + 1]
  <1>0. /\ given \in [All -> [ACs -> Nat]] /\ flight \in [ACs -> Frames]
        /\ Bmc \in All /\ "BE" \in ACs
        /\ dz \subseteq All /\ tim \subseteq All /\ ie \subseteq All
    BY DEF CountInv, TypeOK, All, ACs
  <1>1. f \in Frames /\ given[Bmc]["BE"] \in Nat /\ given[Bmc]["BE"] + 1 \in Nat
    BY <1>0 DEF Frames
  <1>2. /\ given' = [given EXCEPT ![Bmc]["BE"] = @ + 1]
        /\ UNCHANGED <<delivery, sleeping, alive, qlen, acLen, pend, direct, taken, sent, air,
                       rx, cpc, copy, asked, clears, raced, late>>
        /\ \/ /\ sleepQ' = [sleepQ EXCEPT ![Bmc] = Append(@, f)]
              /\ tim' = tim \union {Bmc} /\ dz' = dz \union {Bmc}
              /\ \/ cmds' = Append(cmds, "bmc") /\ UNCHANGED ie
                 \/ ie' = tim' /\ cmds' = Append(cmds, "beacon")
              /\ UNCHANGED flight
           \/ /\ flight' = [flight EXCEPT !["BE"] = f]
              /\ UNCHANGED <<sleepQ, tim, dz, ie, cmds>>
    BY Zenon DEF GiveBmc, station, thread, UpdateBeacon
  <1> HIDE DEF f
  <1>3. Bmc \in All /\ "BE" \in ACs /\ Append(sleepQ[Bmc], f) \in Seq(Frames)
    BY <1>1 DEF CountInv, TypeOK, All, ACs
  <1>4. sleepQ' \in [All -> Seq(Frames)] /\ \A x \in Stas : sleepQ'[x] = sleepQ[x]
    <2>1. Stas \subseteq All \ {Bmc}
      BY SleepAssumption DEF All
    <2>2. sleepQ \in [All -> Seq(Frames)]
      BY DEF CountInv, TypeOK
    <2>3. sleepQ' = sleepQ \/ sleepQ' = [sleepQ EXCEPT ![Bmc] = Append(sleepQ[Bmc], f)]
      BY <1>2
    <2> QED  BY <1>3, <2>1, <2>2, <2>3
  <1>5. AcLenEnough'
    BY <1>2, <1>4, CountStays DEF CountInv, AcLenEnough
  <1>6. TypeOK'
    <2>1. given' \in [All -> [ACs -> Nat]]
      <3>1. given' = [given EXCEPT ![Bmc]["BE"] = given[Bmc]["BE"] + 1]
        BY <1>0, <1>2
      <3> QED  BY <1>0, <1>1, <3>1, EntryType
    <2>2. cmds' \in Seq({"beacon", "bmc", "hiq"})
      BY <1>2, CmdsType DEF CountInv, TypeOK
    <2>3. /\ tim' \subseteq All /\ dz' \subseteq All /\ ie' \subseteq All
          /\ flight' \in [ACs -> Frames]
      BY <1>0, <1>1, <1>2
    <2> QED  BY <1>2, <1>4, <2>1, <2>2, <2>3 DEF CountInv, TypeOK
  <1> QED  BY <1>5, <1>6 DEF CountInv

\* A step of the transmit path: what sleeps is not touched.
Transmits ==
  \/ HandsOn
  \/ \E x \in All, ac \in ACs : TakeFrame(x, ac)
  \/ \E n \in 1 .. MaxFrames + MaxBroadcasts : TakeMore(n)
  \/ WriteTransfer

\* What such a step leaves alone.
LEMMA TransmitStays ==
  ASSUME Transmits
  PROVE  UNCHANGED <<delivery, sleeping, alive, dz, tim, sleepQ, qlen, acLen, given, ie, air,
                     rx, cmds, cpc, copy, asked, clears, raced>>
  <1>1. ASSUME NEW ac \in ACs, NEW buffer \in BOOLEAN, HalXmit(ac, buffer)
        PROVE  UNCHANGED <<delivery, sleeping, alive, dz, tim, sleepQ, qlen, acLen, given, ie,
                           air, rx, cmds, cpc, copy, asked, clears, raced>>
    BY <1>1, Zenon DEF HalXmit, station, counts, thread
  <1>2. ASSUME NEW ac \in ACs, SendDirect(ac)
        PROVE  UNCHANGED <<delivery, sleeping, alive, dz, tim, sleepQ, qlen, acLen, given, ie,
                           air, rx, cmds, cpc, copy, asked, clears, raced>>
    BY <1>2, Zenon DEF SendDirect, station, queues, thread
  <1>3. ASSUME NEW x \in All, NEW ac \in ACs, TakeFrame(x, ac)
        PROVE  UNCHANGED <<delivery, sleeping, alive, dz, tim, sleepQ, qlen, acLen, given, ie,
                           air, rx, cmds, cpc, copy, asked, clears, raced>>
    BY <1>3, Zenon DEF TakeFrame, station, counts, thread
  <1>4. ASSUME NEW n, TakeMore(n)
        PROVE  UNCHANGED <<delivery, sleeping, alive, dz, tim, sleepQ, qlen, acLen, given, ie,
                           air, rx, cmds, cpc, copy, asked, clears, raced>>
    BY <1>4, Zenon DEF TakeMore, station, counts, thread
  <1>5. CASE WriteTransfer
    BY <1>5, Zenon DEF WriteTransfer, station, queues, thread
  <1> QED  BY <1>1, <1>2, <1>3, <1>4, <1>5 DEF Transmits, HandsOn

\* A queue cut in two.
LEMMA CutType ==
  ASSUME NEW q \in Seq(Frames), NEW n \in 1 .. Len(q)
  PROVE  SubSeq(q, 1, n) \in Seq(Frames) /\ SubSeq(q, n + 1, Len(q)) \in Seq(Frames)
  <1>1. Len(q) \in Nat /\ n \in Nat /\ n + 1 \in Int
    BY LenProperties
  <1>2. /\ \A i \in 1 .. n : q[i] \in Frames
        /\ \A i \in n + 1 .. Len(q) : q[i] \in Frames
    BY <1>1, ElementOfSeq
  <1> QED  BY <1>1, <1>2, SubSeqProperties

\* What it changes keeps its type.
LEMMA TransmitTypes ==
  ASSUME TypeOK, Transmits
  PROVE  /\ flight' \in [ACs -> Frames] /\ direct' \in [ACs -> Frames]
         /\ taken' \in Seq(Frames)
         /\ pend' \in [All -> [ACs -> Seq(Frames)]]
         /\ sent' \in [All -> [ACs -> Nat]]
         /\ late' \subseteq Stas
  <1> DEFINE Good == /\ flight' \in [ACs -> Frames] /\ direct' \in [ACs -> Frames]
                     /\ taken' \in Seq(Frames)
                     /\ pend' \in [All -> [ACs -> Seq(Frames)]]
                     /\ sent' \in [All -> [ACs -> Nat]]
                     /\ late' \subseteq Stas
  <1>1. /\ flight \in [ACs -> Frames] /\ direct \in [ACs -> Frames] /\ taken \in Seq(Frames)
        /\ pend \in [All -> [ACs -> Seq(Frames)]] /\ sent \in [All -> [ACs -> Nat]]
        /\ late \subseteq Stas
    BY DEF TypeOK
  <1>2. \A f \in Frames : f.to \in All /\ f.ac \in ACs /\ f.no \in Nat
    BY DEF Frames
  <1>3. NoFrame \in Frames
    BY DEF NoFrame, Frames, All, ACs
  <1>4. <<>> \in Seq(Frames)
    BY EmptySeq
  <1>5. ASSUME NEW ac \in ACs, NEW buffer \in BOOLEAN, HalXmit(ac, buffer) PROVE Good
    <2>1. flight[ac] \in Frames /\ flight[ac].to \in All /\ <<flight[ac]>> \in Seq(Frames)
      BY <1>1, <1>2
    <2>2. Classified(flight[ac].to, <<flight[ac]>>) \in [All -> [ACs -> Seq(Frames)]]
      BY <2>1, ClassifiedIs
    <2>3. /\ direct' = direct \/ direct' = [direct EXCEPT ![ac] = flight[ac]]
          /\ late' = late \/ late' = late \union ({flight[ac].to} \ {Bmc})
          /\ pend' = pend \/ pend' = Classified(flight[ac].to, <<flight[ac]>>)
          /\ flight' = [flight EXCEPT ![ac] = NoFrame]
          /\ UNCHANGED <<taken, sent>>
      BY <1>5, Zenon DEF HalXmit, counts
    <2>4. pend' \in [All -> [ACs -> Seq(Frames)]]
      BY <1>1, <2>2, <2>3
    <2> QED  BY <1>1, <1>3, <2>1, <2>3, <2>4 DEF All
  <1>6. ASSUME NEW ac \in ACs, SendDirect(ac) PROVE Good
    <2>1. direct[ac] \in Frames /\ direct[ac].to \in All /\ direct[ac].no \in Nat
      BY <1>1, <1>2
    <2>2. /\ sent' = [sent EXCEPT ![direct[ac].to][ac] = direct[ac].no]
          /\ direct' = [direct EXCEPT ![ac] = NoFrame]
          /\ UNCHANGED <<flight, taken, pend, late>>
      BY <1>6, Zenon DEF SendDirect, queues
    <2>3. sent' \in [All -> [ACs -> Nat]]
      BY <1>1, <2>1, <2>2, EntryType
    <2> QED  BY <1>1, <1>3, <2>2, <2>3
  <1>7. ASSUME NEW x \in All, NEW ac \in ACs, TakeFrame(x, ac) PROVE Good
    <2>1. /\ pend[x][ac] # <<>>
          /\ taken' = <<Head(pend[x][ac])>>
          /\ pend' = [pend EXCEPT ![x][ac] = Tail(@)]
          /\ UNCHANGED <<flight, direct, sent, late>>
      BY <1>7, Zenon DEF TakeFrame, counts
    <2>2. <<Head(pend[x][ac])>> \in Seq(Frames) /\ Tail(pend[x][ac]) \in Seq(Frames)
      BY <1>1, <2>1, HeadThenTail
    <2>3. [pend EXCEPT ![x][ac] = Tail(pend[x][ac])] \in [All -> [ACs -> Seq(Frames)]]
      BY <1>1, <2>2, EntryType
    <2>4. pend' = [pend EXCEPT ![x][ac] = Tail(pend[x][ac])]
      BY <1>1, <2>1
    <2> QED  BY <1>1, <2>1, <2>2, <2>3, <2>4
  <1>8. ASSUME NEW n \in 1 .. MaxFrames + MaxBroadcasts, TakeMore(n) PROVE Good
    <2> DEFINE x == taken[1].to  ac == taken[1].ac
    <2>1. /\ Len(taken) = 1 /\ n <= Len(pend[x][ac])
          /\ taken' = taken \o SubSeq(pend[x][ac], 1, n)
          /\ pend' = [pend EXCEPT ![x][ac] = SubSeq(@, n + 1, Len(@))]
          /\ UNCHANGED <<flight, direct, sent, late>>
      BY <1>8, Zenon DEF TakeMore, counts
    <2>2. taken[1] \in Frames
      <3>1. 1 \in 1 .. Len(taken)
        BY <2>1
      <3> QED  BY <1>1, <3>1, ElementOfSeq
    <2>3. x \in All /\ ac \in ACs
      BY <1>2, <2>2
    <2> HIDE DEF x, ac
    <2>4. n \in 1 .. Len(pend[x][ac]) /\ pend[x][ac] \in Seq(Frames)
      BY <1>1, <2>1, <2>3, SleepAssumption
    <2>5. /\ SubSeq(pend[x][ac], 1, n) \in Seq(Frames)
          /\ SubSeq(pend[x][ac], n + 1, Len(pend[x][ac])) \in Seq(Frames)
      BY <2>4, CutType
    <2> DEFINE rest == SubSeq(pend[x][ac], n + 1, Len(pend[x][ac]))
    <2>6. pend' = [pend EXCEPT ![x][ac] = rest]
      BY <1>1, <2>1, <2>3
    <2>7. rest \in Seq(Frames)
      BY <2>5
    <2> HIDE DEF rest
    <2>8. [pend EXCEPT ![x][ac] = rest] \in [All -> [ACs -> Seq(Frames)]]
      BY <1>1, <2>3, <2>7, EntryType
    <2>9. taken' \in Seq(Frames)
      BY <1>1, <2>1, <2>5, ConcatProperties
    <2> QED  BY <1>1, <2>1, <2>6, <2>8, <2>9
  <1>9. CASE WriteTransfer
    <2>1. /\ taken # <<>>
          /\ sent' = [sent EXCEPT ![taken[1].to][taken[1].ac] = Last(taken).no]
          /\ taken' = <<>>
          /\ UNCHANGED <<flight, direct, pend, late>>
      BY <1>9, Zenon DEF WriteTransfer, queues
    <2>2. 1 \in 1 .. Len(taken) /\ Len(taken) \in 1 .. Len(taken)
      BY <1>1, <2>1, EmptySeq, LenProperties
    <2>3. taken[1] \in Frames /\ Last(taken) \in Frames
      BY <1>1, <2>2, ElementOfSeq DEF Last
    <2>4. sent' \in [All -> [ACs -> Nat]]
      BY <1>1, <1>2, <2>1, <2>3, EntryType
    <2> QED  BY <1>1, <1>4, <2>1, <2>4
  <1> QED  BY <1>5, <1>6, <1>7, <1>8, <1>9 DEF Transmits, HandsOn

\* The transmission does not touch what is counted.
LEMMA TransmitCounts ==
  ASSUME CountInv, Transmits
  PROVE  CountInv'
  <1>1. AcLenEnough'
    BY TransmitStays, CountStays DEF CountInv, AcLenEnough
  <1>2. TypeOK'
    BY TransmitStays, TransmitTypes DEF CountInv, TypeOK
  <1> QED  BY <1>1, <1>2 DEF CountInv

\* The commands that Sleep appends for the broadcasts it moves.
LEMMA ReleasesType ==
  ASSUME NEW q \in Seq(Frames), NEW b
  PROVE  [i \in DOMAIN q |-> IF b /\ i = 1 THEN "beacon" ELSE "bmc"]
           \in Seq({"beacon", "bmc", "hiq"})
  <1> DEFINE r == [i \in DOMAIN q |-> IF b /\ i = 1 THEN "beacon" ELSE "bmc"]
  <1>1. DOMAIN q = 1 .. Len(q) /\ Len(q) \in Nat
    BY LenProperties
  <1>2. r \in [1 .. Len(q) -> {"beacon", "bmc", "hiq"}]
    BY <1>1
  <1> HIDE DEF r
  <1>3. r \in Seq({"beacon", "bmc", "hiq"})
    BY <1>1, <1>2, SeqDef
  <1> QED  BY <1>3 DEF r

\* What moves to the sleep queue is counted as what is given to it.
LEMMA SleepCounts ==
  ASSUME CountInv, NEW s \in Stas, Sleep(s)
  PROVE  CountInv'
  <1> DEFINE moved == pend[s]["VO"] \o pend[s]["BE"]
             bmc   == pend[Bmc]["BE"]
             uc    == IF AnyAnnounced(s, moved) THEN {s} ELSE {}
             bc    == IF bmc = <<>> THEN {} ELSE {Bmc}
             ucNew == NewlyAnnounced(s, moved)
             bcNew == ~(bc \subseteq tim)
  <1>1. /\ sleeping' = sleeping \union {s}
        /\ late' = late \/ late' = late \union {s}
        /\ dz' = dz \union {s} \union bc
        /\ sleepQ' = [sleepQ EXCEPT ![s] = @ \o moved, ![Bmc] = @ \o bmc]
        /\ qlen' = [qlen EXCEPT ![s] = @ + Len(moved)]
        /\ acLen' = [acLen EXCEPT ![s] = @ + Added(s, moved)]
        /\ pend' = [pend EXCEPT ![s] = [ac \in ACs |-> <<>>], ![Bmc]["BE"] = <<>>]
        /\ tim' = tim \union uc \union bc
        /\ ie' = tim' \/ ie' = ie
        /\ cmds' = cmds \o (IF ucNew THEN <<"beacon">> ELSE <<>>)
                        \o [i \in DOMAIN bmc |-> IF bcNew /\ i = 1 THEN "beacon" ELSE "bmc"]
        /\ UNCHANGED <<delivery, alive, flight, direct, taken, given, sent, air, rx, cpc, copy,
                       asked, clears, raced>>
    BY Zenon DEF Sleep, thread, counts, path
  <1>2. /\ s \in All /\ Bmc \in All /\ s # Bmc /\ "BE" \in ACs /\ "VO" \in ACs
        /\ Stas \subseteq All
    BY SleepAssumption DEF All, ACs
  <1>3. /\ sleepQ \in [All -> Seq(Frames)] /\ pend \in [All -> [ACs -> Seq(Frames)]]
        /\ cmds \in Seq({"beacon", "bmc", "hiq"}) /\ acLen \in [Stas -> Nat]
        /\ qlen \in [Stas -> Int]
        /\ tim \subseteq All /\ dz \subseteq All /\ ie \subseteq All
        /\ sleeping \subseteq Stas /\ late \subseteq Stas
    BY DEF CountInv, TypeOK
  <1>4. /\ moved \in Seq(Frames) /\ bmc \in Seq(Frames) /\ uc \subseteq All /\ bc \subseteq All
        /\ Len(moved) \in Nat
    <2>1. moved \in Seq(Frames) /\ bmc \in Seq(Frames) /\ uc \subseteq All /\ bc \subseteq All
      BY <1>2, <1>3, ConcatProperties
    <2> HIDE DEF moved
    <2> QED  BY <2>1, LenProperties
  <1>5. cmds' \in Seq({"beacon", "bmc", "hiq"})
    <2>1. (IF ucNew THEN <<"beacon">> ELSE <<>>) \in Seq({"beacon", "bmc", "hiq"})
      <3>1. /\ <<>> \in Seq({"beacon", "bmc", "hiq"})
            /\ <<"beacon">> \in Seq({"beacon", "bmc", "hiq"})
        OBVIOUS
      <3> HIDE DEF ucNew
      <3> QED  BY <3>1, Zenon
    <2>2. [i \in DOMAIN bmc |-> IF bcNew /\ i = 1 THEN "beacon" ELSE "bmc"]
            \in Seq({"beacon", "bmc", "hiq"})
      BY <1>4, ReleasesType
    <2> HIDE DEF bmc, ucNew, bcNew
    <2> QED  BY <1>1, <1>3, <2>1, <2>2, ConcatProperties
  <1> HIDE DEF moved, bmc, uc, bc, ucNew, bcNew
  <1>6. /\ sleepQ' \in [All -> Seq(Frames)]
        /\ sleepQ'[s] = sleepQ[s] \o moved
        /\ \A x \in Stas : x # s => sleepQ'[x] = sleepQ[x]
    <2>1. sleepQ[s] \o moved \in Seq(Frames) /\ sleepQ[Bmc] \o bmc \in Seq(Frames)
      BY <1>2, <1>3, <1>4, ConcatProperties
    <2>2. sleepQ' = [x \in All |-> IF x = s THEN sleepQ[s] \o moved
                                   ELSE IF x = Bmc THEN sleepQ[Bmc] \o bmc ELSE sleepQ[x]]
      BY <1>1, <1>2, <1>3
    <2>3. Stas \subseteq All \ {Bmc}
      BY SleepAssumption DEF All
    <2> QED  BY <1>2, <1>3, <2>1, <2>2, <2>3
  <1>7. pend' \in [All -> [ACs -> Seq(Frames)]]
    <2>1. <<>> \in Seq(Frames)
      BY EmptySeq
    <2>2. [ac \in ACs |-> <<>>] \in [ACs -> Seq(Frames)]
      BY <2>1
    <2>3. [pend[Bmc] EXCEPT !["BE"] = <<>>] \in [ACs -> Seq(Frames)]
      BY <1>2, <1>3, <2>1
    <2>4. pend' = [x \in All |-> IF x = s THEN [ac \in ACs |-> <<>>]
                                 ELSE IF x = Bmc THEN [pend[Bmc] EXCEPT !["BE"] = <<>>]
                                 ELSE pend[x]]
      BY <1>1, <1>2, <1>3
    <2> QED  BY <1>3, <2>2, <2>3, <2>4
  <1>8. acLen' \in [Stas -> Nat] /\ AcLenEnough'
    <2>1. /\ CountOf(s, sleepQ[s]) \in Nat /\ CountOf(s, moved) \in Nat
          /\ CountOf(s, sleepQ[s] \o moved) = CountOf(s, sleepQ[s]) + CountOf(s, moved)
      BY <1>2, <1>3, <1>4, CountConcat
    <2>2. /\ acLen[s] + CountOf(s, moved) \in Nat
          /\ acLen[s] + CountOf(s, moved) >= CountOf(s, sleepQ[s] \o moved)
      BY <1>3, <2>1 DEF CountInv, AcLenEnough
    <2>3. acLen' = [acLen EXCEPT ![s] = acLen[s] + CountOf(s, moved)]
      BY <1>1 DEF Added
    <2> QED  BY <1>1, <1>6, <2>2, <2>3, CountFollows
  <1>9. TypeOK'
    <2>1. sleeping' \subseteq Stas /\ late' \subseteq Stas
      BY <1>1, <1>3
    <2>2. dz' \subseteq All /\ tim' \subseteq All /\ ie' \subseteq All
      BY <1>1, <1>2, <1>3, <1>4
    <2>3. qlen' \in [Stas -> Int]
      BY <1>1, <1>3, <1>4
    <2> QED  BY <1>1, <1>5, <1>6, <1>7, <1>8, <2>1, <2>2, <2>3 DEF CountInv, TypeOK
  <1> QED  BY <1>8, <1>9 DEF CountInv

\* A waking station: its counter goes down by what is taken out, which is no more than the
\* counter has.
LEMMA WakeUpCounts ==
  ASSUME CountInv, NEW s \in Stas, WakeUp(s),
         rx' \in [at : {"idle", "test", "len", "read", "write", "tell"}, sta : All,
                  seen : SUBSET All],
         cpc' \in {"idle", "test", "flush", "tim", "timRead", "dz", "dzRead", "announce",
                   "ask", "tell"},
         clears' \in BOOLEAN
  PROVE  CountInv'
  <1> DEFINE up   == IF qlen'[s] = 0 THEN {s} ELSE {}
             out  == Classified(s, sleepQ[s])
             gone == IF LastOut(up) THEN up \union {Bmc} ELSE up
             last == LastOut(up)
  <1>1. /\ sleeping' = sleeping \ up /\ alive' = alive \ up
        /\ qlen' = [qlen EXCEPT ![s] = @ - Len(sleepQ[s])]
        /\ acLen' = [acLen EXCEPT ![s] = @ - CountOf(s, sleepQ[s])]
        /\ pend' = IF last THEN [out EXCEPT ![Bmc]["BE"] = @ \o sleepQ[Bmc]] ELSE out
        /\ sleepQ' = [x \in All |-> IF x = s \/ x \in gone THEN <<>> ELSE sleepQ[x]]
        /\ tim' = tim \ gone /\ dz' = dz \ gone
        /\ UNCHANGED <<delivery, flight, direct, taken, given, sent, ie, air, cmds, copy,
                       asked, raced, late>>
    BY Zenon DEF WakeUp, path, counts
  <1>2. /\ s \in All /\ Bmc \in All /\ "BE" \in ACs /\ gone \cap Stas \subseteq {s}
        /\ Stas \subseteq All
    BY SleepAssumption DEF All, ACs
  <1>3. /\ sleepQ \in [All -> Seq(Frames)] /\ acLen \in [Stas -> Nat] /\ <<>> \in Seq(Frames)
        /\ qlen \in [Stas -> Int] /\ Len(sleepQ[s]) \in Nat
    BY EmptySeq, LenProperties DEF CountInv, TypeOK, All
  <1> HIDE DEF last, gone, up
  <1>4. out \in [All -> [ACs -> Seq(Frames)]]
    BY <1>2, <1>3, ClassifiedIs DEF CountInv
  <1> HIDE DEF out
  <1>5. pend' \in [All -> [ACs -> Seq(Frames)]]
    <2>1. out[Bmc]["BE"] \o sleepQ[Bmc] \in Seq(Frames)
      BY <1>2, <1>3, <1>4, ConcatProperties
    <2>2. [out EXCEPT ![Bmc]["BE"] = @ \o sleepQ[Bmc]] \in [All -> [ACs -> Seq(Frames)]]
      <3>1. [out EXCEPT ![Bmc]["BE"] = out[Bmc]["BE"] \o sleepQ[Bmc]]
              \in [All -> [ACs -> Seq(Frames)]]
        BY <1>2, <1>4, <2>1, EntryType
      <3>2. [out EXCEPT ![Bmc]["BE"] = @ \o sleepQ[Bmc]]
              = [out EXCEPT ![Bmc]["BE"] = out[Bmc]["BE"] \o sleepQ[Bmc]]
        BY <1>2, <1>4
      <3> QED  BY <3>1, <3>2
    <2> QED  BY <1>1, <1>4, <2>2
  <1>6. /\ sleepQ' \in [All -> Seq(Frames)]
        /\ sleepQ'[s] = <<>>
        /\ \A x \in Stas : x # s => sleepQ'[x] = sleepQ[x]
    BY <1>1, <1>2, <1>3
  <1>7. acLen' \in [Stas -> Nat] /\ AcLenEnough'
    <2>1. CountOf(s, sleepQ[s]) \in Nat
      BY <1>2, <1>3, CountConcat
    <2>2. acLen[s] - CountOf(s, sleepQ[s]) \in Nat
      BY <1>3, <2>1 DEF CountInv, AcLenEnough
    <2>3. acLen[s] - CountOf(s, sleepQ[s]) >= CountOf(s, <<>>)
      BY <2>2, CountEmpty
    <2> QED  BY <1>1, <1>6, <2>2, <2>3, CountFollows
  <1>8. TypeOK'
    <2>1. /\ sleeping' \subseteq Stas /\ alive' \subseteq Stas
          /\ dz' \subseteq All /\ tim' \subseteq All
      BY <1>1 DEF CountInv, TypeOK
    <2>2. qlen' \in [Stas -> Int]
      BY <1>1, <1>3
    <2> QED  BY <1>1, <1>5, <1>6, <1>7, <2>1, <2>2 DEF CountInv, TypeOK
  <1> QED  BY <1>7, <1>8 DEF CountInv

\* The station wakes up by its power management bit, or its queue is cleared.
LEMMA WakeCounts ==
  ASSUME CountInv, NEW s \in Stas, Wake(s) \/ ClearSleepQ(s)
  PROVE  CountInv'
  <1>1. /\ WakeUp(s)
        /\ rx' = RxIdle \/ rx' = rx \/ rx' = [at |-> "tell", sta |-> s, seen |-> {}]
        /\ cpc' = cpc \/ cpc' = "tell"
        /\ clears' = clears \/ clears' = (tim' # tim)
    BY Zenon DEF Wake, Tell, ClearSleepQ
  <1>2. rx' \in [at : {"idle", "test", "len", "read", "write", "tell"}, sta : All,
                 seen : SUBSET All]
    <2>1. /\ rx \in [at : {"idle", "test", "len", "read", "write", "tell"}, sta : All,
                     seen : SUBSET All]
          /\ s \in All /\ Bmc \in All
      BY DEF CountInv, TypeOK, All
    <2>2. /\ RxIdle \in [at : {"idle", "test", "len", "read", "write", "tell"}, sta : All,
                         seen : SUBSET All]
          /\ [at |-> "tell", sta |-> s, seen |-> {}]
               \in [at : {"idle", "test", "len", "read", "write", "tell"}, sta : All,
                    seen : SUBSET All]
      BY <2>1 DEF RxIdle
    <2> QED  BY <1>1, <2>1, <2>2
  <1>3. clears' \in BOOLEAN
    <2>1. clears \in BOOLEAN /\ (tim' # tim) \in BOOLEAN
      BY DEF CountInv, TypeOK
    <2> QED  BY <1>1, <2>1, Zenon
  <1>4. cpc' \in {"idle", "test", "flush", "tim", "timRead", "dz", "dzRead", "announce",
                  "ask", "tell"}
    BY <1>1 DEF CountInv, TypeOK
  <1> QED  BY <1>1, <1>2, <1>3, <1>4, WakeUpCounts

\* A poll takes one frame; the counter does not follow, and stays high enough.
LEMMA PsPollCounts ==
  ASSUME CountInv, NEW s \in Stas, PsPoll(s)
  PROVE  CountInv'
  <1>1. /\ alive' = alive \ {s}
        /\ \/ /\ sleepQ[s] # <<>>
              /\ pend' = Classified(s, <<Head(sleepQ[s])>>)
              /\ sleepQ' = [sleepQ EXCEPT ![s] = Tail(@)]
              /\ qlen' = [qlen EXCEPT ![s] = @ - 1]
           \/ UNCHANGED <<pend, sleepQ, qlen>>
        /\ tim' = tim \/ tim' = tim \ {s}
        /\ rx' = rx \/ rx' = [at |-> "test", sta |-> s, seen |-> {}]
        /\ \/ ie' = tim' /\ cmds' = Append(cmds, "beacon")
           \/ ie' = ie /\ cmds' = cmds
        /\ UNCHANGED <<delivery, sleeping, dz, acLen, flight, direct, taken, given, sent, air,
                       cpc, copy, asked, clears, raced, late>>
    BY Zenon DEF PsPoll, thread, counts, path, UpdateBeaconIf, UpdateBeacon
  <1>2. /\ s \in All /\ Stas \subseteq All
        /\ sleepQ \in [All -> Seq(Frames)] /\ acLen \in [Stas -> Nat]
        /\ qlen \in [Stas -> Int]
        /\ pend \in [All -> [ACs -> Seq(Frames)]]
        /\ rx \in [at : {"idle", "test", "len", "read", "write", "tell"}, sta : All,
                   seen : SUBSET All]
    BY DEF All, CountInv, TypeOK
  <1>3. /\ sleepQ' \in [All -> Seq(Frames)]
        /\ pend' \in [All -> [ACs -> Seq(Frames)]]
        /\ AcLenEnough'
    <2>1. CASE UNCHANGED <<pend, sleepQ>>
      BY <1>1, <1>2, <2>1, CountStays DEF CountInv, AcLenEnough
    <2>2. CASE /\ sleepQ[s] # <<>>
               /\ pend' = Classified(s, <<Head(sleepQ[s])>>)
               /\ sleepQ' = [sleepQ EXCEPT ![s] = Tail(@)]
      <3>1. /\ Tail(sleepQ[s]) \in Seq(Frames)
            /\ <<Head(sleepQ[s])>> \in Seq(Frames)
        BY <1>2, <2>2, HeadThenTail
      <3>2. /\ sleepQ' \in [All -> Seq(Frames)]
            /\ sleepQ'[s] = Tail(sleepQ[s])
            /\ \A x \in Stas : x # s => sleepQ'[x] = sleepQ[x]
        BY <1>2, <2>2, <3>1
      <3>3. CountOf(s, Tail(sleepQ[s])) <= CountOf(s, sleepQ[s])
        BY <1>2, <2>2, CountTail
      <3>4. /\ CountOf(s, Tail(sleepQ[s])) \in Nat /\ CountOf(s, sleepQ[s]) \in Nat
        BY <1>2, <3>1, CountConcat
      <3>5. acLen[s] >= CountOf(s, Tail(sleepQ[s]))
        BY <1>2, <3>3, <3>4 DEF CountInv, AcLenEnough
      <3>6. acLen' = [acLen EXCEPT ![s] = acLen[s]]
        BY <1>1, <1>2
      <3>7. AcLenEnough'
        BY <1>1, <1>2, <3>2, <3>5, <3>6, CountFollows
      <3> QED  BY <1>2, <2>2, <3>1, <3>2, <3>7, ClassifiedIs DEF CountInv
    <2> QED  BY <1>1, <2>1, <2>2
  <1>4. TypeOK'
    <2>1. cmds' \in Seq({"beacon", "bmc", "hiq"})
      BY <1>1, CmdsType DEF CountInv, TypeOK
    <2>2. alive' \subseteq Stas /\ tim' \subseteq All /\ ie' \subseteq All
      BY <1>1 DEF CountInv, TypeOK
    <2>3. qlen' \in [Stas -> Int]
      BY <1>1, <1>2
    <2>4. rx' \in [at : {"idle", "test", "len", "read", "write", "tell"}, sta : All,
                   seen : SUBSET All]
      BY <1>1, <1>2
    <2> QED  BY <1>1, <1>3, <2>1, <2>2, <2>3, <2>4 DEF CountInv, TypeOK
  <1> QED  BY <1>3, <1>4 DEF CountInv

\* A trigger takes out all that is counted.
LEMMA TriggerCounts ==
  ASSUME CountInv, NEW s \in Stas, Trigger(s)
  PROVE  CountInv'
  <1> DEFINE out == Select(sleepQ[s], EnabledOf(s))
  <1>1. /\ sleepQ' = [sleepQ EXCEPT ![s] = Select(@, LegacyOf(s))]
        /\ pend' = Classified(s, out)
        /\ acLen' = [acLen EXCEPT ![s] = @ - Len(out)]
        /\ qlen' = [qlen EXCEPT ![s] = @ - Len(out)]
        /\ tim' = tim \/ tim' = tim \ {s}
        /\ \/ ie' = tim' /\ cmds' = Append(cmds, "beacon")
           \/ ie' = ie /\ cmds' = cmds
        /\ UNCHANGED <<delivery, sleeping, alive, dz, flight, direct, taken, given, sent, air,
                       rx, cpc, copy, asked, clears, raced, late>>
    BY Zenon DEF Trigger, station, thread, counts, path, UpdateBeaconIf, UpdateBeacon
  <1>2. /\ s \in All /\ Stas \subseteq All /\ qlen \in [Stas -> Int]
        /\ sleepQ \in [All -> Seq(Frames)] /\ acLen \in [Stas -> Nat]
    BY DEF All, CountInv, TypeOK
  <1>3. out \in Seq(Frames) /\ Select(sleepQ[s], LegacyOf(s)) \in Seq(Frames)
    BY <1>2, SelectType
  <1>4. /\ sleepQ' \in [All -> Seq(Frames)]
        /\ sleepQ'[s] = Select(sleepQ[s], LegacyOf(s))
        /\ \A x \in Stas : x # s => sleepQ'[x] = sleepQ[x]
    BY <1>1, <1>2, <1>3
  <1>5. pend' \in [All -> [ACs -> Seq(Frames)]]
    BY <1>1, <1>2, <1>3, ClassifiedIs DEF CountInv
  <1>6. acLen' \in [Stas -> Nat] /\ AcLenEnough' /\ Len(out) \in Nat
    <2>1. Len(out) = CountOf(s, sleepQ[s]) /\ Len(out) \in Nat
      BY <1>3, LenProperties DEF CountOf
    <2> HIDE DEF out
    <2>2. acLen[s] - Len(out) \in Nat
      BY <1>2, <2>1 DEF CountInv, AcLenEnough
    <2>3. acLen[s] - Len(out) >= CountOf(s, Select(sleepQ[s], LegacyOf(s)))
      BY <1>2, <2>2, CountLegacy
    <2> QED  BY <1>1, <1>4, <2>1, <2>2, <2>3, CountFollows
  <1> HIDE DEF out
  <1>7. TypeOK'
    <2>1. cmds' \in Seq({"beacon", "bmc", "hiq"})
      BY <1>1, CmdsType DEF CountInv, TypeOK
    <2>2. tim' \subseteq All /\ ie' \subseteq All
      BY <1>1 DEF CountInv, TypeOK
    <2>3. qlen' \in [Stas -> Int]
      BY <1>1, <1>2, <1>6
    <2> QED  BY <1>1, <1>4, <1>5, <1>6, <2>1, <2>2, <2>3 DEF CountInv, TypeOK
  <1> QED  BY <1>6, <1>7 DEF CountInv

\* The unlocked end of a poll: the count is set to zero, the bit is cleared.
LEMMA RxTailCounts ==
  ASSUME CountInv, RxTail
  PROVE  CountInv'
  <1>1. /\ rx.sta \in All /\ rx.seen \subseteq All
        /\ rx \in [at : {"idle", "test", "len", "read", "write", "tell"}, sta : All,
                   seen : SUBSET All]
        /\ tim \subseteq All /\ ie \subseteq All /\ qlen \in [Stas -> Int] /\ raced \in BOOLEAN
    BY DEF CountInv, TypeOK
  <1>2. \A lost \in Lost : lost \in BOOLEAN
    BY DEF Lost
  <1>3. UNCHANGED <<delivery, sleeping, alive, dz, sleepQ, acLen, pend, flight, direct, taken,
                    given, sent, air, cpc, copy, asked, clears, late>>
    BY Zenon DEF RxTail, PollTest, PollLen, PollRead, PollWrite, RxTell, station, queues, path,
       counts, thread
  <1>4. /\ qlen' = qlen \/ qlen' = [qlen EXCEPT ![rx.sta] = 0]
        /\ tim' = tim \/ tim' = rx.seen \ {rx.sta}
        /\ \/ ie' = ie /\ cmds' = cmds
           \/ ie' = tim /\ cmds' = Append(cmds, "beacon")
    BY Zenon DEF RxTail, PollTest, PollLen, PollRead, PollWrite, RxTell, queues, UpdateBeacon
  <1>5. rx' \in [at : {"idle", "test", "len", "read", "write", "tell"}, sta : All,
                 seen : SUBSET All]
    <2>1. RxIdle \in [at : {"idle", "test", "len", "read", "write", "tell"}, sta : All,
                      seen : SUBSET All]
      BY DEF RxIdle, All
    <2>2. \/ rx' = RxIdle
          \/ \E to \in {"len", "read"} : rx' = [rx EXCEPT !.at = to]
          \/ rx' = [rx EXCEPT !.at = "write", !.seen = tim]
          \/ rx' = [rx EXCEPT !.at = "tell", !.seen = {}]
      BY Zenon DEF RxTail, PollTest, PollLen, PollRead, PollWrite, RxTell, RxGoto
    <2> QED  BY <1>1, <2>1, <2>2
  <1>6. raced' \in BOOLEAN
    <2>1. CASE raced' = raced
      BY <1>1, <2>1
    <2>2. CASE PollLen
      BY <2>2 DEF PollLen
    <2>3. CASE PollWrite
      BY <2>3 DEF PollWrite
    <2> QED  BY <2>1, <2>2, <2>3, Zenon DEF RxTail, PollTest, PollRead, RxTell
  <1>7. AcLenEnough'
    BY <1>3, CountStays DEF CountInv, AcLenEnough
  <1>8. TypeOK'
    <2>1. cmds' \in Seq({"beacon", "bmc", "hiq"})
      BY <1>4, CmdsType DEF CountInv, TypeOK
    <2>2. tim' \subseteq All /\ ie' \subseteq All /\ qlen' \in [Stas -> Int]
      BY <1>1, <1>4
    <2> QED  BY <1>3, <1>5, <1>6, <2>1, <2>2 DEF CountInv, TypeOK
  <1> QED  BY <1>7, <1>8 DEF CountInv

\* The alive check reads the bitmap and marks the station.
LEMMA AliveCounts ==
  ASSUME CountInv, NEW s \in Stas, AliveCheck(s)
  PROVE  CountInv'
  <1>1. /\ alive' = alive \union {s} /\ asked' = s /\ copy' = tim /\ cpc' = "ask"
        /\ UNCHANGED <<delivery, sleeping, dz, tim, sleepQ, qlen, acLen, pend, flight, direct,
                       taken, given, sent, ie, air, rx, cmds, clears, raced, late>>
    BY Zenon DEF AliveCheck, counts, queues, path
  <1>2. TypeOK'
    <2>1. alive' \subseteq Stas /\ asked' \in All /\ copy' \subseteq All
      BY <1>1 DEF CountInv, TypeOK, All
    <2> QED  BY <1>1, <2>1 DEF CountInv, TypeOK
  <1>3. AcLenEnough'
    BY <1>1, CountStays DEF CountInv, AcLenEnough
  <1> QED  BY <1>2, <1>3 DEF CountInv

\* The command thread concerns the broadcasts, and the bit of the station it asks.
LEMMA ThreadCounts ==
  ASSUME CountInv, CmdThread
  PROVE  CountInv'
  <1>1. UNCHANGED <<delivery, sleeping, alive, late, qlen, acLen, flight, direct, taken, given,
                    sent, rx>>
    BY Zenon DEF CmdThread, TakeBeacon, TakeBmc, TestBmc, FlushBmc, TakeHiq, ReadTim, WriteTim,
       ReadDz, WriteDz, WriteAsk, Announce, traffic, station, queues, path, counts
  <1>2. /\ sleepQ' \in [All -> Seq(Frames)] /\ pend' \in [All -> [ACs -> Seq(Frames)]]
        /\ \A x \in Stas : sleepQ'[x] = sleepQ[x]
    <2>0. sleepQ \in [All -> Seq(Frames)] /\ pend \in [All -> [ACs -> Seq(Frames)]]
      BY DEF CountInv, TypeOK
    <2>1. CASE FlushBmc
      <3>1. /\ Bmc \in All /\ "BE" \in ACs /\ Stas \subseteq All \ {Bmc} /\ <<>> \in Seq(Frames)
        BY SleepAssumption, EmptySeq DEF All, ACs
      <3>2. /\ pend' = [pend EXCEPT ![Bmc]["BE"] = @ \o sleepQ[Bmc]]
            /\ sleepQ' = [sleepQ EXCEPT ![Bmc] = <<>>]
        BY <2>1 DEF FlushBmc
      <3>3. pend[Bmc]["BE"] \o sleepQ[Bmc] \in Seq(Frames)
        BY <2>0, <3>1, ConcatProperties
      <3>4. [pend EXCEPT ![Bmc]["BE"] = pend[Bmc]["BE"] \o sleepQ[Bmc]]
              \in [All -> [ACs -> Seq(Frames)]]
        BY <2>0, <3>1, <3>3, EntryType
      <3> QED  BY <2>0, <3>1, <3>2, <3>4
    <2>2. CASE UNCHANGED <<sleepQ, pend>>
      BY <2>0, <2>2
    <2>3. UNCHANGED <<sleepQ, pend>> \/ FlushBmc
      BY Zenon DEF CmdThread, TakeBeacon, TakeBmc, TestBmc, TakeHiq, ReadTim, WriteTim, ReadDz,
         WriteDz, WriteAsk, Announce, queues
    <2> QED  BY <2>1, <2>2, <2>3
  <1>3. /\ dz' \subseteq All /\ tim' \subseteq All /\ ie' \subseteq All /\ air' \subseteq All
        /\ copy' \subseteq All /\ asked' \in All
    <2>1. /\ dz \subseteq All /\ tim \subseteq All /\ ie \subseteq All /\ air \subseteq All
          /\ copy \subseteq All /\ asked \in All /\ Bmc \in All
      BY DEF CountInv, TypeOK, All
    <2>2. /\ dz' = dz \/ dz' = copy \ {Bmc}
          /\ tim' = tim \/ tim' = copy \ {Bmc} \/ tim' = copy \union {asked}
          /\ ie' = ie \/ ie' = tim
          /\ air' = air \/ air' = ie
          /\ copy' = copy \/ copy' = {} \/ copy' = tim \/ copy' = dz
          /\ asked' = asked \/ asked' = Bmc
      BY Zenon DEF CmdThread, TakeBeacon, TakeBmc, TestBmc, FlushBmc, TakeHiq, ReadTim,
         WriteTim, ReadDz, WriteDz, WriteAsk, Announce, traffic, UpdateBeaconIf, UpdateBeacon
    <2> QED  BY <2>1, <2>2
  <1>4. /\ clears' \in BOOLEAN /\ raced' \in BOOLEAN
        /\ cpc' \in {"idle", "test", "flush", "tim", "timRead", "dz", "dzRead", "announce",
                     "ask", "tell"}
    <2>1. clears \in BOOLEAN /\ raced \in BOOLEAN
      BY DEF CountInv, TypeOK
    <2>2. \/ clears' = clears \/ clears' = FALSE \/ clears' = TRUE
          \/ clears' = (Bmc \in tim)
      BY Zenon DEF CmdThread, TakeBeacon, TakeBmc, TestBmc, FlushBmc, TakeHiq, ReadTim,
         WriteTim, ReadDz, WriteDz, WriteAsk, Announce
    <2>3. clears' \in BOOLEAN
      <3>1. (Bmc \in tim) \in BOOLEAN /\ TRUE \in BOOLEAN /\ FALSE \in BOOLEAN
        OBVIOUS
      <3> QED  BY <2>1, <2>2, <3>1, Zenon
    <2>4. raced' \in BOOLEAN
      <3>1. raced' = raced \/ WriteTim \/ WriteDz \/ WriteAsk
        BY Zenon DEF CmdThread, TakeBeacon, TakeBmc, TestBmc, FlushBmc, TakeHiq, ReadTim,
           ReadDz, Announce
      <3>2. WriteTim => raced' \in BOOLEAN
        BY DEF WriteTim
      <3>3. WriteDz => raced' \in BOOLEAN
        BY DEF WriteDz
      <3>4. WriteAsk => raced' \in BOOLEAN
        BY DEF WriteAsk
      <3> QED  BY <2>1, <3>1, <3>2, <3>3, <3>4
    <2>5. cpc' \in {"idle", "test", "flush", "tim", "timRead", "dz", "dzRead", "announce",
                    "ask", "tell"}
      BY DEF CmdThread, TakeBeacon, TakeBmc, TestBmc, FlushBmc, TakeHiq, ReadTim, WriteTim,
         ReadDz, WriteDz, WriteAsk, Announce
    <2> QED  BY <2>3, <2>4, <2>5
  <1>5. cmds' \in Seq({"beacon", "bmc", "hiq"})
    <2>1. cmds \in Seq({"beacon", "bmc", "hiq"})
      BY DEF CountInv, TypeOK
    <2>2. cmds # <<>> => Tail(cmds) \in Seq({"beacon", "bmc", "hiq"})
      BY <2>1, HeadTailProperties
    <2>3. \/ cmds' = cmds
          \/ cmds # <<>> /\ cmds' = Tail(cmds)
          \/ cmds' = Append(cmds, "hiq") \/ cmds' = Append(cmds, "beacon")
          \/ cmds # <<>> /\ cmds' = Append(Tail(cmds), "hiq")
      BY DEF CmdThread, TakeBeacon, TakeBmc, TestBmc, FlushBmc, TakeHiq, Takes, ReadTim,
         WriteTim, ReadDz, WriteDz, WriteAsk, Announce, UpdateBeaconIf, UpdateBeacon
    <2> QED  BY <2>1, <2>2, <2>3, AppendProperties
  <1>6. TypeOK'
    BY <1>1, <1>2, <1>3, <1>4, <1>5 DEF CountInv, TypeOK
  <1>7. AcLenEnough'
    BY <1>1, <1>2, CountStays DEF CountInv, AcLenEnough
  <1> QED  BY <1>6, <1>7 DEF CountInv

\* The steps of the model, the transmit path together.
LEMMA StepsAre ==
  ASSUME Next
  PROVE  \/ \E s \in Stas, ac \in ACs : Give(s, ac)
         \/ GiveBmc \/ Transmits \/ RxTail \/ CmdThread
         \/ \E s \in Stas : \/ Sleep(s) \/ Wake(s) \/ PsPoll(s) \/ Trigger(s)
                            \/ AliveCheck(s) \/ ClearSleepQ(s)
  BY Zenon DEF Next, Transmits

\* The invariant is kept by every step.
LEMMA CountStep ==
  ASSUME CountInv, [Next]_vars
  PROVE  CountInv'
  <1>1. CASE UNCHANGED vars
    <2>1. UNCHANGED <<delivery, sleeping, alive, dz, tim, sleepQ, qlen, acLen, pend, flight,
                      direct, taken, given, sent, ie, air, rx, cmds, cpc, copy, asked, clears,
                      raced, late>>
      BY <1>1, Zenon DEF vars
    <2>2. TypeOK'
      BY <2>1 DEF CountInv, TypeOK
    <2>3. AcLenEnough'
      BY <2>1, CountStays DEF CountInv, AcLenEnough
    <2> QED  BY <2>2, <2>3 DEF CountInv
  <1>2. CASE Next
    BY <1>2, StepsAre, GiveCounts, GiveBmcCounts, TransmitCounts, SleepCounts, WakeCounts,
       PsPollCounts, TriggerCounts, RxTailCounts, AliveCounts, ThreadCounts
  <1> QED  BY <1>1, <1>2

\* For any stations and frames every variable keeps its type; in particular sleepq_ac_len,
\* an unsigned counter in the driver, never goes below zero.
THEOREM TypeInvariant == Spec => []TypeOK
  <1>1. Init => CountInv  BY CountInit
  <1>2. CountInv /\ [Next]_vars => CountInv'  BY CountStep
  <1>3. CountInv => TypeOK  BY DEF CountInv
  <1> QED  BY <1>1, <1>2, <1>3, PTL DEF Spec

\* For any stations, frames and choice of delivery-enabled categories, on any number of
\* processors and whatever happens to the bitmaps: sleepq_ac_len is at least the number of
\* delivery-enabled frames in the sleep queue.
THEOREM CounterCoversQueue == Spec => []AcLenEnough
  <1>1. Init => CountInv  BY CountInit
  <1>2. CountInv /\ [Next]_vars => CountInv'  BY CountStep
  <1>3. CountInv => AcLenEnough  BY DEF CountInv
  <1> QED  BY <1>1, <1>2, <1>3, PTL DEF Spec

-----------------------------------------------------------------------------
(***************************************************************************)
(* Who sleeps.  That a station with an empty queue counts as awake needs   *)
(* sleepq_len to be the length of the queue.                               *)
(***************************************************************************)

Lens == \A s \in Stas : qlen[s] = Len(sleepQ[s])

DozeInv == ~raced => Lens /\ DozeMatches /\ AwakeMeansEmpty

\* At the start nobody sleeps.
LEMMA DozeInit == Init => DozeInv
  <1> SUFFICES ASSUME Init PROVE DozeInv  OBVIOUS
  <1>1. sleepQ = [x \in All |-> <<>>]  BY DEF Init
  <1>2. Lens  BY <1>1, EmptySeq DEF Init, Lens, All
  <1>3. DozeMatches  BY DEF Init, DozeMatches
  <1>4. AwakeMeansEmpty  BY <1>1 DEF Init, AwakeMeansEmpty, All
  <1> QED  BY <1>2, <1>3, <1>4 DEF DozeInv

\* The length follows when one queue changes.
LEMMA LensFollow ==
  ASSUME TypeOK, Lens, NEW s \in Stas, NEW q, NEW n, n = Len(q),
         sleepQ'[s] = q, qlen' = [qlen EXCEPT ![s] = n],
         \A x \in Stas : x # s => sleepQ'[x] = sleepQ[x]
  PROVE  Lens'
  <1>1. qlen \in [Stas -> Int]
    BY DEF TypeOK
  <1>2. ASSUME NEW x \in Stas PROVE qlen'[x] = Len(sleepQ'[x])
    <2>1. qlen'[x] = IF x = s THEN n ELSE qlen[x]
      BY <1>1
    <2>2. CASE x = s  BY <2>1, <2>2
    <2>3. CASE x # s  BY <2>1, <2>3 DEF Lens
    <2> QED  BY <2>2, <2>3
  <1> QED  BY <1>2 DEF Lens

\* A frame for a station that sleeps waits in its queue; the bitmap stays.
LEMMA GiveKeeps ==
  ASSUME CountInv, ~raced, DozeInv, NEW s \in Stas, NEW ac \in ACs, Give(s, ac)
  PROVE  DozeInv'
  <1> DEFINE f == [to |-> s, ac |-> ac, no |-> given[s][ac] + 1]
  <1>1. /\ UNCHANGED <<sleeping, dz, raced>>
        /\ \/ /\ s \in sleeping
              /\ sleepQ' = [sleepQ EXCEPT ![s] = Append(@, f)]
              /\ qlen' = [qlen EXCEPT ![s] = @ + 1]
              /\ tim' = tim \/ tim' = tim \union {s}
           \/ sleepQ' = sleepQ /\ qlen' = qlen /\ tim' = tim
    BY Zenon DEF Give, station, thread
  <1> HIDE DEF f
  <1>2. sleepQ \in [All -> Seq(Frames)] /\ qlen \in [Stas -> Int] /\ Stas \subseteq All
    BY DEF CountInv, TypeOK, All
  <1>3. \A x \in All : x # s \/ s \notin sleeping => sleepQ'[x] = sleepQ[x]
    BY <1>1, <1>2
  <1>4. Lens'
    <2>1. CASE sleepQ' = sleepQ /\ qlen' = qlen
      BY <2>1 DEF DozeInv, Lens
    <2>2. CASE /\ sleepQ' = [sleepQ EXCEPT ![s] = Append(@, f)]
               /\ qlen' = [qlen EXCEPT ![s] = @ + 1]
      <3>1. sleepQ[s] \in Seq(Frames) /\ Lens
        BY <1>2 DEF DozeInv
      <3>2. Len(Append(sleepQ[s], f)) = Len(sleepQ[s]) + 1 /\ sleepQ'[s] = Append(sleepQ[s], f)
        BY <1>2, <2>2, <3>1
      <3>3. qlen' = [qlen EXCEPT ![s] = Len(sleepQ[s]) + 1]
        BY <2>2, <3>1 DEF Lens
      <3>4. \A x \in Stas : x # s => sleepQ'[x] = sleepQ[x]
        BY <1>2, <1>3
      <3> DEFINE q == Append(sleepQ[s], f)
      <3>5. sleepQ'[s] = q /\ Len(sleepQ[s]) + 1 = Len(q)
        BY <3>2
      <3> HIDE DEF q
      <3> QED  BY <3>1, <3>3, <3>4, <3>5, LensFollow DEF CountInv
    <2> QED  BY <1>1, <2>1, <2>2
  <1>5. DozeMatches'
    BY <1>1 DEF DozeInv, DozeMatches
  <1>6. AwakeMeansEmpty'
    <2>1. ASSUME NEW x \in Stas \ sleeping PROVE sleepQ'[x] = <<>> /\ x \notin tim'
      BY <1>1, <1>2, <1>3, <2>1 DEF DozeInv, AwakeMeansEmpty
    <2>2. sleeping = {} => sleepQ'[Bmc] = <<>> /\ dz = {}
      BY <1>1, <1>3 DEF DozeInv, AwakeMeansEmpty, All
    <2> QED  BY <2>1, <2>2, <1>1 DEF AwakeMeansEmpty
  <1> QED  BY <1>4, <1>5, <1>6 DEF DozeInv

\* A broadcast is held back only while the bitmap, hence somebody, sleeps.
LEMMA GiveBmcKeeps ==
  ASSUME CountInv, ~raced, DozeInv, GiveBmc
  PROVE  DozeInv'
  <1> DEFINE f == [to |-> Bmc, ac |-> "BE", no |-> given[Bmc]["BE"] + 1]
  <1>1. /\ UNCHANGED <<sleeping, qlen, raced>>
        /\ \/ /\ dz # {}
              /\ sleepQ' = [sleepQ EXCEPT ![Bmc] = Append(@, f)]
              /\ tim' = tim \union {Bmc} /\ dz' = dz \union {Bmc}
           \/ sleepQ' = sleepQ /\ tim' = tim /\ dz' = dz
    BY Zenon DEF GiveBmc, station, thread
  <1>2. sleepQ \in [All -> Seq(Frames)] /\ Stas \subseteq All \ {Bmc}
    BY SleepAssumption DEF CountInv, TypeOK, All
  <1>3. \A x \in Stas : sleepQ'[x] = sleepQ[x] /\ (x \in tim' <=> x \in tim)
    BY <1>1, <1>2
  <1>4. Lens'
    BY <1>1, <1>3 DEF DozeInv, Lens
  <1>5. DozeMatches'
    BY <1>1 DEF DozeInv, DozeMatches
  <1>6. AwakeMeansEmpty'
    <2>1. sleeping = {} => sleepQ'[Bmc] = <<>> /\ dz' = {}
      BY <1>1 DEF DozeInv, AwakeMeansEmpty
    <2> QED  BY <1>1, <1>3, <2>1 DEF DozeInv, AwakeMeansEmpty
  <1> QED  BY <1>4, <1>5, <1>6 DEF DozeInv

\* Sleep sets the station's bit with its state.
LEMMA SleepKeeps ==
  ASSUME CountInv, ~raced, DozeInv, NEW s \in Stas, Sleep(s)
  PROVE  DozeInv'
  <1> DEFINE moved == pend[s]["VO"] \o pend[s]["BE"]
             bmc   == pend[Bmc]["BE"]
             uc    == IF AnyAnnounced(s, moved) THEN {s} ELSE {}
             bc    == IF bmc = <<>> THEN {} ELSE {Bmc}
  <1>1. /\ sleeping' = sleeping \union {s} /\ UNCHANGED raced
        /\ dz' = dz \union {s} \union bc
        /\ tim' = tim \union uc \union bc
        /\ sleepQ' = [sleepQ EXCEPT ![s] = @ \o moved, ![Bmc] = @ \o bmc]
        /\ qlen' = [qlen EXCEPT ![s] = @ + Len(moved)]
    BY Zenon DEF Sleep
  <1>2. /\ sleepQ \in [All -> Seq(Frames)] /\ pend \in [All -> [ACs -> Seq(Frames)]]
        /\ qlen \in [Stas -> Int]
        /\ Stas \subseteq All \ {Bmc} /\ Bmc \in All /\ "BE" \in ACs /\ "VO" \in ACs
        /\ uc \subseteq {s} /\ bc \subseteq {Bmc}
    BY SleepAssumption DEF CountInv, TypeOK, All, ACs
  <1>3. moved \in Seq(Frames)
    BY <1>2, ConcatProperties
  <1> HIDE DEF moved, bmc, uc, bc
  <1>4. /\ \A x \in Stas \ {s} : sleepQ'[x] = sleepQ[x] /\ (x \in tim' <=> x \in tim)
        /\ sleepQ'[s] = sleepQ[s] \o moved
    BY <1>1, <1>2
  <1>5. Lens'
    <2>1. Len(sleepQ[s] \o moved) = Len(sleepQ[s]) + Len(moved)
      BY <1>2, <1>3, ConcatProperties
    <2>2. qlen' = [qlen EXCEPT ![s] = Len(sleepQ[s]) + Len(moved)]
      BY <1>1 DEF DozeInv, Lens
    <2> QED  BY <1>4, <2>1, <2>2, LensFollow DEF CountInv, DozeInv
  <1>6. DozeMatches'
    BY <1>1, <1>2 DEF DozeInv, DozeMatches
  <1>7. AwakeMeansEmpty'
    BY <1>1, <1>4 DEF DozeInv, AwakeMeansEmpty
  <1> QED  BY <1>5, <1>6, <1>7 DEF DozeInv

\* A waking station: its queue is emptied, it counts as awake, and with the last sleeper
\* the queue of the broadcasts is emptied.
LEMMA WakeUpKeeps ==
  ASSUME CountInv, ~raced, DozeInv, NEW s \in Stas, WakeUp(s)
  PROVE  DozeInv' /\ tim' \subseteq tim
  <1> DEFINE up   == IF qlen'[s] = 0 THEN {s} ELSE {}
             last == LastOut(up)
             gone == IF LastOut(up) THEN up \union {Bmc} ELSE up
  <1>1. /\ sleeping' = sleeping \ up
        /\ qlen' = [qlen EXCEPT ![s] = @ - Len(sleepQ[s])]
        /\ sleepQ' = [x \in All |-> IF x = s \/ x \in gone THEN <<>> ELSE sleepQ[x]]
        /\ tim' = tim \ gone /\ dz' = dz \ gone /\ UNCHANGED raced
    BY Zenon DEF WakeUp
  <1>2. /\ sleepQ \in [All -> Seq(Frames)] /\ qlen \in [Stas -> Int] /\ sleeping \subseteq Stas
        /\ Stas \subseteq All \ {Bmc} /\ Bmc \in All /\ Len(<<>>) = 0
    BY SleepAssumption, EmptySeq DEF CountInv, TypeOK, All
  <1>3. qlen' = [qlen EXCEPT ![s] = 0]
    <2>1. qlen[s] = Len(sleepQ[s]) /\ qlen[s] \in Int
      BY <1>2 DEF DozeInv, Lens
    <2>2. qlen[s] - Len(sleepQ[s]) = 0
      BY <2>1
    <2> QED  BY <1>1, <2>2
  <1>4. up = {s}
    <2>1. qlen'[s] = 0
      BY <1>2, <1>3
    <2> QED  BY <2>1
  <1> DEFINE out == dz \ {s, Bmc} = {}
  <1>5. /\ last <=> out
        /\ gone = IF out THEN {s, Bmc} ELSE {s}
    BY <1>4 DEF LastOut
  <1> HIDE DEF up, last, gone
  <1>6. \A x \in Stas : /\ sleepQ'[x] = IF x = s THEN <<>> ELSE sleepQ[x]
                        /\ x \in tim' <=> x \in tim /\ x # s
    <2>1. \A x \in Stas : x \in gone <=> x = s
      BY <1>2, <1>5
    <2> QED  BY <1>1, <1>2, <2>1
  <1>7. Lens'
    BY <1>2, <1>3, <1>6, LensFollow DEF CountInv, DozeInv
  <1>8. DozeMatches'
    <2>1. dz \ {Bmc} = sleeping
      BY DEF DozeInv, DozeMatches
    <2>2. (dz \ gone) \ {Bmc} = sleeping \ {s}
      BY <1>2, <1>5, <2>1
    <2> QED  BY <1>1, <1>4, <2>2 DEF DozeMatches
  <1>9. AwakeMeansEmpty'
    <2>1. \A x \in Stas \ sleeping' : sleepQ'[x] = <<>> /\ x \notin tim'
      BY <1>1, <1>4, <1>6 DEF DozeInv, AwakeMeansEmpty
    <2>2. sleeping' = {} => out
      BY <1>1, <1>2, <1>4 DEF DozeInv, DozeMatches
    <2>3. out => Bmc \in gone /\ dz \ gone = {}
      BY <1>5
    <2>4. out => sleepQ'[Bmc] = <<>> /\ dz' = {}
      BY <1>1, <1>2, <2>3
    <2> QED  BY <2>1, <2>2, <2>4 DEF AwakeMeansEmpty
  <1> QED  BY <1>1, <1>7, <1>8, <1>9 DEF DozeInv

\* PS-Poll and trigger concern the queue and the TIM bit of a sleeper.
LEMMA PollKeeps ==
  ASSUME CountInv, ~raced, DozeInv, NEW s \in Stas, PsPoll(s) \/ Trigger(s)
  PROVE  DozeInv'
  <1>0. /\ sleepQ \in [All -> Seq(Frames)] /\ qlen \in [Stas -> Int] /\ Stas \subseteq All
        /\ Lens /\ sleepQ[s] \in Seq(Frames)
    BY DEF CountInv, TypeOK, All, DozeInv
  <1>1. PICK q : /\ s \in sleeping /\ UNCHANGED <<sleeping, dz, raced>>
                 /\ tim' = tim \/ tim' = tim \ {s}
                 /\ sleepQ' = [sleepQ EXCEPT ![s] = q]
                 /\ qlen' = [qlen EXCEPT ![s] = Len(q)]
    <2>1. CASE PsPoll(s)
      <3>1. /\ s \in sleeping /\ UNCHANGED <<sleeping, dz, raced>>
            /\ tim' = tim \/ tim' = tim \ {s}
            /\ \/ /\ sleepQ[s] # <<>>
                  /\ sleepQ' = [sleepQ EXCEPT ![s] = Tail(@)]
                  /\ qlen' = [qlen EXCEPT ![s] = @ - 1]
               \/ UNCHANGED <<sleepQ, qlen>>
        BY <2>1, Zenon DEF PsPoll, thread
      <3>2. CASE UNCHANGED <<sleepQ, qlen>>
        <4>1. sleepQ' = [sleepQ EXCEPT ![s] = sleepQ[s]]
          BY <1>0, <3>2
        <4>2. qlen' = [qlen EXCEPT ![s] = Len(sleepQ[s])]
          BY <1>0, <3>2 DEF Lens
        <4> QED  BY <3>1, <4>1, <4>2
      <3>3. CASE /\ sleepQ[s] # <<>>
                 /\ sleepQ' = [sleepQ EXCEPT ![s] = Tail(@)]
                 /\ qlen' = [qlen EXCEPT ![s] = @ - 1]
        <4>1. Len(Tail(sleepQ[s])) = Len(sleepQ[s]) - 1
          BY <1>0, <3>3, HeadTailProperties
        <4>2. sleepQ' = [sleepQ EXCEPT ![s] = Tail(sleepQ[s])]
          BY <1>0, <3>3
        <4>3. qlen' = [qlen EXCEPT ![s] = Len(sleepQ[s]) - 1]
          BY <1>0, <3>3 DEF Lens
        <4> QED  BY <3>1, <4>1, <4>2, <4>3, Zenon
      <3> QED  BY <3>1, <3>2, <3>3
    <2>2. CASE Trigger(s)
      <3> DEFINE out == Select(sleepQ[s], EnabledOf(s))  left == Select(sleepQ[s], LegacyOf(s))
      <3>1. /\ s \in sleeping /\ UNCHANGED <<sleeping, dz, raced>>
            /\ tim' = tim \/ tim' = tim \ {s}
            /\ sleepQ' = [sleepQ EXCEPT ![s] = Select(@, LegacyOf(s))]
            /\ qlen' = [qlen EXCEPT ![s] = @ - Len(out)]
        BY <2>2, Zenon DEF Trigger, station, thread
      <3>2. \A e \in Frames : e \in EnabledOf(s) <=> e \notin LegacyOf(s)
        BY DEF EnabledOf, LegacyOf
      <3>3. /\ Len(out) \in Nat /\ Len(left) \in Nat /\ Len(sleepQ[s]) \in Nat
            /\ Len(out) + Len(left) = Len(sleepQ[s])
        BY <1>0, <3>2, SelectParts
      <3>4. sleepQ' = [sleepQ EXCEPT ![s] = left]
        BY <1>0, <3>1
      <3> HIDE DEF out, left
      <3>5. Len(sleepQ[s]) - Len(out) = Len(left)
        BY <3>3
      <3>6. qlen' = [qlen EXCEPT ![s] = Len(left)]
        <4>1. qlen' = [qlen EXCEPT ![s] = Len(sleepQ[s]) - Len(out)]
          BY <1>0, <3>1 DEF Lens
        <4> QED  BY <3>5, <4>1
      <3> QED  BY <3>1, <3>4, <3>6
    <2> QED  BY <2>1, <2>2
  <1>2. \A x \in All : x # s => sleepQ'[x] = sleepQ[x] /\ (x \in tim' <=> x \in tim)
    BY <1>0, <1>1
  <1>3. Lens'
    <2>1. sleepQ'[s] = q /\ \A x \in Stas : x # s => sleepQ'[x] = sleepQ[x]
      BY <1>0, <1>1, <1>2
    <2> QED  BY <1>0, <1>1, <2>1, LensFollow DEF CountInv
  <1>4. DozeMatches'
    BY <1>1 DEF DozeInv, DozeMatches
  <1>5. AwakeMeansEmpty'
    BY <1>0, <1>1, <1>2 DEF DozeInv, AwakeMeansEmpty
  <1> QED  BY <1>3, <1>4, <1>5 DEF DozeInv

\* What the unlocked statements of the receive tasklet write is what is there, but for the
\* bit of a station; or the race is on record.
LEMMA RxTailKeeps ==
  ASSUME CountInv, ~raced, DozeInv, RxTail
  PROVE  DozeInv'
  <1>1. UNCHANGED <<sleeping, dz, sleepQ>>
    BY Zenon DEF RxTail, PollTest, PollLen, PollRead, PollWrite, RxTell, station, queues
  <1>2. raced' \/ qlen' = qlen
    <2>1. qlen \in [Stas -> Int]
      BY DEF CountInv, TypeOK
    <2>2. CASE PollLen
      <3>1. \/ raced' \/ qlen' = qlen
            \/ qlen' = [qlen EXCEPT ![rx.sta] = 0] /\ qlen[rx.sta] = 0
        BY <2>2 DEF PollLen
      <3> QED  BY <2>1, <3>1
    <2> QED  BY <2>2, Zenon DEF RxTail, PollTest, PollRead, PollWrite, RxTell, queues
  <1>3. raced' \/ tim' \subseteq tim
    <2>1. CASE PollWrite
      BY <2>1 DEF PollWrite
    <2>2. tim' = tim \/ PollWrite
      BY Zenon DEF RxTail, PollTest, PollLen, PollRead, RxTell
    <2> QED  BY <2>1, <2>2
  <1> QED  BY <1>1, <1>2, <1>3 DEF DozeInv, Lens, DozeMatches, AwakeMeansEmpty

\* The command thread takes away the broadcast bit, and sets that of a station that sleeps.
LEMMA ThreadKeeps ==
  ASSUME CountInv, ~raced, DozeInv, CmdThread
  PROVE  DozeInv'
  <1>1. CASE UNCHANGED <<sleeping, dz, tim, sleepQ, qlen, raced>>
    BY <1>1 DEF DozeInv, Lens, DozeMatches, AwakeMeansEmpty
  <1>2. CASE FlushBmc
    <2>1. /\ UNCHANGED <<sleeping, dz, tim, qlen, raced>>
          /\ sleepQ' = [sleepQ EXCEPT ![Bmc] = <<>>]
      BY <1>2 DEF FlushBmc, traffic, station
    <2>2. /\ \A x \in Stas : sleepQ'[x] = sleepQ[x]
          /\ sleepQ'[Bmc] = <<>>
      BY <2>1, SleepAssumption DEF CountInv, TypeOK, All
    <2> QED  BY <2>1, <2>2 DEF DozeInv, Lens, DozeMatches, AwakeMeansEmpty
  <1>3. CASE WriteTim
    <2>1. UNCHANGED <<sleeping, dz, sleepQ, qlen>> /\ (raced' \/ tim' = tim \ {Bmc})
      BY <1>3 DEF WriteTim, traffic, station
    <2> QED  BY <2>1 DEF DozeInv, Lens, DozeMatches, AwakeMeansEmpty
  <1>4. CASE WriteDz
    <2>1. UNCHANGED <<sleeping, tim, sleepQ, qlen>> /\ (raced' \/ dz' = dz \ {Bmc})
      BY <1>4 DEF WriteDz, traffic, station
    <2> QED  BY <2>1 DEF DozeInv, Lens, DozeMatches, AwakeMeansEmpty
  <1>5. CASE WriteAsk
    <2>1. /\ UNCHANGED <<sleeping, dz, sleepQ, qlen>>
          /\ raced' \/ (tim' = tim \union {asked} /\ asked \in sleeping)
      BY <1>5 DEF WriteAsk, station, queues
    <2> QED  BY <2>1 DEF DozeInv, Lens, DozeMatches, AwakeMeansEmpty
  <1>6. \/ UNCHANGED <<sleeping, dz, tim, sleepQ, qlen, raced>>
        \/ FlushBmc \/ WriteTim \/ WriteDz \/ WriteAsk
    BY Zenon DEF CmdThread, TakeBeacon, TakeBmc, TestBmc, TakeHiq, ReadTim, ReadDz, Announce,
       traffic, station
  <1> QED  BY <1>1, <1>2, <1>3, <1>4, <1>5, <1>6

\* The record of the race is never taken back.
LEMMA RacedStays ==
  ASSUME raced, Next
  PROVE  raced'
  <1>1. CASE CmdThread
    BY <1>1 DEF CmdThread, TakeBeacon, TakeBmc, TestBmc, FlushBmc, TakeHiq, ReadTim,
       WriteTim, ReadDz, WriteDz, WriteAsk, Announce
  <1>2. CASE RxTail
    BY <1>2 DEF RxTail, PollTest, PollLen, PollRead, PollWrite, RxTell
  <1>3. CASE Transmits
    BY <1>3, TransmitStays
  <1>4. ASSUME NEW s \in Stas, Sleep(s) \/ Wake(s) \/ PsPoll(s) \/ Trigger(s)
                               \/ AliveCheck(s) \/ ClearSleepQ(s)
        PROVE  raced' = raced
    BY <1>4, Zenon DEF Sleep, Wake, PsPoll, Trigger, AliveCheck, ClearSleepQ, WakeUp
  <1>5. ASSUME NEW s \in Stas, NEW ac \in ACs, Give(s, ac) PROVE raced' = raced
    BY <1>5, Zenon DEF Give
  <1>6. CASE GiveBmc
    BY <1>6, Zenon DEF GiveBmc
  <1> QED  BY <1>1, <1>2, <1>3, <1>4, <1>5, <1>6, StepsAre

\* The invariant is kept by every step.
LEMMA DozeStep ==
  ASSUME CountInv, DozeInv, [Next]_vars
  PROVE  DozeInv'
  <1>1. CASE UNCHANGED vars
    BY <1>1 DEF vars, DozeInv, Lens, DozeMatches, AwakeMeansEmpty
  <1>2. CASE Next /\ raced
    BY <1>2, RacedStays DEF DozeInv
  <1>3. CASE Next /\ ~raced
    <2>1. CASE Transmits
      BY <2>1, TransmitStays DEF DozeInv, Lens, DozeMatches, AwakeMeansEmpty
    <2>2. ASSUME NEW s \in Stas, Wake(s) \/ ClearSleepQ(s) PROVE DozeInv'
      BY <1>3, <2>2, WakeUpKeeps DEF Wake, ClearSleepQ
    <2>3. ASSUME NEW s \in Stas, AliveCheck(s) PROVE DozeInv'
      BY <2>3 DEF AliveCheck, queues, DozeInv, Lens, DozeMatches, AwakeMeansEmpty
    <2> QED  BY <1>3, <2>1, <2>2, <2>3, StepsAre, GiveKeeps, GiveBmcKeeps, SleepKeeps, PollKeeps,
                RxTailKeeps, ThreadKeeps
  <1> QED  BY <1>1, <1>2, <1>3

\* For up to fifteen stations, any frames and categories, on any number of processors:
\* sta_dz_bitmap, by which rtw_xmit and the broadcasts decide who sleeps, names exactly the
\* stations in power save, until an unlocked change of a bitmap or of sleepq_len meets
\* another one.
THEOREM DozeBitmapIsExact == Spec => []DozeMatches
  <1> DEFINE Inv == CountInv /\ DozeInv
  <1>1. Init => Inv  BY CountInit, DozeInit
  <1>2. Inv /\ [Next]_vars => Inv'  BY CountStep, DozeStep
  <1>3. Inv => DozeMatches  BY DEF DozeInv, DozeMatches
  <1> HIDE DEF Inv
  <1> QED  BY <1>1, <1>2, <1>3, PTL DEF Spec

\* Under the same condition nothing waits for a station that is awake, and no broadcast
\* is held back once all are.
THEOREM NothingHeldForTheAwake == Spec => []AwakeMeansEmpty
  <1> DEFINE Inv == CountInv /\ DozeInv
  <1>1. Init => Inv  BY CountInit, DozeInit
  <1>2. Inv /\ [Next]_vars => Inv'  BY CountStep, DozeStep
  <1>3. Inv => AwakeMeansEmpty  BY DEF DozeInv, AwakeMeansEmpty
  <1> HIDE DEF Inv
  <1> QED  BY <1>1, <1>2, <1>3, PTL DEF Spec

-----------------------------------------------------------------------------
(***************************************************************************)
(* The way of an announcement: from the queue to the bitmap, from the      *)
(* bitmap to the beacon in memory, from there to the one on air.           *)
(***************************************************************************)

NoBeacon(c) == \A i \in DOMAIN c : c[i] # "beacon"

\* Without a command for it, the beacon on air is the one in memory.
BeaconSent == NoBeacon(cmds) => air = ie
\* The command thread is about to write the bitmap into the beacon.
Telling == cpc = "tell" /\ clears
\* Every bit of the bitmap has been written into the beacon.
TimWritten == ~raced /\ ~Telling => tim \subseteq ie
\* Who has a frame to be announced has its bit.
BitsSet == ~raced => \A s \in Stas : AnyAnnounced(s, sleepQ[s]) => s \in tim

AirInv == BeaconSent /\ TimWritten /\ BitsSet

\* A command more: is it one for the beacon?
LEMMA NoBeaconAppend ==
  ASSUME NEW T, NEW c \in Seq(T), NEW x \in T
  PROVE  NoBeacon(Append(c, x)) <=> NoBeacon(c) /\ x # "beacon"
  <1>1. /\ DOMAIN Append(c, x) = 1 .. Len(c) + 1 /\ DOMAIN c = 1 .. Len(c) /\ Len(c) \in Nat
        /\ \A i \in 1 .. Len(c) : Append(c, x)[i] = c[i]
        /\ Append(c, x)[Len(c) + 1] = x
    BY AppendProperties, LenProperties
  <1>2. \A i \in 1 .. Len(c) + 1 : i \in 1 .. Len(c) \/ i = Len(c) + 1
    BY <1>1
  <1>3. Len(c) + 1 \in 1 .. Len(c) + 1 /\ 1 .. Len(c) \subseteq 1 .. Len(c) + 1
    BY <1>1
  <1> QED  BY <1>1, <1>2, <1>3, Zenon DEF NoBeacon

\* The same for several commands.
LEMMA NoBeaconConcat ==
  ASSUME NEW T, NEW c \in Seq(T), NEW d \in Seq(T)
  PROVE  NoBeacon(c \o d) <=> NoBeacon(c) /\ NoBeacon(d)
  <1>1. /\ DOMAIN (c \o d) = 1 .. Len(c) + Len(d)
        /\ DOMAIN c = 1 .. Len(c) /\ DOMAIN d = 1 .. Len(d)
        /\ Len(c) \in Nat /\ Len(d) \in Nat
        /\ \A i \in 1 .. Len(c) + Len(d) :
             (c \o d)[i] = IF i <= Len(c) THEN c[i] ELSE d[i - Len(c)]
    BY ConcatProperties, LenProperties
  <1> DEFINE e == c \o d
  <1> HIDE DEF e
  <1>2. ASSUME NoBeacon(e) PROVE NoBeacon(c) /\ NoBeacon(d)
    <2>1. ASSUME NEW i \in 1 .. Len(c) PROVE c[i] # "beacon"
      <3>1. i \in 1 .. Len(c) + Len(d) /\ i <= Len(c)
        BY <1>1
      <3> QED  BY <1>1, <1>2, <3>1 DEF NoBeacon, e
    <2>2. ASSUME NEW i \in 1 .. Len(d) PROVE d[i] # "beacon"
      <3>1. /\ i + Len(c) \in 1 .. Len(c) + Len(d) /\ ~(i + Len(c) <= Len(c))
            /\ (i + Len(c)) - Len(c) = i
        BY <1>1
      <3>2. e[i + Len(c)] = d[i]
        BY <1>1, <3>1 DEF e
      <3> QED  BY <1>1, <1>2, <3>1, <3>2 DEF NoBeacon, e
    <2> QED  BY <1>1, <2>1, <2>2 DEF NoBeacon
  <1>3. ASSUME NoBeacon(c), NoBeacon(d) PROVE NoBeacon(e)
    <2>1. ASSUME NEW i \in 1 .. Len(c) + Len(d) PROVE e[i] # "beacon"
      <3>1. CASE i <= Len(c)
        BY <1>1, <1>3, <3>1 DEF NoBeacon, e
      <3>2. CASE ~(i <= Len(c))
        <4>1. i - Len(c) \in 1 .. Len(d)
          BY <1>1, <3>2
        <4> QED  BY <1>1, <1>3, <3>2, <4>1 DEF NoBeacon, e
      <3> QED  BY <3>1, <3>2
    <2> QED  BY <1>1, <2>1 DEF NoBeacon, e
  <1> QED  BY <1>2, <1>3 DEF e

\* The same for the first command.
LEMMA NoBeaconTail ==
  ASSUME NEW T, NEW c \in Seq(T), c # <<>>
  PROVE  NoBeacon(c) <=> Head(c) # "beacon" /\ NoBeacon(Tail(c))
  <1>1. /\ <<Head(c)>> \in Seq(T) /\ Tail(c) \in Seq(T)
        /\ c = <<Head(c)>> \o Tail(c)
    BY HeadThenTail
  <1>2. NoBeacon(<<Head(c)>>) <=> Head(c) # "beacon"
    BY DEF NoBeacon
  <1>3. NoBeacon(<<Head(c)>> \o Tail(c)) <=> NoBeacon(<<Head(c)>>) /\ NoBeacon(Tail(c))
    BY <1>1, NoBeaconConcat
  <1> QED  BY <1>1, <1>2, <1>3, Zenon

\* A frame more in a queue.
LEMMA AnnouncedAppend ==
  ASSUME NEW s, NEW q \in Seq(Frames), NEW f \in Frames
  PROVE  AnyAnnounced(s, Append(q, f)) => AnyAnnounced(s, q) \/ Announced(s, f)
  <1>1. /\ DOMAIN Append(q, f) = 1 .. Len(q) + 1 /\ DOMAIN q = 1 .. Len(q) /\ Len(q) \in Nat
        /\ \A i \in 1 .. Len(q) : Append(q, f)[i] = q[i]
        /\ Append(q, f)[Len(q) + 1] = f
    BY AppendProperties, LenProperties
  <1>2. \A i \in 1 .. Len(q) + 1 : i \in 1 .. Len(q) \/ i = Len(q) + 1
    BY <1>1
  <1> QED  BY <1>1, <1>2, Zenon DEF AnyAnnounced

\* A queue of one frame, and one of none.
LEMMA AnnouncedOne ==
  ASSUME NEW s, NEW f
  PROVE  (AnyAnnounced(s, <<f>>) <=> Announced(s, f)) /\ ~AnyAnnounced(s, <<>>)
  <1>1. DOMAIN <<f>> = {1} /\ <<f>>[1] = f /\ DOMAIN <<>> = {}
    OBVIOUS
  <1> QED  BY <1>1 DEF AnyAnnounced

\* What is announced in a tail is announced in the queue.
LEMMA AnnouncedTail ==
  ASSUME NEW s, NEW q \in Seq(Frames), q # <<>>
  PROVE  AnyAnnounced(s, Tail(q)) => AnyAnnounced(s, q)
  <1>1. /\ Len(Tail(q)) = Len(q) - 1 /\ Tail(q) \in Seq(Frames)
        /\ \A i \in 1 .. Len(Tail(q)) : Tail(q)[i] = q[i + 1]
        /\ Len(q) \in Nat /\ DOMAIN q = 1 .. Len(q) /\ DOMAIN Tail(q) = 1 .. Len(Tail(q))
    BY HeadTailProperties, LenProperties
  <1>2. \A i \in 1 .. Len(Tail(q)) : i + 1 \in 1 .. Len(q)
    BY <1>1
  <1> QED  BY <1>1, <1>2 DEF AnyAnnounced

\* What a trigger leaves is announced only where it was announced before, and not at all
\* for a station without legacy categories.
LEMMA AnnouncedLegacy ==
  ASSUME NEW s, NEW q \in Seq(Frames), AnyAnnounced(s, Select(q, LegacyOf(s)))
  PROVE  AnyAnnounced(s, q) /\ HasLegacy(s)
  <1> DEFINE r == Select(q, LegacyOf(s))
  <1>1. r \in Seq(Frames) /\ DOMAIN r = 1 .. Len(r) /\ DOMAIN q = 1 .. Len(q)
    BY SelectType, LenProperties
  <1>2. PICK i \in 1 .. Len(r) : Announced(s, r[i])
    BY <1>1 DEF AnyAnnounced
  <1>3. r[i] \in LegacyOf(s) /\ \E j \in 1 .. Len(q) : r[i] = q[j]
    BY SelectMembers
  <1> HIDE DEF r
  <1>4. ~Enabled(s, r[i])
    BY <1>3 DEF LegacyOf
  <1>5. HasLegacy(s)
    BY <1>2, <1>4 DEF Announced, HasLegacy, Enabled
  <1> QED  BY <1>1, <1>2, <1>3, <1>5 DEF AnyAnnounced

\* A step that lets the beacon in memory follow the bitmap, and asks for it to be sent when
\* it changes.
LEMMA AirFollows ==
  ASSUME AirInv, UNCHANGED <<delivery, air>>, raced => raced',
         NoBeacon(cmds') => NoBeacon(cmds) /\ ie' = ie,
         ~raced' => \/ ie' = tim'
                    \/ ie' = ie /\ tim' \subseteq tim /\ (Telling => Telling')
                    \/ Telling',
         ~raced' => \A x \in Stas : AnyAnnounced(x, sleepQ'[x]) => x \in tim'
  PROVE  AirInv'
  <1>1. BeaconSent'
    BY DEF AirInv, BeaconSent
  <1>2. TimWritten'
    BY DEF AirInv, TimWritten
  <1>3. BitsSet'
    <2>1. \A x : AnyAnnounced(x, sleepQ[x])' <=> AnyAnnounced(x, sleepQ'[x])
      BY Zenon DEF AnyAnnounced, Announced, HasLegacy, Enabled
    <2> QED  BY <2>1 DEF BitsSet
  <1> QED  BY <1>1, <1>2, <1>3 DEF AirInv

\* A step that leaves the way of the announcements alone.
LEMMA AirStays ==
  ASSUME AirInv, UNCHANGED <<delivery, tim, sleepQ, ie, air, cmds, raced>>, Telling => Telling'
  PROVE  AirInv'
  BY AirFollows DEF AirInv, BitsSet

\* At the start there is nothing to announce.
LEMMA AirInit == Init => AirInv
  <1> SUFFICES ASSUME Init PROVE AirInv  OBVIOUS
  <1>1. \A s \in Stas : sleepQ[s] = <<>>
    BY DEF Init, All
  <1> QED  BY <1>1, AnnouncedOne DEF Init, AirInv, BeaconSent, TimWritten, BitsSet

\* The command for the beacon is there after UpdateBeacon; another command adds none.
LEMMA AirCmds ==
  ASSUME CountInv
  PROVE  /\ ~NoBeacon(Append(cmds, "beacon"))
         /\ NoBeacon(Append(cmds, "bmc")) => NoBeacon(cmds)
         /\ NoBeacon(Append(cmds, "hiq")) => NoBeacon(cmds)
  <1>1. cmds \in Seq({"beacon", "bmc", "hiq"})
    BY DEF CountInv, TypeOK
  <1> QED  BY <1>1, NoBeaconAppend

\* A frame to be announced brings its bit, and the bit the beacon.
LEMMA GiveAnnounces ==
  ASSUME CountInv, AirInv, NEW s \in Stas, NEW ac \in ACs, Give(s, ac)
  PROVE  AirInv'
  <1> DEFINE f == [to |-> s, ac |-> ac, no |-> given[s][ac] + 1]
  <1>0. given \in [All -> [ACs -> Nat]] /\ s \in All
    BY DEF CountInv, TypeOK, All
  <1>1. f \in Frames
    BY <1>0 DEF Frames
  <1>2. /\ UNCHANGED <<delivery, air, raced, cpc, clears>>
        /\ \/ /\ sleepQ' = [sleepQ EXCEPT ![s] = Append(@, f)]
              /\ tim' = IF Announced(s, f) THEN tim \union {s} ELSE tim
              /\ \/ ie' = tim' /\ cmds' = Append(cmds, "beacon")
                 \/ ~NewlyAnnounced(s, <<f>>) /\ ie' = ie /\ cmds' = cmds
           \/ UNCHANGED <<sleepQ, tim, ie, cmds>>
    BY Zenon DEF Give, station, thread, UpdateBeaconIf, UpdateBeacon
  <1> HIDE DEF f
  <1>3. ie' = tim' \/ (ie' = ie /\ tim' \subseteq tim)
    BY <1>2, AnnouncedOne DEF NewlyAnnounced
  <1>4. NoBeacon(cmds') => NoBeacon(cmds) /\ ie' = ie
    BY <1>2, AirCmds
  <1>5. ASSUME ~raced, NEW x \in Stas, AnyAnnounced(x, sleepQ'[x]) PROVE x \in tim'
    <2>1. AnyAnnounced(x, sleepQ[x]) => x \in tim
      BY <1>5 DEF AirInv, BitsSet
    <2>2. tim \subseteq tim'
      BY <1>2
    <2>3. sleepQ \in [All -> Seq(Frames)] /\ x \in All
      BY DEF CountInv, TypeOK, All
    <2>4. CASE sleepQ'[x] = sleepQ[x]
      BY <1>5, <2>1, <2>2, <2>4
    <2>5. CASE sleepQ'[x] # sleepQ[x]
      <3>1. /\ x = s /\ sleepQ'[x] = Append(sleepQ[x], f)
            /\ tim' = IF Announced(s, f) THEN tim \union {s} ELSE tim
        BY <1>2, <2>3, <2>5
      <3>2. AnyAnnounced(x, sleepQ[x]) \/ Announced(x, f)
        BY <1>1, <1>5, <2>3, <3>1, AnnouncedAppend
      <3> QED  BY <2>1, <3>1, <3>2
    <2> QED  BY <2>4, <2>5
  <1> QED  BY <1>2, <1>3, <1>4, <1>5, AirFollows DEF Telling

\* A broadcast brings its own bit.
LEMMA GiveBmcAnnounces ==
  ASSUME CountInv, AirInv, GiveBmc
  PROVE  AirInv'
  <1> DEFINE f == [to |-> Bmc, ac |-> "BE", no |-> given[Bmc]["BE"] + 1]
  <1>1. /\ UNCHANGED <<delivery, air, raced, cpc, clears>>
        /\ \/ /\ sleepQ' = [sleepQ EXCEPT ![Bmc] = Append(@, f)]
              /\ tim' = tim \union {Bmc}
              /\ \/ Bmc \in tim /\ cmds' = Append(cmds, "bmc") /\ ie' = ie
                 \/ ie' = tim' /\ cmds' = Append(cmds, "beacon")
           \/ UNCHANGED <<sleepQ, tim, ie, cmds>>
    BY Zenon DEF GiveBmc, station, thread, UpdateBeacon
  <1> HIDE DEF f
  <1>2. ie' = tim' \/ (ie' = ie /\ tim' \subseteq tim)
    BY <1>1
  <1>3. NoBeacon(cmds') => NoBeacon(cmds) /\ ie' = ie
    BY <1>1, AirCmds
  <1>4. ASSUME ~raced, NEW x \in Stas, AnyAnnounced(x, sleepQ'[x]) PROVE x \in tim'
    <2>1. sleepQ \in [All -> Seq(Frames)] /\ x \in All /\ x # Bmc
      BY SleepAssumption DEF CountInv, TypeOK, All
    <2>2. sleepQ'[x] = sleepQ[x] /\ tim \subseteq tim'
      BY <1>1, <2>1
    <2> QED  BY <1>4, <2>2 DEF AirInv, BitsSet
  <1> QED  BY <1>1, <1>2, <1>3, <1>4, AirFollows DEF Telling

\* The sleep queue of who falls asleep was empty: what moves into it decides.
LEMMA SleepAnnounces ==
  ASSUME CountInv, DozeInv, AirInv, NEW s \in Stas, Sleep(s)
  PROVE  AirInv'
  <1> DEFINE moved == pend[s]["VO"] \o pend[s]["BE"]
             bmc   == pend[Bmc]["BE"]
             uc    == IF AnyAnnounced(s, moved) THEN {s} ELSE {}
             bc    == IF bmc = <<>> THEN {} ELSE {Bmc}
             ucNew == NewlyAnnounced(s, moved)
             bcNew == ~(bc \subseteq tim)
             b1    == IF ucNew THEN <<"beacon">> ELSE <<>>
             b2    == [i \in DOMAIN bmc |-> IF bcNew /\ i = 1 THEN "beacon" ELSE "bmc"]
  <1>1. /\ s \notin sleeping
        /\ sleepQ' = [sleepQ EXCEPT ![s] = @ \o moved, ![Bmc] = @ \o bmc]
        /\ tim' = tim \union uc \union bc
        /\ ie' = IF ucNew \/ bcNew THEN tim' ELSE ie
        /\ cmds' = cmds \o b1 \o b2
        /\ UNCHANGED <<delivery, air, raced, cpc, clears>>
    BY Zenon DEF Sleep, thread
  <1>2. /\ sleepQ \in [All -> Seq(Frames)] /\ pend \in [All -> [ACs -> Seq(Frames)]]
        /\ cmds \in Seq({"beacon", "bmc", "hiq"})
        /\ s \in All /\ Bmc \in All /\ s # Bmc /\ Stas \subseteq All \ {Bmc}
        /\ "BE" \in ACs /\ "VO" \in ACs
    BY SleepAssumption DEF CountInv, TypeOK, All, ACs
  <1>3. moved \in Seq(Frames) /\ bmc \in Seq(Frames)
    BY <1>2, ConcatProperties
  <1>4. b1 \in Seq({"beacon", "bmc", "hiq"}) /\ (NoBeacon(b1) <=> ~ucNew)
    <2>1. /\ <<>> \in Seq({"beacon", "bmc", "hiq"})
          /\ <<"beacon">> \in Seq({"beacon", "bmc", "hiq"})
          /\ NoBeacon(<<>>) /\ ~NoBeacon(<<"beacon">>)
      BY DEF NoBeacon
    <2> HIDE DEF ucNew
    <2> QED  BY <2>1, Zenon
  <1>5. b2 \in Seq({"beacon", "bmc", "hiq"}) /\ (NoBeacon(b2) => ~bcNew)
    <2>1. b2 \in Seq({"beacon", "bmc", "hiq"})
      BY <1>3, ReleasesType
    <2>2. ASSUME bcNew PROVE ~NoBeacon(b2)
      <3>1. bmc # <<>>
        BY <2>2
      <3>2. 1 \in DOMAIN bmc
        BY <1>3, <3>1, EmptySeq, LenProperties
      <3>3. b2[1] = "beacon" /\ 1 \in DOMAIN b2
        BY <2>2, <3>2
      <3> QED  BY <3>3 DEF NoBeacon
    <2> QED  BY <2>1, <2>2
  <1> HIDE DEF moved, bmc, b1, b2
  <1>6. NoBeacon(cmds') => NoBeacon(cmds) /\ NoBeacon(b1) /\ NoBeacon(b2)
    <2>1. cmds \o b1 \in Seq({"beacon", "bmc", "hiq"})
      BY <1>2, <1>4, ConcatProperties
    <2>2. NoBeacon(cmds \o b1 \o b2) => NoBeacon(cmds \o b1) /\ NoBeacon(b2)
      BY <1>5, <2>1, NoBeaconConcat, Zenon
    <2>3. NoBeacon(cmds \o b1) => NoBeacon(cmds) /\ NoBeacon(b1)
      BY <1>2, <1>4, NoBeaconConcat
    <2> QED  BY <1>1, <2>2, <2>3, Zenon
  <1>7. NoBeacon(cmds') => NoBeacon(cmds) /\ ie' = ie
    BY <1>1, <1>4, <1>5, <1>6
  <1>8. ie' = tim' \/ (ie' = ie /\ tim' \subseteq tim)
    <2>1. CASE ucNew \/ bcNew
      BY <1>1, <2>1
    <2>2. CASE ~ucNew /\ ~bcNew
      <3>1. uc \subseteq tim
        BY <2>2 DEF NewlyAnnounced
      <3> QED  BY <1>1, <2>2, <3>1
    <2> QED  BY <2>1, <2>2
  <1>9. ASSUME ~raced, NEW x \in Stas, AnyAnnounced(x, sleepQ'[x]) PROVE x \in tim'
    <2>1. CASE x = s
      <3>1. sleepQ[s] = <<>>
        BY <1>1, <1>9 DEF DozeInv, AwakeMeansEmpty
      <3>2. sleepQ'[s] = moved
        <4>1. sleepQ'[s] = sleepQ[s] \o moved
          BY <1>1, <1>2
        <4> QED  BY <1>3, <3>1, <4>1, ConcatEmptySeq
      <3> QED  BY <1>1, <1>9, <2>1, <3>2
    <2>2. CASE x # s
      <3>1. sleepQ'[x] = sleepQ[x]
        BY <1>1, <1>2, <2>2
      <3> QED  BY <1>1, <1>9, <3>1 DEF AirInv, BitsSet
    <2> QED  BY <2>1, <2>2
  <1> QED  BY <1>1, <1>7, <1>8, <1>9, AirFollows DEF Telling

\* Who wakes up has nothing left to be announced.
LEMMA WakeUpAnnounces ==
  ASSUME CountInv, DozeInv, AirInv, NEW s \in Stas, WakeUp(s), ~raced,
         NEW x \in Stas, AnyAnnounced(x, sleepQ'[x])
  PROVE  x \in tim'
  <1> DEFINE up   == IF qlen'[s] = 0 THEN {s} ELSE {}
             gone == IF LastOut(up) THEN up \union {Bmc} ELSE up
  <1>1. /\ sleepQ' = [y \in All |-> IF y = s \/ y \in gone THEN <<>> ELSE sleepQ[y]]
        /\ tim' = tim \ gone
    BY Zenon DEF WakeUp
  <1>2. gone \cap Stas \subseteq {s} /\ Stas \subseteq All
    BY SleepAssumption DEF All
  <1> HIDE DEF gone
  <1>3. x # s
    BY <1>1, <1>2, AnnouncedOne
  <1>4. sleepQ'[x] = sleepQ[x] /\ x \notin gone
    BY <1>1, <1>2, <1>3
  <1> QED  BY <1>1, <1>4 DEF AirInv, BitsSet

\* Waking takes bits away; the beacon follows in another step.
LEMMA WakeAnnounces ==
  ASSUME CountInv, DozeInv, AirInv, NEW s \in Stas, Wake(s) \/ ClearSleepQ(s)
  PROVE  AirInv'
  <1>0. WakeUp(s)
    BY Zenon DEF Wake, ClearSleepQ
  <1>1. UNCHANGED <<delivery, ie, air, cmds, raced>> /\ (Telling => Telling')
    <2>1. UNCHANGED <<delivery, ie, air, cmds, raced>>
      BY <1>0, Zenon DEF WakeUp
    <2>2. UNCHANGED <<cpc, clears>> \/ cpc = "idle"
      BY Zenon DEF Wake, ClearSleepQ
    <2> QED  BY <2>1, <2>2 DEF Telling
  <1>2. tim' \subseteq tim
    <2>1. \E gone : tim' = tim \ gone
      BY <1>0, Zenon DEF WakeUp
    <2> QED  BY <2>1
  <1>3. ~raced => \A x \in Stas : AnyAnnounced(x, sleepQ'[x]) => x \in tim'
    BY <1>0, WakeUpAnnounces
  <1> QED  BY <1>1, <1>2, <1>3, AirFollows

\* A poll clears the bit when it has taken the last frame.
LEMMA PsPollAnnounces ==
  ASSUME CountInv, DozeInv, AirInv, NEW s \in Stas, PsPoll(s)
  PROVE  AirInv'
  <1>1. /\ \/ sleepQ[s] # <<>> /\ sleepQ' = [sleepQ EXCEPT ![s] = Tail(@)]
           \/ sleepQ' = sleepQ
        /\ \/ qlen'[s] = 0 /\ tim' = tim \ {s} /\ ie' = tim' /\ cmds' = Append(cmds, "beacon")
           \/ tim' = tim /\ ie' = ie /\ cmds' = cmds
        /\ UNCHANGED <<delivery, air, raced, cpc, clears>>
    BY Zenon DEF PsPoll, thread, UpdateBeaconIf, UpdateBeacon
  <1>2. NoBeacon(cmds') => NoBeacon(cmds) /\ ie' = ie
    BY <1>1, AirCmds
  <1>3. ASSUME ~raced, NEW x \in Stas, AnyAnnounced(x, sleepQ'[x]) PROVE x \in tim'
    <2>1. sleepQ \in [All -> Seq(Frames)] /\ x \in All /\ s \in All
      BY DEF CountInv, TypeOK, All
    <2>2. AnyAnnounced(x, sleepQ[x])
      <3>1. CASE x = s /\ sleepQ[s] # <<>> /\ sleepQ' = [sleepQ EXCEPT ![s] = Tail(@)]
        <4>1. sleepQ'[x] = Tail(sleepQ[x])
          BY <2>1, <3>1
        <4> QED  BY <1>3, <2>1, <3>1, <4>1, AnnouncedTail
      <3>2. CASE sleepQ' = sleepQ
        BY <1>3, <3>2
      <3>3. CASE x # s /\ sleepQ' = [sleepQ EXCEPT ![s] = Tail(@)]
        <4>1. sleepQ'[x] = sleepQ[x]
          BY <2>1, <3>3
        <4> QED  BY <1>3, <4>1
      <3> QED  BY <1>1, <3>1, <3>2, <3>3
    <2>3. x \in tim
      BY <1>3, <2>2 DEF AirInv, BitsSet
    <2>4. x = s => qlen'[s] # 0
      <3>1. Lens' /\ sleepQ' \in [All -> Seq(Frames)]
        <4>1. DozeInv' /\ CountInv'
          BY <1>3, PollKeeps, PsPollCounts
        <4> QED  BY <1>1, <1>3, <4>1 DEF DozeInv, CountInv, TypeOK
      <3>2. x = s => sleepQ'[s] # <<>>
        BY <1>3, AnnouncedOne
      <3>3. qlen'[s] = Len(sleepQ'[s])
        BY <3>1 DEF Lens
      <3> QED  BY <2>1, <3>1, <3>2, <3>3, EmptySeq
    <2> QED  BY <1>1, <2>3, <2>4
  <1> QED  BY <1>1, <1>2, <1>3, AirFollows DEF Telling

\* A trigger clears the bit only when every category is delivery-enabled.
LEMMA TriggerAnnounces ==
  ASSUME CountInv, AirInv, NEW s \in Stas, Trigger(s)
  PROVE  AirInv'
  <1>1. /\ sleepQ' = [sleepQ EXCEPT ![s] = Select(@, LegacyOf(s))]
        /\ \/ ~HasLegacy(s) /\ tim' = tim \ {s} /\ ie' = tim' /\ cmds' = Append(cmds, "beacon")
           \/ tim' = tim /\ ie' = ie /\ cmds' = cmds
        /\ UNCHANGED <<delivery, air, raced, cpc, clears>>
    BY Zenon DEF Trigger, station, thread, UpdateBeaconIf, UpdateBeacon, AllDelivered
  <1>2. NoBeacon(cmds') => NoBeacon(cmds) /\ ie' = ie
    BY <1>1, AirCmds
  <1>3. ASSUME ~raced, NEW x \in Stas, AnyAnnounced(x, sleepQ'[x]) PROVE x \in tim'
    <2>1. sleepQ \in [All -> Seq(Frames)] /\ x \in All /\ s \in All
      BY DEF CountInv, TypeOK, All
    <2>2. CASE x = s
      <3>1. sleepQ'[x] = Select(sleepQ[x], LegacyOf(x))
        BY <1>1, <2>1, <2>2
      <3>2. AnyAnnounced(x, sleepQ[x]) /\ HasLegacy(x)
        BY <1>3, <2>1, <3>1, AnnouncedLegacy
      <3> QED  BY <1>1, <1>3, <2>2, <3>2 DEF AirInv, BitsSet
    <2>3. CASE x # s
      <3>1. sleepQ'[x] = sleepQ[x]
        BY <1>1, <2>1, <2>3
      <3> QED  BY <1>1, <1>3, <2>3, <3>1 DEF AirInv, BitsSet
    <2> QED  BY <2>2, <2>3
  <1> QED  BY <1>1, <1>2, <1>3, AirFollows DEF Telling

\* The unlocked end of a poll clears the bit of a station that has no frame to be announced,
\* or the race is on record, and then asks for the beacon.
LEMMA RxTailAnnounces ==
  ASSUME CountInv, AirInv, RxTail
  PROVE  AirInv'
  <1>1. UNCHANGED <<delivery, sleepQ, air, cpc, clears>> /\ (raced => raced')
    <2>1. UNCHANGED <<delivery, sleepQ, air, cpc, clears>>
      BY Zenon DEF RxTail, PollTest, PollLen, PollRead, PollWrite, RxTell, station, queues,
         thread
    <2>2. raced => raced'
      BY RacedStays DEF Next
    <2> QED  BY <2>1, <2>2
  <1>2. CASE RxTell
    <2>1. tim' = tim /\ ie' = tim /\ cmds' = Append(cmds, "beacon") /\ raced' = raced
      BY <1>2 DEF RxTell, UpdateBeacon
    <2> QED  BY <1>1, <2>1, AirCmds, AirFollows DEF AirInv, BitsSet
  <1>3. CASE PollWrite
    <2>1. /\ ie' = ie /\ cmds' = cmds
          /\ raced' \/ (tim' = tim \ {rx.sta} /\ ~AnyAnnounced(rx.sta, sleepQ[rx.sta]))
      BY <1>3 DEF PollWrite
    <2>2. ASSUME ~raced', NEW x \in Stas, AnyAnnounced(x, sleepQ'[x]) PROVE x \in tim'
      BY <1>1, <2>1, <2>2 DEF AirInv, BitsSet
    <2>3. ~raced' => tim' \subseteq tim
      BY <2>1
    <2> QED  BY <1>1, <2>1, <2>2, <2>3, AirFollows DEF Telling
  <1>4. CASE PollTest \/ PollLen \/ PollRead
    <2>1. UNCHANGED <<tim, ie, cmds>>
      BY <1>4 DEF PollTest, PollLen, PollRead
    <2> QED  BY <1>1, <2>1, AirFollows DEF Telling, AirInv, BitsSet
  <1> QED  BY <1>2, <1>3, <1>4 DEF RxTail

\* The command thread sends the beacon, and writes into it what it has changed.
LEMMA ThreadAnnounces ==
  ASSUME CountInv, AirInv, CmdThread
  PROVE  AirInv'
  <1>1. cmds \in Seq({"beacon", "bmc", "hiq"}) /\ sleepQ \in [All -> Seq(Frames)]
    BY DEF CountInv, TypeOK
  <1>2. CASE TakeBeacon
    <2>1. /\ air' = ie /\ UNCHANGED <<delivery, tim, sleepQ, ie, raced>> /\ ~Telling
      BY <1>2 DEF TakeBeacon, Takes, traffic, station, Telling
    <2>2. BeaconSent' /\ TimWritten'
      BY <2>1 DEF AirInv, BeaconSent, TimWritten
    <2>3. BitsSet'
      <3>1. \A x : AnyAnnounced(x, sleepQ[x])' <=> AnyAnnounced(x, sleepQ[x])
        BY <2>1, Zenon DEF AnyAnnounced, Announced, HasLegacy, Enabled
      <3> QED  BY <2>1, <3>1 DEF AirInv, BitsSet
    <2> QED  BY <2>2, <2>3 DEF AirInv
  <1>3. CASE TakeBmc \/ (\E empty \in BOOLEAN : TakeHiq(empty))
    <2>1. /\ UNCHANGED <<delivery, tim, sleepQ, ie, air, raced>> /\ ~Telling
          /\ cmds # <<>> /\ Head(cmds) # "beacon"
          /\ cmds' = Tail(cmds) \/ cmds' = Append(Tail(cmds), "hiq")
      BY <1>3 DEF TakeBmc, TakeHiq, Takes, traffic, station, Telling
    <2> DEFINE rest == Tail(cmds)
    <2>2. rest \in Seq({"beacon", "bmc", "hiq"})
      BY <1>1, <2>1, HeadTailProperties
    <2>3. NoBeacon(rest) => NoBeacon(cmds)
      BY <1>1, <2>1, NoBeaconTail
    <2>4. cmds' = rest \/ cmds' = Append(rest, "hiq")
      BY <2>1
    <2> HIDE DEF rest
    <2>5. NoBeacon(Append(rest, "hiq")) => NoBeacon(rest)
      BY <2>2, NoBeaconAppend
    <2> QED  BY <2>1, <2>3, <2>4, <2>5, AirFollows DEF AirInv, BitsSet
  <1>4. CASE TestBmc \/ ReadTim \/ ReadDz \/ WriteDz \/ WriteTim
    <2>1. /\ UNCHANGED <<delivery, sleepQ, ie, air, cmds>> /\ (raced => raced') /\ ~Telling
          /\ raced' \/ tim' = tim \/ tim' = tim \ {Bmc}
      <3>1. /\ UNCHANGED <<delivery, sleepQ, ie, air, cmds>>
            /\ cpc \in {"test", "tim", "timRead", "dz", "dzRead"}
        BY <1>4, Zenon DEF TestBmc, ReadTim, ReadDz, WriteDz, WriteTim, traffic, station
      <3>2. raced => raced'
        BY <1>4, RacedStays DEF Next, CmdThread
      <3>3. raced' \/ tim' = tim \/ tim' = tim \ {Bmc}
        BY <1>4 DEF TestBmc, ReadTim, ReadDz, WriteDz, WriteTim
      <3> QED  BY <3>1, <3>2, <3>3 DEF Telling
    <2>2. ~raced' => tim' \subseteq tim
      BY <2>1
    <2>3. ~raced' => \A x \in Stas : AnyAnnounced(x, sleepQ'[x]) => x \in tim'
      BY <2>1, SleepAssumption DEF AirInv, BitsSet
    <2> QED  BY <2>1, <2>2, <2>3, AirFollows
  <1>5. CASE FlushBmc
    <2>1. /\ UNCHANGED <<delivery, tim, ie, air, raced>> /\ cmds' = Append(cmds, "hiq")
          /\ sleepQ' = [sleepQ EXCEPT ![Bmc] = <<>>] /\ ~Telling
      BY <1>5 DEF FlushBmc, traffic, station, Telling
    <2>2. \A x \in Stas : sleepQ'[x] = sleepQ[x]
      BY <1>1, <2>1, SleepAssumption DEF All
    <2>3. ~raced' => \A x \in Stas : AnyAnnounced(x, sleepQ'[x]) => x \in tim'
      BY <2>1, <2>2 DEF AirInv, BitsSet
    <2> QED  BY <2>1, <2>3, AirCmds, AirFollows
  <1>6. CASE WriteAsk
    <2>1. /\ UNCHANGED <<delivery, sleepQ, ie, air, cmds>> /\ (raced => raced') /\ Telling'
          /\ raced' \/ tim \subseteq tim'
      BY <1>6 DEF WriteAsk, station, queues, Telling
    <2>2. ~raced' => \A x \in Stas : AnyAnnounced(x, sleepQ'[x]) => x \in tim'
      BY <2>1 DEF AirInv, BitsSet
    <2> QED  BY <2>1, <2>2, AirFollows
  <1>7. CASE Announce
    <2>1. /\ UNCHANGED <<delivery, tim, sleepQ, air, raced>>
          /\ \/ ie' = tim' /\ cmds' = Append(cmds, "beacon")
             \/ ~Telling /\ ie' = ie /\ cmds' = cmds
      BY <1>7 DEF Announce, traffic, station, UpdateBeaconIf, UpdateBeacon, Telling
    <2> QED  BY <2>1, AirCmds, AirFollows DEF AirInv, BitsSet
  <1> QED  BY <1>2, <1>3, <1>4, <1>5, <1>6, <1>7 DEF CmdThread

\* The invariant is kept by every step.
LEMMA AirStep ==
  ASSUME CountInv, DozeInv, AirInv, [Next]_vars
  PROVE  AirInv'
  <1>1. CASE UNCHANGED vars
    <2>1. UNCHANGED <<delivery, tim, sleepQ, ie, air, cmds, cpc, clears, raced>>
      BY <1>1, Zenon DEF vars
    <2> QED  BY <2>1, AirStays DEF Telling
  <1>2. CASE Transmits
    BY <1>2, TransmitStays, AirStays DEF Telling
  <1>3. ASSUME NEW s \in Stas, AliveCheck(s) PROVE AirInv'
    <2>1. UNCHANGED <<delivery, tim, sleepQ, ie, air, cmds, raced>> /\ ~Telling
      BY <1>3, Zenon DEF AliveCheck, queues, Telling
    <2> QED  BY <2>1, AirStays
  <1>4. CASE Next /\ ~Transmits /\ ~(\E s \in Stas : AliveCheck(s))
    BY <1>4, StepsAre, GiveAnnounces, GiveBmcAnnounces, SleepAnnounces, WakeAnnounces,
       PsPollAnnounces, TriggerAnnounces, RxTailAnnounces, ThreadAnnounces
  <1> QED  BY <1>1, <1>2, <1>3, <1>4

\* For up to fifteen stations and any frames, on any number of processors, and as long as
\* no unlocked change of a bitmap or of sleepq_len has met another one, or a frame that came
\* meanwhile: when the last beacon command has been executed, each station with a frame that
\* has to be announced finds its bit on air.
THEOREM AnnouncementsReachTheAir == Spec => []AnnouncedOnAir
  <1> DEFINE Inv == CountInv /\ DozeInv /\ AirInv
  <1>1. Init => Inv  BY CountInit, DozeInit, AirInit
  <1>2. Inv /\ [Next]_vars => Inv'  BY CountStep, DozeStep, AirStep
  <1>3. Inv => AnnouncedOnAir
    BY DEF AirInv, BeaconSent, TimWritten, BitsSet, NoBeacon, AnnouncedOnAir, Telling
  <1> HIDE DEF Inv
  <1> QED  BY <1>1, <1>2, <1>3, PTL DEF Spec

=============================================================================
