----------------------- MODULE SleepQueueOrder_proofs -----------------------
(***************************************************************************)
(* The frames of one category stay in order on their way to a station,     *)
(* whatever it does: what a step moves from one part of the way to another *)
(* is the end of one and becomes the other's beginning, in the order it    *)
(* had.  The exceptions are those of InOrder: an unlocked change of the    *)
(* bitmaps has met another one; the station has gone to sleep while one of *)
(* its frames was between the two decisions of rtw_xmit; or a frame is     *)
(* sent straight away while the transmit tasklet prepares earlier ones.    *)
(***************************************************************************)
EXTENDS SleepQueue_proofs

\* The frames for one receiver, and those of one of its categories.
To(x)       == {f \in Frames : f.to = x}
Flow(x, ac) == {f \in Frames : f.to = x /\ f.ac = ac}

\* The frames m + 1 to n, in this order.
Numbered(w, m, n) ==
  /\ w \in Seq(Frames) /\ m \in Nat /\ n \in Nat
  /\ n = m + Len(w)
  /\ \A i \in 1 .. Len(w) : w[i].no = m + i

\* The parts of a way that the transmit tasklet holds and that sleeps.
Held(x, ac)   == IF Preparing(x, ac) THEN taken ELSE <<>>
Asleep(x, ac) == Select(sleepQ[x], OfCategory(ac))

\* Each queue holds the frames it is meant for, and rtw_xmit has one frame of a category.
KindInv ==
  /\ \A x \in All : sleepQ[x] \in Seq(To(x))
  /\ sleepQ[Bmc] \in Seq(Flow(Bmc, "BE"))
  /\ \A x \in All, ac \in ACs : pend[x][ac] \in Seq(Flow(x, ac))
  /\ \A ac \in ACs : /\ flight[ac] # NoFrame => flight[ac].ac = ac /\ direct[ac] = NoFrame
                     /\ direct[ac] # NoFrame => direct[ac].ac = ac
\* Nobody sleeps while a frame of his is decided, but the stations in late.
FlightInv ==
  ~raced => \A s \in Stas \ late, ac \in ACs : flight[ac].to = s => s \notin sleeping
\* A frame that is sent straight away is the only one on its way.
DirectInv ==
  ~raced => \A s \in Stas \ late, ac \in ACs :
    direct[ac].to = s => Way(s, ac) = <<direct[ac]>>
\* What is on its way to a station is what was given and not yet sent.
WayInv ==
  ~raced => \A s \in Stas \ late, ac \in ACs :
    Numbered(Way(s, ac), sent[s][ac], given[s][ac])

OrderInv == KindInv /\ FlightInv /\ DirectInv /\ WayInv

-----------------------------------------------------------------------------
(***************************************************************************)
(* Sequences.                                                              *)
(***************************************************************************)

\* A sequence over a set is one over a larger set.
LEMMA WiderSeq ==
  ASSUME NEW S, NEW T, S \subseteq T, NEW q \in Seq(S)
  PROVE  q \in Seq(T)
  <1>1. \A i \in 1 .. Len(q) : q[i] \in T
    BY ElementOfSeq
  <1> QED  BY <1>1, SeqDef, LenProperties

\* A sequence whose elements are of a set is one over that set.
LEMMA SeqFromMembers ==
  ASSUME NEW S, NEW T, NEW q \in Seq(S), \A i \in 1 .. Len(q) : q[i] \in T
  PROVE  q \in Seq(T)
  BY SeqDef, LenProperties

\* A walk for one category, along frames for one receiver, finds frames of this flow.
LEMMA SelectFlow ==
  ASSUME NEW x, NEW ac, NEW q \in Seq(To(x))
  PROVE  Select(q, OfCategory(ac)) \in Seq(Flow(x, ac))
  <1> DEFINE r == Select(q, OfCategory(ac))
  <1>1. r \in Seq(To(x))
    BY SelectType
  <1>2. \A i \in 1 .. Len(r) : r[i] \in OfCategory(ac) /\ r[i] \in To(x)
    BY <1>1, SelectMembers, ElementOfSeq
  <1> HIDE DEF r
  <1>3. \A i \in 1 .. Len(r) : r[i] \in Flow(x, ac)
    BY <1>2 DEF OfCategory, To, Flow
  <1>4. r \in Seq(Flow(x, ac))
    BY <1>1, <1>3, SeqFromMembers
  <1> QED  BY <1>4 DEF r

\* A queue of one category, walked for a category.
LEMMA SelectFromFlow ==
  ASSUME NEW x, NEW ac \in ACs, NEW of \in ACs, NEW q \in Seq(Flow(x, of))
  PROVE  Select(q, OfCategory(ac)) = IF ac = of THEN q ELSE <<>>
  <1>1. CASE ac = of
    <2>1. Flow(x, of) \subseteq OfCategory(ac)
      BY <1>1 DEF OfCategory, Flow
    <2> QED  BY <1>1, <2>1, SelectAll
  <1>2. CASE ac # of
    <2>1. Flow(x, of) \cap OfCategory(ac) = {}
      BY <1>2 DEF OfCategory, Flow
    <2> QED  BY <1>2, <2>1, SelectNone
  <1> QED  BY <1>1, <1>2

\* Two sequences of a type one behind the other are one of this type.
LEMMA ConcatOfType ==
  ASSUME NEW T, NEW q \in Seq(T), NEW r \in Seq(T)
  PROVE  q \o r \in Seq(T)
  BY ConcatProperties

\* Of three it does not matter which two are joined first.
LEMMA ConcatThree ==
  ASSUME NEW T, NEW p \in Seq(T), NEW q \in Seq(T), NEW r \in Seq(T)
  PROVE  (p \o q) \o r = p \o (q \o r)
  BY ConcatAssociative

\* The five parts of a way.
LEMMA WayParts ==
  ASSUME TypeOK, NEW s \in All, NEW ac \in ACs
  PROVE  /\ Held(s, ac) \in Seq(Frames) /\ pend[s][ac] \in Seq(Frames)
         /\ sleepQ[s] \in Seq(Frames) /\ Asleep(s, ac) \in Seq(Frames)
         /\ Carried(flight[ac], s, ac) \in Seq(Frames)
         /\ Carried(direct[ac], s, ac) \in Seq(Frames)
         /\ Way(s, ac) = Held(s, ac) \o pend[s][ac] \o Asleep(s, ac)
                           \o Carried(flight[ac], s, ac) \o Carried(direct[ac], s, ac)
  <1>1. /\ pend[s][ac] \in Seq(Frames) /\ sleepQ[s] \in Seq(Frames)
        /\ flight[ac] \in Frames /\ direct[ac] \in Frames /\ taken \in Seq(Frames)
    BY DEF TypeOK
  <1>2. /\ <<flight[ac]>> \in Seq(Frames) /\ <<direct[ac]>> \in Seq(Frames)
        /\ <<>> \in Seq(Frames)
    BY <1>1
  <1>3. Held(s, ac) \in Seq(Frames)
    BY <1>1, <1>2, Zenon DEF Held
  <1>4. /\ Carried(flight[ac], s, ac) \in Seq(Frames)
        /\ Carried(direct[ac], s, ac) \in Seq(Frames)
    BY <1>2, Zenon DEF Carried
  <1>5. Asleep(s, ac) \in Seq(Frames)
    BY <1>1, SelectType DEF Asleep
  <1> QED  BY <1>1, <1>3, <1>4, <1>5, Zenon DEF Way, Held, Asleep

\* One more frame, with the next number.
LEMMA NumberedAppend ==
  ASSUME NEW w, NEW m, NEW n, Numbered(w, m, n), NEW f \in Frames, f.no = n + 1
  PROVE  Numbered(w \o <<f>>, m, n + 1)
  <1>1. w \in Seq(Frames) /\ m \in Nat /\ n \in Nat /\ Len(w) \in Nat
    BY LenProperties DEF Numbered
  <1>2. <<f>> \in Seq(Frames) /\ Len(<<f>>) = 1 /\ <<f>>[1] = f
    OBVIOUS
  <1> DEFINE v == w \o <<f>>
  <1>3. /\ v \in Seq(Frames) /\ Len(v) = Len(w) + 1
        /\ \A i \in 1 .. Len(w) + 1 : v[i] = IF i <= Len(w) THEN w[i] ELSE <<f>>[i - Len(w)]
    BY <1>1, <1>2, ConcatProperties
  <1> HIDE DEF v
  <1>4. ASSUME NEW i \in 1 .. Len(v) PROVE v[i].no = m + i
    <2>1. CASE i <= Len(w)
      BY <1>1, <1>3, <2>1 DEF Numbered
    <2>2. CASE ~(i <= Len(w))
      <3>1. i = Len(w) + 1 /\ i - Len(w) = 1
        BY <1>1, <1>3, <2>2
      <3>2. v[i] = f
        BY <1>2, <1>3, <3>1
      <3> QED  BY <1>1, <3>1, <3>2 DEF Numbered
    <2> QED  BY <2>1, <2>2
  <1>5. Numbered(v, m, n + 1)
    BY <1>1, <1>3, <1>4 DEF Numbered
  <1> QED  BY <1>5 DEF v

\* The first frames less.
LEMMA NumberedRest ==
  ASSUME NEW p \in Seq(Frames), NEW r \in Seq(Frames), NEW m, NEW n,
         Numbered(p \o r, m, n), p # <<>>
  PROVE  /\ Last(p).no = m + Len(p) /\ m + Len(p) \in m + 1 .. n
         /\ Numbered(r, m + Len(p), n)
  <1> DEFINE w == p \o r
  <1>1. /\ m \in Nat /\ n \in Nat /\ n = m + Len(w)
        /\ \A i \in 1 .. Len(w) : w[i].no = m + i
    BY DEF Numbered
  <1>2. /\ Len(w) = Len(p) + Len(r)
        /\ \A i \in 1 .. Len(p) + Len(r) : w[i] = IF i <= Len(p) THEN p[i] ELSE r[i - Len(p)]
        /\ Len(p) \in Nat /\ Len(r) \in Nat /\ Len(p) > 0
    BY ConcatProperties, LenProperties, EmptySeq
  <1> HIDE DEF w
  <1>3. Last(p) = p[Len(p)]
    BY DEF Last
  <1>4. p[Len(p)] = w[Len(p)] /\ Len(p) \in 1 .. Len(w)
    BY <1>2
  <1>5. p[Len(p)].no = m + Len(p)
    BY <1>1, <1>4
  <1>6. ASSUME NEW i \in 1 .. Len(r) PROVE r[i].no = (m + Len(p)) + i
    <2> DEFINE j == Len(p) + i
    <2>1. j \in 1 .. Len(w) /\ ~(j <= Len(p)) /\ j - Len(p) = i
      BY <1>2
    <2>2. w[j] = r[i]
      BY <1>2, <2>1
    <2> HIDE DEF j
    <2>3. r[i].no = m + j
      BY <1>1, <2>1, <2>2
    <2> QED  BY <1>1, <1>2, <2>3 DEF j
  <1>7. m + Len(p) \in Nat /\ n = (m + Len(p)) + Len(r)
    BY <1>1, <1>2
  <1>8. Numbered(r, m + Len(p), n)
    BY <1>1, <1>6, <1>7 DEF Numbered
  <1> QED  BY <1>1, <1>2, <1>3, <1>5, <1>8

\* The numbers, as InOrder lists them.
LEMMA NumberedLists ==
  ASSUME NEW w, NEW m, NEW n, Numbered(w, m, n)
  PROVE  [i \in DOMAIN w |-> w[i].no] = [i \in 1 .. (n - m) |-> m + i]
  <1>1. DOMAIN w = 1 .. Len(w) /\ n - m = Len(w)
    BY LenProperties DEF Numbered
  <1> QED  BY <1>1 DEF Numbered

-----------------------------------------------------------------------------
(***************************************************************************)
(* What the queues hold.                                                   *)
(***************************************************************************)

\* A flow's frames are frames of its category, for its receiver.
LEMMA FlowIs ==
  ASSUME NEW x, NEW ac, NEW q \in Seq(Flow(x, ac))
  PROVE  q \in Seq(To(x)) /\ q \in Seq(Frames)
  <1>1. Flow(x, ac) \subseteq To(x) /\ Flow(x, ac) \subseteq Frames
    BY DEF Flow, To
  <1> QED  BY <1>1, WiderSeq

\* The queues that are not touched hold what they held.
LEMMA KindFollows ==
  ASSUME KindInv, UNCHANGED <<flight, direct>>, NEW s \in Stas,
         sleepQ'[s] \in Seq(To(s)), sleepQ'[Bmc] \in Seq(Flow(Bmc, "BE")),
         \A x \in Stas : x # s => sleepQ'[x] = sleepQ[x],
         \A x \in All, ac \in ACs : pend'[x][ac] \in Seq(Flow(x, ac))
  PROVE  KindInv'
  <1>1. ASSUME NEW x \in All PROVE sleepQ'[x] \in Seq(To(x))
    <2>1. CASE x = Bmc
      BY <2>1, FlowIs
    <2>2. CASE x # Bmc
      BY <2>2 DEF KindInv, All
    <2> QED  BY <2>1, <2>2
  <1> QED  BY <1>1, Zenon DEF KindInv

\* rtw_xmit_classifier, of frames for one receiver.
LEMMA ClassifiedKinds ==
  ASSUME CountInv, KindInv, NEW x \in All, NEW fs \in Seq(To(x))
  PROVE  /\ fs \in Seq(Frames)
         /\ Classified(x, fs) \in [All -> [ACs -> Seq(Frames)]]
         /\ \A y \in All, ac \in ACs :
              /\ Classified(x, fs)[y][ac] \in Seq(Flow(y, ac))
              /\ Classified(x, fs)[y][ac] =
                   IF y = x THEN pend[y][ac] \o Select(fs, OfCategory(ac)) ELSE pend[y][ac]
  <1>1. fs \in Seq(Frames)
    BY WiderSeq DEF To
  <1>2. /\ Classified(x, fs) \in [All -> [ACs -> Seq(Frames)]]
        /\ \A y \in All, ac \in ACs : Classified(x, fs)[y][ac] =
             IF y = x THEN pend[y][ac] \o Select(fs, OfCategory(ac)) ELSE pend[y][ac]
    BY <1>1, ClassifiedIs DEF CountInv
  <1>3. ASSUME NEW y \in All, NEW ac \in ACs
        PROVE  Classified(x, fs)[y][ac] \in Seq(Flow(y, ac))
    <2>1. pend[y][ac] \in Seq(Flow(y, ac))
      BY DEF KindInv
    <2>2. Select(fs, OfCategory(ac)) \in Seq(Flow(x, ac))
      BY SelectFlow
    <2>3. y = x => pend[y][ac] \o Select(fs, OfCategory(ac)) \in Seq(Flow(y, ac))
      BY <2>1, <2>2, ConcatOfType
    <2> QED  BY <1>2, <2>1, <2>3, Zenon
  <1> QED  BY <1>1, <1>2, <1>3

\* rtw_xmit for a station.
LEMMA GiveKinds ==
  ASSUME CountInv, KindInv, NEW s \in Stas, NEW ac \in ACs, Give(s, ac)
  PROVE  KindInv'
  <1> DEFINE f == [to |-> s, ac |-> ac, no |-> given[s][ac] + 1]
  <1>1. /\ flight[ac] = NoFrame /\ direct[ac] = NoFrame
        /\ UNCHANGED <<pend, direct>>
        /\ \/ sleepQ' = [sleepQ EXCEPT ![s] = Append(@, f)] /\ flight' = flight
           \/ flight' = [flight EXCEPT ![ac] = f] /\ sleepQ' = sleepQ
    BY Zenon DEF Give, Idle
  <1>2. /\ s \in All /\ s # Bmc /\ Bmc \in All /\ sleepQ \in [All -> Seq(Frames)]
        /\ given \in [All -> [ACs -> Nat]] /\ flight \in [ACs -> Frames]
    BY SleepAssumption DEF CountInv, TypeOK, All
  <1>3. f \in To(s) /\ f.ac = ac
    <2>1. given[s][ac] + 1 \in Nat
      BY <1>2
    <2> QED  BY <1>2, <2>1 DEF To, Frames
  <1> HIDE DEF f
  <1>4. \A c \in ACs : /\ flight'[c] # NoFrame => flight'[c].ac = c /\ direct'[c] = NoFrame
                       /\ direct'[c] # NoFrame => direct'[c].ac = c
    BY <1>1, <1>2, <1>3 DEF KindInv
  <1>5. ASSUME NEW x \in All PROVE sleepQ'[x] \in Seq(To(x))
    <2>1. sleepQ[x] \in Seq(To(x))
      BY DEF KindInv
    <2>2. sleepQ'[x] = sleepQ[x] \/ (x = s /\ sleepQ'[x] = Append(sleepQ[x], f))
      BY <1>1, <1>2
    <2> QED  BY <1>3, <2>1, <2>2, AppendProperties
  <1>6. sleepQ'[Bmc] = sleepQ[Bmc]
    BY <1>1, <1>2
  <1> QED  BY <1>1, <1>4, <1>5, <1>6, Zenon DEF KindInv

\* rtw_xmit for a broadcast.
LEMMA GiveBmcKinds ==
  ASSUME CountInv, KindInv, GiveBmc
  PROVE  KindInv'
  <1> DEFINE f == [to |-> Bmc, ac |-> "BE", no |-> given[Bmc]["BE"] + 1]
  <1>1. /\ flight["BE"] = NoFrame /\ direct["BE"] = NoFrame
        /\ UNCHANGED <<pend, direct>>
        /\ \/ sleepQ' = [sleepQ EXCEPT ![Bmc] = Append(@, f)] /\ flight' = flight
           \/ flight' = [flight EXCEPT !["BE"] = f] /\ sleepQ' = sleepQ
    BY Zenon DEF GiveBmc, Idle
  <1>2. /\ Bmc \in All /\ sleepQ \in [All -> Seq(Frames)] /\ "BE" \in ACs
        /\ given \in [All -> [ACs -> Nat]] /\ flight \in [ACs -> Frames]
    BY DEF CountInv, TypeOK, All, ACs
  <1>3. f \in Flow(Bmc, "BE") /\ f.ac = "BE"
    <2>1. given[Bmc]["BE"] + 1 \in Nat
      BY <1>2
    <2> QED  BY <1>2, <2>1 DEF Flow, Frames
  <1> HIDE DEF f
  <1>4. \A c \in ACs : /\ flight'[c] # NoFrame => flight'[c].ac = c /\ direct'[c] = NoFrame
                       /\ direct'[c] # NoFrame => direct'[c].ac = c
    BY <1>1, <1>2, <1>3 DEF KindInv
  <1>5. sleepQ'[Bmc] \in Seq(Flow(Bmc, "BE"))
    <2>1. sleepQ[Bmc] \in Seq(Flow(Bmc, "BE"))
      BY DEF KindInv
    <2>2. sleepQ'[Bmc] = sleepQ[Bmc] \/ sleepQ'[Bmc] = Append(sleepQ[Bmc], f)
      BY <1>1, <1>2
    <2> QED  BY <1>3, <2>1, <2>2, AppendProperties
  <1>6. ASSUME NEW x \in All PROVE sleepQ'[x] \in Seq(To(x))
    <2>1. CASE x = Bmc
      BY <1>5, <2>1, FlowIs
    <2>2. CASE x # Bmc
      <3>1. sleepQ'[x] = sleepQ[x]
        BY <1>1, <1>2, <2>2
      <3> QED  BY <3>1 DEF KindInv
    <2> QED  BY <2>1, <2>2
  <1> QED  BY <1>1, <1>4, <1>5, <1>6, Zenon DEF KindInv

\* The transmit path.
LEMMA TransmitKinds ==
  ASSUME CountInv, KindInv, Transmits
  PROVE  KindInv'
  <1> DEFINE Good == /\ \A x \in All, ac \in ACs : pend'[x][ac] \in Seq(Flow(x, ac))
                     /\ \A ac \in ACs :
                          /\ flight'[ac] # NoFrame => flight'[ac].ac = ac /\ direct'[ac] = NoFrame
                          /\ direct'[ac] # NoFrame => direct'[ac].ac = ac
  <1>1. /\ flight \in [ACs -> Frames] /\ direct \in [ACs -> Frames] /\ taken \in Seq(Frames)
        /\ pend \in [All -> [ACs -> Seq(Frames)]]
        /\ \A f \in Frames : f.to \in All /\ f.ac \in ACs
    BY DEF CountInv, TypeOK, Frames
  <1>2. /\ \A x \in All, ac \in ACs : pend[x][ac] \in Seq(Flow(x, ac))
        /\ \A ac \in ACs : /\ flight[ac] # NoFrame => flight[ac].ac = ac /\ direct[ac] = NoFrame
                           /\ direct[ac] # NoFrame => direct[ac].ac = ac
    BY DEF KindInv
  <1>3. ASSUME NEW ac \in ACs, NEW buffer \in BOOLEAN, HalXmit(ac, buffer) PROVE Good
    <2> DEFINE f == flight[ac]
    <2>1. /\ f # NoFrame /\ flight' = [flight EXCEPT ![ac] = NoFrame]
          /\ \/ direct' = [direct EXCEPT ![ac] = f] /\ pend' = pend
             \/ pend' = Classified(f.to, <<f>>) /\ direct' = direct
      BY <1>3, Zenon DEF HalXmit
    <2>2. f \in To(f.to) /\ f.to \in All
      BY <1>1 DEF To
    <2>3. <<f>> \in Seq(To(f.to))
      BY <2>2
    <2>4. \A y \in All, c \in ACs : Classified(f.to, <<f>>)[y][c] \in Seq(Flow(y, c))
      BY <2>2, <2>3, ClassifiedKinds
    <2> HIDE DEF f
    <2>5. \A y \in All, c \in ACs : pend'[y][c] \in Seq(Flow(y, c))
      BY <1>2, <2>1, <2>4
    <2>6. f.ac = ac
      BY <1>2, <2>1 DEF f
    <2>7. \A c \in ACs : /\ flight'[c] # NoFrame => flight'[c].ac = c /\ direct'[c] = NoFrame
                         /\ direct'[c] # NoFrame => direct'[c].ac = c
      BY <1>1, <1>2, <2>1, <2>6
    <2> QED  BY <2>5, <2>7
  <1>4. ASSUME NEW ac \in ACs, SendDirect(ac) PROVE Good
    <2>1. direct' = [direct EXCEPT ![ac] = NoFrame] /\ UNCHANGED <<flight, pend>>
      BY <1>4, Zenon DEF SendDirect, queues
    <2> QED  BY <1>1, <1>2, <2>1
  <1>5. ASSUME NEW x \in All, NEW ac \in ACs, TakeFrame(x, ac) PROVE Good
    <2>1. pend[x][ac] # <<>> /\ pend' = [pend EXCEPT ![x][ac] = Tail(@)]
          /\ UNCHANGED <<flight, direct>>
      BY <1>5, Zenon DEF TakeFrame
    <2>2. Tail(pend[x][ac]) \in Seq(Flow(x, ac))
      BY <1>2, <2>1, HeadTailProperties
    <2>3. \A y \in All, c \in ACs : pend'[y][c] =
            IF y = x /\ c = ac THEN Tail(pend[x][ac]) ELSE pend[y][c]
      BY <1>1, <2>1
    <2>4. \A y \in All, c \in ACs : pend'[y][c] \in Seq(Flow(y, c))
      BY <1>2, <2>2, <2>3
    <2> QED  BY <1>2, <2>1, <2>4
  <1>6. ASSUME NEW n \in 1 .. MaxFrames + MaxBroadcasts, TakeMore(n) PROVE Good
    <2> DEFINE x == taken[1].to  ac == taken[1].ac
               rest == SubSeq(pend[x][ac], n + 1, Len(pend[x][ac]))
    <2>1. /\ Len(taken) = 1 /\ n <= Len(pend[x][ac])
          /\ pend' = [pend EXCEPT ![x][ac] = SubSeq(@, n + 1, Len(@))]
          /\ UNCHANGED <<flight, direct>>
      BY <1>6, Zenon DEF TakeMore
    <2>2. x \in All /\ ac \in ACs
      <3>1. 1 \in 1 .. Len(taken)
        BY <2>1
      <3>2. taken[1] \in Frames
        BY <1>1, <3>1, ElementOfSeq
      <3> QED  BY <1>1, <3>2
    <2> HIDE DEF x, ac
    <2>3. rest \in Seq(Flow(x, ac))
      <3>1. pend[x][ac] \in Seq(Flow(x, ac)) /\ Len(pend[x][ac]) \in Nat /\ n \in Nat
        BY <1>2, <2>2, LenProperties, SleepAssumption
      <3>2. \A i \in n + 1 .. Len(pend[x][ac]) : pend[x][ac][i] \in Flow(x, ac)
        <4>1. \A i \in n + 1 .. Len(pend[x][ac]) : i \in 1 .. Len(pend[x][ac])
          BY <3>1
        <4> QED  BY <3>1, <4>1, ElementOfSeq
      <3>3. n + 1 \in Int /\ Len(pend[x][ac]) \in Int
        BY <3>1
      <3> QED  BY <3>2, <3>3, SubSeqProperties
    <2> HIDE DEF rest
    <2>4. \A y \in All, c \in ACs : pend'[y][c] =
            IF y = x /\ c = ac THEN rest ELSE pend[y][c]
      BY <1>1, <2>1, <2>2 DEF rest
    <2>5. \A y \in All, c \in ACs : pend'[y][c] \in Seq(Flow(y, c))
      BY <1>2, <2>3, <2>4
    <2> QED  BY <1>2, <2>1, <2>5
  <1>7. ASSUME WriteTransfer PROVE Good
    <2>1. UNCHANGED <<flight, direct, pend>>
      BY <1>7, Zenon DEF WriteTransfer, queues
    <2> QED  BY <1>2, <2>1
  <1> HIDE DEF Good
  <1>8. Good
    BY <1>3, <1>4, <1>5, <1>6, <1>7, Zenon DEF Transmits, HandsOn
  <1>9. UNCHANGED sleepQ
    BY TransmitStays
  <1>10. /\ \A x \in All, ac \in ACs : pend'[x][ac] \in Seq(Flow(x, ac))
         /\ \A ac \in ACs :
              /\ flight'[ac] # NoFrame => flight'[ac].ac = ac /\ direct'[ac] = NoFrame
              /\ direct'[ac] # NoFrame => direct'[ac].ac = ac
    BY <1>8, Zenon DEF Good
  <1>11. /\ \A x \in All : sleepQ'[x] \in Seq(To(x))
         /\ sleepQ'[Bmc] \in Seq(Flow(Bmc, "BE"))
    BY <1>9, Zenon DEF KindInv
  <1> QED  BY <1>10, <1>11, Zenon DEF KindInv

\* stop_sta_xmit
LEMMA SleepKinds ==
  ASSUME CountInv, KindInv, NEW s \in Stas, Sleep(s)
  PROVE  KindInv'
  <1> DEFINE moved == pend[s]["VO"] \o pend[s]["BE"]
             bmc   == pend[Bmc]["BE"]
  <1>1. /\ sleepQ' = [sleepQ EXCEPT ![s] = @ \o moved, ![Bmc] = @ \o bmc]
        /\ pend' = [pend EXCEPT ![s] = [ac \in ACs |-> <<>>], ![Bmc]["BE"] = <<>>]
        /\ UNCHANGED <<flight, direct>>
    BY Zenon DEF Sleep, path
  <1>2. /\ s \in All /\ Bmc \in All /\ s # Bmc /\ Stas \subseteq All \ {Bmc}
        /\ "BE" \in ACs /\ "VO" \in ACs
        /\ sleepQ \in [All -> Seq(Frames)] /\ pend \in [All -> [ACs -> Seq(Frames)]]
    BY SleepAssumption DEF All, ACs, CountInv, TypeOK
  <1>3. moved \in Seq(To(s))
    <2>1. pend[s]["VO"] \in Seq(To(s)) /\ pend[s]["BE"] \in Seq(To(s))
      BY <1>2, FlowIs DEF KindInv
    <2> QED  BY <2>1, ConcatOfType
  <1>4. bmc \in Seq(Flow(Bmc, "BE"))
    BY <1>2 DEF KindInv
  <1> HIDE DEF moved, bmc
  <1>5. /\ sleepQ'[s] = sleepQ[s] \o moved /\ sleepQ'[Bmc] = sleepQ[Bmc] \o bmc
        /\ \A x \in Stas : x # s => sleepQ'[x] = sleepQ[x]
    BY <1>1, <1>2
  <1>6. sleepQ'[s] \in Seq(To(s)) /\ sleepQ'[Bmc] \in Seq(Flow(Bmc, "BE"))
    BY <1>2, <1>3, <1>4, <1>5, ConcatOfType DEF KindInv
  <1>7. ASSUME NEW x \in All, NEW ac \in ACs PROVE pend'[x][ac] \in Seq(Flow(x, ac))
    <2>1. pend'[x][ac] = <<>> \/ pend'[x][ac] = pend[x][ac]
      BY <1>1, <1>2
    <2> QED  BY <2>1, EmptySeq DEF KindInv
  <1> QED  BY <1>1, <1>5, <1>6, <1>7, KindFollows

\* wakeup_sta_to_xmit
LEMMA WakeUpKinds ==
  ASSUME CountInv, KindInv, NEW s \in Stas, WakeUp(s)
  PROVE  KindInv'
  <1> DEFINE out == Classified(s, sleepQ[s])
  <1>1. /\ pend' = out \/ pend' = [out EXCEPT ![Bmc]["BE"] = @ \o sleepQ[Bmc]]
        /\ \E gone : sleepQ' = [x \in All |-> IF x = s \/ x \in gone THEN <<>> ELSE sleepQ[x]]
        /\ UNCHANGED <<flight, direct>>
    BY Zenon DEF WakeUp, path
  <1>2. s \in All /\ Bmc \in All /\ Stas \subseteq All /\ "BE" \in ACs
    BY DEF All, ACs
  <1>3. sleepQ[s] \in Seq(To(s)) /\ sleepQ[Bmc] \in Seq(Flow(Bmc, "BE"))
    BY <1>2 DEF KindInv
  <1>4. /\ out \in [All -> [ACs -> Seq(Frames)]]
        /\ \A y \in All, ac \in ACs : out[y][ac] \in Seq(Flow(y, ac))
    BY <1>2, <1>3, ClassifiedKinds
  <1> HIDE DEF out
  <1>5. ASSUME NEW x \in All, NEW ac \in ACs PROVE pend'[x][ac] \in Seq(Flow(x, ac))
    <2>1. \/ pend'[x][ac] = out[x][ac]
          \/ x = Bmc /\ ac = "BE" /\ pend'[x][ac] = out[x][ac] \o sleepQ[Bmc]
      <3>1. CASE pend' = out
        BY <3>1
      <3> DEFINE more == out[Bmc]["BE"] \o sleepQ[Bmc]
      <3>2. CASE pend' = [out EXCEPT ![Bmc]["BE"] = more]
        <4> HIDE DEF more
        <4>1. pend'[x][ac] = IF x = Bmc /\ ac = "BE" THEN more ELSE out[x][ac]
          BY <1>2, <1>4, <3>2
        <4> QED  BY <4>1, Zenon DEF more
      <3> QED  BY <1>1, <3>1, <3>2, Zenon
    <2> QED  BY <1>3, <1>4, <2>1, ConcatOfType
  <1>6. ASSUME NEW x \in All PROVE sleepQ'[x] = <<>> \/ sleepQ'[x] = sleepQ[x]
    BY <1>1
  <1>7. ASSUME NEW x \in All PROVE sleepQ'[x] \in Seq(To(x))
    BY <1>6, EmptySeq DEF KindInv
  <1>8. sleepQ'[Bmc] \in Seq(Flow(Bmc, "BE"))
    BY <1>2, <1>3, <1>6, EmptySeq
  <1> QED  BY <1>1, <1>5, <1>7, <1>8, Zenon DEF KindInv

\* PS-Poll and trigger: what is taken from the sleep queue of a station becomes pending.
LEMMA PollKinds ==
  ASSUME CountInv, KindInv, NEW s \in Stas, PsPoll(s) \/ Trigger(s)
  PROVE  KindInv'
  <1>1. /\ s \in All /\ s # Bmc /\ Bmc \in All /\ Stas \subseteq All
        /\ sleepQ \in [All -> Seq(Frames)] /\ sleepQ[s] \in Seq(To(s))
    BY SleepAssumption DEF All, CountInv, TypeOK, KindInv
  <1>2. UNCHANGED <<flight, direct>>
    BY Zenon DEF PsPoll, Trigger, path
  <1>3. CASE UNCHANGED <<pend, sleepQ>>
    BY <1>2, <1>3, Zenon DEF KindInv
  <1>4. ASSUME NEW out \in Seq(To(s)), NEW left \in Seq(To(s)),
               pend' = Classified(s, out), sleepQ' = [sleepQ EXCEPT ![s] = left]
        PROVE  KindInv'
    <2>1. \A y \in All, ac \in ACs : pend'[y][ac] \in Seq(Flow(y, ac))
      BY <1>1, <1>4, ClassifiedKinds
    <2>2. sleepQ'[s] = left /\ \A x \in All : x # s => sleepQ'[x] = sleepQ[x]
      BY <1>1, <1>4
    <2>3. sleepQ'[Bmc] \in Seq(Flow(Bmc, "BE"))
      BY <1>1, <2>2 DEF KindInv
    <2> QED  BY <1>1, <1>2, <1>4, <2>1, <2>2, <2>3, KindFollows
  <1>5. CASE PsPoll(s)
    <2>1. \/ UNCHANGED <<pend, sleepQ>>
          \/ /\ sleepQ[s] # <<>> /\ pend' = Classified(s, <<Head(sleepQ[s])>>)
             /\ sleepQ' = [sleepQ EXCEPT ![s] = Tail(sleepQ[s])]
      BY <1>5, Zenon DEF PsPoll
    <2>2. sleepQ[s] # <<>> => <<Head(sleepQ[s])>> \in Seq(To(s)) /\ Tail(sleepQ[s]) \in Seq(To(s))
      BY <1>1, HeadThenTail
    <2> QED  BY <1>3, <1>4, <2>1, <2>2
  <1>6. CASE Trigger(s)
    <2>1. /\ pend' = Classified(s, Select(sleepQ[s], EnabledOf(s)))
          /\ sleepQ' = [sleepQ EXCEPT ![s] = Select(sleepQ[s], LegacyOf(s))]
      BY <1>6, Zenon DEF Trigger
    <2>2. Select(sleepQ[s], EnabledOf(s)) \in Seq(To(s)) /\ Select(sleepQ[s], LegacyOf(s)) \in Seq(To(s))
      BY <1>1, SelectType
    <2> QED  BY <1>4, <2>1, <2>2
  <1> QED  BY <1>5, <1>6

\* The others touch the queue of the broadcasts, or nothing.
LEMMA OtherKinds ==
  ASSUME CountInv, KindInv, RxTail \/ CmdThread \/ \E s \in Stas : AliveCheck(s)
  PROVE  /\ KindInv'
         /\ UNCHANGED <<sleeping, late, flight, direct, taken, given, sent>>
         /\ \A x \in Stas : sleepQ'[x] = sleepQ[x] /\ pend'[x] = pend[x]
  <1>1. UNCHANGED <<sleeping, late, flight, direct, taken, given, sent>>
    <2>1. CASE RxTail
      BY <2>1, Zenon DEF RxTail, PollTest, PollLen, PollRead, PollWrite, RxTell, station,
         path, counts
    <2>2. CASE CmdThread
      BY <2>2, Zenon DEF CmdThread, TakeBeacon, TakeBmc, TestBmc, FlushBmc, TakeHiq, ReadTim,
         WriteTim, ReadDz, WriteDz, WriteAsk, Announce, traffic, station, path, counts
    <2>3. CASE \E s \in Stas : AliveCheck(s)
      BY <2>3, Zenon DEF AliveCheck, path, counts
    <2> QED  BY <2>1, <2>2, <2>3
  <1>2. \/ UNCHANGED <<sleepQ, pend>>
        \/ /\ pend' = [pend EXCEPT ![Bmc]["BE"] = @ \o sleepQ[Bmc]]
           /\ sleepQ' = [sleepQ EXCEPT ![Bmc] = <<>>]
    <2>1. CASE RxTail
      BY <2>1, Zenon DEF RxTail, PollTest, PollLen, PollRead, PollWrite, RxTell, queues
    <2>2. CASE CmdThread
      BY <2>2, Zenon DEF CmdThread, TakeBeacon, TakeBmc, TestBmc, FlushBmc, TakeHiq, ReadTim,
         WriteTim, ReadDz, WriteDz, WriteAsk, Announce, queues
    <2>3. CASE \E s \in Stas : AliveCheck(s)
      BY <2>3, Zenon DEF AliveCheck, queues
    <2> QED  BY <2>1, <2>2, <2>3
  <1>3. /\ Stas \subseteq All \ {Bmc} /\ Bmc \in All /\ "BE" \in ACs
        /\ sleepQ \in [All -> Seq(Frames)] /\ pend \in [All -> [ACs -> Seq(Frames)]]
    BY SleepAssumption DEF CountInv, TypeOK, All, ACs
  <1>4. \A x \in Stas : sleepQ'[x] = sleepQ[x] /\ pend'[x] = pend[x]
    BY <1>2, <1>3
  <1>5. ASSUME NEW x \in All PROVE sleepQ'[x] \in Seq(To(x))
    <2>1. sleepQ'[x] = sleepQ[x] \/ sleepQ'[x] = <<>>
      BY <1>2, <1>3
    <2> QED  BY <2>1, EmptySeq DEF KindInv
  <1>6. sleepQ'[Bmc] \in Seq(Flow(Bmc, "BE"))
    <2>1. sleepQ'[Bmc] = sleepQ[Bmc] \/ sleepQ'[Bmc] = <<>>
      BY <1>2, <1>3
    <2> QED  BY <2>1, EmptySeq DEF KindInv
  <1>7. ASSUME NEW x \in All, NEW ac \in ACs PROVE pend'[x][ac] \in Seq(Flow(x, ac))
    <2>1. \/ pend'[x][ac] = pend[x][ac]
          \/ x = Bmc /\ ac = "BE" /\ pend'[x][ac] = pend[x][ac] \o sleepQ[Bmc]
      <3>1. CASE pend' = pend
        BY <3>1
      <3> DEFINE more == pend[Bmc]["BE"] \o sleepQ[Bmc]
      <3>2. CASE pend' = [pend EXCEPT ![Bmc]["BE"] = more]
        <4> HIDE DEF more
        <4>1. pend'[x][ac] = IF x = Bmc /\ ac = "BE" THEN more ELSE pend[x][ac]
          BY <1>3, <3>2
        <4> QED  BY <4>1, Zenon DEF more
      <3> QED  BY <1>2, <3>1, <3>2, Zenon
    <2>2. pend[x][ac] \in Seq(Flow(x, ac)) /\ sleepQ[Bmc] \in Seq(Flow(Bmc, "BE"))
      BY DEF KindInv
    <2> QED  BY <2>1, <2>2, ConcatOfType
  <1>8. KindInv'
    BY <1>1, <1>5, <1>6, <1>7, Zenon DEF KindInv
  <1> QED  BY <1>1, <1>4, <1>8

-----------------------------------------------------------------------------
(***************************************************************************)
(* Steps that leave every way what it was.                                 *)
(***************************************************************************)

\* Nothing is on its way at the start.
LEMMA OrderInit == Init => OrderInv
  <1> SUFFICES ASSUME Init PROVE OrderInv  OBVIOUS
  <1>1. /\ \A x \in All : sleepQ[x] = <<>> /\ \A ac \in ACs : pend[x][ac] = <<>>
        /\ \A x \in All, ac \in ACs : given[x][ac] = 0 /\ sent[x][ac] = 0
        /\ \A ac \in ACs : flight[ac] = NoFrame /\ direct[ac] = NoFrame
        /\ taken = <<>> /\ sleeping = {} /\ Stas \subseteq All /\ Bmc \in All
        /\ NoFrame.to \notin Stas
    BY SleepAssumption DEF Init, All, NoFrame
  <1>2. KindInv
    BY <1>1, EmptySeq DEF KindInv
  <1>3. FlightInv /\ DirectInv
    BY <1>1 DEF FlightInv, DirectInv
  <1>4. ASSUME NEW s \in Stas, NEW ac \in ACs
        PROVE  Numbered(Way(s, ac), sent[s][ac], given[s][ac])
    <2>1. Carried(flight[ac], s, ac) = <<>> /\ Carried(direct[ac], s, ac) = <<>>
      BY <1>1, Zenon DEF Carried
    <2>2. Way(s, ac) = <<>> \o <<>> \o <<>> \o <<>> \o <<>>
      BY <1>1, <2>1, SelectEmpty, Zenon DEF Way, Preparing
    <2>3. <<>> \o <<>> \o <<>> \o <<>> \o <<>> = <<>>
      OBVIOUS
    <2>4. Numbered(<<>>, 0, 0)
      BY EmptySeq DEF Numbered
    <2> QED  BY <1>1, <2>2, <2>3, <2>4
  <1> QED  BY <1>2, <1>3, <1>4 DEF OrderInv, WayInv

\* A step after which each way is what it was, or continues it.
LEMMA OrderFollows ==
  ASSUME OrderInv, KindInv', FlightInv', DirectInv', raced => raced', late \subseteq late',
         \A s \in Stas \ late', ac \in ACs : ~raced' =>
           (Numbered(Way(s, ac), sent[s][ac], given[s][ac])
              => Numbered(Way(s, ac)', sent'[s][ac], given'[s][ac]))
  PROVE  OrderInv'
  <1>1. ASSUME ~raced', NEW s \in Stas \ late', NEW ac \in ACs
        PROVE  Numbered(Way(s, ac)', sent'[s][ac], given'[s][ac])
    BY <1>1 DEF OrderInv, WayInv
  <1>2. WayInv'
    BY <1>1 DEF WayInv
  <1> QED  BY <1>2 DEF OrderInv

\* A step after which each way is what it was.
LEMMA WaysStay ==
  ASSUME OrderInv, KindInv', FlightInv', raced => raced', late \subseteq late',
         UNCHANGED direct,
         \A s \in Stas, ac \in ACs : given'[s][ac] = given[s][ac] /\ sent'[s][ac] = sent[s][ac],
         \A s \in Stas \ late', ac \in ACs : ~raced' => Way(s, ac)' = Way(s, ac)
  PROVE  OrderInv'
  <1>1. ASSUME ~raced', NEW s \in Stas \ late', NEW ac \in ACs, direct'[ac].to = s
        PROVE  Way(s, ac)' = <<direct'[ac]>>
    <2>1. ~raced /\ s \in Stas \ late /\ direct[ac].to = s
      BY <1>1
    <2>2. Way(s, ac) = <<direct[ac]>>
      BY <2>1 DEF OrderInv, DirectInv
    <2> QED  BY <1>1, <2>2, Zenon
  <1>2. DirectInv'
    BY <1>1, Zenon DEF DirectInv
  <1>3. ASSUME NEW s \in Stas \ late', NEW ac \in ACs, ~raced',
               Numbered(Way(s, ac), sent[s][ac], given[s][ac])
        PROVE  Numbered(Way(s, ac)', sent'[s][ac], given'[s][ac])
    <2>1. Way(s, ac)' = Way(s, ac) /\ given'[s][ac] = given[s][ac] /\ sent'[s][ac] = sent[s][ac]
      BY <1>3
    <2> QED  BY <1>3, <2>1, Zenon
  <1> QED  BY <1>2, <1>3, OrderFollows, Zenon

\* A way stays what it was when frames move between two neighbours of its first parts.
LEMMA WaySame ==
  ASSUME TypeOK, TypeOK', NEW s \in All, NEW ac \in ACs,
         Carried(flight'[ac], s, ac) = Carried(flight[ac], s, ac),
         Carried(direct'[ac], s, ac) = Carried(direct[ac], s, ac),
         \/ /\ Held(s, ac)' = Held(s, ac)
            /\ pend'[s][ac] \o Asleep(s, ac)' = pend[s][ac] \o Asleep(s, ac)
         \/ /\ Asleep(s, ac)' = Asleep(s, ac)
            /\ Held(s, ac)' \o pend'[s][ac] = Held(s, ac) \o pend[s][ac]
  PROVE  Way(s, ac)' = Way(s, ac)
  <1> DEFINE h == Held(s, ac)    h2 == Held(s, ac)'
             p == pend[s][ac]    p2 == pend'[s][ac]
             a == Asleep(s, ac)  a2 == Asleep(s, ac)'
             f == Carried(flight[ac], s, ac)
             d == Carried(direct[ac], s, ac)
  <1>1. /\ h \in Seq(Frames) /\ p \in Seq(Frames) /\ a \in Seq(Frames)
        /\ Way(s, ac) = h \o p \o a \o f \o d
    BY WayParts, Zenon
  <1>2. s \in All /\ h2 \in Seq(Frames) /\ p2 \in Seq(Frames) /\ a2 \in Seq(Frames)
    <2>1. taken' \in Seq(Frames) /\ pend' \in [All -> [ACs -> Seq(Frames)]]
          /\ sleepQ' \in [All -> Seq(Frames)] /\ <<>> \in Seq(Frames)
      BY EmptySeq DEF TypeOK
    <2>2. h2 \in Seq(Frames)
      BY <2>1, Zenon DEF Held
    <2>3. sleepQ'[s] \in Seq(Frames) /\ p2 \in Seq(Frames)
      BY <2>1
    <2>4. a2 \in Seq(Frames)
      BY <2>3, SelectType DEF Asleep
    <2> QED  BY <2>2, <2>3, <2>4
  <1>3. Way(s, ac)' = h2 \o p2 \o a2 \o f \o d
    <2>1. Way(s, ac)' = h2 \o p2 \o a2 \o Carried(flight'[ac], s, ac) \o Carried(direct'[ac], s, ac)
      BY Zenon DEF Way, Held, Asleep, Carried
    <2> QED  BY <2>1, Zenon
  <1>4. \/ h2 = h /\ p2 \o a2 = p \o a
        \/ a2 = a /\ h2 \o p2 = h \o p
    OBVIOUS
  <1> HIDE DEF h, h2, p, p2, a, a2, f, d
  <1>5. (h2 \o p2) \o a2 = (h \o p) \o a
    <2>1. CASE h2 = h /\ p2 \o a2 = p \o a
      <3>1. (h2 \o p2) \o a2 = h2 \o (p2 \o a2)
        BY <1>2, ConcatThree
      <3>2. (h \o p) \o a = h \o (p \o a)
        BY <1>1, ConcatThree
      <3> QED  BY <2>1, <3>1, <3>2, Zenon
    <2>2. CASE a2 = a /\ h2 \o p2 = h \o p
      BY <2>2, Zenon
    <2> QED  BY <1>4, <2>1, <2>2
  <1> QED  BY <1>1, <1>3, <1>5, Zenon

\* A station moves frames between its two queues, and nothing is given or sent.
LEMMA StationFollows ==
  ASSUME CountInv, OrderInv, CountInv', KindInv', FlightInv', NEW s \in Stas,
         UNCHANGED <<flight, direct, taken, given, sent, raced>>, late \subseteq late',
         \A x \in Stas : x # s => sleepQ'[x] = sleepQ[x]
                                  /\ \A ac \in ACs : pend'[x][ac] = pend[x][ac],
         ~raced /\ s \notin late' => \A ac \in ACs :
           pend'[s][ac] \o Select(sleepQ'[s], OfCategory(ac))
             = pend[s][ac] \o Select(sleepQ[s], OfCategory(ac))
  PROVE  OrderInv'
  <1>1. ASSUME NEW x \in Stas \ late', NEW ac \in ACs, ~raced'
        PROVE  Way(x, ac)' = Way(x, ac)
    <2>1. TypeOK /\ TypeOK' /\ x \in All
      BY DEF CountInv, All
    <2>2. Held(x, ac)' = Held(x, ac)
      BY Zenon DEF Held, Preparing
    <2>3. pend'[x][ac] \o Asleep(x, ac)' = pend[x][ac] \o Asleep(x, ac)
      <3>1. CASE x = s
        BY <1>1, <3>1, Zenon DEF Asleep
      <3>2. CASE x # s
        BY <3>2, Zenon DEF Asleep
      <3> QED  BY <3>1, <3>2
    <2>4. /\ Carried(flight'[ac], x, ac) = Carried(flight[ac], x, ac)
          /\ Carried(direct'[ac], x, ac) = Carried(direct[ac], x, ac)
      BY Zenon
    <2> QED  BY <2>1, <2>2, <2>3, <2>4, WaySame, Zenon
  <1>2. \A x \in Stas, ac \in ACs : given'[x][ac] = given[x][ac] /\ sent'[x][ac] = sent[x][ac]
    OBVIOUS
  <1> QED  BY <1>1, <1>2, WaysStay, Zenon

\* A step that touches no queue of a station.
LEMMA NothingFollows ==
  ASSUME CountInv, OrderInv, CountInv', KindInv',
         UNCHANGED <<sleeping, late, flight, direct, taken, given, sent>>, raced => raced',
         \A x \in Stas : sleepQ'[x] = sleepQ[x] /\ pend'[x] = pend[x]
  PROVE  OrderInv'
  <1>1. FlightInv'
    BY DEF OrderInv, FlightInv
  <1>2. ASSUME NEW x \in Stas \ late', NEW ac \in ACs
        PROVE  Way(x, ac)' = Way(x, ac)
    BY Zenon DEF Way, Preparing, Carried
  <1>3. \A x \in Stas, ac \in ACs : given'[x][ac] = given[x][ac] /\ sent'[x][ac] = sent[x][ac]
    OBVIOUS
  <1> QED  BY <1>1, <1>2, <1>3, WaysStay, Zenon

-----------------------------------------------------------------------------
\* Waking up: the whole sleep queue, category by category, behind what is pending.
LEMMA WakeUpOrders ==
  ASSUME CountInv, OrderInv, NEW s \in Stas, WakeUp(s), CountInv'
  PROVE  OrderInv'
  <1> DEFINE up   == IF qlen'[s] = 0 THEN {s} ELSE {}
             out  == Classified(s, sleepQ[s])
             gone == IF LastOut(up) THEN up \union {Bmc} ELSE up
  <1>1. /\ sleeping' = sleeping \ up
        /\ pend' = IF LastOut(up) THEN [out EXCEPT ![Bmc]["BE"] = @ \o sleepQ[Bmc]] ELSE out
        /\ sleepQ' = [x \in All |-> IF x = s \/ x \in gone THEN <<>> ELSE sleepQ[x]]
        /\ UNCHANGED <<flight, direct, taken, given, sent, raced, late>>
    BY Zenon DEF WakeUp, path, counts
  <1>2. KindInv /\ KindInv'
    BY WakeUpKinds DEF OrderInv
  <1>3. /\ s \in All /\ Stas \subseteq All \ {Bmc} /\ gone \cap Stas \subseteq {s}
        /\ sleepQ \in [All -> Seq(Frames)] /\ sleepQ[s] \in Seq(To(s))
    <2>1. s \in All /\ Stas \subseteq All \ {Bmc} /\ sleepQ \in [All -> Seq(Frames)]
      BY SleepAssumption DEF All, CountInv, TypeOK
    <2>2. sleepQ[s] \in Seq(To(s))
      BY <1>2, <2>1 DEF KindInv
    <2>3. gone \subseteq {s, Bmc}
      OBVIOUS
    <2> HIDE DEF gone
    <2> QED  BY <2>1, <2>2, <2>3
  <1>4. /\ out \in [All -> [ACs -> Seq(Frames)]]
        /\ \A y \in All, ac \in ACs : out[y][ac] =
             IF y = s THEN pend[y][ac] \o Select(sleepQ[s], OfCategory(ac)) ELSE pend[y][ac]
    BY <1>2, <1>3, ClassifiedKinds
  <1> HIDE DEF up, out, gone
  <1>5. \A x \in Stas, ac \in ACs : pend'[x][ac] = out[x][ac]
    <2>1. \A x \in Stas : pend'[x] = out[x]
      BY <1>1, <1>3, <1>4
    <2> QED  BY <2>1
  <1>6. sleepQ'[s] = <<>> /\ \A x \in Stas : x # s => sleepQ'[x] = sleepQ[x]
    BY <1>1, <1>3
  <1>7. \A ac \in ACs : pend'[s][ac] = pend[s][ac] \o Select(sleepQ[s], OfCategory(ac))
    BY <1>3, <1>4, <1>5
  <1>8. \A x \in Stas, ac \in ACs : x # s => pend'[x][ac] = pend[x][ac]
    BY <1>3, <1>4, <1>5
  <1>9. ASSUME NEW ac \in ACs
        PROVE  pend'[s][ac] \o Select(sleepQ'[s], OfCategory(ac))
                 = pend[s][ac] \o Select(sleepQ[s], OfCategory(ac))
    <2>1. Select(sleepQ'[s], OfCategory(ac)) = <<>>
      BY <1>6, SelectEmpty
    <2>2. pend'[s][ac] \in Seq(Frames)
      BY <1>3 DEF CountInv, TypeOK
    <2>3. pend'[s][ac] \o <<>> = pend'[s][ac]
      BY <2>2, ConcatEmptySeq
    <2> QED  BY <1>7, <2>1, <2>3
  <1>10. FlightInv'
    BY <1>1 DEF OrderInv, FlightInv
  <1> QED  BY <1>1, <1>2, <1>6, <1>8, <1>9, <1>10, StationFollows

\* PS-Poll: the head of the sleep queue, which becomes the end of what is pending.
LEMMA PsPollOrders ==
  ASSUME CountInv, OrderInv, NEW s \in Stas, PsPoll(s)
  PROVE  OrderInv'
  <1> DEFINE q == sleepQ[s]
             h == <<Head(q)>>
             t == Tail(q)
  <1>1. /\ \/ q # <<>> /\ pend' = Classified(s, h) /\ sleepQ' = [sleepQ EXCEPT ![s] = Tail(@)]
           \/ UNCHANGED <<pend, sleepQ>>
        /\ UNCHANGED <<sleeping, flight, direct, taken, given, sent, raced, late>>
    BY Zenon DEF PsPoll, path, counts
  <1>2. CountInv' /\ KindInv /\ KindInv'
    BY PsPollCounts, PollKinds DEF OrderInv
  <1>3. CASE UNCHANGED <<pend, sleepQ>>
    BY <1>1, <1>2, <1>3, NothingFollows
  <1>4. CASE q # <<>> /\ pend' = Classified(s, h) /\ sleepQ' = [sleepQ EXCEPT ![s] = Tail(@)]
    <2>1. /\ s \in All /\ Stas \subseteq All
          /\ sleepQ \in [All -> Seq(Frames)] /\ pend \in [All -> [ACs -> Seq(Frames)]]
          /\ q \in Seq(Frames) /\ q \in Seq(To(s))
      BY <1>2 DEF All, CountInv, TypeOK, KindInv
    <2>2. h \in Seq(Frames) /\ t \in Seq(Frames) /\ q = h \o t
      BY <1>4, <2>1, HeadThenTail
    <2>3. h \in Seq(To(s))
      BY <1>4, <2>1, HeadThenTail
    <2>4. sleepQ'[s] = t /\ \A x \in Stas : x # s => sleepQ'[x] = sleepQ[x]
      BY <1>4, <2>1
    <2> HIDE DEF h, t, q
    <2>5. \A x \in Stas, ac \in ACs : pend'[x][ac] =
            IF x = s THEN pend[x][ac] \o Select(h, OfCategory(ac)) ELSE pend[x][ac]
      BY <1>2, <1>4, <2>1, <2>3, ClassifiedKinds
    <2>6. ASSUME NEW ac \in ACs
          PROVE  pend'[s][ac] \o Select(sleepQ'[s], OfCategory(ac))
                   = pend[s][ac] \o Select(sleepQ[s], OfCategory(ac))
      <3> DEFINE a == pend[s][ac]
                 b == Select(h, OfCategory(ac))
                 c == Select(t, OfCategory(ac))
      <3>1. a \in Seq(Frames) /\ b \in Seq(Frames) /\ c \in Seq(Frames)
        BY <2>1, <2>2, SelectType
      <3>2. Select(q, OfCategory(ac)) = b \o c
        BY <2>2, SelectConcat
      <3>3. pend'[s][ac] = a \o b
        BY <2>5
      <3> HIDE DEF a, b, c
      <3>4. (a \o b) \o c = a \o (b \o c)
        BY <3>1, ConcatThree
      <3> QED  BY <2>4, <3>2, <3>3, <3>4, Zenon DEF q, a, c
    <2>7. FlightInv'
      BY <1>1 DEF OrderInv, FlightInv
    <2>8. \A x \in Stas : x # s => \A ac \in ACs : pend'[x][ac] = pend[x][ac]
      BY <2>5
    <2> QED  BY <1>1, <1>2, <2>4, <2>6, <2>7, <2>8, StationFollows
  <1> QED  BY <1>1, <1>3, <1>4

\* Trigger: the delivery-enabled categories as a whole, of the others nothing.
LEMMA TriggerOrders ==
  ASSUME CountInv, OrderInv, NEW s \in Stas, Trigger(s)
  PROVE  OrderInv'
  <1> DEFINE q    == sleepQ[s]
             out  == Select(q, EnabledOf(s))
             left == Select(q, LegacyOf(s))
  <1>1. /\ sleepQ' = [sleepQ EXCEPT ![s] = Select(@, LegacyOf(s))]
        /\ pend' = Classified(s, out)
        /\ UNCHANGED <<sleeping, flight, direct, taken, given, sent, raced, late>>
    BY Zenon DEF Trigger, station, path, counts
  <1>2. CountInv' /\ KindInv /\ KindInv'
    BY TriggerCounts, PollKinds DEF OrderInv
  <1>3. /\ s \in All /\ s # Bmc /\ Stas \subseteq All
        /\ sleepQ \in [All -> Seq(Frames)] /\ pend \in [All -> [ACs -> Seq(Frames)]]
        /\ q \in Seq(Frames) /\ q \in Seq(To(s))
    BY <1>2, SleepAssumption DEF All, CountInv, TypeOK, KindInv
  <1>4. out \in Seq(Frames) /\ left \in Seq(Frames) /\ out \in Seq(To(s))
    BY <1>3, SelectType
  <1>5. sleepQ'[s] = left /\ \A x \in Stas : x # s => sleepQ'[x] = sleepQ[x]
    BY <1>1, <1>3
  <1>6. \A ac \in ACs : /\ Select(out, OfCategory(ac)) = Select(q, EnabledOf(s) \cap OfCategory(ac))
                        /\ Select(left, OfCategory(ac)) = Select(q, LegacyOf(s) \cap OfCategory(ac))
    BY <1>3, SelectTwice
  <1> HIDE DEF q, out, left
  <1>7. \A x \in Stas, ac \in ACs : pend'[x][ac] =
          IF x = s THEN pend[x][ac] \o Select(out, OfCategory(ac)) ELSE pend[x][ac]
    BY <1>1, <1>2, <1>3, <1>4, ClassifiedKinds
  <1>8. ASSUME NEW ac \in ACs
        PROVE  \/ /\ Select(out, OfCategory(ac)) = Select(q, OfCategory(ac))
                  /\ Select(left, OfCategory(ac)) = <<>>
               \/ /\ Select(out, OfCategory(ac)) = <<>>
                  /\ Select(left, OfCategory(ac)) = Select(q, OfCategory(ac))
    <2> DEFINE E == EnabledOf(s) \cap OfCategory(ac)
               L == LegacyOf(s) \cap OfCategory(ac)
    <2>1. CASE ac \in delivery[s]
      <3>1. (\A f \in Frames : f \in E <=> f \in OfCategory(ac)) /\ Frames \cap L = {}
        BY <1>3, <2>1 DEF EnabledOf, LegacyOf, OfCategory, Enabled
      <3> HIDE DEF E, L
      <3>2. Select(q, E) = Select(q, OfCategory(ac)) /\ Select(q, L) = <<>>
        BY <1>3, <3>1, SelectSame, SelectNone DEF q
      <3> QED  BY <1>6, <3>2, Zenon DEF E, L
    <2>2. CASE ac \notin delivery[s]
      <3>1. (\A f \in Frames : f \in L <=> f \in OfCategory(ac)) /\ Frames \cap E = {}
        BY <1>3, <2>2 DEF EnabledOf, LegacyOf, OfCategory, Enabled
      <3> HIDE DEF E, L
      <3>2. Select(q, L) = Select(q, OfCategory(ac)) /\ Select(q, E) = <<>>
        BY <1>3, <3>1, SelectSame, SelectNone DEF q
      <3> QED  BY <1>6, <3>2, Zenon DEF E, L
    <2> QED  BY <2>1, <2>2
  <1>9. ASSUME NEW ac \in ACs
        PROVE  pend'[s][ac] \o Select(sleepQ'[s], OfCategory(ac))
                 = pend[s][ac] \o Select(sleepQ[s], OfCategory(ac))
    <2> DEFINE all == Select(q, OfCategory(ac))
    <2>1. pend[s][ac] \in Seq(Frames) /\ all \in Seq(Frames)
      BY <1>3, SelectType DEF q
    <2>2. pend'[s][ac] = pend[s][ac] \o Select(out, OfCategory(ac))
      BY <1>7
    <2>3. sleepQ'[s] = left /\ sleepQ[s] = q
      BY <1>5 DEF q
    <2> HIDE DEF all
    <2>4. pend[s][ac] \o <<>> = pend[s][ac] /\ pend[s][ac] \o all \in Seq(Frames)
      BY <2>1, ConcatEmptySeq, ConcatOfType
    <2>5. (pend[s][ac] \o all) \o <<>> = pend[s][ac] \o all
      BY <2>4, ConcatEmptySeq
    <2> QED  BY <1>8, <2>2, <2>3, <2>4, <2>5, Zenon DEF all
  <1>10. FlightInv'
    BY <1>1 DEF OrderInv, FlightInv
  <1>11. \A x \in Stas : x # s => \A ac \in ACs : pend'[x][ac] = pend[x][ac]
    BY <1>7
  <1> QED  BY <1>1, <1>2, <1>5, <1>9, <1>10, <1>11, StationFollows

\* Sleep: what is pending, voice first, into a sleep queue that was empty; a walk for one
\* category finds it as it was.
LEMMA SleepOrders ==
  ASSUME CountInv, DozeInv, OrderInv, NEW s \in Stas, Sleep(s)
  PROVE  OrderInv'
  <1> DEFINE vo == pend[s]["VO"]
             be == pend[s]["BE"]
             bmc == pend[Bmc]["BE"]
  <1>1. /\ s \notin sleeping /\ sleeping' = sleeping \union {s}
        /\ late' = IF \E ac \in ACs : flight[ac].to = s THEN late \union {s} ELSE late
        /\ sleepQ' = [sleepQ EXCEPT ![s] = @ \o (vo \o be), ![Bmc] = @ \o bmc]
        /\ pend' = [pend EXCEPT ![s] = [ac \in ACs |-> <<>>], ![Bmc]["BE"] = <<>>]
        /\ UNCHANGED <<flight, direct, taken, given, sent, raced>>
    BY Zenon DEF Sleep, path, counts
  <1>2. CountInv' /\ KindInv /\ KindInv'
    BY SleepCounts, SleepKinds DEF OrderInv
  <1>3. /\ s \in All /\ Bmc \in All /\ s # Bmc /\ Stas \subseteq All \ {Bmc}
        /\ "BE" \in ACs /\ "VO" \in ACs /\ \A ac \in ACs : ac = "BE" \/ ac = "VO"
        /\ sleepQ \in [All -> Seq(Frames)] /\ pend \in [All -> [ACs -> Seq(Frames)]]
    BY SleepAssumption DEF All, ACs, CountInv, TypeOK
  <1>4. vo \in Seq(Flow(s, "VO")) /\ be \in Seq(Flow(s, "BE"))
    BY <1>2, <1>3 DEF KindInv
  <1> HIDE DEF vo, be, bmc
  <1>5. vo \in Seq(Frames) /\ be \in Seq(Frames) /\ vo \o be \in Seq(Frames)
    BY <1>4, FlowIs, ConcatOfType
  <1>6. sleepQ'[s] = sleepQ[s] \o (vo \o be) /\ \A x \in Stas : x # s => sleepQ'[x] = sleepQ[x]
    BY <1>1, <1>3
  <1>7. pend'[s] = [ac \in ACs |-> <<>>] /\ \A x \in Stas : x # s => pend'[x] = pend[x]
    BY <1>1, <1>3
  <1>8. ASSUME ~raced, NEW ac \in ACs
        PROVE  pend'[s][ac] \o Select(sleepQ'[s], OfCategory(ac))
                 = pend[s][ac] \o Select(sleepQ[s], OfCategory(ac))
    <2>1. sleepQ[s] = <<>>
      BY <1>1, <1>8 DEF DozeInv, AwakeMeansEmpty
    <2>2. sleepQ'[s] = vo \o be
      BY <1>5, <1>6, <2>1, ConcatEmptySeq
    <2>3. Select(vo \o be, OfCategory(ac))
            = Select(vo, OfCategory(ac)) \o Select(be, OfCategory(ac))
      BY <1>5, SelectConcat
    <2>4. /\ Select(vo, OfCategory(ac)) = IF ac = "VO" THEN vo ELSE <<>>
          /\ Select(be, OfCategory(ac)) = IF ac = "BE" THEN be ELSE <<>>
      BY <1>3, <1>4, SelectFromFlow
    <2>5. vo \o <<>> = vo /\ <<>> \o be = be /\ "BE" # "VO"
      BY <1>5, ConcatEmptySeq
    <2>6. Select(vo \o be, OfCategory(ac)) = pend[s][ac]
      <3>1. CASE ac = "VO"
        BY <2>3, <2>4, <2>5, <3>1, Zenon DEF vo
      <3>2. CASE ac = "BE"
        BY <2>3, <2>4, <2>5, <3>2, Zenon DEF be
      <3> QED  BY <1>3, <3>1, <3>2
    <2>7. pend'[s][ac] = <<>>
      BY <1>7
    <2>8. Select(sleepQ[s], OfCategory(ac)) = <<>>
      BY <2>1, SelectEmpty
    <2>9. <<>> \o pend[s][ac] = pend[s][ac] /\ pend[s][ac] \o <<>> = pend[s][ac]
      BY <1>3, ConcatEmptySeq
    <2> QED  BY <2>2, <2>6, <2>7, <2>8, <2>9, Zenon
  <1>9. FlightInv'
    <2>1. ASSUME ~raced', NEW x \in Stas \ late', NEW ac \in ACs, flight'[ac].to = x
          PROVE  x \notin sleeping'
      <3>1. x # s /\ x \notin late
        BY <1>1, <2>1
      <3> QED  BY <1>1, <2>1, <3>1 DEF OrderInv, FlightInv
    <2> QED  BY <2>1 DEF FlightInv
  <1>10. late \subseteq late'
    BY <1>1
  <1>11. \A x \in Stas : x # s => \A ac \in ACs : pend'[x][ac] = pend[x][ac]
    BY <1>7
  <1> QED  BY <1>1, <1>2, <1>6, <1>8, <1>9, <1>10, <1>11, StationFollows

\* The alive check, the command thread and the end of a PS-Poll move nothing of a station.
LEMMA OthersOrder ==
  ASSUME CountInv, OrderInv, Next, RxTail \/ CmdThread \/ \E s \in Stas : AliveCheck(s)
  PROVE  OrderInv'
  <1>1. /\ KindInv'
        /\ UNCHANGED <<sleeping, late, flight, direct, taken, given, sent>>
        /\ \A x \in Stas : sleepQ'[x] = sleepQ[x] /\ pend'[x] = pend[x]
    BY OtherKinds DEF OrderInv
  <1>2. CountInv' /\ (raced => raced')
    BY CountStep, RacedStays
  <1> QED  BY <1>1, <1>2, NothingFollows

-----------------------------------------------------------------------------
(***************************************************************************)
(* The transmit path.                                                      *)
(***************************************************************************)

\* A new last part, wherever it is put.
LEMMA ConcatLast ==
  ASSUME NEW T, NEW p \in Seq(T), NEW a \in Seq(T), NEW f \in Seq(T)
  PROVE  /\ ((p \o (a \o f)) \o <<>>) \o <<>> = (((p \o a) \o <<>>) \o <<>>) \o f
         /\ ((p \o a) \o f) \o <<>> = (((p \o a) \o <<>>) \o <<>>) \o f
  <1>1. p \o (a \o f) = (p \o a) \o f
    BY ConcatThree
  <1>2. p \o a \in Seq(T)
    BY ConcatOfType
  <1> DEFINE pa == p \o a
  <1> HIDE DEF pa
  <1>3. pa \o f \in Seq(T) /\ pa \o <<>> = pa
    BY <1>2, ConcatOfType, ConcatEmptySeq DEF pa
  <1>4. (pa \o f) \o <<>> = pa \o f
    BY <1>3, ConcatEmptySeq
  <1> QED  BY <1>1, <1>3, <1>4, Zenon DEF pa

\* rtw_xmit: the frame is the last on its way, asleep or about to be decided.
LEMMA GiveWay ==
  ASSUME CountInv, OrderInv, NEW s \in Stas, NEW ac \in ACs, Give(s, ac),
         NEW f, f = [to |-> s, ac |-> ac, no |-> given[s][ac] + 1],
         NEW x \in Stas, NEW c \in ACs
  PROVE  Way(x, c)' = IF x = s /\ c = ac THEN Way(x, c) \o <<f>> ELSE Way(x, c)
  <1>1. /\ flight[ac] = NoFrame /\ direct[ac] = NoFrame
        /\ UNCHANGED <<pend, direct, taken>>
        /\ \/ sleepQ' = [sleepQ EXCEPT ![s] = Append(@, f)] /\ flight' = flight
           \/ flight' = [flight EXCEPT ![ac] = f] /\ sleepQ' = sleepQ
    BY Zenon DEF Give, Idle
  <1>2. TypeOK /\ TypeOK' /\ x \in All /\ s \in All /\ s # Bmc
    BY GiveCounts, SleepAssumption DEF CountInv, All
  <1>3. /\ sleepQ \in [All -> Seq(Frames)] /\ flight \in [ACs -> Frames]
        /\ given \in [All -> [ACs -> Nat]]
    BY <1>2 DEF TypeOK
  <1>4. f \in Frames /\ f.to = s /\ f.ac = ac /\ <<f>> \in Seq(Frames) /\ f # NoFrame
    <2>1. given[s][ac] + 1 \in Nat
      BY <1>2, <1>3
    <2>2. f \in Frames /\ f.to = s /\ f.ac = ac
      BY <1>2, <2>1 DEF Frames
    <2> QED  BY <1>2, <2>2 DEF NoFrame
  <1> DEFINE h == Held(x, c)  p == pend[x][c]  a == Asleep(x, c)
             fl == Carried(flight[c], x, c)  d == Carried(direct[c], x, c)
  <1>5. /\ h \in Seq(Frames) /\ p \in Seq(Frames) /\ a \in Seq(Frames)
        /\ sleepQ[x] \in Seq(Frames)
        /\ Way(x, c) = h \o p \o a \o fl \o d
    BY <1>2, WayParts
  <1>6. Way(x, c)' = h \o p \o Asleep(x, c)' \o Carried(flight'[c], x, c) \o d
    BY <1>1, Zenon DEF Way, Held, Preparing, Asleep, Carried
  <1>7. /\ Asleep(x, c)' = a \/ (x = s /\ c = ac /\ Asleep(x, c)' = Append(a, f))
        /\ sleepQ' = sleepQ => Asleep(x, c)' = a
        /\ x = s /\ c = ac /\ sleepQ' # sleepQ => Asleep(x, c)' = Append(a, f)
    <2>1. CASE sleepQ' = sleepQ \/ x # s
      <3>1. sleepQ'[x] = sleepQ[x]
        BY <1>1, <1>2, <1>3, <2>1
      <3> QED  BY <2>1, <3>1, Zenon DEF Asleep
    <2>2. CASE sleepQ' # sleepQ /\ x = s
      <3> DEFINE r == sleepQ[x]
      <3>1. r \in Seq(Frames) /\ sleepQ'[x] = Append(r, f)
        BY <1>1, <1>2, <1>3, <2>2
      <3> HIDE DEF r
      <3>2. Select(Append(r, f), OfCategory(c)) =
              IF f \in OfCategory(c) THEN Append(Select(r, OfCategory(c)), f)
                                     ELSE Select(r, OfCategory(c))
        BY <1>4, <3>1, SelectAppend
      <3>3. f \in OfCategory(c) <=> c = ac
        BY <1>4 DEF OfCategory
      <3> QED  BY <2>2, <3>1, <3>2, <3>3, Zenon DEF r, Asleep
    <2> QED  BY <2>1, <2>2
  <1> HIDE DEF h, p, a
  <1> DEFINE one == <<f>>  hp == h \o p
  <1>8. Append(a, f) = a \o one
    BY <1>4, <1>5, AppendIsConcat
  <1>11. one \in Seq(Frames) /\ hp \in Seq(Frames) /\ a \in Seq(Frames)
    BY <1>4, <1>5, ConcatOfType
  <1>9. CASE x = s /\ c = ac
    <2>1. fl = <<>> /\ d = <<>>
      BY <1>1, <1>9, Zenon DEF Carried
    <2>2. CASE sleepQ' # sleepQ
      <3>1. Asleep(x, c)' = a \o one
        BY <1>7, <1>8, <1>9, <2>2, Zenon
      <3>2. Carried(flight'[c], x, c) = <<>>
        BY <1>1, <1>9, <2>2, Zenon DEF Carried
      <3> HIDE DEF one, hp, fl, d
      <3>3. ((hp \o (a \o one)) \o <<>>) \o <<>> = (((hp \o a) \o <<>>) \o <<>>) \o one
        BY <1>11, ConcatLast
      <3> QED  BY <1>5, <1>6, <1>9, <2>1, <3>1, <3>2, <3>3, Zenon DEF hp, one
    <2>3. CASE flight' = [flight EXCEPT ![ac] = f] /\ sleepQ' = sleepQ
      <3>1. flight'[c] = f
        BY <1>3, <1>9, <2>3
      <3>2. Carried(flight'[c], x, c) = one
        BY <1>4, <1>9, <3>1, Zenon DEF Carried
      <3>3. Asleep(x, c)' = a
        BY <1>7, <2>3
      <3> HIDE DEF one, hp, fl, d
      <3>4. ((hp \o a) \o one) \o <<>> = (((hp \o a) \o <<>>) \o <<>>) \o one
        BY <1>11, ConcatLast
      <3> QED  BY <1>5, <1>6, <1>9, <2>1, <3>2, <3>3, <3>4, Zenon DEF hp, one
    <2>4. (sleepQ' # sleepQ) \/ (flight' = [flight EXCEPT ![ac] = f] /\ sleepQ' = sleepQ)
      <3>1. Append(sleepQ[s], f) # sleepQ[s]
        <4>1. sleepQ[s] \in Seq(Frames)
          BY <1>2, <1>3
        <4>2. Len(Append(sleepQ[s], f)) = Len(sleepQ[s]) + 1 /\ Len(sleepQ[s]) \in Nat
          BY <1>4, <4>1, AppendProperties, LenProperties
        <4> QED  BY <4>2
      <3>2. sleepQ' = [sleepQ EXCEPT ![s] = Append(@, f)] => sleepQ'[s] = Append(sleepQ[s], f)
        BY <1>2, <1>3
      <3> QED  BY <1>1, <3>1, <3>2
    <2> QED  BY <2>2, <2>3, <2>4
  <1>10. CASE ~(x = s /\ c = ac)
    <2>1. Asleep(x, c)' = a
      BY <1>7, <1>10
    <2>2. Carried(flight'[c], x, c) = fl
      <3>1. CASE flight'[c] = flight[c]
        BY <3>1, Zenon
      <3>2. CASE flight'[c] # flight[c]
        <4>1. c = ac /\ flight'[c] = f /\ x # f.to
          BY <1>1, <1>3, <1>4, <1>10, <3>2
        <4>2. Carried(f, x, c) = <<>> /\ fl = <<>>
          BY <1>1, <4>1, Zenon DEF Carried
        <4> QED  BY <4>1, <4>2, Zenon
      <3> QED  BY <3>1, <3>2
    <2> HIDE DEF fl, d
    <2> QED  BY <1>5, <1>6, <1>10, <2>1, <2>2, Zenon
  <1> QED  BY <1>9, <1>10

\* It continues one way and leaves the others.
LEMMA GiveOrders ==
  ASSUME CountInv, DozeInv, OrderInv, NEW s \in Stas, NEW ac \in ACs, Give(s, ac)
  PROVE  OrderInv'
  <1> DEFINE f == [to |-> s, ac |-> ac, no |-> given[s][ac] + 1]
  <1>1. /\ flight[ac] = NoFrame /\ direct[ac] = NoFrame
        /\ given' = [given EXCEPT ![s][ac] = @ + 1]
        /\ UNCHANGED <<sleeping, direct, sent, raced, late>>
        /\ \/ flight' = flight
           \/ ~(s \in sleeping /\ s \in dz) /\ flight' = [flight EXCEPT ![ac] = f]
    BY Zenon DEF Give, Idle, station
  <1>2. KindInv'
    BY GiveKinds DEF OrderInv
  <1>3. /\ s \in All /\ s # Bmc /\ Stas \subseteq All /\ NoFrame.to = Bmc /\ Bmc \notin Stas
        /\ flight \in [ACs -> Frames] /\ given \in [All -> [ACs -> Nat]]
    BY SleepAssumption DEF CountInv, TypeOK, All, NoFrame
  <1>4. f \in Frames /\ f.to = s /\ f.no = given[s][ac] + 1
    <2>1. given[s][ac] + 1 \in Nat
      BY <1>3
    <2> QED  BY <1>3, <2>1 DEF Frames
  <1>5. \A x \in Stas, c \in ACs :
          Way(x, c)' = IF x = s /\ c = ac THEN Way(x, c) \o <<f>> ELSE Way(x, c)
    BY GiveWay
  <1> HIDE DEF f
  <1>6. FlightInv'
    <2>1. ASSUME ~raced', NEW x \in Stas \ late', NEW c \in ACs, flight'[c].to = x
          PROVE  x \notin sleeping'
      <3>1. CASE flight'[c] = flight[c]
        BY <1>1, <2>1, <3>1 DEF OrderInv, FlightInv
      <3>2. CASE flight'[c] # flight[c]
        <4>1. x = s /\ ~(s \in sleeping /\ s \in dz)
          BY <1>1, <1>3, <1>4, <2>1, <3>2
        <4> QED  BY <1>1, <1>3, <2>1, <4>1 DEF DozeInv, DozeMatches
      <3> QED  BY <3>1, <3>2
    <2> QED  BY <2>1 DEF FlightInv
  <1>7. DirectInv'
    <2>1. ASSUME ~raced', NEW x \in Stas \ late', NEW c \in ACs, direct'[c].to = x
          PROVE  Way(x, c)' = <<direct'[c]>>
      <3>1. c # ac
        BY <1>1, <1>3, <2>1
      <3>2. Way(x, c) = <<direct[c]>>
        BY <1>1, <2>1 DEF OrderInv, DirectInv
      <3> QED  BY <1>1, <1>5, <3>1, <3>2, Zenon
    <2> QED  BY <2>1, Zenon DEF DirectInv
  <1>8. \A x \in Stas, c \in ACs :
          given'[x][c] = IF x = s /\ c = ac THEN given[x][c] + 1 ELSE given[x][c]
    BY <1>1, <1>3
  <1>9. ASSUME NEW x \in Stas \ late', NEW c \in ACs,
               Numbered(Way(x, c), sent[x][c], given[x][c])
        PROVE  Numbered(Way(x, c)', sent'[x][c], given'[x][c])
    <2>1. CASE x = s /\ c = ac
      <3>1. Numbered(Way(x, c) \o <<f>>, sent[x][c], given[x][c] + 1)
        BY <1>4, <1>9, <2>1, NumberedAppend, Zenon
      <3> QED  BY <1>1, <1>5, <1>8, <2>1, <3>1, Zenon
    <2>2. CASE ~(x = s /\ c = ac)
      BY <1>1, <1>5, <1>8, <1>9, <2>2, Zenon
    <2> QED  BY <2>1, <2>2
  <1> QED  BY <1>1, <1>2, <1>6, <1>7, <1>9, OrderFollows, Zenon

\* A broadcast is on nobody's way.
LEMMA GiveBmcOrders ==
  ASSUME CountInv, OrderInv, GiveBmc
  PROVE  OrderInv'
  <1> DEFINE f == [to |-> Bmc, ac |-> "BE", no |-> given[Bmc]["BE"] + 1]
  <1>1. /\ flight["BE"] = NoFrame
        /\ given' = [given EXCEPT ![Bmc]["BE"] = @ + 1]
        /\ UNCHANGED <<sleeping, pend, direct, taken, sent, raced, late>>
        /\ \/ sleepQ' = [sleepQ EXCEPT ![Bmc] = Append(@, f)] /\ flight' = flight
           \/ flight' = [flight EXCEPT !["BE"] = f] /\ sleepQ' = sleepQ
    BY Zenon DEF GiveBmc, Idle, station
  <1>2. /\ Bmc \notin Stas /\ Bmc \in All /\ Stas \subseteq All
        /\ f.to = Bmc /\ NoFrame.to = Bmc /\ flight \in [ACs -> Frames]
        /\ sleepQ \in [All -> Seq(Frames)] /\ given \in [All -> [ACs -> Nat]]
    BY SleepAssumption DEF CountInv, TypeOK, All, NoFrame
  <1>3. \A c \in ACs : flight'[c] = flight[c] \/ (flight[c].to = Bmc /\ flight'[c].to = Bmc)
    BY <1>1, <1>2
  <1> HIDE DEF f
  <1>4. \A x \in Stas : sleepQ'[x] = sleepQ[x] /\ given'[x] = given[x]
    BY <1>1, <1>2
  <1>5. KindInv'
    BY GiveBmcKinds DEF OrderInv
  <1>6. FlightInv'
    BY <1>1, <1>2, <1>3 DEF OrderInv, FlightInv
  <1>7. ASSUME NEW x \in Stas \ late', NEW c \in ACs
        PROVE  Way(x, c)' = Way(x, c)
    <2>1. Carried(flight'[c], x, c) = Carried(flight[c], x, c)
      <3>1. x # Bmc
        BY <1>2
      <3> QED  BY <1>3, <3>1, Zenon DEF Carried
    <2>2. TypeOK /\ TypeOK' /\ x \in All
      BY <1>2, GiveBmcCounts DEF CountInv
    <2>3. Held(x, c)' = Held(x, c) /\ Asleep(x, c)' = Asleep(x, c)
      BY <1>1, <1>4, Zenon DEF Held, Preparing, Asleep
    <2> QED  BY <1>1, <2>1, <2>2, <2>3, WaySame, Zenon
  <1>8. \A x \in Stas, c \in ACs : given'[x][c] = given[x][c] /\ sent'[x][c] = sent[x][c]
    BY <1>1, <1>4
  <1> QED  BY <1>1, <1>5, <1>6, <1>7, <1>8, WaysStay, Zenon


\* The frame in hand joins what is pending, or is all there is.
LEMMA ConcatMove ==
  ASSUME NEW T, NEW h \in Seq(T), NEW p \in Seq(T), NEW f \in Seq(T)
  PROVE  /\ h \o (p \o f) \o <<>> \o <<>> \o <<>> = h \o p \o <<>> \o f \o <<>>
         /\ <<>> \o <<>> \o <<>> \o f \o <<>> = f
         /\ <<>> \o <<>> \o <<>> \o <<>> \o f = f
  <1>1. ASSUME NEW u \in Seq(T) PROVE u \o <<>> = u /\ <<>> \o u = u
    BY ConcatEmptySeq
  <1>2. <<>> \in Seq(T) /\ p \o f \in Seq(T) /\ h \o p \in Seq(T) /\ h \o (p \o f) \in Seq(T)
    BY ConcatOfType, EmptySeq
  <1>3. h \o (p \o f) = (h \o p) \o f
    BY ConcatThree
  <1>4. /\ (h \o (p \o f)) \o <<>> = h \o (p \o f) /\ (h \o p) \o <<>> = h \o p
        /\ <<>> \o <<>> = <<>> /\ f \o <<>> = f /\ <<>> \o f = f
    BY <1>1, <1>2, Zenon
  <1> QED  BY <1>3, <1>4, Zenon

\* The first decision of pre_xmitframe: the frame stays the last on its way.
LEMMA HalXmitWay ==
  ASSUME CountInv, DozeInv, OrderInv, NEW ac \in ACs, NEW buffer \in BOOLEAN,
         HalXmit(ac, buffer), ~raced, NEW s \in Stas \ late', NEW c \in ACs
  PROVE  Way(s, c)' = Way(s, c) /\ (direct'[c].to = s => Way(s, c)' = <<direct'[c]>>)
  <1> DEFINE f == flight[ac]
             one == <<f>>
             x == f.to
  <1>1. /\ f # NoFrame /\ flight' = [flight EXCEPT ![ac] = NoFrame]
        /\ UNCHANGED <<sleepQ, taken>>
        /\ \/ /\ pend[x][ac] = <<>> /\ direct' = [direct EXCEPT ![ac] = f] /\ pend' = pend
              /\ late' = IF Preparing(x, ac) THEN late \union ({x} \ {Bmc}) ELSE late
           \/ pend' = Classified(x, one) /\ direct' = direct /\ late' = late
    BY Zenon DEF HalXmit, AcPending
  <1>2. /\ TypeOK /\ s \in All /\ s # Bmc /\ NoFrame.to = Bmc /\ KindInv
        /\ flight \in [ACs -> Frames] /\ direct \in [ACs -> Frames]
    BY SleepAssumption DEF CountInv, TypeOK, All, NoFrame, OrderInv
  <1>3. /\ f \in Frames /\ f \in To(x) /\ one \in Seq(Frames) /\ one \in Seq(To(x)) /\ x \in All
    <2>1. f \in Frames
      BY <1>2
    <2>2. f \in To(x) /\ x \in All
      BY <2>1 DEF To, Frames
    <2> QED  BY <2>1, <2>2
  <1>4. f.ac = ac /\ direct[ac] = NoFrame
    BY <1>1, <1>2 DEF KindInv
  <1>5. s \notin late
    BY <1>1
  <1> DEFINE h == Held(s, c)  p == pend[s][c]  a == Asleep(s, c)
             fl == Carried(flight[c], s, c)  d == Carried(direct[c], s, c)
  <1>6. /\ h \in Seq(Frames) /\ p \in Seq(Frames) /\ Way(s, c) = h \o p \o a \o fl \o d
    BY <1>2, WayParts
  <1>7. Way(s, c)' = h \o pend'[s][c] \o a \o Carried(flight'[c], s, c)
                       \o Carried(direct'[c], s, c)
    BY <1>1, Zenon DEF Way, Held, Preparing, Asleep, Carried
  <1>8. CASE s = x /\ c = ac
    <2>1. a = <<>>
      <3>1. sleepQ[s] = <<>>
        BY <1>5, <1>8 DEF OrderInv, FlightInv, DozeInv, AwakeMeansEmpty
      <3> QED  BY <3>1, SelectEmpty DEF Asleep
    <2>2. /\ Carried(f, s, c) = one /\ Carried(NoFrame, s, c) = <<>>
          /\ fl = one /\ d = <<>>
      BY <1>1, <1>4, <1>8, Zenon DEF Carried
    <2>3. flight'[c] = NoFrame
      BY <1>1, <1>2, <1>8
    <2> HIDE DEF one
    <2>4. CASE pend' = Classified(x, one) /\ direct' = direct
      <3>1. pend'[s][c] = p \o one
        <4>1. pend'[s][c] = p \o Select(one, OfCategory(c))
          BY <1>2, <1>3, <1>8, <2>4, ClassifiedKinds
        <4>2. Select(one, OfCategory(c)) = one
          <5>1. f \in OfCategory(c)
            BY <1>3, <1>4, <1>8 DEF OfCategory
          <5> QED  BY <5>1, SelectOne, Zenon DEF one
        <4> QED  BY <4>1, <4>2, Zenon
      <3>2. Carried(flight'[c], s, c) = <<>> /\ Carried(direct'[c], s, c) = <<>>
        BY <2>2, <2>3, <2>4, Zenon
      <3> HIDE DEF h, p, a, fl, d
      <3>3. h \o (p \o one) \o <<>> \o <<>> \o <<>> = h \o p \o <<>> \o one \o <<>>
        <4>1. h \in Seq(Frames) /\ p \in Seq(Frames) /\ one \in Seq(Frames)
          BY <1>3, <1>6
        <4> QED  BY <4>1, ConcatMove
      <3>4. Way(s, c)' = Way(s, c)
        BY <1>6, <1>7, <2>1, <2>2, <3>1, <3>2, <3>3, Zenon
      <3>5. direct'[c].to # s
        BY <1>2, <1>4, <1>8, <2>4
      <3> QED  BY <3>4, <3>5
    <2>5. CASE /\ pend[x][ac] = <<>> /\ direct' = [direct EXCEPT ![ac] = f] /\ pend' = pend
               /\ late' = IF Preparing(x, ac) THEN late \union ({x} \ {Bmc}) ELSE late
      <3>1. h = <<>>
        <4>1. ~Preparing(x, ac)
          BY <1>2, <1>8, <2>5
        <4> QED  BY <1>8, <4>1, Zenon DEF Held
      <3>2. direct'[c] = f
        BY <1>2, <1>8, <2>5
      <3>3. Carried(flight'[c], s, c) = <<>> /\ Carried(direct'[c], s, c) = one
        BY <2>2, <2>3, <3>2, Zenon
      <3>4. p = <<>> /\ pend'[s][c] = <<>>
        BY <1>8, <2>5
      <3> HIDE DEF h, p, a, fl, d
      <3>5. /\ <<>> \o <<>> \o <<>> \o one \o <<>> = one
            /\ <<>> \o <<>> \o <<>> \o <<>> \o one = one
        BY <1>3, ConcatMove
      <3>6. Way(s, c) = one /\ Way(s, c)' = one
        BY <1>6, <1>7, <2>1, <2>2, <3>1, <3>3, <3>4, <3>5, Zenon
      <3> QED  BY <3>2, <3>6, Zenon DEF one
    <2> QED  BY <1>1, <2>4, <2>5
  <1>9. CASE ~(s = x /\ c = ac)
    <2>1. Carried(flight'[c], s, c) = fl
      <3>1. CASE c # ac
        <4>1. flight'[c] = flight[c]
          BY <1>1, <1>2, <3>1
        <4> QED  BY <4>1, Zenon
      <3>2. CASE c = ac
        <4>1. flight'[c] = NoFrame /\ flight[c].to # s
          BY <1>1, <1>2, <1>9, <3>2
        <4> QED  BY <4>1, Zenon DEF Carried
      <3> QED  BY <3>1, <3>2
    <2>2. direct'[c] = direct[c] \/ (c = ac /\ direct[c].to # s /\ direct'[c].to # s)
      BY <1>1, <1>2, <1>4, <1>9
    <2>3. Carried(direct'[c], s, c) = d
      <3>1. CASE direct'[c] = direct[c]
        BY <3>1, Zenon
      <3>2. CASE direct[c].to # s /\ direct'[c].to # s
        BY <3>2, Zenon DEF Carried
      <3> QED  BY <2>2, <3>1, <3>2
    <2>4. pend'[s][c] = p
      <3>1. CASE pend' = pend
        BY <3>1
      <3>2. CASE pend' = Classified(x, one)
        <4>1. pend'[s][c] = IF s = x THEN p \o Select(one, OfCategory(c)) ELSE p
          <5> HIDE DEF one, x
          <5>1. \A y \in All, k \in ACs : Classified(x, one)[y][k] =
                  IF y = x THEN pend[y][k] \o Select(one, OfCategory(k)) ELSE pend[y][k]
            <6>1. CountInv /\ KindInv /\ x \in All /\ one \in Seq(To(x))
              BY <1>2, <1>3
            <6> QED  BY <6>1, ClassifiedKinds
          <5> QED  BY <1>2, <3>2, <5>1, Zenon DEF p
        <4>2. CASE s = x
          <5>1. f \notin OfCategory(c)
            BY <1>4, <1>9, <4>2 DEF OfCategory
          <5>2. Select(one, OfCategory(c)) = <<>>
            BY <5>1, SelectOne, Zenon
          <5>3. p \o <<>> = p
            BY <1>6, ConcatEmptySeq
          <5> QED  BY <4>1, <4>2, <5>2, <5>3, Zenon
        <4> QED  BY <4>1, <4>2
      <3> QED  BY <1>1, <3>1, <3>2
    <2> HIDE DEF h, p, a, fl, d
    <2>5. Way(s, c)' = Way(s, c)
      BY <1>6, <1>7, <2>1, <2>3, <2>4, Zenon
    <2>6. direct'[c].to = s => direct'[c] = direct[c]
      BY <2>2
    <2>7. direct[c].to = s => Way(s, c) = <<direct[c]>>
      BY <1>5 DEF OrderInv, DirectInv
    <2> QED  BY <2>5, <2>6, <2>7, Zenon
  <1> QED  BY <1>8, <1>9

\* It moves no frame on anybody's way.
LEMMA HalXmitOrders ==
  ASSUME CountInv, DozeInv, OrderInv, NEW ac \in ACs, NEW buffer \in BOOLEAN,
         HalXmit(ac, buffer)
  PROVE  OrderInv'
  <1>1. /\ flight' = [flight EXCEPT ![ac] = NoFrame]
        /\ UNCHANGED <<sleeping, given, sent, raced>>
        /\ late' = late \/ late' = late \union ({flight[ac].to} \ {Bmc})
    BY Zenon DEF HalXmit, counts, station
  <1>2. KindInv' /\ late \subseteq late'
    <2>1. Transmits
      BY Zenon DEF Transmits, HandsOn
    <2> QED  BY <1>1, <2>1, TransmitKinds DEF OrderInv
  <1>3. FlightInv'
    <2>1. \A c \in ACs : flight'[c] = flight[c] \/ flight'[c].to = Bmc
      BY <1>1 DEF CountInv, TypeOK, NoFrame
    <2> QED  BY <1>1, <1>2, <2>1, SleepAssumption DEF OrderInv, FlightInv
  <1>4. ASSUME NEW s \in Stas \ late', NEW c \in ACs, ~raced'
        PROVE  Way(s, c)' = Way(s, c) /\ (direct'[c].to = s => Way(s, c)' = <<direct'[c]>>)
    BY <1>1, <1>4, HalXmitWay, Zenon
  <1>5. DirectInv'
    BY <1>4, Zenon DEF DirectInv
  <1>6. ASSUME NEW s \in Stas \ late', NEW c \in ACs, ~raced',
               Numbered(Way(s, c), sent[s][c], given[s][c])
        PROVE  Numbered(Way(s, c)', sent'[s][c], given'[s][c])
    BY <1>1, <1>4, <1>6, Zenon
  <1> QED  BY <1>1, <1>2, <1>3, <1>5, <1>6, OrderFollows, Zenon

\* A frame that is sent straight away is the only one its station waits for.
LEMMA DirectIsNext ==
  ASSUME CountInv, OrderInv, ~raced, NEW ac \in ACs, NEW s \in Stas \ late,
         direct[ac].to = s
  PROVE  /\ sent[s][ac] \in Nat
         /\ direct[ac].no = sent[s][ac] + 1 /\ given[s][ac] = direct[ac].no
  <1> DEFINE one == <<direct[ac]>>
  <1>1. Way(s, ac) = one
    BY DEF OrderInv, DirectInv
  <1>2. Numbered(Way(s, ac), sent[s][ac], given[s][ac])
    BY DEF OrderInv, WayInv
  <1>3. Numbered(one, sent[s][ac], given[s][ac])
    BY <1>1, <1>2, Zenon
  <1>4. Len(one) = 1 /\ one[1] = direct[ac]
    OBVIOUS
  <1> HIDE DEF one
  <1> QED  BY <1>3, <1>4 DEF Numbered

\* Nothing comes before the only one.
LEMMA NothingBefore ==
  ASSUME NEW T, NEW h \in Seq(T), NEW p \in Seq(T), NEW a \in Seq(T), NEW f \in Seq(T),
         NEW one \in Seq(T), h \o p \o a \o f \o one = one
  PROVE  h \o p \o a \o f \o <<>> = <<>>
  <1> DEFINE w == h \o p \o a \o f
  <1>1. w \in Seq(T)
    BY ConcatOfType
  <1> HIDE DEF w
  <1>2. w \o one = one
    BY Zenon DEF w
  <1>3. Len(w) + Len(one) = Len(one) /\ Len(w) \in Nat /\ Len(one) \in Nat
    BY <1>1, <1>2, ConcatProperties, LenProperties
  <1>4. w = <<>>
    BY <1>1, <1>3, EmptySeq
  <1>5. w \o <<>> = w
    BY <1>1, ConcatEmptySeq
  <1> QED  BY <1>4, <1>5, Zenon DEF w

\* xmitframe_direct: the way of this frame is empty behind it.
LEMMA SendDirectOrders ==
  ASSUME CountInv, OrderInv, NEW ac \in ACs, SendDirect(ac)
  PROVE  OrderInv'
  <1> DEFINE one == direct[ac]
             x == one.to
  <1>1. /\ one # NoFrame /\ sent' = [sent EXCEPT ![x][ac] = one.no]
        /\ direct' = [direct EXCEPT ![ac] = NoFrame]
        /\ UNCHANGED <<sleeping, pend, sleepQ, flight, taken, given, raced, late>>
    BY Zenon DEF SendDirect, queues, station
  <1>2. /\ TypeOK /\ Stas \subseteq All \ {Bmc} /\ NoFrame.to = Bmc
        /\ direct \in [ACs -> Frames] /\ sent \in [All -> [ACs -> Nat]]
        /\ one \in Frames /\ x \in All
    BY SleepAssumption DEF CountInv, TypeOK, All, NoFrame, Frames
  <1>3. KindInv'
    <2>1. Transmits
      BY Zenon DEF Transmits, HandsOn
    <2> QED  BY <2>1, TransmitKinds DEF OrderInv
  <1>4. FlightInv'
    BY <1>1 DEF OrderInv, FlightInv
  <1>5. ASSUME NEW s \in Stas \ late', NEW c \in ACs, ~raced', s = x, c = ac
        PROVE  /\ Numbered(Way(s, c)', sent'[s][c], given'[s][c])
               /\ direct'[c].to # s
    <2>1. ~raced /\ s \in Stas \ late /\ direct[c].to = s /\ s \in All
      BY <1>1, <1>2, <1>5
    <2>2. /\ sent[s][c] \in Nat /\ direct[c].no = sent[s][c] + 1
          /\ given[s][c] = direct[c].no
      BY <2>1, DirectIsNext
    <2> DEFINE h == Held(s, c)  p == pend[s][c]  a == Asleep(s, c)
               fl == Carried(flight[c], s, c)  d == <<direct[c]>>
    <2>3. /\ h \in Seq(Frames) /\ p \in Seq(Frames) /\ a \in Seq(Frames) /\ fl \in Seq(Frames)
          /\ d \in Seq(Frames)
          /\ Way(s, c) = h \o p \o a \o fl \o Carried(direct[c], s, c)
      <3>1. d \in Seq(Frames)
        BY <1>2
      <3>2. TypeOK /\ s \in All
        BY <1>2, <2>1
      <3> QED  BY <3>1, <3>2, WayParts, Zenon
    <2>4. Carried(direct[c], s, c) = d
      BY <1>1, <1>5, <2>1, Zenon DEF Carried
    <2>5. Way(s, c) = d
      BY <2>1, Zenon DEF OrderInv, DirectInv
    <2>6. direct'[c] = NoFrame
      BY <1>1, <1>2, <1>5
    <2>7. Carried(direct'[c], s, c) = <<>>
      BY <2>6, Zenon DEF Carried
    <2>8. Way(s, c)' = h \o p \o a \o fl \o <<>>
      <3>1. Way(s, c)' = h \o p \o a \o fl \o Carried(direct'[c], s, c)
        BY <1>1, Zenon DEF Way, Held, Preparing, Asleep, Carried
      <3> QED  BY <2>7, <3>1, Zenon
    <2> HIDE DEF h, p, a, fl, d
    <2>9. h \o p \o a \o fl \o d = d
      BY <2>3, <2>4, <2>5, Zenon
    <2>10. Way(s, c)' = <<>>
      BY <2>3, <2>8, <2>9, NothingBefore
    <2>11. sent'[s][c] = direct[c].no /\ given'[s][c] = direct[c].no
      BY <1>1, <1>2, <1>5, <2>1, <2>2
    <2>12. direct[c].no \in Nat
      BY <2>2
    <2>13. Numbered(<<>>, direct[c].no, direct[c].no)
      BY <2>12, EmptySeq DEF Numbered
    <2> QED  BY <1>2, <2>1, <2>6, <2>10, <2>11, <2>13
  <1>6. ASSUME NEW s \in Stas \ late', NEW c \in ACs, ~raced', ~(s = x /\ c = ac)
        PROVE  /\ Way(s, c)' = Way(s, c)
               /\ direct'[c].to = s => direct'[c] = direct[c]
               /\ sent'[s][c] = sent[s][c]
    <2>1. direct'[c] = direct[c] \/ (direct[c].to # s /\ direct'[c].to # s)
      BY <1>1, <1>2, <1>6
    <2>2. Carried(direct'[c], s, c) = Carried(direct[c], s, c)
      <3>1. CASE direct'[c] = direct[c]
        BY <3>1, Zenon
      <3>2. CASE direct[c].to # s /\ direct'[c].to # s
        BY <3>2, Zenon DEF Carried
      <3> QED  BY <2>1, <3>1, <3>2
    <2>3. Way(s, c)' = Way(s, c)
      <3>1. Way(s, c)' = Held(s, c) \o pend[s][c] \o Asleep(s, c) \o Carried(flight[c], s, c)
                           \o Carried(direct'[c], s, c)
        BY <1>1, Zenon DEF Way, Held, Preparing, Asleep, Carried
      <3>2. Way(s, c) = Held(s, c) \o pend[s][c] \o Asleep(s, c) \o Carried(flight[c], s, c)
                          \o Carried(direct[c], s, c)
        BY Zenon DEF Way, Held, Asleep
      <3> QED  BY <2>2, <3>1, <3>2, Zenon
    <2>4. sent'[s][c] = sent[s][c]
      BY <1>1, <1>2, <1>6
    <2> QED  BY <2>1, <2>3, <2>4
  <1>7. ASSUME NEW s \in Stas \ late', NEW c \in ACs, ~raced', direct'[c].to = s
        PROVE  Way(s, c)' = <<direct'[c]>>
    <2>1. ~(s = x /\ c = ac)
      BY <1>5, <1>7
    <2>2. Way(s, c)' = Way(s, c) /\ direct'[c] = direct[c] /\ direct[c].to = s
      BY <1>6, <1>7, <2>1
    <2>3. Way(s, c) = <<direct[c]>>
      BY <1>1, <1>7, <2>2 DEF OrderInv, DirectInv
    <2> QED  BY <2>2, <2>3, Zenon
  <1>8. DirectInv'
    BY <1>7, Zenon DEF DirectInv
  <1>9. ASSUME NEW s \in Stas \ late', NEW c \in ACs, ~raced',
               Numbered(Way(s, c), sent[s][c], given[s][c])
        PROVE  Numbered(Way(s, c)', sent'[s][c], given'[s][c])
    <2>1. CASE s = x /\ c = ac
      BY <1>5, <1>9, <2>1, Zenon
    <2>2. CASE ~(s = x /\ c = ac)
      BY <1>1, <1>6, <1>9, <2>2, Zenon
    <2> QED  BY <2>1, <2>2
  <1> QED  BY <1>1, <1>3, <1>4, <1>8, <1>9, OrderFollows, Zenon

\* The tasklet takes frames from the head of what is pending: they stay the first ones.
LEMMA HoldsMore ==
  ASSUME CountInv, OrderInv, Transmits, NEW x \in All, NEW ac \in ACs,
         UNCHANGED <<sleepQ, sleeping, flight, direct, given, sent, raced, late>>,
         \A s \in Stas, c \in ACs :
           IF s = x /\ c = ac
             THEN Held(s, c)' \o pend'[s][c] = Held(s, c) \o pend[s][c]
             ELSE Held(s, c)' = Held(s, c) /\ pend'[s][c] = pend[s][c]
  PROVE  OrderInv'
  <1>1. KindInv' /\ CountInv'
    BY TransmitKinds, TransmitCounts DEF OrderInv
  <1>2. FlightInv'
    BY DEF OrderInv, FlightInv
  <1>3. ASSUME NEW s \in Stas \ late', NEW c \in ACs
        PROVE  Way(s, c)' = Way(s, c)
    <2>1. TypeOK /\ TypeOK' /\ s \in All
      BY <1>1 DEF CountInv, All
    <2>2. Asleep(s, c)' = Asleep(s, c)
      BY Zenon DEF Asleep
    <2>3. Held(s, c)' \o pend'[s][c] = Held(s, c) \o pend[s][c]
      <3>1. CASE s = x /\ c = ac
        BY <3>1, Zenon
      <3>2. CASE ~(s = x /\ c = ac)
        <4>1. Held(s, c)' = Held(s, c) /\ pend'[s][c] = pend[s][c]
          BY <3>2, Zenon
        <4> QED  BY <4>1, Zenon
      <3> QED  BY <3>1, <3>2
    <2>4. /\ Carried(flight'[c], s, c) = Carried(flight[c], s, c)
          /\ Carried(direct'[c], s, c) = Carried(direct[c], s, c)
      BY Zenon
    <2> QED  BY <2>1, <2>2, <2>3, <2>4, WaySame, Zenon
  <1>4. \A s \in Stas, c \in ACs : given'[s][c] = given[s][c] /\ sent'[s][c] = sent[s][c]
    OBVIOUS
  <1> QED  BY <1>1, <1>2, <1>3, <1>4, WaysStay, Zenon

\* rtw_dequeue_xframe
LEMMA TakeFrameOrders ==
  ASSUME CountInv, OrderInv, NEW x \in All, NEW ac \in ACs, TakeFrame(x, ac)
  PROVE  OrderInv'
  <1> DEFINE p == pend[x][ac]
  <1>1. /\ taken = <<>> /\ p # <<>> /\ taken' = <<Head(p)>>
        /\ pend' = [pend EXCEPT ![x][ac] = Tail(@)]
        /\ UNCHANGED <<sleepQ, sleeping, flight, direct, given, sent, raced, late>>
    BY Zenon DEF TakeFrame, counts, station
  <1>2. /\ p \in Seq(Flow(x, ac)) /\ pend \in [All -> [ACs -> Seq(Frames)]] /\ Stas \subseteq All
    BY DEF OrderInv, KindInv, CountInv, TypeOK, All
  <1>3. /\ Head(p) \in Flow(x, ac) /\ p = <<Head(p)>> \o Tail(p)
        /\ p \in Seq(Frames)
    BY <1>1, <1>2, HeadThenTail, FlowIs
  <1>4. taken' # <<>> /\ taken'[1] = Head(p)
    BY <1>1
  <1>5. taken'[1].to = x /\ taken'[1].ac = ac
    BY <1>3, <1>4 DEF Flow
  <1>6. \A s \in Stas, c \in ACs :
          /\ Held(s, c) = <<>>
          /\ Held(s, c)' = IF s = x /\ c = ac THEN taken' ELSE <<>>
    BY <1>1, <1>4, <1>5, Zenon DEF Held, Preparing
  <1>7. \A s \in Stas, c \in ACs : pend'[s][c] =
          IF s = x /\ c = ac THEN Tail(p) ELSE pend[s][c]
    BY <1>1, <1>2
  <1>8. <<>> \o p = p
    BY <1>3, ConcatEmptySeq
  <1>9. ASSUME NEW s \in Stas, NEW c \in ACs
        PROVE  IF s = x /\ c = ac
                 THEN Held(s, c)' \o pend'[s][c] = Held(s, c) \o pend[s][c]
                 ELSE Held(s, c)' = Held(s, c) /\ pend'[s][c] = pend[s][c]
    <2>1. CASE s = x /\ c = ac
      <3>1. Held(s, c)' = <<Head(p)>> /\ pend'[s][c] = Tail(p)
        BY <1>1, <1>6, <1>7, <2>1, Zenon
      <3>2. Held(s, c) = <<>> /\ pend[s][c] = p
        BY <1>6, <2>1, Zenon
      <3> HIDE DEF p
      <3>3. Held(s, c)' \o pend'[s][c] = Held(s, c) \o pend[s][c]
        BY <1>3, <1>8, <3>1, <3>2, Zenon
      <3> QED  BY <2>1, <3>3
    <2>2. CASE ~(s = x /\ c = ac)
      BY <1>6, <1>7, <2>2, Zenon
    <2> QED  BY <2>1, <2>2
  <1>10. Transmits
    BY Zenon DEF Transmits
  <1> QED  BY <1>1, <1>9, <1>10, HoldsMore, Zenon

\* A queue cut in two is the two parts one behind the other.
LEMMA CutConcat ==
  ASSUME NEW T, NEW q \in Seq(T), NEW n \in 1 .. Len(q)
  PROVE  SubSeq(q, 1, n) \o SubSeq(q, n + 1, Len(q)) = q
  <1>1. Len(q) \in Nat /\ 1 \in 1 .. Len(q) + 1 /\ n \in 1 - 1 .. Len(q)
        /\ Len(q) \in n .. Len(q)
    BY LenProperties
  <1>2. SubSeq(q, 1, n) \o SubSeq(q, n + 1, Len(q)) = SubSeq(q, 1, Len(q))
    BY <1>1, ConcatAdjacentSubSeq
  <1> QED  BY <1>2, SubSeqFull

\* The tasklet has the lock again and takes more of the same flow.
LEMMA TakeMoreOrders ==
  ASSUME CountInv, OrderInv, NEW n \in 1 .. MaxFrames + MaxBroadcasts, TakeMore(n)
  PROVE  OrderInv'
  <1> DEFINE x == taken[1].to  ac == taken[1].ac
             p == pend[x][ac]
             more == SubSeq(p, 1, n)
             rest == SubSeq(p, n + 1, Len(p))
  <1>1. /\ Len(taken) = 1 /\ n <= Len(p) /\ taken' = taken \o more
        /\ pend' = [pend EXCEPT ![x][ac] = SubSeq(@, n + 1, Len(@))]
        /\ UNCHANGED <<sleepQ, sleeping, flight, direct, given, sent, raced, late>>
    BY Zenon DEF TakeMore, counts, station
  <1>2. /\ taken \in Seq(Frames) /\ pend \in [All -> [ACs -> Seq(Frames)]]
        /\ Stas \subseteq All
    BY DEF CountInv, TypeOK, All
  <1>3. x \in All /\ ac \in ACs
    <2>1. 1 \in 1 .. Len(taken)
      BY <1>1
    <2>2. taken[1] \in Frames
      BY <1>2, <2>1, ElementOfSeq
    <2> QED  BY <2>2 DEF Frames
  <1>4. /\ p \in Seq(Frames) /\ n \in 1 .. Len(p)
        /\ more \in Seq(Frames) /\ rest \in Seq(Frames) /\ more \o rest = p
    <2>1. p \in Seq(Frames)
      BY <1>2, <1>3
    <2>2. n \in 1 .. Len(p)
      BY <1>1, <2>1, LenProperties, SleepAssumption
    <2> HIDE DEF p
    <2> QED  BY <2>1, <2>2, CutType, CutConcat
  <1>5. taken # <<>> /\ taken' # <<>> /\ taken'[1] = taken[1]
    <2> HIDE DEF more
    <2>1. /\ Len(taken \o more) = Len(taken) + Len(more) /\ Len(more) \in Nat
          /\ \A i \in 1 .. Len(taken) + Len(more) : (taken \o more)[i] =
               IF i <= Len(taken) THEN taken[i] ELSE more[i - Len(taken)]
      BY <1>2, <1>4, ConcatProperties, LenProperties
    <2>2. (taken \o more)[1] = taken[1] /\ Len(taken \o more) > 0
      BY <1>1, <2>1
    <2>3. taken # <<>>
      <3>1. Len(taken) = 1
        BY <1>1
      <3>2. Len(<<>>) = 0
        OBVIOUS
      <3> QED  BY <3>1, <3>2, SMT
    <2>4. taken \o more # <<>>
      BY <2>2
    <2> QED  BY <1>1, <2>2, <2>3, <2>4, Zenon
  <1>6. \A s \in Stas, c \in ACs :
          /\ Held(s, c) = IF s = x /\ c = ac THEN taken ELSE <<>>
          /\ Held(s, c)' = IF s = x /\ c = ac THEN taken' ELSE <<>>
    BY <1>5, Zenon DEF Held, Preparing
  <1> HIDE DEF x, ac
  <1>7. \A s \in Stas, c \in ACs : pend'[s][c] =
          IF s = x /\ c = ac THEN rest ELSE pend[s][c]
    BY <1>1, <1>2, <1>3
  <1> HIDE DEF more, rest
  <1>8. (taken \o more) \o rest = taken \o p
    <2>1. (taken \o more) \o rest = taken \o (more \o rest)
      <3>1. taken \in Seq(Frames) /\ more \in Seq(Frames) /\ rest \in Seq(Frames)
        BY <1>2, <1>4
      <3> QED  BY <3>1, ConcatThree
    <2> QED  BY <1>4, <2>1, Zenon
  <1>9. ASSUME NEW s \in Stas, NEW c \in ACs
        PROVE  IF s = x /\ c = ac
                 THEN Held(s, c)' \o pend'[s][c] = Held(s, c) \o pend[s][c]
                 ELSE Held(s, c)' = Held(s, c) /\ pend'[s][c] = pend[s][c]
    <2>1. CASE s = x /\ c = ac
      <3>1. Held(s, c)' = taken \o more /\ pend'[s][c] = rest
        BY <1>1, <1>6, <1>7, <2>1, Zenon
      <3>2. Held(s, c) = taken /\ pend[s][c] = p
        BY <1>6, <2>1, Zenon
      <3> HIDE DEF p
      <3>3. Held(s, c)' \o pend'[s][c] = Held(s, c) \o pend[s][c]
        BY <1>8, <3>1, <3>2, Zenon
      <3> QED  BY <2>1, <3>3
    <2>2. CASE ~(s = x /\ c = ac)
      BY <1>6, <1>7, <2>2, Zenon
    <2> QED  BY <2>1, <2>2
  <1>10. Transmits
    BY Zenon DEF Transmits
  <1> QED  BY <1>1, <1>3, <1>9, <1>10, HoldsMore, Zenon

\* What the tasklet writes are the first frames on their way, and none of this flow is
\* being sent past them.
LEMMA TransferIsNext ==
  ASSUME CountInv, OrderInv, ~raced, NEW ac \in ACs, NEW s \in Stas \ late,
         Preparing(s, ac)
  PROVE  /\ Last(taken).no \in sent[s][ac] + 1 .. given[s][ac]
         /\ direct[ac].to # s
         /\ Numbered(pend[s][ac] \o Asleep(s, ac) \o Carried(flight[ac], s, ac)
                       \o Carried(direct[ac], s, ac), Last(taken).no, given[s][ac])
  <1> DEFINE p == pend[s][ac]  a == Asleep(s, ac)
             fl == Carried(flight[ac], s, ac)  d == Carried(direct[ac], s, ac)
             rest == p \o a \o fl \o d
             m == sent[s][ac]
             n == given[s][ac]
  <1>1. TypeOK /\ s \in All /\ taken \in Seq(Frames) /\ taken # <<>> /\ Held(s, ac) = taken
    BY DEF CountInv, TypeOK, All, Preparing, Held
  <1>2. /\ p \in Seq(Frames) /\ a \in Seq(Frames) /\ fl \in Seq(Frames) /\ d \in Seq(Frames)
        /\ Way(s, ac) = taken \o p \o a \o fl \o d
    BY <1>1, WayParts, Zenon
  <1>3. Numbered(Way(s, ac), m, n)
    BY Zenon DEF OrderInv, WayInv
  <1>4. direct[ac].to = s => d = <<direct[ac]>> /\ Way(s, ac) = <<direct[ac]>>
    <2>1. ASSUME direct[ac].to = s PROVE d = <<direct[ac]>>
      <3>1. direct[ac] # NoFrame
        BY <2>1, SleepAssumption DEF NoFrame
      <3> QED  BY <2>1, <3>1, Zenon DEF Carried
    <2>2. direct[ac].to = s => Way(s, ac) = <<direct[ac]>>
      BY Zenon DEF OrderInv, DirectInv
    <2> QED  BY <2>1, <2>2, Zenon
  <1> HIDE DEF p, a, fl, d, m, n
  <1> DEFINE paf == p \o a \o fl
  <1>5. paf \in Seq(Frames)
    <2>1. p \o a \in Seq(Frames)
      BY <1>2, ConcatOfType
    <2> QED  BY <1>2, <2>1, ConcatOfType
  <1> HIDE DEF paf
  <1>6. /\ rest = paf \o d /\ rest \in Seq(Frames) /\ Len(rest) = Len(paf) + Len(d)
        /\ Len(paf) \in Nat /\ Len(d) \in Nat
    <2>1. /\ paf \o d \in Seq(Frames) /\ Len(paf \o d) = Len(paf) + Len(d)
          /\ Len(paf) \in Nat /\ Len(d) \in Nat
      BY <1>2, <1>5, ConcatProperties, LenProperties
    <2> QED  BY <2>1, Zenon DEF paf
  <1>7. Way(s, ac) = taken \o rest
    <2>1. taken \in Seq(Frames) /\ p \in Seq(Frames) /\ a \in Seq(Frames)
          /\ fl \in Seq(Frames) /\ d \in Seq(Frames)
      BY <1>1, <1>2
    <2>2. p \o a \in Seq(Frames) /\ (taken \o p) \o a = taken \o (p \o a)
      <3>1. (taken \o p) \o a = taken \o (p \o a)
        <4>1. taken \in Seq(Frames) /\ p \in Seq(Frames) /\ a \in Seq(Frames)
          BY <2>1
        <4> QED  BY <4>1, ConcatThree
      <3> QED  BY <2>1, <3>1, ConcatOfType, Zenon
    <2>3. ASSUME NEW u \in Seq(Frames)
          PROVE  (taken \o u) \o fl = taken \o (u \o fl) /\ u \o fl \in Seq(Frames)
      BY <2>1, ConcatThree, ConcatOfType
    <2>4. ASSUME NEW u \in Seq(Frames) PROVE (taken \o u) \o d = taken \o (u \o d)
      <3>1. taken \in Seq(Frames) /\ d \in Seq(Frames)
        BY <2>1
      <3> QED  BY <3>1, ConcatThree
    <2>5. ((p \o a) \o fl) \in Seq(Frames) /\ (taken \o (p \o a)) \o fl = taken \o ((p \o a) \o fl)
      BY <2>2, <2>3, Zenon
    <2>6. (taken \o ((p \o a) \o fl)) \o d = taken \o (((p \o a) \o fl) \o d)
      BY <2>4, <2>5, Zenon
    <2> QED  BY <1>2, <2>2, <2>5, <2>6, Zenon
  <1> HIDE DEF rest
  <1>8. Numbered(taken \o rest, m, n)
    BY <1>3, <1>7, Zenon
  <1>9. /\ Last(taken).no = m + Len(taken) /\ m + Len(taken) \in m + 1 .. n
        /\ Numbered(rest, m + Len(taken), n)
    BY <1>1, <1>6, <1>8, NumberedRest
  <1>10. direct[ac].to # s
    <2> SUFFICES ASSUME direct[ac].to = s PROVE FALSE
      OBVIOUS
    <2> DEFINE one == <<direct[ac]>>
    <2>1. d = one /\ taken \o rest = one /\ Len(one) = 1
      BY <1>4, <1>7
    <2> HIDE DEF one
    <2>2. Len(taken \o rest) = Len(taken) + Len(rest) /\ Len(taken) \in Nat /\ Len(taken) # 0
      BY <1>1, <1>6, ConcatProperties, LenProperties, EmptySeq
    <2> QED  BY <1>6, <2>1, <2>2
  <1>11. Numbered(rest, Last(taken).no, n) /\ Last(taken).no \in m + 1 .. n
    BY <1>9, Zenon
  <1> QED  BY <1>10, <1>11, Zenon DEF rest, p, a, fl, d, m, n

\* rtw_write_port
LEMMA WriteTransferOrders ==
  ASSUME CountInv, OrderInv, WriteTransfer
  PROVE  OrderInv'
  <1> DEFINE x == taken[1].to
             ac == taken[1].ac
             no == Last(taken).no
  <1>1. /\ taken # <<>> /\ taken' = <<>>
        /\ sent' = [sent EXCEPT ![x][ac] = no]
        /\ UNCHANGED <<sleepQ, pend, sleeping, flight, direct, given, raced, late>>
    BY Zenon DEF WriteTransfer, queues, station
  <1>2. /\ TypeOK /\ taken \in Seq(Frames) /\ Stas \subseteq All
        /\ sent \in [All -> [ACs -> Nat]]
    BY DEF CountInv, TypeOK, All
  <1>3. x \in All /\ ac \in ACs
    <2>1. 1 \in 1 .. Len(taken)
      BY <1>1, <1>2, LenProperties, EmptySeq
    <2>2. taken[1] \in Frames
      BY <1>2, <2>1, ElementOfSeq
    <2> QED  BY <2>2 DEF Frames
  <1>4. KindInv'
    <2>1. Transmits
      BY Zenon DEF Transmits
    <2> QED  BY <2>1, TransmitKinds DEF OrderInv
  <1>5. FlightInv'
    BY <1>1 DEF OrderInv, FlightInv
  <1>6. \A s \in Stas, c \in ACs : Preparing(s, c) <=> s = x /\ c = ac
    BY <1>1, Zenon DEF Preparing
  <1>7. \A s \in Stas, c \in ACs : Held(s, c)' = <<>>
    BY <1>1, Zenon DEF Held, Preparing
  <1> HIDE DEF x, ac, no
  <1>8. ASSUME NEW s \in Stas \ late', NEW c \in ACs, ~raced', s = x, c = ac
        PROVE  /\ Numbered(Way(s, c)', sent'[s][c], given'[s][c])
               /\ direct'[c].to # s
    <2>1. ~raced /\ s \in Stas \ late /\ s \in All /\ Preparing(s, c)
      BY <1>1, <1>2, <1>6, <1>8
    <2> DEFINE p == pend[s][c]  a == Asleep(s, c)
               fl == Carried(flight[c], s, c)  d == Carried(direct[c], s, c)
    <2>2. direct[c].to # s /\ Numbered(p \o a \o fl \o d, Last(taken).no, given[s][c])
      BY <2>1, TransferIsNext, Zenon
    <2>3. /\ p \in Seq(Frames) /\ a \in Seq(Frames) /\ fl \in Seq(Frames) /\ d \in Seq(Frames)
      BY <1>2, <2>1, WayParts, Zenon
    <2>4. Way(s, c)' = <<>> \o p \o a \o fl \o d
      <3>1. Way(s, c)' = Held(s, c)' \o p \o a \o fl \o d
        BY <1>1, Zenon DEF Way, Held, Asleep, Carried
      <3> QED  BY <1>7, <3>1, Zenon
    <2> HIDE DEF p, a, fl, d
    <2>5. <<>> \o p = p
      BY <2>3, ConcatEmptySeq
    <2>6. Way(s, c)' = p \o a \o fl \o d
      BY <2>4, <2>5, Zenon
    <2>7. sent'[s][c] = no
      BY <1>1, <1>2, <1>3, <1>8, <2>1
    <2> QED  BY <1>1, <2>2, <2>6, <2>7, Zenon DEF no
  <1>9. ASSUME NEW s \in Stas \ late', NEW c \in ACs, ~raced', ~(s = x /\ c = ac)
        PROVE  Way(s, c)' = Way(s, c) /\ sent'[s][c] = sent[s][c]
    <2>1. Held(s, c) = <<>> /\ Held(s, c)' = <<>>
      BY <1>6, <1>7, <1>9, Zenon DEF Held
    <2>2. Way(s, c)' = Held(s, c)' \o pend[s][c] \o Asleep(s, c) \o Carried(flight[c], s, c)
                         \o Carried(direct[c], s, c)
      BY <1>1, Zenon DEF Way, Held, Asleep, Carried
    <2>3. Way(s, c) = Held(s, c) \o pend[s][c] \o Asleep(s, c) \o Carried(flight[c], s, c)
                        \o Carried(direct[c], s, c)
      BY Zenon DEF Way, Held, Asleep
    <2>4. Way(s, c)' = Way(s, c)
      BY <2>1, <2>2, <2>3, Zenon
    <2>5. sent'[s][c] = sent[s][c]
      BY <1>1, <1>2, <1>9
    <2> QED  BY <2>4, <2>5
  <1>10. ASSUME NEW s \in Stas \ late', NEW c \in ACs, ~raced', direct'[c].to = s
         PROVE  Way(s, c)' = <<direct'[c]>>
    <2>1. Way(s, c)' = Way(s, c)
      BY <1>8, <1>9, <1>10
    <2>2. Way(s, c) = <<direct[c]>>
      BY <1>1, <1>10 DEF OrderInv, DirectInv
    <2> QED  BY <1>1, <2>1, <2>2, Zenon
  <1>11. DirectInv'
    BY <1>10, Zenon DEF DirectInv
  <1>12. ASSUME NEW s \in Stas \ late', NEW c \in ACs, ~raced',
                Numbered(Way(s, c), sent[s][c], given[s][c])
         PROVE  Numbered(Way(s, c)', sent'[s][c], given'[s][c])
    <2>1. CASE s = x /\ c = ac
      BY <1>8, <1>12, <2>1, Zenon
    <2>2. CASE ~(s = x /\ c = ac)
      BY <1>1, <1>9, <1>12, <2>2, Zenon
    <2> QED  BY <2>1, <2>2
  <1> QED  BY <1>1, <1>4, <1>5, <1>11, <1>12, OrderFollows, Zenon

-----------------------------------------------------------------------------
\* Every step.
LEMMA OrderStep ==
  ASSUME CountInv, DozeInv, OrderInv, [Next]_vars
  PROVE  OrderInv'
  <1>1. CASE UNCHANGED vars
    <2>1. UNCHANGED <<sleeping, sleepQ, pend, flight, direct, taken, given, sent, raced, late>>
      BY <1>1 DEF vars
    <2>2. KindInv'
      BY <2>1 DEF OrderInv, KindInv
    <2>3. FlightInv'
      BY <2>1 DEF OrderInv, FlightInv
    <2>4. \A s \in Stas, ac \in ACs : Way(s, ac)' = Way(s, ac)
      BY <2>1, Zenon DEF Way, Preparing, Carried
    <2>5. \A s \in Stas, ac \in ACs : given'[s][ac] = given[s][ac] /\ sent'[s][ac] = sent[s][ac]
      BY <2>1
    <2> QED  BY <2>1, <2>2, <2>3, <2>4, <2>5, WaysStay, Zenon
  <1>2. CASE Next
    <2>1. CASE \E s \in Stas, ac \in ACs : Give(s, ac)
      BY <2>1, GiveOrders
    <2>2. CASE GiveBmc
      BY <2>2, GiveBmcOrders
    <2>3. CASE Transmits
      <3>1. CASE HandsOn
        BY <3>1, SendDirectOrders, HalXmitOrders DEF HandsOn
      <3>2. CASE \E x \in All, ac \in ACs : TakeFrame(x, ac)
        BY <3>2, TakeFrameOrders
      <3>3. CASE \E n \in 1 .. MaxFrames + MaxBroadcasts : TakeMore(n)
        BY <3>3, TakeMoreOrders
      <3>4. CASE WriteTransfer
        BY <3>4, WriteTransferOrders
      <3> QED  BY <2>3, <3>1, <3>2, <3>3, <3>4 DEF Transmits
    <2>4. CASE RxTail \/ CmdThread \/ \E s \in Stas : AliveCheck(s)
      BY <1>2, <2>4, OthersOrder
    <2>5. ASSUME NEW s \in Stas, Sleep(s) \/ PsPoll(s) \/ Trigger(s) PROVE OrderInv'
      BY <2>5, SleepOrders, PsPollOrders, TriggerOrders
    <2>6. ASSUME NEW s \in Stas, Wake(s) \/ ClearSleepQ(s) PROVE OrderInv'
      <3>1. WakeUp(s)
        BY <2>6, Zenon DEF Wake, ClearSleepQ
      <3> QED  BY <1>2, <3>1, CountStep, WakeUpOrders
    <2> QED  BY <1>2, <2>1, <2>2, <2>3, <2>4, <2>5, <2>6, StepsAre
  <1> QED  BY <1>1, <1>2

\* For up to fifteen stations, whatever categories they ask to be delivery-enabled and
\* however many frames they get: nothing is lost, doubled or overtaken between rtw_xmit and
\* the transfer, but for the three exceptions InOrder names: an unlocked change of the
\* bitmaps has met another, the station has gone to sleep between the two decisions of
\* rtw_xmit, or a frame was sent straight away while the tasklet prepared an earlier one.
THEOREM FramesKeepTheirOrder == Spec => []InOrder
  <1> DEFINE Inv == CountInv /\ DozeInv /\ OrderInv
  <1>1. Init => Inv  BY CountInit, DozeInit, OrderInit
  <1>2. Inv /\ [Next]_vars => Inv'  BY CountStep, DozeStep, OrderStep
  <1>3. Inv => InOrder
    BY NumberedLists DEF OrderInv, WayInv, InOrder
  <1> HIDE DEF Inv
  <1> QED  BY <1>1, <1>2, <1>3, PTL DEF Spec

\* On one processor only the exception for the bitmaps is left.
InOrderOnOne ==
  OneCpu /\ ~raced => \A s \in Stas, ac \in ACs :
    [i \in DOMAIN Way(s, ac) |-> Way(s, ac)[i].no]
      = [i \in 1 .. (given[s][ac] - sent[s][ac]) |-> sent[s][ac] + i]

\* There no frame is in rtw_xmit while the tasklet prepares a transfer, and no station
\* goes to sleep meanwhile.
OneAtWork ==
  OneCpu => /\ late = {}
            /\ taken # <<>> => \A ac \in ACs : flight[ac] = NoFrame

\* The competitors for the only processor wait for one another.
LEMMA OneStep ==
  ASSUME CountInv, OneAtWork, [Next]_vars
  PROVE  OneAtWork'
  <1>1. NoFrame.to \notin Stas /\ flight \in [ACs -> Frames]
    BY SleepAssumption DEF NoFrame, CountInv, TypeOK
  <1>2. ASSUME UNCHANGED late, UNCHANGED <<flight, taken>> PROVE OneAtWork'
    BY <1>2 DEF OneAtWork
  <1>3. ASSUME NEW ac \in ACs, NEW buffer \in BOOLEAN, HalXmit(ac, buffer) PROVE OneAtWork'
    <2>1. /\ flight[ac] # NoFrame /\ flight' = [flight EXCEPT ![ac] = NoFrame]
          /\ UNCHANGED taken
          /\ late' = late \/ Preparing(flight[ac].to, ac)
      BY <1>3, Zenon DEF HalXmit
    <2>2. OneCpu => taken = <<>>
      BY <2>1 DEF OneAtWork
    <2>3. OneCpu => ~Preparing(flight[ac].to, ac)
      BY <2>2 DEF Preparing
    <2> QED  BY <2>1, <2>2, <2>3 DEF OneAtWork
  <1>4. CASE GiveBmc \/ \E s \in Stas, ac \in ACs : Give(s, ac)
    <2>1. (OneCpu => taken = <<>>) /\ UNCHANGED <<taken, late>>
      BY <1>4, Zenon DEF Give, GiveBmc, Free
    <2> QED  BY <2>1 DEF OneAtWork
  <1>5. CASE \E x \in All, ac \in ACs : TakeFrame(x, ac)
    <2>1. (OneCpu => \A ac \in ACs : flight[ac] = NoFrame) /\ UNCHANGED <<flight, late>>
      BY <1>5, Zenon DEF TakeFrame, Free
    <2> QED  BY <2>1 DEF OneAtWork
  <1>6. CASE \E n \in 1 .. MaxFrames + MaxBroadcasts : TakeMore(n)
    <2>1. Len(taken) = 1 /\ UNCHANGED <<flight, late>>
      BY <1>6, Zenon DEF TakeMore
    <2>2. taken # <<>>
      <3>1. Len(<<>>) = 0
        OBVIOUS
      <3> QED  BY <2>1, <3>1, SMT
    <2> QED  BY <2>1, <2>2 DEF OneAtWork
  <1>7. CASE WriteTransfer
    <2>1. taken' = <<>> /\ UNCHANGED late
      BY <1>7, Zenon DEF WriteTransfer
    <2> QED  BY <2>1 DEF OneAtWork
  <1>8. ASSUME NEW s \in Stas, Sleep(s) PROVE OneAtWork'
    <2>1. /\ OneCpu => \A ac \in ACs : flight[ac] = NoFrame
          /\ late' = IF \E ac \in ACs : flight[ac].to = s THEN late \union {s} ELSE late
          /\ UNCHANGED <<flight, taken>>
      BY <1>8, Zenon DEF Sleep, Receives, Free, path
    <2> QED  BY <1>1, <2>1 DEF OneAtWork
  <1>9. CASE \E ac \in ACs : SendDirect(ac)
    BY <1>2, <1>9, Zenon DEF SendDirect
  <1>10. CASE RxTail
    BY <1>2, <1>10, Zenon DEF RxTail, PollTest, PollLen, PollRead, PollWrite, RxTell, path
  <1>11. CASE CmdThread
    BY <1>2, <1>11, Zenon DEF CmdThread, TakeBeacon, TakeBmc, TestBmc, FlushBmc, TakeHiq,
       ReadTim, WriteTim, ReadDz, WriteDz, WriteAsk, Announce, traffic, path
  <1>12. CASE \E s \in Stas : \/ Wake(s) \/ PsPoll(s) \/ Trigger(s)
                              \/ AliveCheck(s) \/ ClearSleepQ(s)
    BY <1>2, <1>12, Zenon DEF Wake, ClearSleepQ, WakeUp, PsPoll, Trigger, AliveCheck, path
  <1>13. CASE UNCHANGED vars
    BY <1>2, <1>13 DEF vars
  <1> QED
    BY <1>3, <1>4, <1>5, <1>6, <1>7, <1>8, <1>9, <1>10, <1>11, <1>12, <1>13, StepsAre
    DEF Transmits, HandsOn

\* On one processor, and for up to fifteen stations, the order of a station's frames
\* depends on the bitmaps alone: nothing is lost, doubled or overtaken until an unlocked
\* change of them has met another.
THEOREM OrderOnOneProcessor == Spec => []InOrderOnOne
  <1>1. Init => CountInv /\ OneAtWork
    BY CountInit DEF Init, OneAtWork
  <1>2. (CountInv /\ OneAtWork) /\ [Next]_vars => (CountInv /\ OneAtWork)'
    BY CountStep, OneStep
  <1>3. (CountInv /\ OneAtWork) /\ InOrder => InOrderOnOne
    BY DEF OneAtWork, InOrder, InOrderOnOne
  <1> QED  BY <1>1, <1>2, <1>3, FramesKeepTheirOrder, PTL DEF Spec

-----------------------------------------------------------------------------
(***************************************************************************)
(* The order at the controller: what is sent comes first on its way.       *)
(***************************************************************************)

\* What is sent to a station reaches no further than what was given and is none of what
\* was sent before, or the station is excused.
LEMMA FlowSends ==
  ASSUME CountInv, NEW x \in All, NEW ac \in ACs, NEW n \in Nat,
         sent' = [sent EXCEPT ![x][ac] = n], UNCHANGED <<given, raced, late>>,
         ~raced /\ x \in Stas \ late => n \in sent[x][ac] + 1 .. given[x][ac]
  PROVE  [Flows!Next]_Flows!flows
  <1> DEFINE to == [y \in Stas |-> sent[y]]
             of == [y \in Stas |-> given[y]]
  <1>1. sent \in [All -> [ACs -> Nat]] /\ Stas \subseteq All
    BY DEF CountInv, TypeOK, All
  <1>2. UNCHANGED of /\ UNCHANGED (IF raced THEN Stas ELSE late)
    OBVIOUS
  <1>3. CASE x \notin Stas
    <2>1. \A y \in Stas : sent'[y] = sent[y]
      BY <1>1, <1>3
    <2>2. UNCHANGED to
      BY <2>1
    <2> QED  BY <1>2, <2>2 DEF Flows!flows
  <1>4. CASE x \in Stas
    <2>1. to' = [to EXCEPT ![x][ac] = n]
      BY <1>1, <1>4
    <2>2. CASE raced \/ x \in late
      <3>1. x \in IF raced THEN Stas ELSE late
        BY <1>4, <2>2
      <3>2. to'[x][ac] = n
        BY <1>1, <1>4
      <3>3. Flows!HandOnAny(x, ac)
        BY <1>2, <2>1, <3>1, <3>2 DEF Flows!HandOnAny
      <3> QED  BY <1>4, <3>3 DEF Flows!Next
    <2>3. CASE ~raced /\ x \notin late
      <3>1. n \in to[x][ac] + 1 .. of[x][ac]
        BY <1>4, <2>3
      <3>2. Flows!HandOn(x, ac)
        BY <1>2, <2>1, <3>1 DEF Flows!HandOn
      <3> QED  BY <1>4, <3>2 DEF Flows!Next
    <2> QED  BY <2>2, <2>3
  <1> QED  BY <1>3, <1>4

\* xmitframe_direct sends the next frame of the station.
LEMMA SendDirectFlows ==
  ASSUME CountInv, OrderInv, NEW ac \in ACs, SendDirect(ac)
  PROVE  [Flows!Next]_Flows!flows
  <1> DEFINE x == direct[ac].to
             n == direct[ac].no
  <1>1. sent' = [sent EXCEPT ![x][ac] = n] /\ UNCHANGED <<given, raced, late>>
    BY Zenon DEF SendDirect
  <1>2. x \in All /\ n \in Nat
    <2>1. direct[ac] \in Frames
      BY DEF CountInv, TypeOK
    <2> QED  BY <2>1 DEF Frames
  <1>3. ~raced /\ x \in Stas \ late => n \in sent[x][ac] + 1 .. given[x][ac]
    <2> SUFFICES ASSUME ~raced, x \in Stas \ late PROVE n \in sent[x][ac] + 1 .. given[x][ac]
      OBVIOUS
    <2>1. sent[x][ac] \in Nat /\ n = sent[x][ac] + 1 /\ given[x][ac] = n
      BY DirectIsNext
    <2> QED  BY <2>1
  <1> HIDE DEF x, n
  <1> QED  BY <1>1, <1>2, <1>3, FlowSends

\* rtw_write_port sends the next frames of the station.
LEMMA WriteTransferFlows ==
  ASSUME CountInv, OrderInv, WriteTransfer
  PROVE  [Flows!Next]_Flows!flows
  <1> DEFINE x  == taken[1].to
             ac == taken[1].ac
             n  == Last(taken).no
  <1>1. /\ taken # <<>> /\ sent' = [sent EXCEPT ![x][ac] = n]
        /\ UNCHANGED <<given, raced, late>>
    BY Zenon DEF WriteTransfer
  <1>2. x \in All /\ ac \in ACs /\ n \in Nat
    <2>1. taken \in Seq(Frames)
      BY DEF CountInv, TypeOK
    <2>2. 1 \in 1 .. Len(taken) /\ Len(taken) \in 1 .. Len(taken)
      BY <1>1, <2>1, LenProperties, EmptySeq
    <2>3. taken[1] \in Frames /\ taken[Len(taken)] \in Frames
      BY <2>1, <2>2, ElementOfSeq
    <2> QED  BY <2>3 DEF Frames, Last
  <1>3. ~raced /\ x \in Stas \ late => n \in sent[x][ac] + 1 .. given[x][ac]
    <2> SUFFICES ASSUME ~raced, x \in Stas \ late PROVE n \in sent[x][ac] + 1 .. given[x][ac]
      OBVIOUS
    <2>1. Preparing(x, ac)
      BY <1>1 DEF Preparing
    <2> HIDE DEF x, ac
    <2> QED  BY <1>2, <2>1, TransferIsNext
  <1> HIDE DEF x, ac, n
  <1> QED  BY <1>1, <1>2, <1>3, FlowSends

\* rtw_xmit hands a frame in; one for all is nobody's.
LEMMA GiveFlows ==
  ASSUME CountInv, GiveBmc \/ \E s \in Stas, ac \in ACs : Give(s, ac)
  PROVE  [Flows!Next]_Flows!flows
  <1>1. UNCHANGED <<sent, raced, late>>
    BY Zenon DEF Give, GiveBmc
  <1>2. given \in [All -> [ACs -> Nat]] /\ Stas \subseteq All \ {Bmc}
    BY SleepAssumption DEF CountInv, TypeOK, All
  <1>3. ASSUME NEW s \in Stas, NEW ac \in ACs, Give(s, ac)
        PROVE  Flows!Next
    <2> DEFINE of == [x \in Stas |-> given[x]]
    <2>1. given' = [given EXCEPT ![s][ac] = @ + 1]
      BY <1>3, Zenon DEF Give
    <2>2. [x \in Stas |-> given'[x]] = [of EXCEPT ![s][ac] = @ + 1]
      BY <1>2, <2>1
    <2>3. Flows!HandIn(s, ac)
      BY <1>1, <2>2 DEF Flows!HandIn
    <2> QED  BY <2>3 DEF Flows!Next
  <1>4. CASE GiveBmc
    <2>1. given' = [given EXCEPT ![Bmc]["BE"] = @ + 1]
      BY <1>4, Zenon DEF GiveBmc
    <2>2. [x \in Stas |-> given'[x]] = [x \in Stas |-> given[x]]
      BY <1>2, <2>1
    <2> QED  BY <1>1, <2>2 DEF Flows!flows
  <1> QED  BY <1>3, <1>4

\* The other steps hand nothing in and nothing on, and take no excuse back.
LEMMA ExcuseFlows ==
  ASSUME CountInv, UNCHANGED <<given, sent>>, raced => raced', late \subseteq late'
  PROVE  [Flows!Next]_Flows!flows
  <1>1. (IF raced THEN Stas ELSE late) \subseteq (IF raced' THEN Stas ELSE late')
    <2>1. late \subseteq Stas
      BY DEF CountInv, TypeOK
    <2> QED  BY <2>1
  <1>2. UNCHANGED <<[x \in Stas |-> given[x]], [x \in Stas |-> sent[x]]>>
    OBVIOUS
  <1> QED  BY <1>1, <1>2 DEF Flows!Next, Flows!Excuse

\* These steps.
LEMMA OthersExcuse ==
  ASSUME \/ \E ac \in ACs, buffer \in BOOLEAN : HalXmit(ac, buffer)
         \/ \E x \in All, ac \in ACs : TakeFrame(x, ac)
         \/ \E n \in 1 .. MaxFrames + MaxBroadcasts : TakeMore(n)
         \/ RxTail \/ CmdThread
         \/ \E s \in Stas : \/ Sleep(s) \/ Wake(s) \/ PsPoll(s) \/ Trigger(s)
                            \/ AliveCheck(s) \/ ClearSleepQ(s)
  PROVE  UNCHANGED <<given, sent>> /\ late \subseteq late'
  <1>1. ASSUME NEW ac \in ACs, NEW buffer \in BOOLEAN, HalXmit(ac, buffer)
        PROVE  UNCHANGED <<given, sent>> /\ late \subseteq late'
    <2>1. UNCHANGED <<given, sent>>
      BY <1>1, Zenon DEF HalXmit, counts
    <2>2. late' = late \/ \E more : late' = late \union more
      BY <1>1, Zenon DEF HalXmit
    <2> QED  BY <2>1, <2>2
  <1>2. ASSUME NEW s \in Stas, Sleep(s) PROVE UNCHANGED <<given, sent>> /\ late \subseteq late'
    <2>1. UNCHANGED <<given, sent>> /\ (late' = late \/ late' = late \union {s})
      BY <1>2, Zenon DEF Sleep, counts
    <2> QED  BY <2>1
  <1>3. CASE \/ \E x \in All, ac \in ACs : TakeFrame(x, ac)
             \/ \E n \in 1 .. MaxFrames + MaxBroadcasts : TakeMore(n)
    <2>1. UNCHANGED <<given, sent, late>>
      BY <1>3, Zenon DEF TakeFrame, TakeMore, counts
    <2> QED  BY <2>1
  <1>4. CASE RxTail
    <2>1. UNCHANGED <<given, sent, late>>
      BY <1>4, Zenon DEF RxTail, PollTest, PollLen, PollRead, PollWrite, RxTell, counts
    <2> QED  BY <2>1
  <1>5. CASE CmdThread
    <2>1. UNCHANGED <<given, sent, late>>
      BY <1>5, Zenon DEF CmdThread, TakeBeacon, TakeBmc, TestBmc, FlushBmc, TakeHiq, ReadTim,
         WriteTim, ReadDz, WriteDz, WriteAsk, Announce, traffic, counts
    <2> QED  BY <2>1
  <1>6. CASE \E s \in Stas : \/ Wake(s) \/ PsPoll(s) \/ Trigger(s)
                             \/ AliveCheck(s) \/ ClearSleepQ(s)
    <2>1. UNCHANGED <<given, sent, late>>
      BY <1>6, Zenon DEF Wake, ClearSleepQ, WakeUp, PsPoll, Trigger, AliveCheck, counts
    <2> QED  BY <2>1
  <1> QED  BY <1>1, <1>2, <1>3, <1>4, <1>5, <1>6

\* Every step of the driver is a step of what it promises.
LEMMA FlowStep ==
  ASSUME CountInv, DozeInv, OrderInv, [Next]_vars
  PROVE  [Flows!Next]_Flows!flows
  <1>1. CASE UNCHANGED vars
    BY <1>1 DEF vars, Flows!flows
  <1>2. CASE GiveBmc \/ \E s \in Stas, ac \in ACs : Give(s, ac)
    BY <1>2, GiveFlows
  <1>3. CASE \E ac \in ACs : SendDirect(ac)
    BY <1>3, SendDirectFlows
  <1>4. CASE WriteTransfer
    BY <1>4, WriteTransferFlows
  <1>5. ASSUME UNCHANGED <<given, sent>>, late \subseteq late', Next
        PROVE  [Flows!Next]_Flows!flows
    BY <1>5, RacedStays, ExcuseFlows
  <1>6. CASE /\ Next
             /\ \/ \E ac \in ACs, buffer \in BOOLEAN : HalXmit(ac, buffer)
                \/ \E x \in All, ac \in ACs : TakeFrame(x, ac)
                \/ \E n \in 1 .. MaxFrames + MaxBroadcasts : TakeMore(n)
                \/ RxTail \/ CmdThread
                \/ \E s \in Stas : \/ Sleep(s) \/ Wake(s) \/ PsPoll(s) \/ Trigger(s)
                                   \/ AliveCheck(s) \/ ClearSleepQ(s)
    <2>1. UNCHANGED <<given, sent>> /\ late \subseteq late'
      BY <1>6, OthersExcuse, Zenon
    <2> QED  BY <1>5, <1>6, <2>1
  <1> QED  BY <1>1, <1>2, <1>3, <1>4, <1>6, StepsAre, Zenon DEF Transmits, HandsOn

\* For up to fifteen stations, whatever they do and whatever frames they get, the transmit
\* path with its queues, its transfers and its command thread implements what StationFlows
\* promises: what reaches the controller of a category comes in the order in which the
\* driver got it, one or several frames at a time, none twice and none before it is there,
\* until the station is excused: an unlocked change of the bitmaps has met another, or, on
\* a second processor, one of its frames is in rtw_xmit while it goes to sleep or is sent
\* straight away while the tasklet prepares an earlier one.
THEOREM FlowsAreKept == Spec => ImplementsFlows
  <1> DEFINE Inv == CountInv /\ DozeInv /\ OrderInv
  <1>1. Init => Inv  BY CountInit, DozeInit, OrderInit
  <1>2. Inv /\ [Next]_vars => Inv'  BY CountStep, DozeStep, OrderStep
  <1>3. Init => Flows!Init
    <2> SUFFICES ASSUME Init PROVE Flows!Init
      OBVIOUS
    <2>1. /\ given = [x \in All |-> [ac \in ACs |-> 0]] /\ sent = given
          /\ raced = FALSE /\ late = {} /\ Stas \subseteq All
      BY DEF Init, All
    <2> QED  BY <2>1 DEF Flows!Init
  <1>4. Inv /\ [Next]_vars => [Flows!Next]_Flows!flows  BY FlowStep
  <1> HIDE DEF Inv
  <1> QED  BY <1>1, <1>2, <1>3, <1>4, PTL DEF Spec, ImplementsFlows, Flows!Spec
=============================================================================
