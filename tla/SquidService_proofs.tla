------------------------ MODULE SquidService_proofs ------------------------
(***************************************************************************)
(* Theorems about SquidService, for every value of its constants.          *)
(***************************************************************************)
EXTENDS SquidService, TLAPS

\* One step keeps the types.
LEMMA TypeStep == TypeOK /\ [Next]_vars => TypeOK'
<1> SUFFICES ASSUME TypeOK, [Next]_vars PROVE TypeOK'
  OBVIOUS
<1> USE ServiceAssumption DEF TypeOK, Points, calls, table, Goto
<1>1. ASSUME NEW c \in Callers, NEW k \in Commands, Call(c, k) PROVE TypeOK'
  BY <1>1 DEF Call
<1>2. ASSUME NEW c \in Callers, Parse(c) PROVE TypeOK'
  BY <1>2 DEF Parse, Finish
<1>3. ASSUME NEW c \in Callers, Hup(c) PROVE TypeOK'
  BY <1>3 DEF Hup, Finish
<1>4. ASSUME NEW c \in Callers, ReadPid(c) PROVE TypeOK'
  BY <1>4 DEF ReadPid, Noticed
<1>5. ASSUME NEW c \in Callers, Terminate(c) PROVE TypeOK'
  BY <1>5 DEF Terminate, Noticed
<1>6. ASSUME NEW c \in Callers, Test(c) PROVE TypeOK'
  BY <1>6 DEF Test, StopReturns, Finish
<1>7. ASSUME NEW c \in Callers, Poll(c) PROVE TypeOK'
  BY <1>7 DEF Poll, StopReturns, Finish
<1>8. ASSUME NEW c \in Callers, StartCheck(c) PROVE TypeOK'
  <2>1. CASE Finish(c, "start", "failed") /\ UNCHANGED early
    BY <1>8, <2>1 DEF StartCheck, Finish
  <2>2. CASE Goto(c, "start", "launch") /\ Noticed("start") /\ UNCHANGED <<cmd, seen, cnt, res>>
    BY <1>8, <2>2 DEF StartCheck, Noticed
  <2> QED BY <1>8, <2>1, <2>2 DEF StartCheck
<1>9. ASSUME NEW c \in Callers, Launch(c) PROVE TypeOK'
  BY <1>9 DEF Launch, Finish
<1>10. ASSUME NEW p \in Pids, Boot(p) PROVE TypeOK'
  BY <1>10 DEF Boot
<1>11. ASSUME NEW p \in Pids, Refuse(p) PROVE TypeOK'
  BY <1>11 DEF Refuse
<1>12. ASSUME NEW p \in Pids, Exit(p) PROVE TypeOK'
  BY <1>12 DEF Exit
<1>13. ASSUME NEW p \in Pids, Crash(p) PROVE TypeOK'
  BY <1>13 DEF Crash
<1>14. ASSUME NEW p \in Pids, Reuse(p) PROVE TypeOK'
  BY <1>14 DEF Reuse
<1>15. ASSUME NEW p \in Pids, OtherEnds(p) PROVE TypeOK'
  BY <1>15 DEF OtherEnds
<1>16. ASSUME EditConf PROVE TypeOK'
  BY <1>16 DEF EditConf
<1>17. ASSUME Tick PROVE TypeOK'
  BY <1>17 DEF Tick
<1>18. CASE UNCHANGED vars
  BY <1>18 DEF vars
<1> QED
  BY <1>1, <1>2, <1>3, <1>4, <1>5, <1>6, <1>7, <1>8, <1>9, <1>10, <1>11, <1>12,
     <1>13, <1>14, <1>15, <1>16, <1>17, <1>18 DEF Next, Step

(***************************************************************************)
(* The variables keep their types, for every set of callers and processes  *)
(* and every limit of the waiting loop.                                    *)
(***************************************************************************)
THEOREM TypeInvariant == Spec => []TypeOK
<1>1. Init => TypeOK
  BY ServiceAssumption DEF Init, TypeOK, Points
<1> QED BY <1>1, TypeStep, PTL DEF Spec

----------------------------------------------------------------------------
\* As long as no start has looked too early, one start at a time is past its
\* look, and while it is, there is no squid.
OneComing ==
  "start" \notin early =>
    \A c \in Callers : pc[c] = "launch" =>
      /\ \A d \in Callers : pc[d] = "launch" => c = d
      /\ \A p \in Pids : ~IsSquid(p)

DaemonInv == PidFileNamesSquid /\ OneComing

\* A start that finds nobody coming and no squid in the pid file is alone; it
\* hands that on to its squid, and the squid to its pid file.
LEMMA DaemonInvStep == TypeOK /\ DaemonInv /\ [Next]_vars => DaemonInv'
<1> SUFFICES ASSUME TypeOK, DaemonInv, [Next]_vars PROVE DaemonInv'
  OBVIOUS
<1> USE ServiceAssumption DEF TypeOK, DaemonInv, PidFileNamesSquid, OneComing, IsSquid, Serves,
        Alive, calls, table, Goto
<1>1. ASSUME NEW c \in Callers, NEW k \in Commands, Call(c, k) PROVE DaemonInv'
  BY <1>1 DEF Call
<1>2. ASSUME NEW c \in Callers, Parse(c) PROVE DaemonInv'
  BY <1>2 DEF Parse, Finish
<1>3. ASSUME NEW c \in Callers, Hup(c) PROVE DaemonInv'
  BY <1>3 DEF Hup, Finish
<1>4. ASSUME NEW c \in Callers, ReadPid(c) PROVE DaemonInv'
  BY <1>4 DEF ReadPid, Noticed, Coming
<1>5. ASSUME NEW c \in Callers, Terminate(c) PROVE DaemonInv'
  BY <1>5 DEF Terminate, Noticed, Coming
<1>6. ASSUME NEW c \in Callers, Test(c) PROVE DaemonInv'
  BY <1>6 DEF Test, StopReturns, Finish
<1>7. ASSUME NEW c \in Callers, Poll(c) PROVE DaemonInv'
  BY <1>7 DEF Poll, StopReturns, Finish
<1>8. ASSUME NEW c \in Callers, StartCheck(c) PROVE DaemonInv'
  BY <1>8 DEF StartCheck, Finish, Noticed, Coming
<1>9. ASSUME NEW c \in Callers, Launch(c) PROVE DaemonInv'
  BY <1>9 DEF Launch, Finish
<1>10. ASSUME NEW p \in Pids, Boot(p) PROVE DaemonInv'
  BY <1>10 DEF Boot
<1>11. ASSUME NEW p \in Pids, Refuse(p) PROVE DaemonInv'
  BY <1>11 DEF Refuse
<1>12. ASSUME NEW p \in Pids, Exit(p) PROVE DaemonInv'
  BY <1>12 DEF Exit
<1>13. ASSUME NEW p \in Pids, Crash(p) PROVE DaemonInv'
  BY <1>13 DEF Crash
<1>14. ASSUME NEW p \in Pids, Reuse(p) PROVE DaemonInv'
  BY <1>14 DEF Reuse
<1>15. ASSUME NEW p \in Pids, OtherEnds(p) PROVE DaemonInv'
  BY <1>15 DEF OtherEnds
<1>16. ASSUME EditConf PROVE DaemonInv'
  BY <1>16 DEF EditConf
<1>17. ASSUME Tick PROVE DaemonInv'
  BY <1>17 DEF Tick
<1>18. CASE UNCHANGED vars
  BY <1>18 DEF vars
<1> QED
  BY <1>1, <1>2, <1>3, <1>4, <1>5, <1>6, <1>7, <1>8, <1>9, <1>10, <1>11, <1>12,
     <1>13, <1>14, <1>15, <1>16, <1>17, <1>18 DEF Next, Step

\* The strengthened invariant holds always.
LEMMA DaemonInvariant == Spec => []DaemonInv
<1>1. Init => DaemonInv
  BY DEF Init, DaemonInv, PidFileNamesSquid, OneComing, IsSquid, Serves
<1> QED BY <1>1, DaemonInvStep, TypeInvariant, PTL DEF Spec

(***************************************************************************)
(* Whatever callers overlap, however squid ends, however long it takes to  *)
(* write its pid file and whoever gets its number: there is no squid but   *)
(* the one the pid file names or will name, until a start looks at the pid *)
(* file while an earlier start's squid is still on its way there.          *)
(***************************************************************************)
THEOREM OneSquid == Spec => []PidFileNamesSquid
<1>1. DaemonInv => PidFileNamesSquid
  BY DEF DaemonInv
<1> QED BY <1>1, DaemonInvariant, PTL

(***************************************************************************)
(* The script implements the life cycle of SingleDaemon.  The mapping      *)
(* needs OneSquid: a second process would let the phase go from stopping   *)
(* to up.                                                                  *)
(***************************************************************************)
LEMMA DaemonStep ==
  TypeOK /\ DaemonInv /\ [Next]_vars => [Daemon!Next]_Phase
<1> SUFFICES ASSUME TypeOK, DaemonInv, [Next]_vars
             PROVE  [Daemon!Next]_Phase
  OBVIOUS
<1> USE ServiceAssumption DEF TypeOK, DaemonInv, PidFileNamesSquid, OneComing, IsSquid, Serves,
        Alive, calls, table, Goto, Phase, Daemon!Next, Daemon!Launch, Daemon!Retire,
        Daemon!Vanish, Daemon!Lose
<1>1. ASSUME NEW c \in Callers, NEW k \in Commands, Call(c, k) PROVE [Daemon!Next]_Phase
  BY <1>1 DEF Call
<1>2. ASSUME NEW c \in Callers, Parse(c) PROVE [Daemon!Next]_Phase
  BY <1>2 DEF Parse, Finish
<1>3. ASSUME NEW c \in Callers, Hup(c) PROVE [Daemon!Next]_Phase
  BY <1>3 DEF Hup, Finish
<1>4. ASSUME NEW c \in Callers, ReadPid(c) PROVE [Daemon!Next]_Phase
  BY <1>4 DEF ReadPid, Noticed, Coming
<1>5. ASSUME NEW c \in Callers, Terminate(c) PROVE [Daemon!Next]_Phase
  BY <1>5 DEF Terminate, Noticed, Coming
<1>6. ASSUME NEW c \in Callers, Test(c) PROVE [Daemon!Next]_Phase
  BY <1>6 DEF Test, StopReturns, Finish
<1>7. ASSUME NEW c \in Callers, Poll(c) PROVE [Daemon!Next]_Phase
  BY <1>7 DEF Poll, StopReturns, Finish
<1>8. ASSUME NEW c \in Callers, StartCheck(c) PROVE [Daemon!Next]_Phase
  BY <1>8 DEF StartCheck, Finish, Noticed, Coming
<1>9. ASSUME NEW c \in Callers, Launch(c) PROVE [Daemon!Next]_Phase
  BY <1>9 DEF Launch, Finish
<1>10. ASSUME NEW p \in Pids, Boot(p) PROVE [Daemon!Next]_Phase
  BY <1>10 DEF Boot
<1>11. ASSUME NEW p \in Pids, Refuse(p) PROVE [Daemon!Next]_Phase
  BY <1>11 DEF Refuse
<1>12. ASSUME NEW p \in Pids, Exit(p) PROVE [Daemon!Next]_Phase
  BY <1>12 DEF Exit
<1>13. ASSUME NEW p \in Pids, Crash(p) PROVE [Daemon!Next]_Phase
  BY <1>13 DEF Crash
<1>14. ASSUME NEW p \in Pids, Reuse(p) PROVE [Daemon!Next]_Phase
  BY <1>14 DEF Reuse
<1>15. ASSUME NEW p \in Pids, OtherEnds(p) PROVE [Daemon!Next]_Phase
  BY <1>15 DEF OtherEnds
<1>16. ASSUME EditConf PROVE [Daemon!Next]_Phase
  BY <1>16 DEF EditConf
<1>17. ASSUME Tick PROVE [Daemon!Next]_Phase
  BY <1>17 DEF Tick
<1>18. CASE UNCHANGED vars
  BY <1>18 DEF vars
<1> QED
  BY <1>1, <1>2, <1>3, <1>4, <1>5, <1>6, <1>7, <1>8, <1>9, <1>10, <1>11, <1>12,
     <1>13, <1>14, <1>15, <1>16, <1>17, <1>18 DEF Next, Step

\* The refinement: squid comes and goes the way SingleDaemon says, for any
\* number of callers, until two starts overlap before the pid file is written.
THEOREM ServiceImplementsDaemon == Spec => ImplementsDaemon
<1>1. Init => Daemon!Init
  BY DEF Init, Daemon!Init, Phase, Alive
<1> QED BY <1>1, DaemonStep, TypeInvariant, DaemonInvariant, PTL
        DEF Spec, ImplementsDaemon, Daemon!Spec
----------------------------------------------------------------------------
(* One caller at a time. *)

OneAtATime == \A c, d \in Callers : c = d

\* From its look at the pid file on, a stop waits for the only squid there is,
\* unless it looked too early.
WaitsForSquid ==
  early = {} =>
    \A c \in Callers : pc[c] \in {"term", "test", "poll", "sleep"} =>
      \A p \in Pids : IsSquid(p) => seen[c] = p /\ Serves(p)

\* A stop stays inside stop (), and a call has not failed before its end.
CallShape ==
  \A c \in Callers : cmd[c] = "stop" =>
    pc[c] \in {"read", "term", "test", "poll", "sleep"}

StopInv == WaitsForSquid /\ CallShape

\* Nobody launches another squid while the one caller is in stop ().
LEMMA StopInvStep ==
  ASSUME OneAtATime, TypeOK, DaemonInv, StopInv, [Next]_vars
  PROVE  StopInv'
<1> USE ServiceAssumption DEF OneAtATime, TypeOK, DaemonInv, PidFileNamesSquid, OneComing, StopInv,
        WaitsForSquid, CallShape, IsSquid, Serves, Alive, Exists, calls, table, Goto
<1>1. ASSUME NEW c \in Callers, NEW k \in Commands, Call(c, k) PROVE StopInv'
  BY <1>1 DEF Call
<1>2. ASSUME NEW c \in Callers, Parse(c) PROVE StopInv'
  BY <1>2 DEF Parse, Finish
<1>3. ASSUME NEW c \in Callers, Hup(c) PROVE StopInv'
  BY <1>3 DEF Hup, Finish
<1>4. ASSUME NEW c \in Callers, ReadPid(c) PROVE StopInv'
  BY <1>4 DEF ReadPid, Noticed, Coming
<1>5. ASSUME NEW c \in Callers, Terminate(c) PROVE StopInv'
  BY <1>5 DEF Terminate, Noticed, Coming
<1>6. ASSUME NEW c \in Callers, Test(c) PROVE StopInv'
  BY <1>6 DEF Test, StopReturns, Finish
<1>7. ASSUME NEW c \in Callers, Poll(c) PROVE StopInv'
  BY <1>7 DEF Poll, StopReturns, Finish
<1>8. ASSUME NEW c \in Callers, StartCheck(c) PROVE StopInv'
  BY <1>8 DEF StartCheck, Finish, Noticed, Coming
<1>9. ASSUME NEW c \in Callers, Launch(c) PROVE StopInv'
  BY <1>9 DEF Launch, Finish
<1>10. ASSUME NEW p \in Pids, Boot(p) PROVE StopInv'
  BY <1>10 DEF Boot
<1>11. ASSUME NEW p \in Pids, Refuse(p) PROVE StopInv'
  BY <1>11 DEF Refuse
<1>12. ASSUME NEW p \in Pids, Exit(p) PROVE StopInv'
  BY <1>12 DEF Exit
<1>13. ASSUME NEW p \in Pids, Crash(p) PROVE StopInv'
  BY <1>13 DEF Crash
<1>14. ASSUME NEW p \in Pids, Reuse(p) PROVE StopInv'
  BY <1>14 DEF Reuse
<1>15. ASSUME NEW p \in Pids, OtherEnds(p) PROVE StopInv'
  BY <1>15 DEF OtherEnds
<1>16. ASSUME EditConf PROVE StopInv'
  BY <1>16 DEF EditConf
<1>17. ASSUME Tick PROVE StopInv'
  BY <1>17 DEF Tick
<1>18. CASE UNCHANGED vars
  BY <1>18 DEF vars
<1> QED
  BY <1>1, <1>2, <1>3, <1>4, <1>5, <1>6, <1>7, <1>8, <1>9, <1>10, <1>11, <1>12,
     <1>13, <1>14, <1>15, <1>16, <1>17, <1>18 DEF Next, Step

\* The invariant of stop () holds always.
LEMMA StopInvariant == ASSUME OneAtATime PROVE Spec => []StopInv
<1>1. Init => StopInv
  BY DEF Init, StopInv, WaitsForSquid, CallShape
<1>2. TypeOK /\ DaemonInv /\ StopInv /\ [Next]_vars => StopInv'
  BY StopInvStep
<1> QED BY <1>1, <1>2, TypeInvariant, DaemonInvariant, PTL DEF Spec

(***************************************************************************)
(* With one caller at a time, a stop that reports success has left no      *)
(* squid behind, whatever squid and the other programs do, if no stop has  *)
(* looked for a squid before that wrote its pid file.                      *)
(***************************************************************************)
THEOREM StopReallyStops == ASSUME OneAtATime PROVE Spec => StopLeavesNone
<1>1. ASSUME TypeOK, StopInv, [Next]_vars PROVE [StopStep]_vars
  <2> SUFFICES ASSUME Next, early = {}, NEW c \in Callers, cmd[c] = "stop", pc'[c] = "idle",
                      res'[c] = "ok", NEW p \in Pids
               PROVE  ~IsSquid(p)
    BY <1>1 DEF StopStep
  <2>1. /\ pc[c] \in {"read", "term", "test", "poll", "sleep"}
        /\ \A d \in Callers : d = c
    BY <1>1 DEF StopInv, CallShape, OneAtATime
  <2>2. Test(c) \/ Poll(c)
    BY <1>1, <2>1 DEF Next, Step, Call, Parse, Hup, ReadPid, Terminate, StartCheck, Launch, Boot,
       Refuse, Exit, Crash, Reuse, OtherEnds, EditConf, Tick, Goto, Finish, calls, TypeOK
  <2>3. ~Exists(seen[c])
    BY <1>1, <2>1, <2>2 DEF Test, Poll, StopReturns, Finish, Goto, TypeOK
  <2>4. pc[c] \in {"test", "poll"}
    BY <2>2 DEF Test, Poll, StopReturns, Finish, Goto
  <2> QED BY <1>1, <2>3, <2>4 DEF StopInv, WaitsForSquid, IsSquid, Exists
<1>2. TypeOK /\ StopInv /\ [Next]_vars => [StopStep]_vars
  BY <1>1
<1> QED BY <1>2, TypeInvariant, StopInvariant, PTL DEF Spec, StopLeavesNone

----------------------------------------------------------------------------
(***************************************************************************)
(* The wait.  When no other program takes a process number of squid's, the *)
(* process a stop waits for is a squid that has the signal, and the ticks  *)
(* it still needs and the rounds of the loop together never exceed MaxLife *)
(* by more than the round under way.                                       *)
(***************************************************************************)
NoOthers == \A p \in Pids : proc[p] # "other"

Signalled ==
  early = {} =>
    \A c \in Callers : pc[c] \in {"test", "poll", "sleep"} =>
      \A p \in Pids : ~Alive(p)

Rounds ==
  \A c \in Callers :
    /\ pc[c] \notin {"poll", "sleep"} => cnt[c] = 0 \/ pc[c] \in {"start", "launch"}
    /\ early = {} => \A p \in Pids : seen[c] = p /\ proc[p] = "dying" =>
         /\ pc[c] = "poll" => left[p] + cnt[c] <= MaxLife
         /\ pc[c] = "sleep" => left[p] + cnt[c] <= MaxLife + 1

NoSquidAtStart ==
  early = {} /\ MaxLife < MaxPolls =>
    \A c \in Callers : pc[c] = "start" /\ cmd[c] = "restart" => \A p \in Pids : ~IsSquid(p)

WaitInv == NoOthers /\ Signalled /\ Rounds /\ WaitIsBounded /\ NoSquidAtStart

\* A round costs the squid that is waited for a tick.
LEMMA WaitInvStep ==
  ASSUME OneAtATime, Reuses = FALSE, TypeOK, DaemonInv, StopInv, WaitInv, [Next]_vars
  PROVE  WaitInv'
<1> USE ServiceAssumption DEF OneAtATime, TypeOK, DaemonInv, PidFileNamesSquid, OneComing, StopInv,
        WaitsForSquid, WaitInv, NoOthers, Signalled, Rounds, WaitIsBounded, NoSquidAtStart,
        IsSquid, Serves, Alive, Exists, calls, table, Goto
<1>1. ASSUME NEW c \in Callers, NEW k \in Commands, Call(c, k) PROVE WaitInv'
  BY <1>1 DEF Call
<1>2. ASSUME NEW c \in Callers, Parse(c) PROVE WaitInv'
  BY <1>2 DEF Parse, Finish
<1>3. ASSUME NEW c \in Callers, Hup(c) PROVE WaitInv'
  BY <1>3 DEF Hup, Finish
<1>4. ASSUME NEW c \in Callers, ReadPid(c) PROVE WaitInv'
  BY <1>4 DEF ReadPid, Noticed, Coming
<1>5. ASSUME NEW c \in Callers, Terminate(c) PROVE WaitInv'
  BY <1>5 DEF Terminate, Noticed, Coming
<1>6. ASSUME NEW c \in Callers, Test(c) PROVE WaitInv'
  BY <1>6 DEF Test, StopReturns, Finish
<1>7. ASSUME NEW c \in Callers, Poll(c) PROVE WaitInv'
  BY <1>7 DEF Poll, StopReturns, Finish
<1>8. ASSUME NEW c \in Callers, StartCheck(c) PROVE WaitInv'
  BY <1>8 DEF StartCheck, Finish, Noticed, Coming
<1>9. ASSUME NEW c \in Callers, Launch(c) PROVE WaitInv'
  BY <1>9 DEF Launch, Finish
<1>10. ASSUME NEW p \in Pids, Boot(p) PROVE WaitInv'
  BY <1>10 DEF Boot
<1>11. ASSUME NEW p \in Pids, Refuse(p) PROVE WaitInv'
  BY <1>11 DEF Refuse
<1>12. ASSUME NEW p \in Pids, Exit(p) PROVE WaitInv'
  BY <1>12 DEF Exit
<1>13. ASSUME NEW p \in Pids, Crash(p) PROVE WaitInv'
  BY <1>13 DEF Crash
<1>14. ASSUME NEW p \in Pids, Reuse(p) PROVE WaitInv'
  BY <1>14 DEF Reuse
<1>15. ASSUME NEW p \in Pids, OtherEnds(p) PROVE WaitInv'
  BY <1>15 DEF OtherEnds
<1>16. ASSUME EditConf PROVE WaitInv'
  BY <1>16 DEF EditConf
<1>17. ASSUME Tick PROVE WaitInv'
  BY <1>17 DEF Tick
<1>18. CASE UNCHANGED vars
  BY <1>18 DEF vars
<1> QED
  BY <1>1, <1>2, <1>3, <1>4, <1>5, <1>6, <1>7, <1>8, <1>9, <1>10, <1>11, <1>12,
     <1>13, <1>14, <1>15, <1>16, <1>17, <1>18 DEF Next, Step

\* The invariant of the wait holds always.
LEMMA WaitInvariant == ASSUME OneAtATime, Reuses = FALSE PROVE Spec => []WaitInv
<1>1. Init => WaitInv
  BY ServiceAssumption DEF Init, WaitInv, NoOthers, Signalled, Rounds, WaitIsBounded, NoSquidAtStart
<1>2. TypeOK /\ DaemonInv /\ StopInv /\ WaitInv /\ [Next]_vars => WaitInv'
  BY WaitInvStep
<1> QED BY <1>1, <1>2, TypeInvariant, DaemonInvariant, StopInvariant, PTL DEF Spec

(***************************************************************************)
(* With one caller at a time and no foreign process under squid's number,  *)
(* the waiting loop runs at most one round more than squid needs to exit.  *)
(***************************************************************************)
THEOREM WaitBounded ==
  ASSUME OneAtATime, Reuses = FALSE PROVE Spec => []WaitIsBounded
<1>1. WaitInv => WaitIsBounded
  BY DEF WaitInv
<1> QED BY <1>1, WaitInvariant, PTL

(***************************************************************************)
(* If squid then exits within the limit of the loop, a restart that passes *)
(* the test of the configuration ends with a proxy.                        *)
(***************************************************************************)
THEOREM RestartRestarts ==
  ASSUME OneAtATime, Reuses = FALSE, MaxLife < MaxPolls
  PROVE  Spec => RestartLeavesProxy
<1>1. ASSUME TypeOK, DaemonInv, WaitInv, [Next]_vars PROVE [RestartStep]_vars
  <2> SUFFICES ASSUME Next, early = {}, NEW c \in Callers, cmd[c] = "restart",
                      pc[c] \in {"start", "launch"}, pc'[c] = "idle", conf = "ok"
               PROVE  \E p \in Pids : Alive(p)'
    BY <1>1 DEF RestartStep
  <2>1. \A p \in Pids : ~IsSquid(p)
    BY <1>1 DEF WaitInv, NoSquidAtStart, DaemonInv, OneComing
  <2>2. \A p \in Pids : proc[p] = "free"
    BY <1>1, <2>1 DEF WaitInv, NoOthers, IsSquid, TypeOK
  <2>3. StartCheck(c) \/ Launch(c)
    BY <1>1 DEF Next, Step, Call, Parse, Hup, ReadPid, Terminate, Test, Poll, StopReturns, Boot,
       Refuse, Exit, Crash, Reuse, OtherEnds, EditConf, Tick, Goto, Finish, calls, TypeOK, OneAtATime
  <2>4. CASE StartCheck(c)
    BY <1>1, <2>1, <2>4 DEF StartCheck, Goto, IsSquid, TypeOK
  <2>5. CASE Launch(c)
    BY <1>1, <2>2, <2>5, ServiceAssumption DEF Launch, TypeOK, Alive
  <2> QED BY <2>3, <2>4, <2>5
<1>2. TypeOK /\ DaemonInv /\ WaitInv /\ [Next]_vars => [RestartStep]_vars
  BY <1>1
<1> QED BY <1>2, TypeInvariant, DaemonInvariant, WaitInvariant, PTL DEF Spec, RestartLeavesProxy

=============================================================================
