---------------------------- MODULE SquidService ----------------------------
(***************************************************************************)
(* The init script of the proxy, init.d/squid, called by the boot, by      *)
(* cron.daily/restartSquid and by an administrator, several at a time.     *)
(*                                                                         *)
(* A call is a shell process; it works on the process table, on the pid    *)
(* file that squid writes and removes, and on the configuration file.  A   *)
(* Tick is the five seconds of the script's sleep: the shell commands      *)
(* between two sleeps take no time, a squid told to stop takes a number of *)
(* ticks that is known to nobody, and one that has been launched writes    *)
(* its pid file when it gets to it.                                        *)
(***************************************************************************)
EXTENDS Naturals

CONSTANTS
  Callers,    \* processes that may run the script
  Pids,       \* process numbers
  NoPid,      \* what an empty or missing pid file says
  Commands,   \* the arguments used, of start, stop, restart and reload
  Confs,      \* what an edit may leave the configuration file: ok or fatal
  MaxPolls,   \* the limit of the waiting loop; 24 in the script
  MaxLife,    \* bound: ticks a squid needs to exit after the signal
  Reuses      \* whether another program may get one of Pids; one at a time

ASSUME ServiceAssumption ==
  /\ NoPid \notin Pids /\ Pids # {}
  /\ Commands \subseteq {"start", "stop", "restart", "reload"}
  /\ "ok" \in Confs /\ Confs \subseteq {"ok", "fatal"}
  /\ MaxPolls \in Nat \ {0}
  /\ MaxLife \in Nat /\ Reuses \in BOOLEAN

Points == {"idle", "parse", "read", "term", "test", "poll", "sleep", "start",
           "launch", "hup"}

VARIABLES
  proc,    \* the process table: free, booting, running, dying (all squid) or other
  left,    \* the ticks a dying squid still needs
  pidfile, \* /var/run/squid.pid
  conf,    \* whether squid can parse its configuration
  cmd,     \* the argument of each call
  pc,      \* the next command of each call
  seen,    \* the shell variable PID of each call
  cnt,     \* the shell variable cnt of each call
  res,     \* how the last call of each caller ended
  early    \* history: the looks at the pid file that came before a squid wrote it

calls == <<cmd, pc, seen, cnt, res>>
table == <<proc, left, pidfile>>
vars  == <<proc, left, pidfile, conf, cmd, pc, seen, cnt, res, early>>

TypeOK ==
  /\ proc \in [Pids -> {"free", "booting", "running", "dying", "other"}]
  /\ left \in [Pids -> 0 .. MaxLife]
  /\ pidfile \in Pids \union {NoPid}
  /\ conf \in Confs
  /\ cmd \in [Callers -> Commands \union {"none"}]
  /\ pc \in [Callers -> Points]
  /\ seen \in [Callers -> Pids \union {NoPid}]
  /\ cnt \in [Callers -> 0 .. MaxPolls]
  /\ res \in [Callers -> {"ok", "failed"}]
  /\ early \subseteq {"start", "stop"}

Init ==
  /\ proc = [p \in Pids |-> "free"]
  /\ left = [p \in Pids |-> 0]
  /\ pidfile = NoPid
  /\ conf = "ok"
  /\ cmd = [c \in Callers |-> "none"]
  /\ pc = [c \in Callers |-> "idle"]
  /\ seen = [c \in Callers |-> NoPid]
  /\ cnt = [c \in Callers |-> 0]
  /\ res = [c \in Callers |-> "ok"]
  /\ early = {}

IsSquid(p) == p \in Pids /\ proc[p] \in {"booting", "running", "dying"}

\* A squid that the signal of stop () reaches, and one the pid file may name.
Alive(p)  == p \in Pids /\ proc[p] \in {"booting", "running"}
Serves(p) == p \in Pids /\ proc[p] \in {"running", "dying"}

\* A start is under way whose squid is not in the pid file yet.
Coming == (\E p \in Pids : proc[p] = "booting") \/ (\E c \in Callers : pc[c] = "launch")

\* kill -0 PID: some process has that number, whatever its program.
Exists(p) == p \in Pids /\ proc[p] # "free"

Goto(c, from, to) ==
  /\ pc[c] = from
  /\ pc' = [pc EXCEPT ![c] = to]

\* The shell ends and its variables with it.
Finish(c, from, result) ==
  /\ Goto(c, from, "idle")
  /\ res' = [res EXCEPT ![c] = result]
  /\ cmd' = [cmd EXCEPT ![c] = "none"]
  /\ seen' = [seen EXCEPT ![c] = NoPid]
  /\ cnt' = [cnt EXCEPT ![c] = 0]

----------------------------------------------------------------------------
(* Variants of the steps below with a mistake in them, for the mutation    *)
(* runs.                                                                   *)

\* No signal is sent: the process of the pid file is taken for another program.
TerminateNothing(c) ==
  /\ Goto(c, "term", "test")
  /\ UNCHANGED <<cmd, seen, cnt, res, early, table, conf>>

\* stop removes the pid file itself, before squid has gone.
TerminateAndRemove(c) ==
  /\ Goto(c, "term", "test")
  /\ IF Alive(pidfile)
     THEN /\ proc' = [proc EXCEPT ![pidfile] = "dying"]
          /\ \E n \in 0 .. MaxLife : left' = [left EXCEPT ![pidfile] = n]
     ELSE UNCHANGED <<proc, left>>
  /\ pidfile' = NoPid
  /\ UNCHANGED <<cmd, seen, cnt, res, early, conf>>

----------------------------------------------------------------------------
(* The case statement *)

Call(c, k) ==
  /\ Goto(c, "idle", IF k = "stop" THEN "read" ELSE "parse")
  /\ cmd' = [cmd EXCEPT ![c] = k]
  /\ res' = [res EXCEPT ![c] = "ok"]
  /\ UNCHANGED <<seen, cnt, early, table, conf>>

\* squid -k parse; the script exits with 3 on a FATAL line.
Parse(c) ==
  /\ \/ conf = "fatal" /\ Finish(c, "parse", "failed")
     \/ /\ conf = "ok"
        /\ Goto(c, "parse", CASE cmd[c] = "start"   -> "start"
                              [] cmd[c] = "restart" -> "read"
                              [] OTHER              -> "hup")
        /\ UNCHANGED <<cmd, seen, cnt, res>>
  /\ UNCHANGED <<early, table, conf>>

\* start-stop-daemon --stop --signal 1: squid reads its configuration again,
\* and gives up when it cannot.
Hup(c) ==
  /\ Finish(c, "hup", "ok")
  /\ IF Serves(pidfile) /\ proc[pidfile] = "running" /\ conf = "fatal"
     THEN proc' = [proc EXCEPT ![pidfile] = "free"] /\ pidfile' = NoPid
     ELSE UNCHANGED <<proc, pidfile>>
  /\ UNCHANGED <<left, early, conf>>

----------------------------------------------------------------------------
(* stop () *)

Noticed(look) == early' = IF Coming THEN early \union {look} ELSE early

ReadPid(c) ==
  /\ Goto(c, "read", "term")
  /\ seen' = [seen EXCEPT ![c] = pidfile]
  /\ Noticed("stop")
  /\ UNCHANGED <<cmd, cnt, res, table, conf>>

\* start-stop-daemon --stop reads the pid file for itself and signals only a
\* process that executes squid.
Terminate(c) ==
  /\ Goto(c, "term", "test")
  /\ IF Alive(pidfile)
     THEN /\ proc' = [proc EXCEPT ![pidfile] = "dying"]
          /\ \E n \in 0 .. MaxLife : left' = [left EXCEPT ![pidfile] = n]
     ELSE UNCHANGED <<proc, left>>
  /\ Noticed("stop")
  /\ UNCHANGED <<pidfile, cmd, seen, cnt, res, conf>>

\* restart calls start whatever stop has returned.
StopReturns(c, from, result) ==
  IF cmd[c] = "restart"
  THEN Goto(c, from, "start") /\ UNCHANGED <<cmd, seen, cnt, res>>
  ELSE Finish(c, from, result)

\* Variants of Test and Poll with a mistake: no waiting, one round too many, no limit.
TestNeverWaits(c) ==
  /\ StopReturns(c, "test", "ok")
  /\ UNCHANGED <<early, table, conf>>

PollOnceMore(c) ==
  /\ \/ ~Exists(seen[c]) /\ StopReturns(c, "poll", "ok")
     \/ Exists(seen[c]) /\ cnt[c] > MaxPolls /\ StopReturns(c, "poll", "failed")
     \/ /\ Exists(seen[c]) /\ cnt[c] <= MaxPolls
        /\ Goto(c, "poll", "sleep")
        /\ cnt' = [cnt EXCEPT ![c] = @ + 1]
        /\ UNCHANGED <<cmd, seen, res>>
  /\ UNCHANGED <<early, table, conf>>

PollForever(c) ==
  /\ \/ ~Exists(seen[c]) /\ StopReturns(c, "poll", "ok")
     \/ Exists(seen[c]) /\ Goto(c, "poll", "sleep") /\ UNCHANGED <<cmd, seen, cnt, res>>
  /\ UNCHANGED <<early, table, conf>>

\* The test after sleep 2, and cnt=0 in front of the loop.
Test(c) ==
  /\ IF Exists(seen[c])
     THEN Goto(c, "test", "poll") /\ UNCHANGED <<cmd, seen, cnt, res>>
     ELSE StopReturns(c, "test", "ok")
  /\ UNCHANGED <<early, table, conf>>

Poll(c) ==
  /\ \/ ~Exists(seen[c]) /\ StopReturns(c, "poll", "ok")
     \/ Exists(seen[c]) /\ cnt[c] + 1 > MaxPolls /\ StopReturns(c, "poll", "failed")
     \/ /\ Exists(seen[c]) /\ cnt[c] + 1 <= MaxPolls
        /\ Goto(c, "poll", "sleep")
        /\ cnt' = [cnt EXCEPT ![c] = @ + 1]
        /\ UNCHANGED <<cmd, seen, res>>
  /\ UNCHANGED <<early, table, conf>>

----------------------------------------------------------------------------
(* start () *)

\* A variant with a mistake: squid is launched without a look at the pid file.
StartUnchecked(c) ==
  /\ Goto(c, "start", "launch")
  /\ UNCHANGED <<cmd, seen, cnt, res, early, table, conf>>

\* start-stop-daemon --start refuses when the process of the pid file is a
\* squid.
StartCheck(c) ==
  /\ \/ IsSquid(pidfile) /\ Finish(c, "start", "failed") /\ UNCHANGED early
     \/ /\ ~IsSquid(pidfile)
        /\ Goto(c, "start", "launch")
        /\ Noticed("start")
        /\ UNCHANGED <<cmd, seen, cnt, res>>
  /\ UNCHANGED <<table, conf>>

\* It then executes squid and returns when that has gone to the background; a
\* squid that cannot parse its configuration exits at once.
Launch(c) ==
  /\ \/ /\ conf = "fatal" \/ \A p \in Pids : proc[p] # "free"
        /\ Finish(c, "launch", "failed")
        /\ UNCHANGED proc
     \/ /\ conf = "ok"
        /\ \E p \in Pids : /\ proc[p] = "free"
                           /\ proc' = [proc EXCEPT ![p] = "booting"]
        /\ Finish(c, "launch", "ok")
  /\ UNCHANGED <<left, pidfile, early, conf>>

----------------------------------------------------------------------------
(* squid, the other programs and the clock *)

\* squid writes its pid file.
Boot(p) ==
  /\ proc[p] = "booting"
  /\ proc' = [proc EXCEPT ![p] = "running"]
  /\ pidfile' = p
  /\ UNCHANGED <<left, early, calls, conf>>

\* It may look first, and give way to the squid it finds there; the script
\* does not say which version of squid it runs.
Refuse(p) ==
  /\ proc[p] = "booting" /\ IsSquid(pidfile) /\ pidfile # p
  /\ proc' = [proc EXCEPT ![p] = "free"]
  /\ UNCHANGED <<left, pidfile, early, calls, conf>>

\* squid removes its pid file when it exits.
Exit(p) ==
  /\ proc[p] = "dying" /\ left[p] = 0
  /\ proc' = [proc EXCEPT ![p] = "free"]
  /\ pidfile' = IF pidfile = p THEN NoPid ELSE pidfile
  /\ UNCHANGED <<left, early, calls, conf>>

\* The pid file stays behind.
Crash(p) ==
  /\ IsSquid(p)
  /\ proc' = [proc EXCEPT ![p] = "free"]
  /\ left' = [left EXCEPT ![p] = 0]
  /\ UNCHANGED <<pidfile, conf, early, calls>>

Reuse(p) ==
  /\ Reuses /\ proc[p] = "free" /\ \A q \in Pids : proc[q] # "other"
  /\ proc' = [proc EXCEPT ![p] = "other"]
  /\ UNCHANGED <<left, pidfile, conf, early, calls>>

OtherEnds(p) ==
  /\ proc[p] = "other"
  /\ proc' = [proc EXCEPT ![p] = "free"]
  /\ UNCHANGED <<left, pidfile, early, calls, conf>>

EditConf ==
  /\ conf' \in Confs \ {conf}
  /\ UNCHANGED <<early, table, calls>>

Tick ==
  /\ \A c \in Callers : pc[c] \in {"idle", "sleep"}
  /\ \A p \in Pids : proc[p] = "dying" => left[p] > 0
  /\ \/ \E c \in Callers : pc[c] = "sleep"
     \/ \E p \in Pids : proc[p] = "dying"
  /\ left' = [p \in Pids |-> IF proc[p] = "dying" THEN left[p] - 1 ELSE left[p]]
  /\ pc' = [c \in Callers |-> IF pc[c] = "sleep" THEN "poll" ELSE pc[c]]
  /\ UNCHANGED <<proc, pidfile, cmd, seen, cnt, res, early, conf>>

----------------------------------------------------------------------------
Step(c) == \/ Parse(c) \/ Hup(c) \/ ReadPid(c) \/ Terminate(c) \/ Test(c) \/ Poll(c)
           \/ StartCheck(c) \/ Launch(c)

Next ==
  \/ \E c \in Callers : (\E k \in Commands : Call(c, k)) \/ Step(c)
  \/ \E p \in Pids : Boot(p) \/ Refuse(p) \/ Exit(p) \/ Crash(p) \/ Reuse(p) \/ OtherEnds(p)
  \/ EditConf \/ Tick

Spec == Init /\ [][Next]_vars

\* The shells run on, a squid that has been told to stop and has no work left
\* exits, and time passes however often somebody calls the script.
Fairness ==
  /\ \A c \in Callers : WF_vars(Step(c))
  /\ \A p \in Pids : WF_vars(Exit(p))
  /\ SF_vars(Tick)

FairSpec == Spec /\ Fairness

----------------------------------------------------------------------------
(***************************************************************************)
(* Properties for any number of callers.                                   *)
(***************************************************************************)

\* As long as no start looks at the pid file while the squid of an earlier
\* one is still on its way there, there is at most one squid, and the pid file
\* names it from its first request to its end, so that the next stop or reload
\* reaches it.
PidFileNamesSquid ==
  "start" \notin early =>
    /\ \A p \in Pids : Serves(p) => pidfile = p
    /\ \A p, q \in Pids : IsSquid(p) /\ IsSquid(q) => p = q

\* The script drives the proxy the way SingleDaemon promises: no second
\* process, none before the old one is gone, no stop taken back; with two such
\* starts it has lost hold of it, and does not get it back.
Phase == IF "start" \in early THEN "lost"
         ELSE IF \E p \in Pids : Alive(p) THEN "up"
         ELSE IF \E p \in Pids : proc[p] = "dying" THEN "stopping" ELSE "down"
Daemon == INSTANCE SingleDaemon WITH state <- Phase
ImplementsDaemon == Daemon!Spec

\* Every call ends, also one that waits for a process that is not squid and
\* lives for ever.
EveryCallEnds == \A c \in Callers : pc[c] # "idle" ~> pc[c] = "idle"

(***************************************************************************)
(* Properties for one caller at a time.                                    *)
(***************************************************************************)

\* The waiting loop is never run longer than the slowest squid needs: with an
\* exit time below the limit, no stop gives up, unless a stop or a start has
\* looked for the pid file of a squid that was still to write it.
WaitIsBounded == early = {} => \A c \in Callers : cnt[c] <= MaxLife + 1

\* init.d/squid:114, "Now we have to wait until squid has _really_ stopped":
\* a stop that reports success has left no squid behind, under the same
\* condition.
StopStep ==
  early = {} =>
    \A c \in Callers : cmd[c] = "stop" /\ pc'[c] = "idle" /\ res'[c] = "ok"
                       => \A p \in Pids : ~IsSquid(p)
StopLeavesNone == [][StopStep]_vars

\* A restart that gets past the test of the configuration ends with a proxy,
\* running or on its way, under the same condition and unless the configuration
\* has been broken since.
RestartStep ==
  early = {} =>
    \A c \in Callers :
      cmd[c] = "restart" /\ pc[c] \in {"start", "launch"} /\ pc'[c] = "idle" /\ conf = "ok"
        => \E p \in Pids : Alive(p)'
RestartLeavesProxy == [][RestartStep]_vars

=============================================================================
