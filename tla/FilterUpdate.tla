---------------------------- MODULE FilterUpdate ----------------------------
(***************************************************************************)
(* The daily update of the filter lists: cron.daily/updateSquidGuard, the  *)
(* script get-easylist.sh it calls, the boot-time rebuild of               *)
(* init.d/generateSquidGuardDB, and what squid and its redirector helpers  *)
(* have loaded from the files these scripts write.                         *)
(*                                                                         *)
(* A run is one process executing updateSquidGuard.  Two commands of a run *)
(* are separate steps when another run, a kill, a power cut or a reader    *)
(* can fall between them and see the difference.  wget -O and sed's output *)
(* redirection truncate their target before they fill it, wget -P creates  *)
(* it, and a download arrives bit by bit, so these are several steps.      *)
(***************************************************************************)
EXTENDS Naturals, Sequences

CONSTANTS
  Runs,       \* processes that may execute the update script
  Archives,   \* black list archives fetched to /tmp; a list has its archive's name
  Bump,       \* /var/lib/squid/bumpdomains.lst, read by squid itself
  InPlace,    \* lists that wget -O writes straight over the live file
  Ads,        \* the lists of urls.txt, in the order of the loop
  DnsLists,   \* the members of InPlace that dnsmasq reads when it starts
  ExprLists,  \* expression lists: squidGuard keeps no compiled form of them
  Nets,       \* the ways a fetch can end that the network may impose
  WorkDirs,   \* where the update may be started from: at or above the
              \* scripts ("scripts", such as the / of cron) or elsewhere
  MaxPub,     \* bound: versions the list publishers bring out
  MaxFaults   \* bound: kills and reboots

Elems(s) == {s[i] : i \in DOMAIN s}

ArchiveLists == Elems(Archives)
AdLists      == Elems(Ads)
Downloads    == Archives \o <<Bump>> \o InPlace
SgLists      == ArchiveLists \union (Elems(InPlace) \ DnsLists) \union AdLists
Compiled     == SgLists \ ExprLists
Lists        == SgLists \union DnsLists \union {Bump}
TmpFiles     == ArchiveLists \union AdLists
ProxyLists   == SgLists \union {Bump}

ASSUME ListsAssumption ==
  /\ Archives \in Seq(ArchiveLists) /\ InPlace \in Seq(Elems(InPlace))
  /\ Ads \in Seq(AdLists) /\ Ads # <<>>
  /\ \A i, j \in DOMAIN Ads : Ads[i] = Ads[j] => i = j
  /\ DnsLists \subseteq Elems(InPlace)
  /\ AdLists \subseteq ExprLists
  /\ ExprLists \subseteq AdLists \union Elems(InPlace)
  /\ AdLists \intersect (ArchiveLists \union Elems(InPlace) \union {Bump}) = {}
  /\ ArchiveLists \intersect (Elems(InPlace) \union {Bump}) = {}
  /\ Bump \notin Elems(InPlace)

ASSUME BoundsAssumption ==
  /\ MaxPub \in Nat \ {0}
  /\ MaxFaults \in Nat
  /\ Nets \subseteq {"up", "flaky", "down", "portal"} /\ "up" \in Nets
  /\ WorkDirs \subseteq {"elsewhere", "scripts"} /\ WorkDirs # {}

(***************************************************************************)
(* The content of a file: missing, truncated to nothing, a document that   *)
(* is not a list (the login page of a captive portal), the first part of a *)
(* list version, or all of it.                                             *)
(***************************************************************************)
Content == [kind : {"absent", "empty", "junk", "part", "full"}, ver : 0 .. MaxPub]

Absent  == [kind |-> "absent", ver |-> 0]
Empty   == [kind |-> "empty",  ver |-> 0]
Junk    == [kind |-> "junk",   ver |-> 0]
Part(v) == [kind |-> "part",   ver |-> v]
Full(v) == [kind |-> "full",   ver |-> v]

IsList(c) == c.kind \in {"part", "full"}

Steps == {"idle", "open", "fill", "untar", "clean", "detect", "wget", "adFill", "grep",
          "sed", "sedWrite", "build", "chmod", "own", "reconf", "rmTmp", "tail"}

VARIABLES
  pub,        \* the version the publishers serve now
  net,        \* what the network does to a fetch now
  detectable, \* squid and squidGuard are installed where the script looks
  tmp,        \* the files under /tmp and /tmp/adblock
  writer,     \* the runs whose wget has such a file open; a run that is not in
              \* the set any more writes to one that has been removed
  live,       \* the list files the appliance uses
  compiled,   \* squidGuard's .db files
  readable,   \* the proxy user can enter the database directory
  launchable, \* the scripts of cron.daily are executable
  loaded,     \* what squid and its helpers have read
  squidUp,
  rebuild,    \* the boot-time squidGuard -C all is still to run
  at,         \* the next command of each run
  nth,        \* the position of each run in its list of files
  faults      \* kills and reboots so far

env   == <<pub, net, detectable>>
files == <<tmp, writer, live, compiled>>
modes == <<readable, launchable>>
squid == <<loaded, squidUp>>
pcs   == <<at, nth>>
vars  == <<pub, net, detectable, tmp, writer, live, compiled, readable, launchable,
           loaded, squidUp, rebuild, at, nth, faults>>

Types ==
  /\ pub \in 1 .. MaxPub /\ net \in Nets /\ detectable \in BOOLEAN
  /\ tmp \in [TmpFiles -> Content] /\ writer \in [TmpFiles -> SUBSET Runs]
  /\ live \in [Lists -> Content]
  /\ compiled \in [Compiled -> Content]
  /\ readable \in BOOLEAN /\ launchable \in BOOLEAN
  /\ loaded \in [ProxyLists -> Content] /\ squidUp \in BOOLEAN
  /\ rebuild \in BOOLEAN
  /\ at \in [Runs -> Steps] /\ nth \in [Runs -> Nat]
  /\ faults \in 0 .. MaxFaults

\* Inside its loops a run points at a list there is.
Control ==
  \A r \in Runs :
    /\ at[r] \in {"open", "fill"} => nth[r] \in 1 .. Len(Downloads)
    /\ at[r] = "untar" => nth[r] \in 1 .. Len(Downloads) + 1
    /\ at[r] \in {"wget", "adFill", "grep", "sed", "sedWrite"} => nth[r] \in 1 .. Len(Ads)

TypeOK == Types /\ Control

----------------------------------------------------------------------------
(* What the readers of the files see. *)

\* A helper opens the .db file of a list when there is one, else its text.
Served(l) == IF l \in Compiled /\ compiled[l] # Absent THEN compiled[l] ELSE live[l]

\* squidGuard passes every request ("emergency mode") when it cannot open
\* one of the lists its configuration names.
Emergency == ~readable \/ \E l \in SgLists : Served(l) = Absent

View == [l \in ProxyLists |-> IF l = Bump THEN live[Bump]
                              ELSE IF Emergency THEN Absent ELSE Served(l)]

\* squid -k reconfigure: nothing happens when squid is down.
Reconfigure == /\ loaded' = IF squidUp THEN View ELSE loaded
               /\ UNCHANGED squidUp

\* What the answer of the server comes to when nothing has arrived yet.
Fetched == CASE net = "up"     -> Full(pub)
             [] net = "flaky"  -> Part(pub)
             [] net = "portal" -> Junk
             [] OTHER          -> Empty

\* What wget leaves in a file that holds c when it gives up or finishes: a list
\* that has begun to arrive is not fetched in another version.
Finished(c) == IF c.kind = "part" THEN IF net = "up" THEN Full(c.ver) ELSE c
               ELSE IF Fetched = Empty THEN c ELSE Fetched

----------------------------------------------------------------------------
Init ==
  /\ pub = 1 /\ net \in Nets /\ detectable = TRUE
  /\ tmp = [f \in TmpFiles |-> Absent] /\ writer = [f \in TmpFiles |-> {}]
  /\ live = [l \in Lists |-> IF l \in DnsLists \union {Bump} THEN Full(1) ELSE Absent]
  /\ compiled = [l \in Compiled |-> Absent]
  /\ readable = TRUE /\ launchable = TRUE
  /\ loaded = [l \in ProxyLists |-> Absent] /\ squidUp = FALSE
  /\ rebuild = FALSE
  /\ at = [r \in Runs |-> "idle"] /\ nth = [r \in Runs |-> 1]
  /\ faults = 0

Goto(r, from, to) ==
  /\ at[r] = from
  /\ at' = [at EXCEPT ![r] = to]

GotoItem(r, from, to, i) ==
  /\ Goto(r, from, to)
  /\ nth' = [nth EXCEPT ![r] = i]

----------------------------------------------------------------------------
(* Variants of the steps below with a mistake in them: the mutation runs   *)
(* put one in the place of the step to see that a property notices.        *)

\* A missing header is reported and the list converted all the same.
GrepHeaderIgnored(r) ==
  /\ GotoItem(r, "grep", "sed", nth[r])
  /\ UNCHANGED <<env, files, modes, squid, rebuild, faults>>

\* A list without header is skipped and the loop goes on.
GrepHeaderSkips(r) ==
  /\ GotoItem(r, "grep", IF IsList(tmp[Ads[nth[r]]]) THEN "sed"
                         ELSE IF nth[r] < Len(Ads) THEN "wget" ELSE "build",
              IF IsList(tmp[Ads[nth[r]]]) THEN nth[r] ELSE nth[r] + 1)
  /\ UNCHANGED <<env, files, modes, squid, rebuild, faults>>

\* sed reads the file its output is redirected to.
SedWriteInPlace(r) ==
  /\ GotoItem(r, "sedWrite", IF nth[r] < Len(Ads) THEN "wget" ELSE "build", nth[r] + 1)
  /\ UNCHANGED <<files, env, modes, squid, rebuild, faults>>

\* The output of wget is piped into sed instead of being kept.
SedWritePiped(r) ==
  /\ GotoItem(r, "sedWrite", IF nth[r] < Len(Ads) THEN "wget" ELSE "build", nth[r] + 1)
  /\ live' = [live EXCEPT ![Ads[nth[r]]] = Fetched]
  /\ UNCHANGED <<tmp, writer, compiled, env, modes, squid, rebuild, faults>>

\* The loop over the lists is run once too often.
SedWriteOneMore(r) ==
  /\ GotoItem(r, "sedWrite", IF nth[r] <= Len(Ads) THEN "wget" ELSE "build", nth[r] + 1)
  /\ live' = [live EXCEPT ![Ads[nth[r]]] = tmp[Ads[nth[r]]]]
  /\ UNCHANGED <<tmp, writer, compiled, env, modes, squid, rebuild, faults>>

\* The databases are not rebuilt.
BuildNothing(r) ==
  /\ GotoItem(r, "build", "chmod", nth[r])
  /\ UNCHANGED <<files, env, modes, squid, rebuild, faults>>

\* The owner is set, the modes of the directories are not.
ChownOnly(r) ==
  /\ GotoItem(r, "own", "reconf", nth[r])
  /\ UNCHANGED <<modes, files, env, squid, rebuild, faults>>

\* The directory of the downloads is kept for the next run.
RemoveNothing(r) ==
  /\ GotoItem(r, "rmTmp", "tail", nth[r])
  /\ UNCHANGED <<files, env, modes, squid, rebuild, faults>>

----------------------------------------------------------------------------
(* updateSquidGuard up to its call of get-easylist.sh *)

\* The kernel refuses to execute a script whose mode was reset to 644.
Start(r) ==
  /\ launchable
  /\ GotoItem(r, "idle", "open", 1)
  /\ UNCHANGED <<env, files, modes, squid, rebuild, faults>>

\* The file of a wget: under /tmp, or for wget -O a live list.
Stored(f) == IF f \in TmpFiles THEN tmp[f] ELSE live[f]

Store(f, c) ==
  /\ tmp' = IF f \in TmpFiles THEN [tmp EXCEPT ![f] = c] ELSE tmp
  /\ live' = IF f \in TmpFiles THEN live ELSE [live EXCEPT ![f] = c]
  /\ UNCHANGED compiled

Writers(f, rs) == writer' = IF f \in TmpFiles THEN [writer EXCEPT ![f] = rs] ELSE writer

\* A file that another run has removed receives nothing.
WritesTo(r, f) == f \in TmpFiles => r \in writer[f]

OpenDownload(r) ==
  LET f == Downloads[nth[r]]
  IN /\ GotoItem(r, "open", "fill", nth[r])
     /\ Store(f, Empty)
     /\ Writers(f, writer[f] \union {r})
     /\ UNCHANGED <<env, modes, squid, rebuild, faults>>

\* The first part of a list arrives.
Receive(r) ==
  LET f == IF at[r] = "fill" THEN Downloads[nth[r]] ELSE Ads[nth[r]]
  IN /\ at[r] \in {"fill", "adFill"}
     /\ WritesTo(r, f) /\ Stored(f) = Empty /\ IsList(Fetched)
     /\ Store(f, Part(pub))
     /\ UNCHANGED <<writer, env, modes, squid, rebuild, pcs, faults>>

\* wget ends.
EndFetch(r, f) ==
  /\ Store(f, IF WritesTo(r, f) THEN Finished(Stored(f)) ELSE Stored(f))
  /\ Writers(f, writer[f] \ {r})

FillDownload(r) ==
  LET i    == nth[r]
      f    == Downloads[i]
      next == IF f = Bump THEN "untar" ELSE IF i = Len(Downloads) THEN "clean" ELSE "open"
  IN /\ GotoItem(r, "fill", next, i + 1)
     /\ EndFetch(r, f)
     /\ UNCHANGED <<env, modes, squid, rebuild, faults>>

\* tar replaces the lists it can read from the archive and leaves the others.
Untar(r) ==
  /\ GotoItem(r, "untar", IF nth[r] > Len(Downloads) THEN "clean" ELSE "open", nth[r])
  /\ live' = [l \in Lists |-> IF l \in ArchiveLists /\ IsList(tmp[l])
                              THEN tmp[l] ELSE live[l]]
  /\ UNCHANGED <<tmp, writer, compiled, env, modes, squid, rebuild, faults>>

Unlink(fs) ==
  /\ tmp' = [f \in TmpFiles |-> IF f \in fs THEN Absent ELSE tmp[f]]
  /\ writer' = [f \in TmpFiles |-> IF f \in fs THEN {} ELSE writer[f]]

\* chown -R proxy:proxy (no mode changes) and removal of the archives.
CleanArchives(r) ==
  /\ GotoItem(r, "clean", "detect", 1)
  /\ Unlink(ArchiveLists)
  /\ UNCHANGED <<live, compiled, env, modes, squid, rebuild, faults>>

----------------------------------------------------------------------------
(* get-easylist.sh *)

\* Each failed detection is an exit; updateSquidGuard goes on after it.
Detect(r) ==
  /\ GotoItem(r, "detect", IF detectable THEN "wget" ELSE "tail", 1)
  /\ UNCHANGED <<env, files, modes, squid, rebuild, faults>>

\* wget -P never overwrites: when the name is taken the answer goes to
\* <name>.1, which nothing reads.  It creates the file when the server answers.
WgetAd(r) ==
  LET f       == Ads[nth[r]]
      creates == tmp[f] = Absent /\ Fetched # Empty
  IN /\ GotoItem(r, "wget", IF creates THEN "adFill" ELSE "grep", nth[r])
     /\ tmp' = IF creates THEN [tmp EXCEPT ![f] = Empty] ELSE tmp
     /\ writer' = IF creates THEN [writer EXCEPT ![f] = {r}] ELSE writer
     /\ UNCHANGED <<live, compiled, env, modes, squid, rebuild, faults>>

FillAd(r) ==
  /\ GotoItem(r, "adFill", "grep", nth[r])
  /\ EndFetch(r, Ads[nth[r]])
  /\ UNCHANGED <<env, modes, squid, rebuild, faults>>

\* The [Adblock ...] line is the first of a list; without it the script exits
\* and leaves /tmp/adblock behind.
GrepHeader(r) ==
  /\ GotoItem(r, "grep", IF IsList(tmp[Ads[nth[r]]]) THEN "sed" ELSE "tail", nth[r])
  /\ UNCHANGED <<env, files, modes, squid, rebuild, faults>>

\* The shell truncates the output file, then sed reads the input.
SedTruncate(r) ==
  /\ GotoItem(r, "sed", "sedWrite", nth[r])
  /\ live' = [live EXCEPT ![Ads[nth[r]]] = Empty]
  /\ UNCHANGED <<tmp, writer, compiled, env, modes, squid, rebuild, faults>>

SedWrite(r) ==
  LET f == Ads[nth[r]]
  IN /\ GotoItem(r, "sedWrite", IF nth[r] < Len(Ads) THEN "wget" ELSE "build", nth[r] + 1)
     /\ live' = [live EXCEPT ![f] = IF tmp[f] = Absent THEN Empty ELSE tmp[f]]
     /\ UNCHANGED <<tmp, writer, compiled, env, modes, squid, rebuild, faults>>

\* squidGuard -C all, run by root.
CompileLists == compiled' = [l \in Compiled |-> live[l]]

Build(r) ==
  /\ GotoItem(r, "build", "chmod", nth[r])
  /\ CompileLists
  /\ UNCHANGED <<tmp, writer, live, env, modes, squid, rebuild, faults>>

\* chmod -R 640 takes the search permission off the directories.  The log
\* directory of the next chmod comes from a variable nothing sets, so
\* chmod -R 644 goes to the directory d the update was started from.
Chmod(r, d) ==
  /\ GotoItem(r, "chmod", "own", nth[r])
  /\ readable' = FALSE
  /\ launchable' = (launchable /\ d # "scripts")
  /\ UNCHANGED <<files, env, squid, rebuild, faults>>

\* chown to the proxy user, then find ... chmod 755 on the directories.
ChownDirs(r) ==
  /\ GotoItem(r, "own", "reconf", nth[r])
  /\ readable' = TRUE
  /\ UNCHANGED <<launchable, files, env, squid, rebuild, faults>>

ReloadSquid(r) ==
  /\ GotoItem(r, "reconf", "rmTmp", nth[r])
  /\ Reconfigure
  /\ UNCHANGED <<env, files, modes, rebuild, faults>>

RemoveTmp(r) ==
  /\ GotoItem(r, "rmTmp", "tail", nth[r])
  /\ Unlink(AdLists)
  /\ UNCHANGED <<live, compiled, env, modes, squid, rebuild, faults>>

\* The end of updateSquidGuard, reached after every exit of get-easylist.sh.
FinalReload(r) ==
  /\ GotoItem(r, "tail", "idle", 1)
  /\ Reconfigure
  /\ UNCHANGED <<env, files, modes, rebuild, faults>>

RunStep(r) ==
  \/ OpenDownload(r) \/ FillDownload(r) \/ Untar(r) \/ CleanArchives(r)
  \/ Receive(r) \/ Detect(r) \/ WgetAd(r) \/ FillAd(r) \/ GrepHeader(r) \/ SedTruncate(r) \/ SedWrite(r)
  \/ Build(r) \/ (\E d \in WorkDirs : Chmod(r, d)) \/ ChownDirs(r) \/ ReloadSquid(r) \/ RemoveTmp(r)
  \/ FinalReload(r)

----------------------------------------------------------------------------
(* The rest of the appliance and the world *)

Publish ==
  /\ pub < MaxPub
  /\ pub' = pub + 1
  /\ UNCHANGED <<net, detectable, files, modes, squid, rebuild, pcs, faults>>

NetChange(n) ==
  /\ net # n
  /\ net' = n
  /\ UNCHANGED <<pub, detectable, files, modes, squid, rebuild, pcs, faults>>

\* A package upgrade takes the binaries away and brings them back.
Upgrade ==
  /\ detectable' = ~detectable
  /\ UNCHANGED <<pub, net, files, modes, squid, rebuild, pcs, faults>>

\* The package is installed again: its postinst makes the scripts executable.
Reinstall ==
  /\ launchable' = TRUE
  /\ UNCHANGED <<env, files, readable, squid, rebuild, pcs, faults>>

\* service squid start or restart: the new helpers read the files.
SquidStart ==
  /\ squidUp' = TRUE
  /\ loaded' = View
  /\ UNCHANGED <<env, files, modes, rebuild, pcs, faults>>

\* init.d/generateSquidGuardDB: squidGuard -C all as the proxy user, in the
\* background of the boot.  It cannot write below a directory it cannot enter.
BootRebuild ==
  /\ rebuild
  /\ rebuild' = FALSE
  /\ IF readable THEN CompileLists ELSE UNCHANGED compiled
  /\ UNCHANGED <<tmp, writer, live, env, modes, squid, pcs, faults>>

Kill(r) ==
  /\ at[r] # "idle" /\ faults < MaxFaults
  /\ GotoItem(r, at[r], "idle", 1)
  /\ faults' = faults + 1
  /\ writer' = [f \in TmpFiles |-> writer[f] \ {r}]
  /\ UNCHANGED <<env, tmp, live, compiled, modes, squid, rebuild>>

\* A power cut: /tmp is emptied, the lists and their modes stay as they were.
Reboot ==
  /\ faults < MaxFaults
  /\ faults' = faults + 1
  /\ at' = [r \in Runs |-> "idle"] /\ nth' = [r \in Runs |-> 1]
  /\ Unlink(TmpFiles)
  /\ squidUp' = FALSE
  /\ loaded' = [l \in ProxyLists |-> Absent]
  /\ rebuild' = TRUE
  /\ UNCHANGED <<env, live, compiled, modes>>

World ==
  \/ Publish \/ (\E n \in Nets : NetChange(n)) \/ Upgrade
  \/ Reinstall \/ SquidStart \/ BootRebuild \/ Reboot

Next ==
  \/ \E r \in Runs : Start(r) \/ RunStep(r) \/ Kill(r)
  \/ World

Spec == Init /\ [][Next]_vars

(***************************************************************************)
(* cron calls the script every day and the shell runs on; the boot starts  *)
(* squid and the background rebuild.                                       *)
(***************************************************************************)
Fairness ==
  /\ \A r \in Runs : /\ WF_vars(Start(r))
                     /\ WF_vars(RunStep(r))
  /\ WF_vars(~squidUp /\ SquidStart)
  /\ WF_vars(BootRebuild)

FairSpec == Spec /\ Fairness

----------------------------------------------------------------------------
(***************************************************************************)
(* Safety, for any number of overlapping runs.                             *)
(***************************************************************************)

\* The database is closed to the proxy user only while a run is between its
\* chmod and its find, unless a kill or a power cut has hit one there.
UnreadableOnlyInWindow ==
  readable \/ faults > 0 \/ \E r \in Runs : at[r] = "own"

\* What a run leaves in /tmp/adblock is read by the next one instead of its
\* own download: it is never older than the list made from it, so converting
\* it does not take an ad list back to an earlier version.
LeftoverNeverOlder ==
  \A f \in AdLists :
    IsList(tmp[f]) /\ IsList(live[f]) => live[f].ver <= tmp[f].ver

(***************************************************************************)
(* Safety, when no two runs overlap.                                       *)
(***************************************************************************)

\* A page that is no ad list is never converted: the header test and the
\* conversion look at the same file.
AdListsAreLists ==
  \A l \in AdLists : live[l].kind # "junk"

\* An ad list is empty only while the conversion writes it, unless a
\* conversion was cut off.
EmptyOnlyWhileConverting ==
  \A l \in AdLists : live[l] = Empty =>
    faults > 0 \/ \E r \in Runs : at[r] = "sedWrite" /\ Ads[nth[r]] = l

\* After the reload that ends a rebuild the proxy applies the lists that are
\* on the disk, the compiled ones included.
ReloadDelivers ==
  \A r \in Runs :
    at[r] = "rmTmp" /\ squidUp /\ (\A l \in SgLists : live[l] # Absent)
      => \A l \in ProxyLists : loaded[l] = live[l]

\* A file of /tmp/adblock that is no list - a portal page, or the empty file of
\* a download that was cut off - stops the update of that list and of all those
\* after it in urls.txt.
FrozenStep ==
  \A i \in DOMAIN Ads : tmp[Ads[i]] # Absent /\ ~IsList(tmp[Ads[i]]) =>
    \A j \in i .. Len(Ads) : live'[Ads[j]] = live[Ads[j]]
FrozenWhileJunk == [][FrozenStep]_vars

(***************************************************************************)
(* Liveness.                                                               *)
(***************************************************************************)

\* An earlier run has left a file that the header test refuses.
Blocked == \E f \in AdLists : tmp[f].kind \in {"empty", "junk"} /\ writer[f] = {}

\* Once the network stays up, the tools stay installed, the scripts stay
\* executable and nothing blocks /tmp/adblock, the proxy applies the newest
\* version of every list, again and again: a cut, a kill or a reboot before
\* that, and the part of a list one of them has left, cost at most some runs.
Fresh  == \A l \in ProxyLists : loaded[l] = Full(pub)
Calm   == net = "up" /\ detectable /\ launchable /\ ~Blocked
FreshFilter == <>[]Calm => []<>Fresh

=============================================================================
