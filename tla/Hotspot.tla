------------------------------- MODULE Hotspot -------------------------------
(***************************************************************************)
(* The configuration of the hotspot: the pages "Configure hotspot"         *)
(* (includes/hostapd.php) and "Configure DHCP server" (includes/dhcp.php)  *)
(* of the web interface, and the package upgrades that rewrite the same    *)
(* files (the postinst scripts of securitas-wall-host and securitas-wall). *)
(*                                                                         *)
(* The web server runs as www-data.  A request writes each file to a fixed *)
(* name in /tmp and copies it into place with "sudo cp".  Every browser    *)
(* session has its own PHP worker and nothing keeps two sessions, or a     *)
(* session and an upgrade, apart.  file_put_contents and cp truncate their *)
(* target before they write it, and cp reads its source in between.        *)
(***************************************************************************)
EXTENDS Naturals, FiniteSets

CONSTANTS
  Requests,   \* PHP workers
  MaxSubmits, \* bound: forms sent
  MaxUpgrades,\* bound: package upgrades
  MaxFaults,  \* bound: power cuts
  MaxSuffix   \* bound: random parts counted in a network name

ASSUME BoundsAssumption ==
  /\ MaxSubmits \in Nat /\ MaxUpgrades \in Nat /\ MaxFaults \in Nat
  /\ MaxSuffix \in Nat \ {0}

Files == {"hostapd", "dnsmasq", "dhcpcd"}

(***************************************************************************)
(* The contents of the files, as far as the hotspot depends on them.  "ap" *)
(* says that a file is written for the access point interface uap0 next to *)
(* a Wi-Fi client, as opposed to wlan0.                                    *)
(***************************************************************************)
Ranges == {"none", "lanDefault", "apDefault", "chosen"}
Names  == [brand : BOOLEAN, suffix : 0 .. MaxSuffix]  \* SecureWall, with random parts

ShippedName == [brand |-> TRUE,  suffix |-> 0]
OwnName     == [brand |-> FALSE, suffix |-> 0]

\* Only hostapd.conf has a name, only dnsmasq.conf a range.  "marked" are
\* hostapd.conf with #wifi_random_added and dhcpcd.conf with denyinterfaces.
Contents == [kind : {"empty", "text"}, ap : BOOLEAN, name : Names, marked : BOOLEAN,
             range : Ranges]

\* No file, or a truncated one.
Empty == [kind |-> "empty", ap |-> FALSE, name |-> OwnName, marked |-> FALSE,
          range |-> "none"]

TextOf(f, ap, name, range) ==
  [kind |-> "text", ap |-> ap,
   name   |-> IF f = "hostapd" THEN name ELSE OwnName,
   marked |-> FALSE,
   range  |-> IF f = "dnsmasq" THEN range ELSE "none"]

Shipped(f) == TextOf(f, FALSE, ShippedName, "none")

Forms == [page : {"hotspot", "dhcp"}, ap : BOOLEAN, ok : BOOLEAN, name : Names]

VARIABLES
  stage,    \* /tmp/hostapddata, /tmp/dnsmasqdata, /tmp/dhcpddata
  conf,     \* /etc/hostapd/hostapd.conf, /etc/dnsmasq.conf, /etc/dhcpcd.conf
  ini,      \* WifiAPEnable in /etc/raspap/hostapd.ini
  at,       \* the next step of each request
  file,     \* the file a request is working on
  form,     \* what the user has sent
  lease,    \* the dhcp-range a request writes
  buf,      \* what the cp of a request has read
  astray,   \* the cp of a request holds a file that has been replaced
  alone,    \* a request has had no company since it began
  up,       \* the next step of the package upgrade
  seen,     \* what the sed of the upgrade has read
  picked,   \* a range was set on the DHCP page, undisturbed, and is in force
  submits, upgrades, faults

locals  == <<file, form, lease, buf, astray>>
upgrade == <<up, seen>>
bounds  == <<submits, upgrades, faults>>
vars    == <<stage, conf, ini, at, file, form, lease, buf, astray, alone,
             up, seen, picked, submits, upgrades, faults>>

RequestSteps == {"idle", "ini", "range", "put", "fill", "open", "read", "write", "report"}
UpgradeSteps == {"idle", "hostOpen", "hostWrite", "grep", "sed", "rename", "mark",
                 "deny", "wallOpen", "wallWrite"}

TypeOK ==
  /\ stage \in [Files -> Contents] /\ conf \in [Files -> Contents]
  /\ ini \in BOOLEAN
  /\ at \in [Requests -> RequestSteps] /\ file \in [Requests -> Files]
  /\ form \in [Requests -> Forms] /\ lease \in [Requests -> Ranges]
  /\ buf \in [Requests -> Contents]
  /\ \A r \in Requests : buf[r] # Empty => at[r] = "write"
  /\ astray \in [Requests -> BOOLEAN] /\ alone \in [Requests -> BOOLEAN]
  /\ up \in UpgradeSteps /\ seen \in Contents
  /\ picked \in BOOLEAN
  /\ submits \in 0 .. MaxSubmits /\ upgrades \in 0 .. MaxUpgrades
  /\ faults \in 0 .. MaxFaults

Busy  == {r \in Requests : at[r] # "idle"}
Quiet == Busy = {} /\ up = "idle"

Init ==
  /\ stage = [f \in Files |-> Empty]
  /\ conf = [f \in Files |-> Shipped(f)]
  /\ ini = FALSE
  /\ at = [r \in Requests |-> "idle"] /\ file = [r \in Requests |-> "hostapd"]
  /\ form = [r \in Requests |-> [page |-> "hotspot", ap |-> FALSE, ok |-> TRUE,
                                 name |-> ShippedName]]
  /\ lease = [r \in Requests |-> "none"] /\ buf = [r \in Requests |-> Empty]
  /\ astray = [r \in Requests |-> FALSE] /\ alone = [r \in Requests |-> FALSE]
  /\ up = "idle" /\ seen = Empty
  /\ picked = FALSE
  /\ submits = 0 /\ upgrades = 0 /\ faults = 0

----------------------------------------------------------------------------
(* Variants of the definitions below with a mistake in them, for the       *)
(* mutation runs.                                                          *)

\* The default of the other mode is kept, the own one replaced.
RangeForSwapped(ap, old) ==
  IF old \in {"none", IF ap THEN "apDefault" ELSE "lanDefault"}
  THEN IF ap THEN "apDefault" ELSE "lanDefault" ELSE old

\* The range in the file is ignored.
RangeForAlways(ap, old) == IF ap THEN "apDefault" ELSE "lanDefault"

\* One buffer for all files.
TurnOnly(r, f) == /\ file' = [file EXCEPT ![r] = f]
                  /\ UNCHANGED buf

----------------------------------------------------------------------------
(* Files *)

\* A text written over one that another process has put there since the file
\* was truncated: the end of the longer one shows, and decides what is read.
Overlay(old, new) == IF old = Empty THEN {new} ELSE {old, new}

\* A cp that has read nothing writes nothing.
Written(old, new) == IF new = Empty THEN {old} ELSE Overlay(old, new)

Default(ap) == IF ap THEN "apDefault" ELSE "lanDefault"

\* The dhcp-range that is in the file stays, except for the default of the
\* other mode.
RangeFor(ap, old) == IF old \in {"none", Default(~ap)} THEN Default(ap) ELSE old

ReadRange == conf["dnsmasq"].range

\* What a request writes to a file.
Made(r, f) == TextOf(f, form[r].ap, form[r].name, lease[r])

\* What follows the copy of a file.
After(r) ==
  IF form[r].page = "dhcp" THEN "report"
  ELSE IF file[r] = "hostapd" THEN "range"
  ELSE IF file[r] = "dnsmasq" THEN "put"
  ELSE "report"

NextFile(r) == IF form[r].page = "hotspot" /\ file[r] = "dnsmasq" THEN "dhcpcd" ELSE file[r]

Goto(r, from, to) ==
  /\ at[r] = from
  /\ at' = [at EXCEPT ![r] = to]

Turn(r, f) == /\ file' = [file EXCEPT ![r] = f]
              /\ buf' = [buf EXCEPT ![r] = Empty]

----------------------------------------------------------------------------
(* A request *)

\* A request that begins is alone when nothing else runs, and disturbs what runs.
Enter(r) ==
  /\ submits < MaxSubmits /\ submits' = submits + 1
  /\ alone' = [q \in Requests |-> q = r /\ Quiet]
  /\ picked' = (picked /\ Quiet)
  /\ astray' = [astray EXCEPT ![r] = FALSE]
  /\ UNCHANGED <<stage, conf, ini, upgrade, upgrades, faults>>

\* The page shows the name that is in the file; the user keeps or replaces it.
NamesOffered == {OwnName} \union (IF conf["hostapd"] = Empty THEN {}
                                  ELSE {conf["hostapd"].name})

SubmitHotspot(r, ap, ok, name) ==
  /\ Goto(r, "idle", "ini")
  /\ form' = [form EXCEPT ![r] = [page |-> "hotspot", ap |-> ap, ok |-> ok, name |-> name]]
  /\ lease' = [lease EXCEPT ![r] = "none"]
  /\ Turn(r, "hostapd")
  /\ Enter(r)

SubmitDhcp(r, ap, g) ==
  /\ Goto(r, "idle", "put")
  /\ form' = [form EXCEPT ![r] = [page |-> "dhcp", ap |-> ap, ok |-> TRUE, name |-> OwnName]]
  /\ lease' = [lease EXCEPT ![r] = g]
  /\ Turn(r, "dnsmasq")
  /\ Enter(r)

\* hostapd.ini is written before the form is verified.
WriteIni(r) ==
  /\ Goto(r, "ini", IF form[r].ok THEN "put" ELSE "idle")
  /\ ini' = form[r].ap
  /\ UNCHANGED <<stage, conf, locals, alone, upgrade, picked, bounds>>

FetchRange(r) ==
  /\ Goto(r, "range", "put")
  /\ lease' = [lease EXCEPT ![r] = RangeFor(form[r].ap, ReadRange)]
  /\ Turn(r, "dnsmasq")
  /\ UNCHANGED <<stage, conf, ini, form, astray, alone, upgrade, picked, bounds>>

\* file_put_contents
Put(r) ==
  /\ Goto(r, "put", "fill")
  /\ stage' = [stage EXCEPT ![file[r]] = Empty]
  /\ UNCHANGED <<conf, ini, locals, alone, upgrade, picked, bounds>>

Fill(r) ==
  /\ Goto(r, "fill", "open")
  /\ \E c \in Overlay(stage[file[r]], Made(r, file[r])) :
       stage' = [stage EXCEPT ![file[r]] = c]
  /\ UNCHANGED <<conf, ini, locals, alone, upgrade, picked, bounds>>

\* sudo cp
Open(r) ==
  /\ Goto(r, "open", "read")
  /\ conf' = [conf EXCEPT ![file[r]] = Empty]
  /\ UNCHANGED <<stage, ini, locals, alone, upgrade, picked, bounds>>

\* A variant with a mistake: the staging file is removed once it has been read.
ReadAndRemove(r) ==
  /\ Goto(r, "read", "write")
  /\ buf' = [buf EXCEPT ![r] = stage[file[r]]]
  /\ stage' = [stage EXCEPT ![file[r]] = Empty]
  /\ UNCHANGED <<conf, ini, file, form, lease, astray, alone, upgrade, picked, bounds>>

Read(r) ==
  /\ Goto(r, "read", "write")
  /\ buf' = [buf EXCEPT ![r] = stage[file[r]]]
  /\ UNCHANGED <<stage, conf, ini, file, form, lease, astray, alone, upgrade, picked, bounds>>

Write(r) ==
  /\ Goto(r, "write", After(r))
  /\ IF astray[r] THEN UNCHANGED conf
     ELSE \E c \in Written(conf[file[r]], buf[r]) : conf' = [conf EXCEPT ![file[r]] = c]
  /\ picked' = IF form[r].page = "dhcp" THEN alone[r] /\ lease[r] = "chosen" ELSE picked
  /\ astray' = [astray EXCEPT ![r] = FALSE]
  /\ Turn(r, NextFile(r))
  /\ UNCHANGED <<stage, ini, form, lease, alone, upgrade, bounds>>

Report(r) ==
  /\ Goto(r, "report", "idle")
  /\ UNCHANGED <<stage, conf, ini, locals, alone, upgrade, picked, bounds>>

Request(r) ==
  \/ \E ap, ok \in BOOLEAN, name \in NamesOffered : SubmitHotspot(r, ap, ok, name)
  \/ \E ap \in BOOLEAN, g \in {"lanDefault", "chosen"} : SubmitDhcp(r, ap, g)
  \/ WriteIni(r) \/ FetchRange(r) \/ Put(r) \/ Fill(r)
  \/ Open(r) \/ Read(r) \/ Write(r) \/ Report(r)

----------------------------------------------------------------------------
(* A package upgrade: dpkg runs one at a time. *)

UpGoto(from, to) == up = from /\ up' = to

StartUpgrade(package) ==
  /\ upgrades < MaxUpgrades /\ upgrades' = upgrades + 1
  /\ UpGoto("idle", IF package = "host" THEN "hostOpen" ELSE "wallOpen")
  /\ alone' = [r \in Requests |-> FALSE]
  /\ picked' = (picked /\ package = "host")
  /\ UNCHANGED <<stage, conf, ini, at, locals, seen, submits, faults>>

\* cp -ru replaces hostapd.conf when the template is the newer file.
HostOpen(newer) ==
  /\ UpGoto("hostOpen", IF newer THEN "hostWrite" ELSE "grep")
  /\ conf' = IF newer THEN [conf EXCEPT !["hostapd"] = Empty] ELSE conf
  /\ UNCHANGED <<stage, ini, at, locals, alone, seen, picked, bounds>>

CopyShipped(f, from, to) ==
  /\ UpGoto(from, to)
  /\ \E c \in Overlay(conf[f], Shipped(f)) : conf' = [conf EXCEPT ![f] = c]
  /\ UNCHANGED <<stage, ini, at, locals, alone, seen, picked, bounds>>
HostWrite == CopyShipped("hostapd", "hostWrite", "grep")

\* A marked file already has its generated name.
Grep ==
  /\ UpGoto("grep", IF conf["hostapd"].marked THEN "deny" ELSE "sed")
  /\ UNCHANGED <<stage, conf, ini, at, locals, alone, seen, picked, bounds>>

\* sed -i reads the file, and renames its edited copy over it.
Sed ==
  /\ UpGoto("sed", "rename")
  /\ seen' = conf["hostapd"]
  /\ UNCHANGED <<stage, conf, ini, at, locals, alone, picked, bounds>>

Randomised(name) ==
  IF name.brand /\ name.suffix < MaxSuffix THEN [name EXCEPT !.suffix = @ + 1] ELSE name

\* A cp that has the old file open goes on writing to that.
Rename ==
  /\ UpGoto("rename", "mark")
  /\ conf' = [conf EXCEPT !["hostapd"] =
                IF seen = Empty THEN Empty ELSE [seen EXCEPT !.name = Randomised(@)]]
  /\ astray' = [r \in Requests |->
                 astray[r] \/ (at[r] \in {"read", "write"} /\ file[r] = "hostapd")]
  /\ seen' = Empty
  /\ UNCHANGED <<stage, ini, at, file, form, lease, buf, alone, picked, bounds>>

\* What is appended to a truncated file is overwritten by whoever truncated it.
AppendTo(f, from, to) ==
  /\ UpGoto(from, to)
  /\ conf' = IF conf[f] = Empty THEN conf ELSE [conf EXCEPT ![f].marked = TRUE]
  /\ UNCHANGED <<stage, ini, at, locals, alone, seen, picked, bounds>>

Mark == AppendTo("hostapd", "mark", "deny")
Deny == AppendTo("dhcpcd", "deny", "idle")

\* cp -r replaces dnsmasq.conf every time.
WallOpen ==
  /\ UpGoto("wallOpen", "wallWrite")
  /\ conf' = [conf EXCEPT !["dnsmasq"] = Empty]
  /\ UNCHANGED <<stage, ini, at, locals, alone, seen, picked, bounds>>

WallWrite == CopyShipped("dnsmasq", "wallWrite", "idle")

Upgrade ==
  \/ \E package \in {"host", "wall"} : StartUpgrade(package)
  \/ \E newer \in BOOLEAN : HostOpen(newer)
  \/ HostWrite \/ Grep \/ Sed \/ Rename \/ Mark \/ Deny \/ WallOpen \/ WallWrite

----------------------------------------------------------------------------
\* A power cut: /tmp is emptied, the rest stays as it was.
PowerCut ==
  /\ faults < MaxFaults /\ faults' = faults + 1
  /\ at' = [r \in Requests |-> "idle"] /\ up' = "idle"
  /\ stage' = [f \in Files |-> Empty]
  /\ buf' = [r \in Requests |-> Empty]
  /\ astray' = [r \in Requests |-> FALSE]
  /\ picked' = (picked /\ Quiet)
  /\ UNCHANGED <<conf, ini, file, form, lease, alone, seen, submits, upgrades>>

Next == (\E r \in Requests : Request(r)) \/ Upgrade \/ PowerCut

Spec == Init /\ [][Next]_vars

----------------------------------------------------------------------------
(***************************************************************************)
(* Safety.                                                                 *)
(***************************************************************************)

\* However many requests overlap and share the files of /tmp: when all are
\* done no file they install is left empty, because everyone copies after
\* having written.  Only an upgrade that edits hostapd.conf can take the file
\* away from under a copy, and only a power cut can stop one half-way.
NeverLeftEmpty ==
  Quiet /\ faults = 0 =>
    \A f \in Files : (f = "hostapd" /\ upgrades > 0) \/ conf[f] # Empty

\* A save that had no company leaves the three files in the mode that was
\* asked for, whatever an earlier power cut or overlap has left in them, and
\* the address range is never the default of the other mode.
SavedTogether ==
  \A r \in Requests :
    at[r] = "report" /\ alone[r] /\ form[r].page = "hotspot" =>
      /\ \A f \in Files : conf[f] # Empty /\ conf[f].ap = form[r].ap
      /\ conf["dnsmasq"].range \in {Default(form[r].ap), "chosen"}
      /\ conf["hostapd"].name = form[r].name
      /\ ini = form[r].ap

\* An address range set on the DHCP page stays in force through any number of
\* later saves of the hotspot page and changes of mode, as long as nothing
\* disturbs them and the package that ships dnsmasq.conf is not upgraded.
RangeKept ==
  picked =>
    \/ conf["dnsmasq"].range = "chosen"
    \/ \E r \in Requests : file[r] = "dnsmasq" /\ at[r] \in {"read", "write"}

=============================================================================
