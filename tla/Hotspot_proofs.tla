--------------------------- MODULE Hotspot_proofs ---------------------------
(***************************************************************************)
(* Theorems about Hotspot, for any number of requests, upgrades and power  *)
(* cuts.                                                                   *)
(***************************************************************************)
EXTENDS Hotspot, TLAPS

LEMMA NamesAreNames == ShippedName \in Names /\ OwnName \in Names
BY BoundsAssumption DEF ShippedName, OwnName, Names

LEMMA EmptyIsContents == Empty \in Contents
BY BoundsAssumption DEF Empty, Contents, Names, OwnName, Ranges

LEMMA TextIsContents ==
  ASSUME NEW f \in Files, NEW ap \in BOOLEAN, NEW name \in Names, NEW g \in Ranges
  PROVE  TextOf(f, ap, name, g) \in Contents /\ TextOf(f, ap, name, g) # Empty
BY BoundsAssumption DEF TextOf, Empty, Contents, Names, OwnName, Ranges

LEMMA ShippedIsContents ==
  ASSUME NEW f \in Files PROVE Shipped(f) \in Contents /\ Shipped(f) # Empty
<1>1. "none" \in Ranges /\ FALSE \in BOOLEAN
  BY DEF Ranges
<1> QED BY <1>1, TextIsContents, NamesAreNames DEF Shipped

LEMMA MadeIsContents ==
  ASSUME TypeOK, NEW r \in Requests, NEW f \in Files
  PROVE  Made(r, f) \in Contents /\ Made(r, f) # Empty
BY TextIsContents DEF TypeOK, Made, Forms

LEMMA RandomisedName ==
  ASSUME NEW n \in Names PROVE Randomised(n) \in Names
BY BoundsAssumption DEF Randomised, Names

LEMMA RangeForRange ==
  ASSUME NEW ap \in BOOLEAN, NEW g \in Ranges
  PROVE  RangeFor(ap, g) \in {Default(ap), "chosen"} /\ RangeFor(ap, g) \in Ranges
BY DEF RangeFor, Default, Ranges

----------------------------------------------------------------------------
LEMMA TypeStep == TypeOK /\ [Next]_vars => TypeOK'
<1> SUFFICES ASSUME TypeOK, [Next]_vars PROVE TypeOK'
  OBVIOUS
<1> USE EmptyIsContents
    DEF TypeOK, Goto, Turn, Enter, UpGoto, locals, upgrade, bounds, RequestSteps, UpgradeSteps
<1>1. ASSUME NEW r \in Requests, NEW ap \in BOOLEAN, NEW ok \in BOOLEAN,
             NEW name \in NamesOffered, SubmitHotspot(r, ap, ok, name)
      PROVE  TypeOK'
  <2>1. name \in Names
    <3>1. conf["hostapd"].name \in Names
      BY DEF Contents, Files
    <3> QED BY <3>1, NamesAreNames DEF NamesOffered
  <2> QED BY <1>1, <2>1, BoundsAssumption DEF SubmitHotspot, Forms, Files, Ranges
<1>2. ASSUME NEW r \in Requests, NEW ap \in BOOLEAN, NEW g \in {"lanDefault", "chosen"},
             SubmitDhcp(r, ap, g)
      PROVE  TypeOK'
  <2>1. OwnName \in Names
    BY BoundsAssumption DEF Names, OwnName
  <2> QED BY <1>2, <2>1, BoundsAssumption DEF SubmitDhcp, Forms, Files, Ranges
<1>3. ASSUME NEW r \in Requests, WriteIni(r) PROVE TypeOK'
  BY <1>3 DEF WriteIni, Forms
<1>4. ASSUME NEW r \in Requests, FetchRange(r) PROVE TypeOK'
  <2>1. RangeFor(form[r].ap, ReadRange) \in Ranges
    BY RangeForRange DEF ReadRange, Contents, Forms, Files
  <2> QED BY <1>4, <2>1 DEF FetchRange, Files
<1>5. ASSUME NEW r \in Requests, Put(r) PROVE TypeOK'
  BY <1>5 DEF Put
<1>6. ASSUME NEW r \in Requests, Fill(r) PROVE TypeOK'
  BY <1>6, MadeIsContents DEF Fill, Overlay
<1>7. ASSUME NEW r \in Requests, Open(r) PROVE TypeOK'
  BY <1>7 DEF Open
<1>8. ASSUME NEW r \in Requests, Read(r) PROVE TypeOK'
  BY <1>8 DEF Read
<1>9. ASSUME NEW r \in Requests, Write(r) PROVE TypeOK'
  <2>1. conf' \in [Files -> Contents]
    <3>1. CASE astray[r] BY <1>9, <3>1 DEF Write
    <3>2. ASSUME NEW c \in Written(conf[file[r]], buf[r]), conf' = [conf EXCEPT ![file[r]] = c]
          PROVE  conf' \in [Files -> Contents]
      BY <3>2 DEF Written, Overlay
    <3> QED BY <1>9, <3>1, <3>2 DEF Write
  <2>2. picked' \in BOOLEAN
    <3>1. CASE form[r].page = "dhcp" BY <1>9, <3>1 DEF Write
    <3> QED BY <1>9, <3>1 DEF Write
  <2>3. NextFile(r) \in Files
    BY DEF NextFile, Files
  <2>4. After(r) \in RequestSteps
    BY DEF After
  <2> QED BY <1>9, <2>1, <2>2, <2>3, <2>4 DEF Write
<1>10. ASSUME NEW r \in Requests, Report(r) PROVE TypeOK'
  BY <1>10 DEF Report
<1>11. ASSUME NEW package \in {"host", "wall"}, StartUpgrade(package) PROVE TypeOK'
  BY <1>11, BoundsAssumption DEF StartUpgrade
<1>12. ASSUME NEW newer \in BOOLEAN, HostOpen(newer) PROVE TypeOK'
  BY <1>12 DEF HostOpen
<1>13. ASSUME HostWrite PROVE TypeOK'
  BY <1>13, ShippedIsContents DEF HostWrite, CopyShipped, Overlay, Files
<1>14. ASSUME Grep PROVE TypeOK'
  BY <1>14 DEF Grep
<1>15. ASSUME Sed PROVE TypeOK'
  BY <1>15 DEF Sed, Files
<1>16. ASSUME Rename PROVE TypeOK'
  <2>1. [seen EXCEPT !.name = Randomised(@)] \in Contents
    BY RandomisedName DEF Contents
  <2> QED BY <1>16, <2>1 DEF Rename
<1>17. ASSUME NEW f \in Files, NEW from \in UpgradeSteps, NEW to \in UpgradeSteps,
              AppendTo(f, from, to)
       PROVE  TypeOK'
  <2>1. [conf[f] EXCEPT !.marked = TRUE] \in Contents
    BY DEF Contents
  <2>2. conf' = conf \/ conf' = [conf EXCEPT ![f] = [conf[f] EXCEPT !.marked = TRUE]]
    BY <1>17 DEF AppendTo
  <2> QED BY <1>17, <2>1, <2>2 DEF AppendTo
<1>18. ASSUME WallOpen PROVE TypeOK'
  BY <1>18 DEF WallOpen
<1>19. ASSUME WallWrite PROVE TypeOK'
  BY <1>19, ShippedIsContents DEF WallWrite, CopyShipped, Overlay, Files
<1>20. ASSUME PowerCut PROVE TypeOK'
  BY <1>20, BoundsAssumption DEF PowerCut
<1>21. CASE UNCHANGED vars
  BY <1>21 DEF vars
<1> QED
  BY <1>1, <1>2, <1>3, <1>4, <1>5, <1>6, <1>7, <1>8, <1>9, <1>10, <1>11, <1>12, <1>13,
     <1>14, <1>15, <1>16, <1>17, <1>18, <1>19, <1>20, <1>21 DEF Next, Request, Upgrade, Mark, Deny, Files, UpgradeSteps

(***************************************************************************)
(* The variables keep their types, and a copy holds data only between its  *)
(* read and its write.                                                     *)
(***************************************************************************)
THEOREM TypeInvariant == Spec => []TypeOK
<1>1. Init => TypeOK
  <2> SUFFICES ASSUME Init PROVE TypeOK
    OBVIOUS
  <2>1. stage \in [Files -> Contents] /\ conf \in [Files -> Contents]
    BY EmptyIsContents, ShippedIsContents DEF Init
  <2>2. form \in [Requests -> Forms]
    BY NamesAreNames DEF Init, Forms
  <2>3. submits \in 0 .. MaxSubmits /\ upgrades \in 0 .. MaxUpgrades /\ faults \in 0 .. MaxFaults
    BY BoundsAssumption DEF Init
  <2>4. /\ buf \in [Requests -> Contents] /\ seen \in Contents
        /\ \A r \in Requests : buf[r] # Empty => at[r] = "write"
    BY EmptyIsContents DEF Init
  <2>5. /\ at \in [Requests -> RequestSteps] /\ file \in [Requests -> Files]
        /\ lease \in [Requests -> Ranges] /\ up \in UpgradeSteps
    BY DEF Init, Files, Ranges, RequestSteps, UpgradeSteps
  <2>6. /\ astray \in [Requests -> BOOLEAN] /\ alone \in [Requests -> BOOLEAN]
        /\ ini \in BOOLEAN /\ picked \in BOOLEAN
    BY DEF Init
  <2> QED BY <2>1, <2>2, <2>3, <2>4, <2>5, <2>6 DEF TypeOK
<1> QED BY <1>1, TypeStep, PTL DEF Spec

----------------------------------------------------------------------------
(***************************************************************************)
(* Why no file is left empty: whoever truncates a file has staged a text   *)
(* before and copies it afterwards; and when the staged text is gone, then *)
(* because somebody else is about to stage one, who will copy it too.      *)
(***************************************************************************)
Pending(f) ==
  \E r \in Requests :
    /\ file[r] = f
    /\ \/ at[r] \in {"fill", "open", "read"}
       \/ at[r] = "write" /\ buf[r] # Empty /\ ~astray[r]

AstrayInv == \A r \in Requests :
  astray[r] => at[r] \in {"read", "write"} /\ file[r] = "hostapd" /\ upgrades > 0
UpgradeInv == up # "idle" => upgrades > 0
StagedInv == \A r \in Requests :
  at[r] \in {"open", "read"} /\ stage[file[r]] = Empty =>
    \E q \in Requests : file[q] = file[r] /\ at[q] = "fill"
ConfInv == \A f \in Files :
  faults = 0 /\ conf[f] = Empty =>
    \/ f = "hostapd" /\ upgrades > 0
    \/ f = "dnsmasq" /\ up = "wallWrite"
    \/ Pending(f)
FileInv == AstrayInv /\ UpgradeInv /\ StagedInv /\ ConfInv

LEMMA FileStep == TypeOK /\ TypeOK' /\ FileInv /\ [Next]_vars => FileInv'
<1> SUFFICES ASSUME TypeOK, TypeOK', FileInv, [Next]_vars PROVE FileInv'
  OBVIOUS
<1> USE DEF TypeOK, FileInv, AstrayInv, UpgradeInv, StagedInv, ConfInv, Pending,
            Goto, Turn, Enter, UpGoto, locals, upgrade, bounds
<1>1. ASSUME NEW r \in Requests, NEW ap \in BOOLEAN, NEW ok \in BOOLEAN,
             NEW name \in NamesOffered, SubmitHotspot(r, ap, ok, name)
      PROVE  FileInv'
  BY <1>1 DEF SubmitHotspot
<1>2. ASSUME NEW r \in Requests, NEW ap \in BOOLEAN, NEW g \in {"lanDefault", "chosen"},
             SubmitDhcp(r, ap, g)
      PROVE  FileInv'
  BY <1>2 DEF SubmitDhcp
<1>3. ASSUME NEW r \in Requests, WriteIni(r) PROVE FileInv'
  BY <1>3 DEF WriteIni
<1>4. ASSUME NEW r \in Requests, FetchRange(r) PROVE FileInv'
  BY <1>4 DEF FetchRange
<1>5. ASSUME NEW r \in Requests, Put(r) PROVE FileInv'
  BY <1>5 DEF Put
<1>6. ASSUME NEW r \in Requests, Fill(r) PROVE FileInv'
  <2>1. stage'[file[r]] # Empty
    BY <1>6, MadeIsContents DEF Fill, Overlay
  <2>2. \A f \in Files : f # file[r] => stage'[f] = stage[f]
    BY <1>6 DEF Fill
  <2>3. StagedInv'
    BY <1>6, <2>1, <2>2 DEF Fill
  <2>4. ConfInv'
    BY <1>6 DEF Fill
  <2> QED BY <1>6, <2>3, <2>4 DEF Fill
<1>7. ASSUME NEW r \in Requests, Open(r) PROVE FileInv'
  BY <1>7 DEF Open
<1>8. ASSUME NEW r \in Requests, Read(r) PROVE FileInv'
  <2>1. StagedInv'
    BY <1>8 DEF Read
  <2>2. ConfInv'
    <3> SUFFICES ASSUME NEW f \in Files, faults = 0, conf[f] = Empty,
                        ~(f = "hostapd" /\ upgrades > 0),
                        ~(f = "dnsmasq" /\ up = "wallWrite")
                 PROVE  Pending(f)'
      BY <1>8 DEF Read
    <3>1. CASE file[r] = f /\ stage[f] = Empty
      <4>1. PICK q \in Requests : file[q] = f /\ at[q] = "fill"
        BY <1>8, <3>1 DEF Read
      <4> QED BY <1>8, <4>1 DEF Read
    <3>2. CASE file[r] = f /\ stage[f] # Empty
      BY <1>8, <3>2 DEF Read
    <3>3. CASE file[r] # f
      BY <1>8, <3>3 DEF Read
    <3> QED BY <3>1, <3>2, <3>3
  <2> QED BY <1>8, <2>1, <2>2 DEF Read
<1>9. ASSUME NEW r \in Requests, Write(r) PROVE FileInv'
  <2>1. \A f \in Files : f # file[r] => conf'[f] = conf[f]
    BY <1>9 DEF Write
  <2>2. After(r) \notin {"fill", "open", "read", "write"}
    BY DEF After
  <2>3. conf'[file[r]] = Empty => conf[file[r]] = Empty /\ (buf[r] = Empty \/ astray[r])
    <3>1. CASE astray[r] BY <1>9, <3>1 DEF Write
    <3>2. ASSUME NEW c \in Written(conf[file[r]], buf[r]), ~astray[r],
                 conf' = [conf EXCEPT ![file[r]] = c]
          PROVE  conf'[file[r]] = Empty => conf[file[r]] = Empty /\ buf[r] = Empty
      BY <3>2 DEF Written, Overlay
    <3> QED BY <1>9, <3>1, <3>2 DEF Write
  <2>4. ConfInv'
    <3> SUFFICES ASSUME NEW f \in Files, faults = 0, conf'[f] = Empty,
                        ~(f = "hostapd" /\ upgrades > 0),
                        ~(f = "dnsmasq" /\ up = "wallWrite")
                 PROVE  Pending(f)'
      BY <1>9 DEF Write
    <3>1. conf[f] = Empty
      BY <2>1, <2>3
    <3>2. PICK q \in Requests : /\ file[q] = f
                                /\ \/ at[q] \in {"fill", "open", "read"}
                                   \/ at[q] = "write" /\ buf[q] # Empty /\ ~astray[q]
      BY <3>1
    <3>3. q # r
      BY <1>9, <2>3, <3>2 DEF Write
    <3> QED BY <1>9, <3>2, <3>3 DEF Write
  <2>5. StagedInv' /\ AstrayInv' /\ UpgradeInv'
    BY <1>9, <2>2 DEF Write
  <2> QED BY <2>4, <2>5
<1>10. ASSUME NEW r \in Requests, Report(r) PROVE FileInv'
  BY <1>10 DEF Report
<1>11. ASSUME NEW package \in {"host", "wall"}, StartUpgrade(package) PROVE FileInv'
  BY <1>11, BoundsAssumption DEF StartUpgrade
<1>12. ASSUME NEW newer \in BOOLEAN, HostOpen(newer) PROVE FileInv'
  BY <1>12 DEF HostOpen
<1>13. ASSUME HostWrite PROVE FileInv'
  BY <1>13 DEF HostWrite, CopyShipped, Files
<1>14. ASSUME Grep PROVE FileInv'
  BY <1>14 DEF Grep
<1>15. ASSUME Sed PROVE FileInv'
  BY <1>15 DEF Sed
<1>16. ASSUME Rename PROVE FileInv'
  BY <1>16 DEF Rename
<1>17. ASSUME NEW f \in Files, NEW from \in UpgradeSteps \ {"idle", "wallWrite"}, NEW to \in UpgradeSteps,
              AppendTo(f, from, to)
       PROVE  FileInv'
  <2>1. conf'[f] = Empty => conf[f] = Empty
    <3>1. [conf[f] EXCEPT !.marked = TRUE] # Empty
      BY DEF Contents, Empty
    <3>2. conf[f] # Empty => conf'[f] = [conf[f] EXCEPT !.marked = TRUE]
      BY <1>17 DEF AppendTo
    <3> QED BY <3>1, <3>2
  <2>2. \A h \in Files : h # f => conf'[h] = conf[h]
    BY <1>17 DEF AppendTo
  <2> QED BY <1>17, <2>1, <2>2 DEF AppendTo
<1>18. ASSUME WallOpen PROVE FileInv'
  BY <1>18 DEF WallOpen
<1>19. ASSUME WallWrite PROVE FileInv'
  <2>1. conf'["dnsmasq"] # Empty
    BY <1>19, ShippedIsContents DEF WallWrite, CopyShipped, Overlay, Files
  <2>2. \A f \in Files : f # "dnsmasq" => conf'[f] = conf[f]
    BY <1>19 DEF WallWrite, CopyShipped
  <2> QED BY <1>19, <2>1, <2>2 DEF WallWrite, CopyShipped
<1>20. ASSUME PowerCut PROVE FileInv'
  BY <1>20 DEF PowerCut
<1>21. CASE UNCHANGED vars
  BY <1>21 DEF vars
<1> QED
  BY <1>1, <1>2, <1>3, <1>4, <1>5, <1>6, <1>7, <1>8, <1>9, <1>10, <1>11, <1>12, <1>13,
     <1>14, <1>15, <1>16, <1>17, <1>18, <1>19, <1>20, <1>21 DEF Next, Request, Upgrade, Mark, Deny, Files, UpgradeSteps

(***************************************************************************)
(* Any number of requests may overlap, with each other and with upgrades:  *)
(* when all are done, no file that they install is empty (hostapd.conf     *)
(* excepted when there was an upgrade, which renames a file over it).      *)
(***************************************************************************)
THEOREM OverlapLeavesNoEmptyFile == Spec => []NeverLeftEmpty
<1>1. Init => FileInv
  BY ShippedIsContents DEF Init, FileInv, AstrayInv, UpgradeInv, StagedInv, ConfInv
<1>2. FileInv => NeverLeftEmpty
  BY DEF FileInv, ConfInv, Pending, NeverLeftEmpty, Quiet, Busy
<1> QED BY <1>1, <1>2, TypeInvariant, FileStep, PTL DEF Spec

----------------------------------------------------------------------------
(***************************************************************************)
(* What a request relies on as long as nothing disturbs it.  A request is  *)
(* undisturbed when it has been alone since it began; as to dnsmasq.conf,  *)
(* also when a picked range is in force, which no other request and no     *)
(* upgrade of that file has touched.                                       *)
(***************************************************************************)
StepInv == \A r \in Requests :
  at[r] # "idle" =>
    /\ form[r].page = "dhcp" => file[r] = "dnsmasq" /\ at[r] \notin {"ini", "range"}
    /\ at[r] \in {"ini", "range"} => file[r] = "hostapd"
    /\ at[r] = "report" /\ form[r].page = "hotspot" => file[r] = "dhcpcd"

LoneInv == \A r \in Requests :
  alone[r] /\ at[r] # "idle" =>
    up = "idle" /\ ~astray[r] /\ \A q \in Requests : q # r => at[q] = "idle"

OneInv ==
  picked => /\ up \notin {"wallOpen", "wallWrite"}
            /\ \A q, r \in Requests : at[q] # "idle" /\ at[r] # "idle" => q = r

Undisturbed(r) == at[r] # "idle" /\ (alone[r] \/ (picked /\ file[r] = "dnsmasq"))

CopyInv == \A r \in Requests :
  Undisturbed(r) =>
    /\ at[r] = "fill" => stage[file[r]] = Empty
    /\ at[r] \in {"open", "read"} => stage[file[r]] = Made(r, file[r])
    /\ at[r] \in {"read", "write"} => conf[file[r]] = Empty
    /\ at[r] = "write" => buf[r] = Made(r, file[r])

SaveInv == \A r \in Requests :
  alone[r] /\ at[r] # "idle" /\ form[r].page = "hotspot" =>
    /\ at[r] # "ini" => ini = form[r].ap
    /\ at[r] = "range" \/ file[r] # "hostapd" => conf["hostapd"] = Made(r, "hostapd")
    /\ file[r] # "hostapd" => lease[r] \in {Default(form[r].ap), "chosen"}
    /\ file[r] = "dhcpcd" => conf["dnsmasq"] = Made(r, "dnsmasq")
    /\ at[r] = "report" => conf["dhcpcd"] = Made(r, "dhcpcd")

PickedInv ==
  picked =>
    /\ \/ conf["dnsmasq"].range = "chosen"
       \/ \E r \in Requests : file[r] = "dnsmasq" /\ at[r] \in {"read", "write"}
    /\ \A r \in Requests :
         at[r] # "idle" /\ form[r].page = "hotspot" /\ file[r] = "dnsmasq" => lease[r] = "chosen"

LoneData == StepInv /\ LoneInv /\ OneInv /\ CopyInv /\ SaveInv /\ PickedInv

LEMMA MadeFields ==
  ASSUME TypeOK, NEW r \in Requests, NEW f \in Files
  PROVE  /\ Made(r, f).ap = form[r].ap
         /\ f = "dnsmasq" => Made(r, f).range = lease[r]
         /\ f = "hostapd" => Made(r, f).name = form[r].name
BY DEF Made, TextOf

LEMMA LoneStep == TypeOK /\ TypeOK' /\ LoneData /\ AstrayInv /\ [Next]_vars => LoneData'
<1> SUFFICES ASSUME TypeOK, TypeOK', LoneData, AstrayInv, [Next]_vars PROVE LoneData'
  OBVIOUS
<1> USE DEF TypeOK, LoneData, StepInv, LoneInv, OneInv, CopyInv, SaveInv, PickedInv,
            AstrayInv, Undisturbed, Goto, Turn, Enter, UpGoto, locals, upgrade, bounds
<1>1. ASSUME NEW r \in Requests, NEW ap \in BOOLEAN, NEW ok \in BOOLEAN,
             NEW name \in NamesOffered, SubmitHotspot(r, ap, ok, name)
      PROVE  LoneData'
  BY <1>1 DEF SubmitHotspot, Quiet, Busy, Made, Forms, Files
<1>2. ASSUME NEW r \in Requests, NEW ap \in BOOLEAN, NEW g \in {"lanDefault", "chosen"},
             SubmitDhcp(r, ap, g)
      PROVE  LoneData'
  BY <1>2 DEF SubmitDhcp, Quiet, Busy, Made, Forms, Files
<1>3. ASSUME NEW r \in Requests, WriteIni(r) PROVE LoneData'
  BY <1>3 DEF WriteIni, Made
<1>4. ASSUME NEW r \in Requests, FetchRange(r) PROVE LoneData'
  <2>1. \A q \in Requests : q # r => file'[q] = file[q] /\ lease'[q] = lease[q] /\ at'[q] = at[q]
    BY <1>4 DEF FetchRange
  <2>2. lease'[r] \in {Default(form[r].ap), "chosen"}
    BY <1>4, RangeForRange DEF FetchRange, ReadRange, Contents, Forms, Files
  <2>3. Made(r, "hostapd")' = Made(r, "hostapd")
    BY <1>4 DEF FetchRange, Made, TextOf
  <2>4. form[r].page = "hotspot" /\ file[r] = "hostapd"
    BY <1>4 DEF FetchRange, Forms
  <2>5. StepInv' /\ LoneInv' /\ OneInv'
    BY <1>4, <2>4 DEF FetchRange
  <2>6. CopyInv'
    BY <1>4, <2>1 DEF FetchRange, Made
  <2>7. SaveInv'
    BY <1>4, <2>1, <2>2, <2>3, <2>4 DEF FetchRange, Made
  <2>8. PickedInv'
    <3>1. picked => lease'[r] = "chosen"
      BY <1>4, <2>4 DEF FetchRange, ReadRange, RangeFor, Default
    <3> QED BY <1>4, <2>1, <2>4, <3>1 DEF FetchRange
  <2> QED BY <2>5, <2>6, <2>7, <2>8
<1>5. ASSUME NEW r \in Requests, Put(r) PROVE LoneData'
  BY <1>5 DEF Put, Made
<1>6. ASSUME NEW r \in Requests, Fill(r) PROVE LoneData'
  <2>1. Undisturbed(r) => stage'[file[r]] = Made(r, file[r])
    BY <1>6 DEF Fill, Overlay
  <2>2. \A f \in Files : f # file[r] => stage'[f] = stage[f]
    BY <1>6 DEF Fill
  <2>3. \A q \in Requests, f \in Files : Made(q, f)' = Made(q, f)
    BY <1>6 DEF Fill, Made
  <2>4. StepInv' /\ LoneInv' /\ OneInv' /\ PickedInv'
    BY <1>6 DEF Fill
  <2>5. CopyInv'
    BY <1>6, <2>1, <2>2, <2>3 DEF Fill
  <2>6. SaveInv'
    <3>1. /\ UNCHANGED <<conf, ini, form, lease, file, alone>>
          /\ \A q \in Requests : at'[q] = at[q] \/ (at[q] = "fill" /\ at'[q] = "open")
      BY <1>6 DEF Fill
    <3> QED BY <3>1 DEF Made
  <2> QED BY <2>4, <2>5, <2>6
<1>7. ASSUME NEW r \in Requests, Open(r) PROVE LoneData'
  BY <1>7 DEF Open, Made
<1>8. ASSUME NEW r \in Requests, Read(r) PROVE LoneData'
  BY <1>8 DEF Read, Made
<1>9. ASSUME NEW r \in Requests, Write(r) PROVE LoneData'
  <2>1. Undisturbed(r) => conf'[file[r]] = Made(r, file[r])
    <3> SUFFICES ASSUME Undisturbed(r) PROVE conf'[file[r]] = Made(r, file[r])
      OBVIOUS
    <3>1. ~astray[r] /\ conf[file[r]] = Empty /\ buf[r] = Made(r, file[r]) /\ buf[r] # Empty
      BY <1>9, MadeIsContents DEF Write
    <3> QED BY <1>9, <3>1 DEF Write, Written, Overlay
  <2>2. \A f \in Files : f # file[r] => conf'[f] = conf[f]
    BY <1>9 DEF Write
  <2>3. \A q \in Requests, f \in Files : Made(q, f)' = Made(q, f)
    BY <1>9 DEF Write, Made
  <2>4. \A q \in Requests : q # r => file'[q] = file[q] /\ at'[q] = at[q] /\ astray'[q] = astray[q]
    BY <1>9 DEF Write
  <2>5. at'[r] = After(r) /\ file'[r] = NextFile(r) /\ astray'[r] = FALSE
    BY <1>9 DEF Write
  <2>6. StepInv'
    BY <1>9, <2>4, <2>5 DEF Write, After, NextFile, Forms, Files
  <2>7. LoneInv'
    BY <1>9, <2>4, <2>5 DEF Write, After
  <2>8. OneInv'
    <3>1. picked' => picked \/ alone[r]
      BY <1>9 DEF Write
    <3>2. alone[r] => up = "idle" /\ \A q \in Requests : q # r => at[q] = "idle"
      BY <1>9 DEF Write
    <3>3. up' = up /\ \A q \in Requests : at'[q] # "idle" => at[q] # "idle"
      BY <1>9, <2>4 DEF Write
    <3> QED BY <3>1, <3>2, <3>3
  <2>9. CopyInv'
    <3>1. SUFFICES ASSUME NEW q \in Requests, Undisturbed(q)', q # r
                   PROVE  /\ at[q] = "fill" => stage[file[q]] = Empty
                          /\ at[q] \in {"open", "read"} => stage[file[q]] = Made(q, file[q])
                          /\ at[q] \in {"read", "write"} => conf'[file[q]] = Empty
                          /\ at[q] = "write" => buf[q] = Made(q, file[q])
      BY <1>9, <2>3, <2>4, <2>5 DEF Write, After
    <3>2. FALSE
      BY <1>9, <2>4, <2>5, <3>1 DEF Write, After
    <3> QED BY <3>2
  <2>10. SaveInv'
    BY <1>9, <2>1, <2>2, <2>3, <2>4, <2>5 DEF Write, After, NextFile, Forms, Files
  <2>11. PickedInv'
    <3> SUFFICES ASSUME picked' PROVE PickedInv'
      OBVIOUS
    <3>1. CASE form[r].page = "dhcp"
      <4>1. alone[r] /\ lease[r] = "chosen" /\ file[r] = "dnsmasq"
        BY <1>9, <3>1 DEF Write
      <4>2. conf'["dnsmasq"].range = "chosen"
        BY <1>9, <2>1, <4>1, MadeFields DEF Write
      <4>3. \A q \in Requests : at'[q] # "idle" => q = r
        BY <1>9, <2>4, <4>1 DEF Write
      <4> QED BY <1>9, <3>1, <4>2, <4>3 DEF Write
    <3>2. CASE form[r].page # "dhcp"
      <4>1. picked /\ form' = form /\ lease' = lease
        BY <1>9, <3>2 DEF Write
      <4>2. \A q \in Requests : at[q] # "idle" => q = r
        BY <1>9, <4>1 DEF Write
      <4>3. CASE file[r] = "dnsmasq"
        <5>1. lease[r] = "chosen" /\ Undisturbed(r) /\ NextFile(r) = "dhcpcd"
          BY <1>9, <3>2, <4>1, <4>3 DEF Write, Forms, NextFile
        <5>2. conf'["dnsmasq"].range = "chosen"
          BY <2>1, <4>3, <5>1, MadeFields
        <5> QED BY <2>4, <2>5, <4>2, <5>1, <5>2
      <4>4. CASE file[r] # "dnsmasq"
        <5>1. conf'["dnsmasq"] = conf["dnsmasq"] /\ NextFile(r) # "dnsmasq"
          BY <2>2, <4>4 DEF Files, NextFile
        <5> QED BY <2>4, <2>5, <4>1, <4>2, <4>4, <5>1
      <4> QED BY <4>3, <4>4
    <3> QED BY <3>1, <3>2
  <2> QED BY <2>6, <2>7, <2>8, <2>9, <2>10, <2>11
<1>10. ASSUME NEW r \in Requests, Report(r) PROVE LoneData'
  BY <1>10 DEF Report, Made
<1>11. ASSUME NEW package \in {"host", "wall"}, StartUpgrade(package) PROVE LoneData'
  <2>1. \A q \in Requests, f \in Files : Made(q, f)' = Made(q, f)
    BY <1>11 DEF StartUpgrade, Made
  <2>2. picked' => picked /\ package = "host"
    BY <1>11 DEF StartUpgrade
  <2>3. StepInv' /\ LoneInv' /\ SaveInv' /\ PickedInv'
    BY <1>11, <2>2 DEF StartUpgrade
  <2>4. OneInv'
    BY <1>11, <2>2 DEF StartUpgrade
  <2>5. CopyInv'
    BY <1>11, <2>1, <2>2 DEF StartUpgrade
  <2> QED BY <2>3, <2>4, <2>5
<1>12. ASSUME NEW newer \in BOOLEAN, HostOpen(newer) PROVE LoneData'
  BY <1>12 DEF HostOpen, Made, Files
<1>13. ASSUME HostWrite PROVE LoneData'
  BY <1>13 DEF HostWrite, CopyShipped, Made, Files
<1>14. ASSUME Grep PROVE LoneData'
  BY <1>14 DEF Grep, Made, Files
<1>15. ASSUME Sed PROVE LoneData'
  BY <1>15 DEF Sed, Made, Files
<1>16. ASSUME Rename PROVE LoneData'
  BY <1>16 DEF Rename, Made, Files
<1>17. ASSUME NEW f \in Files \ {"dnsmasq"}, NEW from \in UpgradeSteps \ {"idle"},
              NEW to \in UpgradeSteps \ {"wallOpen", "wallWrite"},
              AppendTo(f, from, to)
       PROVE  LoneData'
  <2>1. conf'["dnsmasq"] = conf["dnsmasq"]
    BY <1>17 DEF AppendTo
  <2> QED BY <1>17, <2>1 DEF AppendTo, Made
<1>18. ASSUME WallOpen PROVE LoneData'
  BY <1>18 DEF WallOpen, Made, Files
<1>19. ASSUME WallWrite PROVE LoneData'
  BY <1>19 DEF WallWrite, CopyShipped, Made
<1>20. ASSUME PowerCut PROVE LoneData'
  BY <1>20 DEF PowerCut, Quiet, Busy
<1>21. CASE UNCHANGED vars
  BY <1>21 DEF vars, Made
<1> HIDE DEF LoneData
<1> QED
  BY <1>1, <1>2, <1>3, <1>4, <1>5, <1>6, <1>7, <1>8, <1>9, <1>10, <1>11, <1>12, <1>13,
     <1>14, <1>15, <1>16, <1>17, <1>18, <1>19, <1>20, <1>21 DEF Next, Request, Upgrade, Mark, Deny, Files, UpgradeSteps

LEMMA LoneInvariant == Spec => [](LoneData /\ AstrayInv)
<1>1. Init => LoneData
  BY DEF Init, LoneData, StepInv, LoneInv, OneInv, CopyInv, SaveInv, PickedInv, Undisturbed
<1>2. Init => FileInv
  BY ShippedIsContents DEF Init, FileInv, AstrayInv, UpgradeInv, StagedInv, ConfInv
<1>3. FileInv => AstrayInv
  BY DEF FileInv
<1> QED BY <1>1, <1>2, <1>3, TypeInvariant, FileStep, LoneStep, PTL DEF Spec

(***************************************************************************)
(* A save of the hotspot page that had no company leaves all three files   *)
(* in the mode it was asked for, with a fitting address range, whatever    *)
(* state an earlier power cut or overlap had left them in.                 *)
(***************************************************************************)
THEOREM LoneSaveIsComplete == Spec => []SavedTogether
<1>1. TypeOK /\ LoneData => SavedTogether
  <2> SUFFICES ASSUME TypeOK, LoneData, NEW r \in Requests,
                      at[r] = "report", alone[r], form[r].page = "hotspot"
               PROVE  /\ \A f \in Files : conf[f] # Empty /\ conf[f].ap = form[r].ap
                      /\ conf["dnsmasq"].range \in {Default(form[r].ap), "chosen"}
                      /\ conf["hostapd"].name = form[r].name
                      /\ ini = form[r].ap
    BY DEF SavedTogether
  <2>1. file[r] = "dhcpcd"
    BY DEF LoneData, StepInv
  <2>2. /\ \A f \in Files : conf[f] = Made(r, f)
        /\ lease[r] \in {Default(form[r].ap), "chosen"} /\ ini = form[r].ap
    BY <2>1 DEF LoneData, SaveInv, Files
  <2>3. "dnsmasq" \in Files /\ "hostapd" \in Files
    BY DEF Files
  <2> QED BY <2>2, <2>3, MadeFields, MadeIsContents
<1> QED BY <1>1, TypeInvariant, LoneInvariant, PTL

(***************************************************************************)
(* A range set on the DHCP page survives every later save of the hotspot   *)
(* page, as long as no two of them overlap.                                *)
(***************************************************************************)
THEOREM PickedRangeSurvives == Spec => []RangeKept
<1>1. LoneData => RangeKept
  BY DEF LoneData, PickedInv, RangeKept
<1> QED BY <1>1, LoneInvariant, PTL

=============================================================================
