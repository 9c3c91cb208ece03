------------------------ MODULE FilterUpdate_proofs ------------------------
(***************************************************************************)
(* Theorems about FilterUpdate, for every value of its constants.          *)
(***************************************************************************)
EXTENDS FilterUpdate, SequenceTheorems, TLAPS

\* urls.txt is a list of lists.
LEMMA AdsFacts ==
  /\ Len(Ads) \in Nat /\ Len(Ads) >= 1
  /\ \A i \in 1 .. Len(Ads) : Ads[i] \in AdLists
  /\ DOMAIN Ads = 1 .. Len(Ads)
BY ListsAssumption DEF AdLists, Elems

\* There is a download, and none is of an ad list.
LEMMA DownloadsFacts ==
  /\ Len(Downloads) \in Nat /\ Len(Downloads) >= 1
  /\ \A i \in 1 .. Len(Downloads) :
       /\ Downloads[i] \notin AdLists
       /\ Downloads[i] \in ArchiveLists \union {Bump} \union Elems(InPlace)
<1>1. Archives \in Seq(ArchiveLists) /\ InPlace \in Seq(Elems(InPlace))
  BY ListsAssumption
<1> DEFINE AB == Archives \o <<Bump>>
           U  == ArchiveLists \union {Bump} \union Elems(InPlace)
<1>2. AB \in Seq(U) /\ Len(AB) = Len(Archives) + 1 /\ Len(AB) \in Nat
  <2>1. <<Bump>> \in Seq(U) /\ Len(<<Bump>>) = 1
    OBVIOUS
  <2>2. Archives \in Seq(U) /\ Len(Archives) \in Nat
    BY <1>1
  <2> QED BY <2>1, <2>2
<1>3. InPlace \in Seq(U) /\ Len(InPlace) \in Nat
  BY <1>1
<1>4. Downloads = AB \o InPlace
  BY DEF Downloads
<1> HIDE DEF AB, U
<1>5. /\ Downloads \in Seq(U) /\ Len(Downloads) \in Nat
      /\ Len(Downloads) = Len(AB) + Len(InPlace)
      /\ DOMAIN Downloads = 1 .. Len(Downloads)
  BY <1>2, <1>3, <1>4, ConcatProperties, LenProperties
<1>6. Len(Downloads) >= 1
  <2>1. Len(Archives) \in Nat
    BY <1>1
  <2> QED BY <1>2, <1>3, <1>5, <2>1
<1>7. \A i \in 1 .. Len(Downloads) : Downloads[i] \in U
  BY <1>5, ElementOfSeq
<1>8. U \intersect AdLists = {}
  BY ListsAssumption DEF U
<1> QED BY <1>5, <1>6, <1>7, <1>8 DEF U

\* What wget leaves is a content, and no older than what it found there.
LEMMA FetchedType ==
  ASSUME Types
  PROVE  /\ Fetched \in Content /\ Fetched.ver \in {0, pub}
         /\ IsList(Fetched) => Fetched.ver = pub
         /\ \A c \in Content :
              /\ Finished(c) \in Content
              /\ Finished(c).ver \in {c.ver, 0, pub}
              /\ IsList(Finished(c)) => Finished(c).ver = pub \/ (IsList(c) /\ Finished(c).ver = c.ver)
<1>1. /\ Fetched \in Content /\ Fetched.ver \in {0, pub}
      /\ IsList(Fetched) => Fetched.ver = pub
      /\ ~IsList(Empty) /\ pub \in 1 .. MaxPub
  BY BoundsAssumption DEF Types, Content, Fetched, Absent, Empty, Junk, Part, Full, IsList
<1>2. ASSUME NEW c \in Content, c.kind = "part"
      PROVE  /\ Finished(c) \in Content /\ Finished(c).ver \in {c.ver, 0, pub}
             /\ IsList(c) /\ Finished(c).ver = c.ver
  BY <1>2, BoundsAssumption DEF Finished, Full, Content, IsList
<1>3. ASSUME NEW c \in Content, c.kind # "part"
      PROVE  /\ Finished(c) \in Content /\ Finished(c).ver \in {c.ver, 0, pub}
             /\ IsList(Finished(c)) => Finished(c).ver = pub \/ (IsList(c) /\ Finished(c).ver = c.ver)
  <2>1. Finished(c) = c \/ Finished(c) = Fetched
    BY <1>3 DEF Finished
  <2>2. CASE Finished(c) = c
    BY <2>2
  <2>3. CASE Finished(c) = Fetched
    BY <1>1, <2>3
  <2> QED BY <2>1, <2>2, <2>3
<1>4. ASSUME NEW c \in Content
      PROVE  /\ Finished(c) \in Content /\ Finished(c).ver \in {c.ver, 0, pub}
             /\ IsList(Finished(c)) => Finished(c).ver = pub \/ (IsList(c) /\ Finished(c).ver = c.ver)
  BY <1>2, <1>3
<1> QED BY <1>1, <1>4

\* What the proxy reads is a content.
LEMMA ViewType == ASSUME Types PROVE View \in [ProxyLists -> Content]
<1>1. Absent \in Content
  BY BoundsAssumption DEF Content, Absent
<1>2. \A l \in SgLists : Served(l) \in Content
  BY DEF Types, Served, Lists
<1>3. live[Bump] \in Content
  BY DEF Types, Lists
<1> QED BY <1>1, <1>2, <1>3 DEF View, ProxyLists

\* The contents have their type.
LEMMA ContentFacts ==
  /\ {Absent, Empty, Junk} \subseteq Content
  /\ \A v \in 1 .. MaxPub : Full(v) \in Content /\ Part(v) \in Content
BY BoundsAssumption DEF Content, Absent, Empty, Junk, Full, Part

\* A file that a wget may write, and the content it has.
LEMMA StoreFacts ==
  ASSUME Types, NEW f \in TmpFiles \union Lists, NEW c \in Content, Store(f, c)
  PROVE  /\ tmp' \in [TmpFiles -> Content] /\ live' \in [Lists -> Content]
         /\ compiled' = compiled /\ Stored(f) \in Content
         /\ f \in TmpFiles => live' = live
         /\ f \notin TmpFiles => tmp' = tmp
         /\ \A g \in TmpFiles : g # f => tmp'[g] = tmp[g]
         /\ \A l \in Lists : l # f => live'[l] = live[l]
         /\ f \in TmpFiles => tmp'[f] = c
  BY DEF Types, Store, Stored

\* The downloads have a place, and the temporary files of the ad lists are
\* no archives.
LEMMA FileFacts ==
  /\ \A i \in 1 .. Len(Downloads) :
       Downloads[i] \in TmpFiles \union Lists /\ Downloads[i] \notin AdLists
  /\ \A i \in 1 .. Len(Ads) : Ads[i] \in AdLists /\ Ads[i] \in TmpFiles /\ Ads[i] \in Lists
  /\ AdLists \subseteq TmpFiles /\ AdLists \subseteq Lists
  /\ AdLists \intersect ArchiveLists = {}
BY DownloadsFacts, AdsFacts, ListsAssumption DEF TmpFiles, Lists, SgLists

\* wget leaves a content.
LEMMA EndFetchType ==
  ASSUME Types, NEW r \in Runs, NEW f \in TmpFiles \union Lists, EndFetch(r, f)
  PROVE  /\ tmp' \in [TmpFiles -> Content] /\ live' \in [Lists -> Content] /\ compiled' = compiled
         /\ writer' \in [TmpFiles -> SUBSET Runs]
<1>1. Stored(f) \in Content
  BY DEF Types, Stored
<1>2. PICK c \in Content : Store(f, c)
  BY <1>1, FetchedType DEF EndFetch
<1>3. writer' \in [TmpFiles -> SUBSET Runs]
  BY DEF EndFetch, Writers, Types
<1> QED BY <1>2, <1>3, StoreFacts

\* Everything is as the types say at the beginning.
LEMMA TypeInit == Init => Types /\ Control
<1> SUFFICES ASSUME Init PROVE Types /\ Control
  OBVIOUS
<1> USE ContentFacts, BoundsAssumption DEF Init
<1>1. live \in [Lists -> Content]
  OBVIOUS
<1>3. Types
  <2>1. pub \in 1 .. MaxPub /\ faults \in 0 .. MaxFaults
    OBVIOUS
  <2>2. /\ tmp \in [TmpFiles -> Content] /\ compiled \in [Compiled -> Content]
        /\ loaded \in [ProxyLists -> Content]
    OBVIOUS
  <2>3. at \in [Runs -> Steps] /\ nth \in [Runs -> Nat]
    BY DEF Steps
  <2> QED BY <1>1, <2>1, <2>2, <2>3 DEF Types
<1>4. Control
  BY DEF Control
<1> QED BY <1>3, <1>4

\* One step keeps the types and the loops within their lists.
LEMMA TypeStep == Types /\ Control /\ [Next]_vars => Types' /\ Control'
<1> SUFFICES ASSUME Types, Control, [Next]_vars PROVE Types' /\ Control'
  OBVIOUS
<1> USE AdsFacts, DownloadsFacts, ContentFacts, FetchedType, BoundsAssumption
    DEF Types, Control, Steps, env, files, modes, squid, pcs, Goto, GotoItem
<1>1. ASSUME NEW r \in Runs, Start(r) PROVE Types' /\ Control'
  BY <1>1 DEF Start
<1>2. ASSUME NEW r \in Runs, OpenDownload(r) PROVE Types' /\ Control'
  <2>1. /\ nth[r] \in 1 .. Len(Downloads) /\ Store(Downloads[nth[r]], Empty)
        /\ at' = [at EXCEPT ![r] = "fill"] /\ nth' = nth /\ writer' \in [TmpFiles -> SUBSET Runs]
    BY <1>2 DEF OpenDownload, Writers
  <2>2. tmp' \in [TmpFiles -> Content] /\ live' \in [Lists -> Content] /\ compiled' = compiled
    BY <2>1, FileFacts, StoreFacts
  <2>3. Types'
    BY <1>2, <2>1, <2>2 DEF OpenDownload
  <2>4. Control'
    BY <2>1
  <2> QED BY <2>3, <2>4
<1>3. ASSUME NEW r \in Runs, FillDownload(r) PROVE Types' /\ Control'
  <2>1. /\ nth[r] \in 1 .. Len(Downloads) /\ EndFetch(r, Downloads[nth[r]])
        /\ nth' = [nth EXCEPT ![r] = nth[r] + 1] /\ at[r] = "fill"
        /\ \/ at' = [at EXCEPT ![r] = "untar"] \/ at' = [at EXCEPT ![r] = "clean"]
           \/ at' = [at EXCEPT ![r] = "open"] /\ nth[r] # Len(Downloads)
    BY <1>3 DEF FillDownload
  <2>2. /\ tmp' \in [TmpFiles -> Content] /\ live' \in [Lists -> Content] /\ compiled' = compiled
        /\ writer' \in [TmpFiles -> SUBSET Runs]
    <3>1. Downloads[nth[r]] \in TmpFiles \union Lists
      BY <2>1, FileFacts
    <3> QED BY <2>1, <3>1, EndFetchType
  <2>3. Types'
    BY <1>3, <2>1, <2>2 DEF FillDownload
  <2>4. Control'
    BY <2>1
  <2> QED BY <2>3, <2>4
<1>4. ASSUME NEW r \in Runs, Untar(r) PROVE Types' /\ Control'
  BY <1>4 DEF Untar, TmpFiles
<1>5. ASSUME NEW r \in Runs, CleanArchives(r) PROVE Types' /\ Control'
  BY <1>5 DEF CleanArchives, Unlink
<1>6. ASSUME NEW r \in Runs, Detect(r) PROVE Types' /\ Control'
  BY <1>6 DEF Detect
<1>7. ASSUME NEW r \in Runs, WgetAd(r) PROVE Types' /\ Control'
  BY <1>7 DEF WgetAd
<1>25. ASSUME NEW r \in Runs, FillAd(r) PROVE Types' /\ Control'
  <2>1. /\ nth[r] \in 1 .. Len(Ads) /\ EndFetch(r, Ads[nth[r]])
        /\ nth' = nth /\ at' = [at EXCEPT ![r] = "grep"]
    BY <1>25 DEF FillAd
  <2>2. /\ tmp' \in [TmpFiles -> Content] /\ live' \in [Lists -> Content] /\ compiled' = compiled
        /\ writer' \in [TmpFiles -> SUBSET Runs]
    <3>1. Ads[nth[r]] \in TmpFiles \union Lists
      BY <2>1, FileFacts
    <3> QED BY <2>1, <3>1, EndFetchType
  <2>3. Types'
    BY <1>25, <2>1, <2>2 DEF FillAd
  <2>4. Control'
    BY <2>1
  <2> QED BY <2>3, <2>4
<1>26. ASSUME NEW r \in Runs, Receive(r) PROVE Types' /\ Control'
  <2>1. PICK f \in TmpFiles \union Lists : Store(f, Part(pub))
    BY <1>26, FileFacts DEF Receive
  <2>2. tmp' \in [TmpFiles -> Content] /\ live' \in [Lists -> Content] /\ compiled' = compiled
    BY <2>1, StoreFacts
  <2> QED BY <1>26, <2>2 DEF Receive
<1>27. ASSUME Reinstall PROVE Types' /\ Control'
  BY <1>27 DEF Reinstall
<1>8. ASSUME NEW r \in Runs, GrepHeader(r) PROVE Types' /\ Control'
  BY <1>8 DEF GrepHeader
<1>9. ASSUME NEW r \in Runs, SedTruncate(r) PROVE Types' /\ Control'
  BY <1>9 DEF SedTruncate
<1>10. ASSUME NEW r \in Runs, SedWrite(r) PROVE Types' /\ Control'
  <2>1. Ads[nth[r]] \in TmpFiles
    BY <1>10 DEF SedWrite, TmpFiles
  <2>2. live' \in [Lists -> Content]
    BY <1>10, <2>1 DEF SedWrite
  <2>3. Control'
    BY <1>10 DEF SedWrite
  <2>4. at' \in [Runs -> Steps] /\ nth' \in [Runs -> Nat]
    BY <1>10 DEF SedWrite
  <2> QED BY <1>10, <2>2, <2>3, <2>4 DEF SedWrite
<1>11. ASSUME NEW r \in Runs, Build(r) PROVE Types' /\ Control'
  BY <1>11 DEF Build, CompileLists, Lists, Compiled
<1>12. ASSUME NEW r \in Runs, NEW d \in WorkDirs, Chmod(r, d) PROVE Types' /\ Control'
  BY <1>12 DEF Chmod
<1>13. ASSUME NEW r \in Runs, ChownDirs(r) PROVE Types' /\ Control'
  BY <1>13 DEF ChownDirs
<1>14. ASSUME NEW r \in Runs, ReloadSquid(r) PROVE Types' /\ Control'
  BY <1>14, ViewType DEF ReloadSquid, Reconfigure
<1>15. ASSUME NEW r \in Runs, RemoveTmp(r) PROVE Types' /\ Control'
  BY <1>15 DEF RemoveTmp, Unlink
<1>16. ASSUME NEW r \in Runs, FinalReload(r) PROVE Types' /\ Control'
  BY <1>16, ViewType DEF FinalReload, Reconfigure
<1>17. ASSUME NEW r \in Runs, Kill(r) PROVE Types' /\ Control'
  BY <1>17 DEF Kill
<1>18. ASSUME Publish PROVE Types' /\ Control'
  BY <1>18 DEF Publish
<1>19. ASSUME NEW n \in Nets, NetChange(n) PROVE Types' /\ Control'
  BY <1>19 DEF NetChange
<1>20. ASSUME Upgrade PROVE Types' /\ Control'
  BY <1>20 DEF Upgrade
<1>21. ASSUME SquidStart PROVE Types' /\ Control'
  BY <1>21, ViewType DEF SquidStart
<1>22. ASSUME BootRebuild PROVE Types' /\ Control'
  BY <1>22 DEF BootRebuild, CompileLists, Lists, Compiled
<1>23. ASSUME Reboot PROVE Types' /\ Control'
  <2>2. tmp' \in [TmpFiles -> Content] /\ loaded' \in [ProxyLists -> Content]
        /\ writer' \in [TmpFiles -> SUBSET Runs]
    BY <1>23 DEF Reboot, Unlink
  <2>3. at' \in [Runs -> Steps] /\ nth' \in [Runs -> Nat] /\ Control'
    BY <1>23 DEF Reboot
  <2>4. faults' \in 0 .. MaxFaults
    BY <1>23 DEF Reboot
  <2> QED BY <1>23, <2>2, <2>3, <2>4 DEF Reboot
<1>24. CASE UNCHANGED vars
  BY <1>24 DEF vars
<1> QED
  BY <1>1, <1>2, <1>3, <1>4, <1>5, <1>6, <1>7, <1>8, <1>9, <1>10, <1>11, <1>12, <1>13, <1>14,
     <1>15, <1>16, <1>17, <1>18, <1>19, <1>20, <1>21, <1>22, <1>23, <1>24, <1>25, <1>26, <1>27
  DEF Next, RunStep, World

\* The two parts of the type invariant.
LEMMA TypesAlways == Spec => [](Types /\ Control)
<1>1. Init => Types /\ Control
  BY TypeInit
<1>2. Types /\ Control /\ [Next]_vars => Types' /\ Control'
  BY TypeStep
<1> QED BY <1>1, <1>2, PTL DEF Spec

(***************************************************************************)
(* Every state of every behaviour has the types of TypeOK, and no loop     *)
(* runs past its list, whatever the lists, the runs and the bounds are.    *)
(***************************************************************************)
THEOREM TypeInvariant == Spec => []TypeOK
<1>1. Types /\ Control => TypeOK
  BY DEF TypeOK
<1> QED BY <1>1, TypesAlways, PTL

----------------------------------------------------------------------------
(***************************************************************************)
(* The permission window.  Only Chmod closes the database, and the run     *)
(* that did so stands at "own" until it opens it again; a kill or a power  *)
(* cut at that point counts as a fault.                                    *)
(***************************************************************************)
LEMMA WindowStep ==
  Types /\ UnreadableOnlyInWindow /\ [Next]_vars => UnreadableOnlyInWindow'
<1> SUFFICES ASSUME Types, UnreadableOnlyInWindow, [Next]_vars
             PROVE  UnreadableOnlyInWindow'
  OBVIOUS
<1> USE DEF Types, UnreadableOnlyInWindow, env, files, modes, squid, pcs, Goto, GotoItem
<1>1. ASSUME NEW r \in Runs, NEW d \in WorkDirs, Chmod(r, d) PROVE UnreadableOnlyInWindow'
  BY <1>1 DEF Chmod
<1>2. ASSUME NEW r \in Runs, ChownDirs(r) PROVE UnreadableOnlyInWindow'
  BY <1>2 DEF ChownDirs
<1>3. ASSUME NEW r \in Runs, Kill(r) PROVE UnreadableOnlyInWindow'
  BY <1>3, BoundsAssumption DEF Kill
<1>4. ASSUME Reboot PROVE UnreadableOnlyInWindow'
  BY <1>4, BoundsAssumption DEF Reboot
<1>5. ASSUME NEW r \in Runs,
             Start(r) \/ RunStep(r), \A d \in WorkDirs : ~Chmod(r, d), ~ChownDirs(r)
      PROVE  UnreadableOnlyInWindow'
  <2>1. at[r] # "own" /\ readable' = readable /\ faults' = faults
    BY <1>5 DEF RunStep, Start, OpenDownload, FillDownload, Untar, CleanArchives, Detect,
       WgetAd, FillAd, Receive, GrepHeader, SedTruncate, SedWrite, Build, ReloadSquid, RemoveTmp,
       FinalReload
  <2>2. \A s \in Runs \ {r} : at'[s] = at[s]
    BY <1>5 DEF RunStep, Start, OpenDownload, FillDownload, Untar, CleanArchives, Detect,
       WgetAd, FillAd, Receive, GrepHeader, SedTruncate, SedWrite, Build, ReloadSquid, RemoveTmp,
       FinalReload
  <2> QED BY <2>1, <2>2
<1>6. ASSUME World, ~Reboot PROVE UnreadableOnlyInWindow'
  BY <1>6 DEF World, Publish, NetChange, Upgrade, Reinstall, SquidStart, BootRebuild
<1>7. CASE UNCHANGED vars
  BY <1>7 DEF vars
<1> QED BY <1>1, <1>2, <1>3, <1>4, <1>5, <1>6, <1>7 DEF Next

(***************************************************************************)
(* For any number of overlapping runs: the proxy user can be locked out of *)
(* the database only while some run is between its chmod and its find, as  *)
(* long as nothing has been killed or powered off.                         *)
(***************************************************************************)
THEOREM PermissionWindow == Spec => []UnreadableOnlyInWindow
<1>1. Init => UnreadableOnlyInWindow
  BY DEF Init, UnreadableOnlyInWindow
<1> QED BY <1>1, WindowStep, TypesAlways, PTL DEF Spec

----------------------------------------------------------------------------
(***************************************************************************)
(* Versions.  Nothing on the disk is newer than what is published, so a    *)
(* download is at least as new as any list, and a leftover of /tmp/adblock *)
(* at least as new as the list an earlier conversion made from it.         *)
(***************************************************************************)
VersionsPublished ==
  /\ \A f \in TmpFiles : tmp[f].ver <= pub
  /\ \A l \in Lists : live[l].ver <= pub

VersionInv == VersionsPublished /\ LeftoverNeverOlder

LEMMA VersionStep ==
  Types /\ Control /\ VersionInv /\ [Next]_vars => VersionInv'
<1> SUFFICES ASSUME Types, Control, VersionInv, [Next]_vars PROVE VersionInv'
  OBVIOUS
<1>a. /\ pub \in Nat
      /\ \A f \in TmpFiles : tmp[f] \in Content /\ tmp[f].ver \in Nat
      /\ \A l \in Lists : live[l] \in Content /\ live[l].ver \in Nat
      /\ AdLists \subseteq TmpFiles /\ AdLists \subseteq Lists
      /\ \A f \in ArchiveLists : f \notin AdLists
  BY ListsAssumption, BoundsAssumption DEF Types, Content, TmpFiles, Lists, SgLists
<1>b. ASSUME tmp' = tmp, live' = live, pub' \in Nat, pub' >= pub PROVE VersionInv'
  BY <1>a, <1>b DEF VersionInv, VersionsPublished, LeftoverNeverOlder
<1>c. Absent.ver = 0 /\ Empty.ver = 0 /\ ~IsList(Empty) /\ ~IsList(Absent)
  BY DEF Absent, Empty, IsList
<1> USE DEF VersionInv, VersionsPublished, LeftoverNeverOlder, env, files, modes, squid, pcs
\* What the ad lists are made from is not written.
<1>d. ASSUME NEW f \in TmpFiles \union Lists, f \notin AdLists, NEW c \in Content, c.ver <= pub,
             Store(f, c), pub' = pub
      PROVE  VersionInv'
  <2>1. \A g \in TmpFiles : tmp'[g] = tmp[g] \/ tmp'[g] = c
    BY <1>d DEF Store, Types
  <2>2. \A l \in Lists : live'[l] = live[l] \/ live'[l] = c
    BY <1>d DEF Store, Types
  <2>3. \A l \in AdLists : tmp'[l] = tmp[l] /\ live'[l] = live[l]
    BY <1>a, <1>d, StoreFacts
  <2> QED BY <1>a, <1>d, <2>1, <2>2, <2>3
\* The file of an ad list gets something not older than its list.
<1>e. ASSUME NEW f \in AdLists, NEW c \in Content, c.ver <= pub, Store(f, c), pub' = pub,
             IsList(c) => c.ver = pub \/ (IsList(tmp[f]) /\ c.ver = tmp[f].ver)
      PROVE  VersionInv'
  <2>1. live' = live /\ tmp'[f] = c /\ \A g \in TmpFiles : g # f => tmp'[g] = tmp[g]
    BY <1>a, <1>e, StoreFacts
  <2> QED BY <1>a, <1>e, <2>1
<1>f. ASSUME NEW f \in TmpFiles \union Lists
      PROVE  /\ Stored(f) \in Content /\ Stored(f).ver <= pub
             /\ Finished(Stored(f)) \in Content /\ Finished(Stored(f)).ver <= pub
  <2>1. Stored(f) \in Content /\ Stored(f).ver <= pub
    BY <1>a DEF Stored
  <2> QED BY <1>a, <2>1, FetchedType
<1>1. ASSUME NEW r \in Runs, OpenDownload(r) PROVE VersionInv'
  <2>1. Downloads[nth[r]] \notin AdLists /\ Downloads[nth[r]] \in TmpFiles \union Lists
    BY <1>1, FileFacts DEF Control, OpenDownload, GotoItem, Goto
  <2> QED BY <1>1, <1>a, <1>c, <1>d, <2>1, ContentFacts DEF OpenDownload
<1>2. ASSUME NEW r \in Runs, FillDownload(r) PROVE VersionInv'
  <2>1. Downloads[nth[r]] \notin AdLists /\ Downloads[nth[r]] \in TmpFiles \union Lists
    BY <1>2, FileFacts DEF Control, FillDownload, GotoItem, Goto
  <2> QED BY <1>2, <1>d, <1>f, <2>1 DEF FillDownload, EndFetch
<1>13. ASSUME NEW r \in Runs, Receive(r) PROVE VersionInv'
  <2>1. Part(pub) \in Content /\ Part(pub).ver = pub
    BY ContentFacts DEF Types, Part
  <2>2. CASE at[r] = "fill"
    <3>1. Downloads[nth[r]] \notin AdLists /\ Downloads[nth[r]] \in TmpFiles \union Lists
      BY <2>2, FileFacts DEF Control
    <3> QED BY <1>13, <1>a, <1>d, <2>1, <2>2, <3>1 DEF Receive
  <2>3. CASE at[r] = "adFill"
    <3>1. Ads[nth[r]] \in AdLists
      BY <2>3, FileFacts DEF Control
    <3>2. Store(Ads[nth[r]], Part(pub)) /\ pub' = pub
      BY <1>13, <2>3 DEF Receive
    <3>3. PICK c \in Content : c = Part(pub)
      BY <2>1
    <3>4. c.ver = pub /\ c.ver <= pub /\ Store(Ads[nth[r]], c)
      BY <1>a, <2>1, <3>2, <3>3
    <3> QED BY <1>e, <3>1, <3>2, <3>4
  <2> QED BY <1>13, <2>2, <2>3 DEF Receive
<1>14. ASSUME NEW r \in Runs, FillAd(r) PROVE VersionInv'
  <2>1. Ads[nth[r]] \in AdLists /\ Ads[nth[r]] \in TmpFiles
    BY <1>14, FileFacts DEF Control, FillAd, GotoItem, Goto
  <2>2. /\ EndFetch(r, Ads[nth[r]]) /\ pub' = pub
        /\ Stored(Ads[nth[r]]) = tmp[Ads[nth[r]]]
    BY <1>14, <2>1 DEF FillAd, Stored
  <2>3. PICK c \in {tmp[Ads[nth[r]]], Finished(tmp[Ads[nth[r]]])} : Store(Ads[nth[r]], c)
    BY <2>2 DEF EndFetch
  <2>4. /\ c \in Content /\ c.ver <= pub
        /\ IsList(c) => c.ver = pub \/ (IsList(tmp[Ads[nth[r]]]) /\ c.ver = tmp[Ads[nth[r]]].ver)
    BY <1>a, <1>f, <2>1, <2>2, <2>3, FetchedType
  <2> QED BY <1>e, <2>1, <2>2, <2>3, <2>4
<1>3. ASSUME NEW r \in Runs, Untar(r) PROVE VersionInv'
  BY <1>3, <1>a DEF Untar, TmpFiles
<1>4. ASSUME NEW r \in Runs, CleanArchives(r) PROVE VersionInv'
  BY <1>4, <1>a, <1>c DEF CleanArchives, Unlink
<1>5. ASSUME NEW r \in Runs, WgetAd(r) PROVE VersionInv'
  <2>1. pub' = pub /\ live' = live
    BY <1>5 DEF WgetAd
  <2>2. \A f \in TmpFiles : tmp'[f] = tmp[f] \/ tmp'[f] = Empty
    BY <1>5 DEF WgetAd, Types
  <2> QED BY <1>a, <1>c, <2>1, <2>2
<1>6. ASSUME NEW r \in Runs, SedTruncate(r) PROVE VersionInv'
  BY <1>6, <1>a, <1>c DEF SedTruncate, Types
<1>7. ASSUME NEW r \in Runs, SedWrite(r) PROVE VersionInv'
  <2>1. Ads[nth[r]] \in AdLists
    BY <1>7, AdsFacts DEF Control, SedWrite, GotoItem, Goto
  <2>2. /\ pub' = pub /\ tmp' = tmp
        /\ \A l \in Lists : live'[l] = live[l] \/ live'[l] = Empty
                            \/ (l \in AdLists /\ live'[l] = tmp[l])
    BY <1>7, <1>a, <2>1 DEF SedWrite, Types
  <2> QED BY <1>a, <1>c, <2>2
<1>8. ASSUME NEW r \in Runs, RemoveTmp(r) PROVE VersionInv'
  BY <1>8, <1>a, <1>c DEF RemoveTmp, Unlink
<1>9. ASSUME Reboot PROVE VersionInv'
  BY <1>9, <1>a, <1>c DEF Reboot, Unlink
<1>10. ASSUME NEW r \in Runs,
              \/ Start(r) \/ Detect(r) \/ GrepHeader(r) \/ Build(r)
              \/ (\E d \in WorkDirs : Chmod(r, d)) \/ ChownDirs(r) \/ ReloadSquid(r) \/ FinalReload(r) \/ Kill(r)
       PROVE  VersionInv'
  <2>1. tmp' = tmp /\ live' = live /\ pub' = pub
    BY <1>10 DEF Start, Detect, GrepHeader, Build, Chmod, ChownDirs, ReloadSquid,
       FinalReload, Kill
  <2> QED BY <1>a, <1>b, <2>1
<1>11. ASSUME World, ~Reboot PROVE VersionInv'
  <2>1. tmp' = tmp /\ live' = live /\ pub' \in {pub, pub + 1}
    BY <1>11 DEF World, Publish, NetChange, Upgrade, Reinstall, SquidStart, BootRebuild
  <2> QED BY <1>a, <1>b, <2>1
<1>12. CASE UNCHANGED vars
  BY <1>12, <1>a, <1>b DEF vars
<1> QED
  BY <1>1, <1>2, <1>3, <1>4, <1>5, <1>6, <1>7, <1>8, <1>9, <1>10, <1>11, <1>12, <1>13, <1>14
  DEF Next, RunStep

(***************************************************************************)
(* For any number of overlapping runs, kills and power cuts: converting    *)
(* what an earlier run left behind never takes a list back.                *)
(***************************************************************************)
THEOREM NoRollback == Spec => []LeftoverNeverOlder
<1>1. Init => VersionInv
  BY ListsAssumption DEF Init, VersionInv, VersionsPublished, LeftoverNeverOlder, Absent,
     Full, IsList, TmpFiles, Lists, SgLists
<1>2. VersionInv => LeftoverNeverOlder
  BY DEF VersionInv
<1> QED BY <1>1, <1>2, VersionStep, TypesAlways, PTL DEF Spec
----------------------------------------------------------------------------
(***************************************************************************)
(* One run at a time.  The strengthening follows the run: the lists it has *)
(* passed in urls.txt have a header in /tmp/adblock and keep it until the  *)
(* directory is removed, and from the rebuild to the end of get-easylist   *)
(* the compiled lists are those on the disk.                               *)
(***************************************************************************)
OneAtATime == \A r, s \in Runs : r = s

PassedHeaders ==
  \A r \in Runs : at[r] \in {"wget", "adFill", "grep", "sed", "sedWrite"} =>
    \A i \in 1 .. Len(Ads) : i < nth[r] => IsList(tmp[Ads[i]])

ThisHeader ==
  \A r \in Runs : at[r] \in {"sed", "sedWrite"} => IsList(tmp[Ads[nth[r]]])

CompiledIsLive ==
  \A r \in Runs : at[r] \in {"chmod", "own", "reconf", "rmTmp"} =>
    \A l \in Compiled : compiled[l] = live[l]

\* The reload finds the database open to the proxy user.
OpenAtReload ==
  \A r \in Runs : at[r] \in {"reconf", "rmTmp"} => readable

SoloInv ==
  /\ PassedHeaders /\ ThisHeader /\ CompiledIsLive
  /\ AdListsAreLists /\ OpenAtReload
  /\ EmptyOnlyWhileConverting /\ ReloadDelivers

LEMMA ViewIsLive ==
  ASSUME readable, \A l \in SgLists : live[l] # Absent,
         \A l \in Compiled : compiled[l] = live[l]
  PROVE  \A l \in ProxyLists : View[l] = live[l]
<1>1. \A l \in SgLists : Served(l) = live[l]
  BY DEF Served
<1>2. ~Emergency
  BY <1>1 DEF Emergency
<1> QED BY <1>1, <1>2 DEF View, ProxyLists

LEMMA SoloStep ==
  ASSUME OneAtATime, Types, Control, SoloInv, [Next]_vars
  PROVE  SoloInv'
<1>a. AdLists \subseteq TmpFiles /\ AdLists \subseteq Lists /\ AdLists \intersect ArchiveLists = {}
  BY ListsAssumption DEF TmpFiles, Lists, SgLists
<1>b. /\ ~IsList(Empty) /\ ~IsList(Absent) /\ Absent # Empty
      /\ Empty.kind # "junk" /\ Absent.kind # "junk"
      /\ \A c : IsList(c) => c # Empty /\ c # Absent /\ c.kind # "junk"
  BY DEF IsList, Empty, Absent
<1>c. Compiled \subseteq Lists /\ Compiled \intersect AdLists = {} /\ faults \in Nat
  BY ListsAssumption, BoundsAssumption DEF Compiled, Lists, Types
<1> USE DEF SoloInv, PassedHeaders, ThisHeader, CompiledIsLive, AdListsAreLists,
        OpenAtReload, EmptyOnlyWhileConverting, ReloadDelivers,
        env, files, modes, squid, pcs
\* A step of the run to a point where no part of the invariant but those about
\* the ad lists says anything, with the files of the ad lists left alone.
<1>d. ASSUME NEW r \in Runs,
             at'[r] \in {"idle", "open", "fill", "untar", "clean", "detect", "build", "tail"},
             at[r] # "sedWrite", faults' = faults,
             \A f \in AdLists : live'[f] = live[f]
      PROVE  SoloInv'
  <2>1. \A s \in Runs : s = r
    BY DEF OneAtATime
  <2> QED BY <1>d, <2>1
<1>1. ASSUME NEW r \in Runs, OpenDownload(r) \/ FillDownload(r) PROVE SoloInv'
  <2>1. Downloads[nth[r]] \notin AdLists /\ Downloads[nth[r]] \in TmpFiles \union Lists
    BY <1>1, FileFacts DEF Control, OpenDownload, FillDownload, GotoItem, Goto
  <2>2. at[r] # "sedWrite" /\ at'[r] \in {"fill", "open", "untar", "clean"} /\ faults' = faults
    BY <1>1 DEF OpenDownload, FillDownload, GotoItem, Goto, Types
  <2>3. \E c : Store(Downloads[nth[r]], c)
    BY <1>1 DEF OpenDownload, FillDownload, EndFetch
  <2>4. \A f \in AdLists : live'[f] = live[f]
    BY <1>a, <2>1, <2>3 DEF Store, Types
  <2> QED BY <1>d, <2>2, <2>4
\* A fetch for an ad list writes a file that has not passed the header test.
<1>e. ASSUME NEW r \in Runs, at[r] = "adFill", at'[r] \in {"adFill", "grep"},
             nth' = nth, faults' = faults, NEW c, Store(Ads[nth[r]], c)
      PROVE  SoloInv'
  <2>1. \A s \in Runs : s = r
    BY DEF OneAtATime
  <2>2. nth[r] \in 1 .. Len(Ads) /\ Ads[nth[r]] \in TmpFiles
    BY <1>e, FileFacts DEF Control
  <2>3. /\ live' = live
        /\ \A i \in 1 .. Len(Ads) : i # nth[r] => tmp'[Ads[i]] = tmp[Ads[i]]
    BY <1>e, <2>2, FileFacts, AdsFacts, ListsAssumption DEF Store, Types
  <2> QED BY <1>e, <2>1, <2>2, <2>3
<1>18. ASSUME NEW r \in Runs, FillAd(r) PROVE SoloInv'
  <2>1. at[r] = "adFill" /\ at'[r] = "grep" /\ nth' = nth /\ faults' = faults
    BY <1>18 DEF FillAd, GotoItem, Goto, Types
  <2>2. \E c : Store(Ads[nth[r]], c)
    BY <1>18 DEF FillAd, EndFetch
  <2> QED BY <1>e, <2>1, <2>2
<1>19. ASSUME NEW r \in Runs, Receive(r) PROVE SoloInv'
  <2>1. CASE at[r] = "fill"
    <3>1. Downloads[nth[r]] \notin AdLists /\ Downloads[nth[r]] \in TmpFiles \union Lists
      BY <2>1, FileFacts DEF Control
    <3>2. Store(Downloads[nth[r]], Part(pub)) /\ at'[r] = "fill" /\ faults' = faults
      BY <1>19, <2>1 DEF Receive
    <3>3. \A f \in AdLists : live'[f] = live[f]
      BY <1>a, <3>1, <3>2 DEF Store, Types
    <3> QED BY <1>d, <2>1, <3>2, <3>3
  <2>2. CASE at[r] = "adFill"
    BY <1>19, <1>e, <2>2 DEF Receive
  <2> QED BY <1>19, <2>1, <2>2 DEF Receive
<1>2. ASSUME NEW r \in Runs, Untar(r) PROVE SoloInv'
  BY <1>2, <1>a, <1>d DEF Untar, GotoItem, Goto, Types
<1>3. ASSUME NEW r \in Runs,
             \/ Start(r) \/ CleanArchives(r) \/ RemoveTmp(r) \/ FinalReload(r)
      PROVE  SoloInv'
  <2>1. at[r] # "sedWrite" /\ at'[r] \in {"open", "detect", "tail", "idle"}
    BY <1>3 DEF Start, CleanArchives, RemoveTmp, FinalReload, GotoItem, Goto, Types
  <2>2. faults' = faults /\ live' = live
    BY <1>3 DEF Start, CleanArchives, RemoveTmp, FinalReload
  <2> QED BY <1>d, <2>1, <2>2
<1>4. ASSUME NEW r \in Runs, Detect(r) PROVE SoloInv'
  <2>1. \A s \in Runs : s = r
    BY DEF OneAtATime
  <2> QED BY <1>4, <2>1 DEF Detect, GotoItem, Goto, Types
<1>5. ASSUME NEW r \in Runs, WgetAd(r) PROVE SoloInv'
  <2>1. \A s \in Runs : s = r
    BY DEF OneAtATime
  <2>2. \A f \in AdLists : IsList(tmp[f]) => tmp'[f] = tmp[f]
    BY <1>5, <1>a, <1>b DEF WgetAd, Types
  <2>3. /\ at[r] = "wget" /\ at'[r] \in {"adFill", "grep"} /\ nth'[r] = nth[r]
        /\ live' = live /\ faults' = faults
    BY <1>5 DEF WgetAd, GotoItem, Goto, Types
  <2>4. PassedHeaders'
    BY <2>1, <2>2, <2>3, AdsFacts
  <2> QED BY <2>1, <2>3, <2>4
<1>6. ASSUME NEW r \in Runs, GrepHeader(r) PROVE SoloInv'
  <2>1. \A s \in Runs : s = r
    BY DEF OneAtATime
  <2> QED BY <1>6, <2>1, AdsFacts DEF GrepHeader, GotoItem, Goto, Types
<1>7. ASSUME NEW r \in Runs, SedTruncate(r) PROVE SoloInv'
  <2>1. \A s \in Runs : s = r
    BY DEF OneAtATime
  <2>2. \A l \in AdLists : live'[l] = live[l] \/ (l = Ads[nth[r]] /\ live'[l] = Empty)
    BY <1>7, <1>a DEF SedTruncate, Types
  <2>3. at'[r] = "sedWrite" /\ nth' = nth /\ at[r] = "sed" /\ tmp' = tmp /\ faults' = faults
    BY <1>7 DEF SedTruncate, GotoItem, Goto, Types
  <2>4. AdListsAreLists' /\ EmptyOnlyWhileConverting'
    BY <2>1, <2>2, <2>3, <1>b
  <2>5. PassedHeaders' /\ ThisHeader'
    BY <2>1, <2>3
  <2> QED BY <2>1, <2>3, <2>4, <2>5
<1>8. ASSUME NEW r \in Runs, SedWrite(r) PROVE SoloInv'
  <2>1. \A s \in Runs : s = r
    BY DEF OneAtATime
  <2>2. IsList(tmp[Ads[nth[r]]]) /\ at[r] = "sedWrite" /\ faults' = faults /\ tmp' = tmp
    BY <1>8 DEF SedWrite, GotoItem, Goto
  <2>3. nth[r] \in 1 .. Len(Ads) /\ nth'[r] = nth[r] + 1 /\ at'[r] \in {"wget", "build"}
    BY <1>8, AdsFacts DEF SedWrite, GotoItem, Goto, Types, Control
  <2>4. \A l \in AdLists : live'[l] = IF l = Ads[nth[r]] THEN tmp[l] ELSE live[l]
    BY <1>8, <1>a, <1>b, <2>2 DEF SedWrite, Types
  <2>5. PassedHeaders'
    BY <2>1, <2>2, <2>3, AdsFacts
  <2> QED BY <2>1, <2>2, <2>3, <2>4, <2>5, <1>b
<1>9. ASSUME NEW r \in Runs, Build(r) PROVE SoloInv'
  <2>1. \A s \in Runs : s = r
    BY DEF OneAtATime
  <2> QED BY <1>9, <2>1 DEF Build, CompileLists, GotoItem, Goto, Types
<1>10. ASSUME NEW r \in Runs, (\E d \in WorkDirs : Chmod(r, d)) \/ ChownDirs(r) PROVE SoloInv'
  <2>1. \A s \in Runs : s = r
    BY DEF OneAtATime
  <2> QED BY <1>10, <2>1 DEF Chmod, ChownDirs, GotoItem, Goto, Types
<1>11. ASSUME NEW r \in Runs, ReloadSquid(r) PROVE SoloInv'
  <2>1. \A s \in Runs : s = r
    BY DEF OneAtATime
  <2>2. /\ at[r] = "reconf" /\ at'[r] = "rmTmp" /\ faults' = faults /\ squidUp' = squidUp
        /\ tmp' = tmp /\ live' = live /\ compiled' = compiled /\ readable' = readable
        /\ loaded' = IF squidUp THEN View ELSE loaded
    BY <1>11 DEF ReloadSquid, Reconfigure, GotoItem, Goto, Types
  <2> QED BY <2>1, <2>2, ViewIsLive
<1>12. ASSUME NEW r \in Runs, Kill(r) PROVE SoloInv'
  <2>1. \A s \in Runs : s = r
    BY DEF OneAtATime
  <2> QED BY <1>12, <1>c, <2>1 DEF Kill, GotoItem, Goto, Types
<1>13. ASSUME Reboot PROVE SoloInv'
  BY <1>13, <1>c DEF Reboot
<1>14. ASSUME SquidStart PROVE SoloInv'
  BY <1>14, ViewIsLive DEF SquidStart
<1>15. ASSUME BootRebuild PROVE SoloInv'
  BY <1>15 DEF BootRebuild, CompileLists
<1>16. ASSUME Publish \/ (\E n \in Nets : NetChange(n)) \/ Upgrade \/ Reinstall PROVE SoloInv'
  BY <1>16 DEF Publish, NetChange, Upgrade, Reinstall
<1>17. CASE UNCHANGED vars
  BY <1>17 DEF vars
<1> QED
  BY <1>1, <1>2, <1>3, <1>4, <1>5, <1>6, <1>7, <1>8, <1>9, <1>10, <1>11, <1>12, <1>13,
     <1>14, <1>15, <1>16, <1>17, <1>18, <1>19 DEF Next, RunStep, World

LEMMA SoloInit == Init => SoloInv
<1> SUFFICES ASSUME Init PROVE SoloInv
  OBVIOUS
<1>1. AdLists \subseteq Lists /\ AdLists \intersect (DnsLists \union {Bump}) = {}
  BY ListsAssumption DEF Lists, SgLists
<1> QED BY <1>1 DEF Init, SoloInv, PassedHeaders, ThisHeader, CompiledIsLive, AdListsAreLists,
           OpenAtReload, EmptyOnlyWhileConverting, ReloadDelivers, Absent, Empty

LEMMA SoloInvariant == ASSUME OneAtATime PROVE Spec => []SoloInv
<1>1. Types /\ Control /\ SoloInv /\ [Next]_vars => SoloInv'
  BY SoloStep
<1> QED BY <1>1, SoloInit, TypesAlways, PTL DEF Spec

(***************************************************************************)
(* When runs do not overlap, no page without the header of a list is ever   *)
(* converted into the filter.                                               *)
(***************************************************************************)
THEOREM OnlyListsAreConverted ==
  ASSUME OneAtATime
  PROVE  Spec => []AdListsAreLists
<1>1. SoloInv => AdListsAreLists
  BY DEF SoloInv
<1> QED BY <1>1, SoloInvariant, PTL

(***************************************************************************)
(* When runs do not overlap, a list is empty only while it is written, or   *)
(* after a cut.                                                             *)
(***************************************************************************)
THEOREM EmptyOnlyForAMoment ==
  ASSUME OneAtATime
  PROVE  Spec => []EmptyOnlyWhileConverting
<1>1. SoloInv => EmptyOnlyWhileConverting
  BY DEF SoloInv
<1> QED BY <1>1, SoloInvariant, PTL

(***************************************************************************)
(* When runs do not overlap, the reload makes the proxy apply what is on the *)
(* disk.                                                                    *)
(***************************************************************************)
THEOREM ReloadDeliversDisk ==
  ASSUME OneAtATime
  PROVE  Spec => []ReloadDelivers
<1>1. SoloInv => ReloadDelivers
  BY DEF SoloInv
<1> QED BY <1>1, SoloInvariant, PTL

(***************************************************************************)
(* When runs do not overlap: a file that is no list, once it has the name  *)
(* of an ad list, stops every change of that list and of those after it.   *)
(***************************************************************************)
THEOREM WedgedListsAreFrozen ==
  ASSUME OneAtATime
  PROVE  Spec => FrozenWhileJunk
<1>1. ASSUME Types, Control, SoloInv, [Next]_vars PROVE [FrozenStep]_vars
  <2> SUFFICES ASSUME Next, NEW i \in DOMAIN Ads, ~IsList(tmp[Ads[i]]),
                      NEW j \in i .. Len(Ads)
               PROVE  live'[Ads[j]] = live[Ads[j]]
    BY <1>1 DEF FrozenStep
  <2>1. /\ i \in 1 .. Len(Ads) /\ j \in 1 .. Len(Ads) /\ i <= j
        /\ Ads[j] \in AdLists /\ Ads[j] \in Lists /\ Ads[j] \notin ArchiveLists
    BY AdsFacts, ListsAssumption DEF Lists, SgLists
  <2>2. ~IsList(tmp[Ads[i]])
    OBVIOUS
  <2>3. ASSUME NEW r \in Runs, SedTruncate(r) \/ SedWrite(r)
        PROVE  live'[Ads[j]] = live[Ads[j]]
    <3>1. nth[r] \in 1 .. Len(Ads) /\ at[r] \in {"sed", "sedWrite"}
      BY <1>1, <2>3 DEF SedTruncate, SedWrite, GotoItem, Goto, Control
    <3>2. \A k \in 1 .. Len(Ads) : k <= nth[r] => IsList(tmp[Ads[k]])
      BY <1>1, <3>1 DEF SoloInv, PassedHeaders, ThisHeader
    <3>3. nth[r] < j
      BY <2>1, <2>2, <3>1, <3>2, AdsFacts
    <3>4. Ads[nth[r]] # Ads[j]
      BY <2>1, <3>1, <3>3, AdsFacts, ListsAssumption
    <3> QED BY <1>1, <2>1, <2>3, <3>4 DEF SedTruncate, SedWrite, Types
  <2>a. ASSUME NEW f, f \notin AdLists \/ f \in TmpFiles, \E c : Store(f, c)
        PROVE  live'[Ads[j]] = live[Ads[j]]
    BY <1>1, <2>1, <2>a DEF Store, Types
  <2>4. ASSUME NEW r \in Runs, OpenDownload(r) \/ FillDownload(r) \/ FillAd(r) \/ Receive(r)
        PROVE  live'[Ads[j]] = live[Ads[j]]
    <3>1. at[r] = "adFill" => Ads[nth[r]] \in TmpFiles
      BY <1>1, FileFacts DEF Control
    <3>2. at[r] \in {"open", "fill"} => Downloads[nth[r]] \notin AdLists
      BY <1>1, FileFacts DEF Control
    <3>3. \/ at[r] \in {"open", "fill"} /\ \E c : Store(Downloads[nth[r]], c)
          \/ at[r] = "adFill" /\ \E c : Store(Ads[nth[r]], c)
      BY <2>4 DEF OpenDownload, FillDownload, FillAd, Receive, EndFetch, GotoItem, Goto
    <3> QED BY <2>a, <3>1, <3>2, <3>3
  <2>5. ASSUME NEW r \in Runs, Untar(r) PROVE live'[Ads[j]] = live[Ads[j]]
    BY <2>1, <2>5 DEF Untar
  <2>6. ASSUME NEW r \in Runs,
               \/ Start(r) \/ CleanArchives(r) \/ Detect(r) \/ WgetAd(r)
               \/ GrepHeader(r) \/ Build(r) \/ (\E d \in WorkDirs : Chmod(r, d)) \/ ChownDirs(r)
               \/ ReloadSquid(r)
               \/ RemoveTmp(r) \/ FinalReload(r) \/ Kill(r)
        PROVE  live'[Ads[j]] = live[Ads[j]]
    BY <2>6 DEF Start, CleanArchives, Detect, WgetAd, GrepHeader, Build, Chmod, ChownDirs,
       ReloadSquid, RemoveTmp, FinalReload, Kill, files
  <2>7. ASSUME World PROVE live'[Ads[j]] = live[Ads[j]]
    BY <2>7 DEF World, Publish, NetChange, Upgrade, Reinstall, SquidStart, BootRebuild,
       Reboot, files
  <2> QED BY <2>3, <2>4, <2>5, <2>6, <2>7 DEF Next, RunStep
<1>2. Types /\ Control /\ SoloInv /\ [Next]_vars => [FrozenStep]_vars
  BY <1>1
<1> QED BY <1>2, SoloInvariant, TypesAlways, PTL DEF Spec, FrozenWhileJunk

=============================================================================
