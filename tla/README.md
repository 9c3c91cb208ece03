# SecureWall: a verification project

SecureWall turns a small ARM board into a filtering router and Wi-Fi access
point.  Little of the repository is the product's own code: a handful of shell
scripts that keep the filter lists and the proxy going, the packaging scripts
that edit configuration files on every upgrade, and a web interface (a fork of
RaspAP) that edits the same files.  By far the most of it is the Realtek Wi-Fi
driver that the package ships and builds for the access point; the rest is
third-party JavaScript and themes.  This directory models the product's own
control logic and three concurrent parts of the driver in TLA+, checks them with
TLC on small instances, and proves the properties that matter most with TLAPS
for every value of the constants.

Paths are relative to the repository; the abbreviations are

| short     | path |
|-----------|------|
| `wall/`   | `src/src/securitas-wall/tmp/src/` |
| `host/`   | `src/src/securitas-wall-host/` |
| `web/`    | `src/src/securitas-wall-webadmin/tmp/src/var/www/html/` |
| `drv/`    | `src/src/securitas-wall-host/usr/src/rtl8812au-5.1.5/` |

## 1. Inventory

### The parts and how they interact

```
 cron.daily ── updateSquidGuard ── get-easylist.sh ── squidGuard -C ── squid -k reconfigure
                    │  wget -O, tar                        │                │
                    ▼                                      ▼                ▼
          /var/lib/squid, /var/lib/squidguard/db  ────►  *.db  ────►  squid + redirectors
                    ▲                                      ▲                ▲
 boot ──────────────┴── init.d/generateSquidGuardDB ───────┘                │
 boot, cron.daily/restartSquid, administrator ── init.d/squid ──────────────┘

 browser ── hostapd.php, dhcp.php ── /tmp/{hostapd,dnsmasq,dhcpd}data ── sudo cp ─┐
 cron.weekly/updateSystem ── apt ── postinst (host, wall) ── cp, sed -i, >> ──────┤
                                                                                  ▼
                       /etc/hostapd/hostapd.conf, /etc/dnsmasq.conf, /etc/dhcpcd.conf

 Linux ── rtw_xmit ── sleep queues ── pending queues ── transmit tasklet ── USB ── chip ── stations
 any context ── rtw_enqueue_cmd ── cmd_queue ── command thread ── beacon, ADDBA answer, ...   │
 Linux ◄── reorder buffer (timer) ◄── receive tasklet ◄── USB ◄──────── chip ◄────────────────┘
```

The driver's three parts meet in the command thread: the ADDBA answer that
switches the reordering on (`RxReorder`), and the beacon and broadcast commands
of the sleep queues (`SleepQueue`) are commands of its queue (`CmdQueue`).  Each
of those two modules takes from it what `CmdQueue` establishes: one thread,
which executes the commands one after the other and in order.

| component | state | operations | what makes it hard | what makes it correct | here |
|---|---|---|---|---|---|
| **List update** `wall/etc/cron.daily/updateSquidGuard`, `get-easylist.sh`, `urls.txt` | `/tmp/*.tgz`, `/tmp/adblock`, the list files, squidGuard's `.db` files, the modes of the database directory | download, extract, test for a header, convert, compile, chmod/chown/find, reload, clean up | no lock: a run from cron and one by hand share every file; each command writes in place; the script exits in the middle and leaves its downloads; `wget -P` does not overwrite; the database is unreachable for the proxy between `chmod` and `find` | what the proxy applies becomes the published lists; a page that is no list never becomes a filter; nothing goes back to an older version; the proxy never loads while the database is closed | `FilterUpdate` |
| **Boot-time rebuild** `host/tmp/src/etc/init.d/generateSquidGuardDB` | the `.db` files | `squidGuard -C all` in the background | meets whatever a power cut left | as above | `FilterUpdate` |
| **Readers** squid, squidGuard, dnsmasq | what they have loaded | start, reconfigure | load at times others choose; squidGuard passes everything when one list cannot be opened | as above | `FilterUpdate` (what is loaded, and when) |
| **Proxy init script** `wall/etc/init.d/squid`, `cron.daily/restartSquid` | process table, pid file, configuration file; per call `PID`, `cnt` | start, stop, restart, reload | several callers; a pid file that squid writes some time after the start and that outlives its process; a number that another program gets; a squid slower than the loop | at most one squid; stop has stopped it; restart leaves a proxy; every call ends | `SquidService`, `SingleDaemon` |
| **Hotspot and DHCP pages** `web/includes/hostapd.php`, `dhcp.php` | three staging files, three configuration files, `hostapd.ini` | save the hotspot settings, save the DHCP settings | staging names are fixed and shared by all sessions; every write truncates; two pages and two packages own `dnsmasq.conf` | a save arrives as a whole; no file is left empty; the range one page sets is not undone by the other | `Hotspot` |
| **Package upgrades** `host/DEBIAN/postinst`, `src/src/securitas-wall/DEBIAN/postinst`, `wall/etc/cron.weekly/updateSystem` | the same files, the marks they leave in them | copy templates, generate the network name, append `denyinterfaces` | run unattended while the pages are used; `sed -i` replaces the file | idempotent: the settings survive an upgrade | `Hotspot` (what concerns the three files) |
| **ini files of the web interface** `web/includes/functions.php`, `web/ajax/networking/*` | `/etc/raspap/**/*.ini` | `safefilerewrite`, read | truncation happens before the lock is asked for | a reader sees the old or the new file | planned |
| **Wi-Fi client pages** `configure_client.php`, `wifi_functions.php` | `wpa_supplicant.conf` | scan, save | fixed staging file | | planned; switched off in the menu (`config.php:29`) |
| **OpenVPN page** | three files | upload, copy | | | no; switched off in the menu |
| **Authentication, session, CSRF** | password file, session | log in, change password | password file is truncated and written without a lock | | partly planned (password file) |
| **Dashboard, system, statistics, themes, locale, templates** | none | read, reboot, shutdown | | | no: they change nothing |
| **Web console** | | | | | no: third-party |
| **Firewall and network setup** `iptables.ipv4`, `br0`, `70-ipv4` | static | | | | no: configuration |
| **Docker helpers, log cleanup, RAM disk, virus scanner** | | one command each | | | no |
| **Driver: receive reordering** `drv/core/rtw_recv.c`, `rtw_mlme_ext.c` | per station and traffic class: `recv_reorder_ctrl`, its queue and timer, the last sequence number | frame received, timer, ADDBA request and answer, DELBA of either side | tasklet, timer handler, command thread and teardown; two of the four take no lock; 12-bit numbers; the timer is cancelled outside the lock | in order, none twice; nothing stays in the buffer; new frames are not taken for old | `RxReorder`, `OrderedDelivery` |
| **Driver: command queue** `drv/core/rtw_cmd.c`, `drv/os_dep/linux/os_intfs.c` | `cmd_queue`, two semaphores, `cmdthd_running`, `stop_req`, `sctx_mutex`, the objects | enqueue, wait for a result, execute, start, stop, suspend, remove | counting semaphores that outlive the thread; callers that give up; a thread that may leave by itself; flags without lock | results only to callers that still wait; no wakeup lost; stop returns; nothing queued after the last drain | `CmdQueue` |
| **Driver: sleep queues of the access point** `drv/core/rtw_xmit.c`, `rtw_recv.c`, `rtw_ap.c`, `rtw_mlme_ext.c`, `rtw_cmd.c` | per station `sleep_q`, `sleepq_ac_len`, `sta_pending`; `sta_dz_bitmap`, `tim_bitmap`, the beacon | transmit, go to sleep, wake, PS-Poll, trigger, alive check, send beacon, release broadcasts | transmit path, transmit and receive tasklet, timers and command thread; three places write the bitmaps without a lock; a frame that has been taken is sent later; station and access point disagree for a while | a frame that waits is announced; frames keep their order and leave; nothing waits for a station that is awake | `SleepQueue` |
| **Driver: the rest** | | chip, firmware and register tables; ioctl and cfg80211; client mode, P2P, TDLS | | | no: see section 6 |

`PROJECT.json` lists the same components with their files, and under `hazards`
each place where the code can go wrong in a way a test would hardly reach,
with the property that would show it.

### What the properties are for

None of the scripts takes a lock, checks the exit code of what it has called (but for
the header test and the last `cp`), or writes to a new file and renames it.  So
the questions asked of every component are the same four: what do two
overlapping executions do to each other, what does an execution that stops
half-way leave to the next one, what does a reader see in between, and do things
get well by themselves when the disturbance is over.

The driver does take locks, but not everywhere.  The questions there are what
the unlocked accesses can do, whether timers, semaphores and flags agree with
the queues they stand for, and whether everything that is queued leaves.

## 2. Modules

### FilterUpdate

One process `r \in Runs` executes `updateSquidGuard`.  Its program counter
`at[r]` names the next command that somebody else could see the effect of,
`nth[r]` is the position in its list of files.

| step | command |
|---|---|
| `OpenDownload`, `Receive`, `FillDownload` | `wget -O f url`: truncate, receive a first part, end with what the network gives (`updateSquidGuard:2-4,12-21`) |
| `Untar` | the two `tar` calls; only archives that are readable replace lists (`:7-8`) |
| `CleanArchives` | `chown -R`, `rm -f` (`:23-26`) |
| `Detect` | the chain of detections at the beginning of `get-easylist.sh`, each of which exits |
| `WgetAd`, `Receive`, `FillAd` | `wget -P`: keeps an existing file of that name, creates a missing one when the server answers, and fills it bit by bit (`get-easylist.sh:245`) |
| `GrepHeader` | the header test and the exit (`:250-255`) |
| `SedTruncate`, `SedWrite` | `sed ... > list`: the shell truncates, sed writes (`:258`) |
| `Build` | `squidGuard -b -d -C all` (`:265`) |
| `Chmod`, `ChownDirs` | the four `chmod`, then `chown` and `find ... chmod 755` (`:277-283`) |
| `ReloadSquid`, `RemoveTmp` | `squid -k reconfigure`, `rm -rf /tmp/adblock` (`:291-294`) |
| `FinalReload` | the end of `updateSquidGuard`, reached after every exit (`:34-36`) |

A file's content is missing, empty, a page that is not a list, a part of a
version, or all of a version.  The world publishes versions, changes the
network (up, cut transfers, down, captive portal), upgrades packages (the
binaries disappear and return), starts squid, kills runs and cuts the power.
`/tmp` is emptied by a reboot, the rest stays.  A download is a file that is
empty, then a part, then whole, and another run, a kill or a power cut can come
at each of these moments; `writer` says which runs have a file under `/tmp` open, since a
`wget` whose file has been removed by another run goes on writing to one
without a name.  `Served` and `Emergency` say
what a squidGuard helper makes of the files: the compiled form when there is
one, and no filtering at all when a list cannot be opened.

The `ufdbGuard` branch of `get-easylist.sh` is left out: `updateSquidGuard:28`
always passes `squidGuard`.  The pattern file of sed is text to the model.
Permissions are two booleans, since only two facts about them matter: can the
proxy user enter the database, and can the two scripts be executed.  The second
is at stake because `FILTER_LOG_FILE` is never set: `get-easylist.sh:280` comes
down to `chmod -R 644 .`.  `WorkDirs` says where a run may be started from; one
started at or above the scripts (`"scripts"`), and cron's `/` is above them, makes
`Start` impossible until `Reinstall` (`DEBIAN/postinst:54`) makes the scripts
executable again.

### SquidService and SingleDaemon

One process `c \in Callers` executes `init.d/squid` with an argument of
`Commands`.  The process table maps process numbers to `free`, `booting`,
`running`, `dying` (the three of squid) or `other`.  `Tick` is the five seconds
of `sleep 5`; the commands between two sleeps take no time, so `Tick` waits until
every call sleeps or is idle.  `sleep 2` before the first test is shorter than a
tick: a squid that has nothing left to do may or may not be gone by then.  A
squid that has been told to stop needs a number of ticks that is chosen when the
signal arrives and that the script does not know.

| step | code (`wall/etc/init.d/squid`) |
|---|---|
| `Call`, `Parse` | the `case`, `squid -k parse`, exit 3 (`:146-198`) |
| `ReadPid` | `PID=$(cat $PIDFILE)` (`:111`) |
| `Terminate` | `start-stop-daemon --stop`, which reads the pid file again and looks at the program (`:112`) |
| `Test`, `Poll` | `kill -0`, `cnt`, the limit of 24 (`:117-131`) |
| `StopReturns` | `restart` ignores the result (`:191`) |
| `StartCheck`, `Launch` | `start-stop-daemon --start` (`:104-107`): its look at the pid file, then the launch |
| `Hup` | `start-stop-daemon --stop --signal 1` (`:178`) |

`start-stop-daemon` returns when squid has gone to the background; the pid file
is squid's own and comes later (`Boot`).  Between the look and the pid file
another start finds no squid and launches a second one, and a stop finds nobody
to signal.  `Refuse` is a squid that looks for another one before it writes its
pid file, and gives way; the repository does not say which version it runs, so
it may or may not.  The history variable `early` records which kind of command,
`start` or `stop`, has looked at the pid file while somebody was `Coming`; no
step depends on it.

`Exit`, `Crash`, `Reuse`, `OtherEnds` and `EditConf` are squid, other programs
that get squid's number, and the administrator.  `SingleDaemon` is the abstract
specification: a daemon that is down, up or stopping, never two, and never up
again before it was down; and a hold on it that can be lost for good.
`SquidService` implements it under the mapping `Phase`, which says exactly when
that happens: when `"start" \in early`.

### Hotspot

A request `r \in Requests` is one PHP worker that saves one of the two pages.
For each file it executes `Put`, `Fill` (`file_put_contents` to the fixed name
in `/tmp`: truncate, write), `Open`, `Read`, `Write` (`sudo cp`: truncate the
target, read the source, write).  Between `hostapd.conf` and `dnsmasq.conf` the
hotspot page fetches the `dhcp-range` in force (`FetchRange`,
`hostapd.php:236-250`).  `WriteIni` comes first, before the form is verified
(`hostapd.php:130-137`); a refused form ends there.

The `host` package upgrade is `HostOpen`, `HostWrite` (`cp -ru` of the
template, taken when the template is newer), `Grep` (is `#wifi_random_added`
there), `Sed`, `Rename` (`sed -i`), `Mark` and `Deny` (`echo >>`).  The `wall`
package copies its `dnsmasq.conf` every time (`WallOpen`, `WallWrite`).

Three points of the file semantics carry the interesting behaviour:

* `Overlay`: two processes that have both truncated a file and both write leave
  a mixture; which settings a reader takes from it depends on the texts, so
  either may win.
* `Written`: a `cp` that has read an empty staging file writes nothing and
  leaves its target as it is at that moment.
* `astray`: `sed -i` renames a new file over `hostapd.conf`; a `cp` that holds
  the old one open goes on writing to a file that has no name any more.

`alone` and `picked` are history variables: they record whether a request has
had company and whether the range in force was set undisturbed.  No step of the
code depends on them.  The DHCP page is not in the menu (`config.php:32`), but
`index.php` serves its address.  Starting and stopping the hotspot, and the log
switches, call scripts that are not part of the repository or systemd, and are
left out.

### RxReorder and OrderedDelivery

The driver's configuration is that of `drv/include/autoconf.h`: USB, RTL8812A
and 8821A on Linux, one interface (no `CONFIG_CONCURRENT_MODE`), reordering on,
no `CONFIG_LPS_LCLK`, access point mode.

One station and one traffic class.  A frame is its absolute number in the
peer's stream; the driver sees it modulo `SeqMod` (4096), and every comparison
of the driver is translated as it is written, on the 12-bit numbers.

| step | code (`drv/core/rtw_recv.c` unless noted) |
|---|---|
| `Receive`, `DirectDone` | `recv_decache` (`:770`); the path of a disabled control, which writes `indicate_seq` before and after the frame goes up (`:3077-3094`) |
| `DropOld`, `DropDuplicate`, `Enqueue` | `check_indicate_seq` and `enqueue_reorder_recvframe` under the lock (`:2757-2875`, `:3130-3165`) |
| `IndicateHead` | one frame of the loop of `recv_indicatepkts_in_order` (`:2940-3012`), by tasklet or handler |
| `LoopLeavesSome`, `LoopLeavesNone`, `Cancel` | the timer is set inside the lock, or cancelled outside it (`:3179-3189`) |
| `TimerFires`, `TimerFindsNone`, `TimerForces`, `TimerDone` | `rtw_reordering_ctrl_timeout_handler` (`:3204`); an empty queue makes the forced delivery answer true, so that the timer is set again |
| `AddbaReq`, `SendRsp`, `ResetSeq`, `SetEnable` | `process_addba_req`, at any time, also within a session; and the three statements of `add_ba_rsp_hdl` in the command thread (`rtw_mlme_ext.c:14168`), with no lock |
| `DelbaArrives`, `LocalDelba`, `Stop` | `OnAction_back`, `_send_delba_sta_tid`, `rtw_delba_check`, `RTW_CANNOT_RUN` |

`MaySend` is the peer: it repeats frames within a window while it aggregates
and one frame otherwise, jumps ahead by at most `GapMax`, and does not send half
the number space while a frame is pending.  That last is an assumption about the
peer: within a session a frame that far behind has left with the window, and for
one that an ended session has left in the buffer it says that the peer needs
longer for so many frames than the timer needs to release it (50 ms for each run
of numbers).  `out` and `cur` are history: what this session has handed up and
what it has in the buffer.  `OrderedDelivery` is the abstract specification: a
session hands up growing numbers.  A frame that is left from an earlier session
and goes up during the next is not the next one's (`cur`).

### CmdQueue

Callers `c \in Cmds`, each with one command, those of `Waiting` with a context
on their stack; threads `t \in 1 .. MaxStarts`, one for each time the device is
opened; and whoever opens and unloads it.

| step | code (`drv/core/rtw_cmd.c` unless noted) |
|---|---|
| `Submit`, `Enqueue`, `Up` | the filter, the queue under its lock, the semaphore (`:406-449`) |
| `Wake`, `Leave` | `rtw_sctx_wait` with two seconds (`rtw_xmit.c:4987`); the check under `sctx_mutex` (`:1272-1278`) |
| `ThreadStarts` ... `Terminate` | `rtw_cmd_thread`, one step for each access to something shared (`:513-699`) |
| `Open`, `OpenDone`, `OpenFails` | `rtw_start_drv_threads`, `_netdev_open` (`os_intfs.c:1537`, `:2605`) |
| `Suspend`, `Remove`, `Stop`, `Join`, `Unload`, `Unloaded` | `rtw_suspend_normal`, `rtw_dev_remove`, `rtw_stop_cmd_thread` (`:488`), `rtw_dev_unload` (`os_intfs.c:3301`) |
| `UrbError` | a transfer that fails for good sets `bSurpriseRemoved` (`usb_ops_linux.c:474-480`) |

`Wake` may happen at any moment, since the time-out is compared with nothing.
What a command does is left out; that it ends is assumed (fairness of
`Thread`).

### SleepQueue, StationFlows

Stations `Stas`, each with the set of categories it has asked to be
delivery-enabled (`Configs`), and the entry of the broadcasts.  A frame names
its station, its category and its number in that flow.

| step | code |
|---|---|
| `Give`, `GiveBmc` | `rtw_xmit`, `xmitframe_enqueue_for_sleeping_sta` (`rtw_xmit.c:4112-4118`, `:4239`): into the sleep queue, with the bitmaps and the beacon, or on |
| `HalXmit`, `SendDirect` | `pre_xmitframe` (`rtl8812au_xmit.c:869`): the decision under the lock, to the pending queues or at once; then `xmitframe_direct` without it (`:901`) |
| `TakeFrame`, `TakeMore`, `WriteTransfer` | `rtl8812au_xmitframe_complete` (`:475-778`): `rtw_dequeue_xframe` (`rtw_xmit.c:3187`) takes the first frame, further ones of the flow follow under the lock, `rtw_write_port` comes after it |
| `Sleep`, `Wake` | `stop_sta_xmit`, `wakeup_sta_to_xmit` (`rtw_xmit.c:4417-4687`), whose update of the beacon is `RxTell` |
| `PsPoll`, `Trigger` | `validate_recv_ctrl_frame` (`rtw_recv.c:1515`), `process_wmmps_data`, `xmit_delivery_enabled_frames` |
| `PollTest`, `PollLen`, `PollRead`, `PollWrite`, `RxTell` | the end of a PS-Poll that found no frame, after the lock has been released (`rtw_recv.c:1606-1624`): test the bit, reset `sleepq_len`, read and write `tim_bitmap`, update the beacon |
| `AliveCheck`, `WriteAsk`, `ClearSleepQ` | `expire_timeout_chk` (`rtw_ap.c:494-534`): the TIM bit it sets under a lock of its own, and the station it wakes when buffers run out |
| `TakeBeacon`, `TakeBmc`, `TestBmc`, `FlushBmc` | `tx_beacon_hdl`, `chk_bmc_sleepq_hdl` (`rtw_mlme_ext.c:14345-14429`) |
| `TakeHiq`, `ReadTim` ... `Announce` | `rtw_chk_hi_queue_hdl` (`rtw_cmd.c:3129`), which clears the broadcast bits of two bitmaps without the lock |

`tim` is the bitmap, `ie` the TIM written into the driver's beacon, `air` what
the chip sends: the three differ until the command thread has done its work.

What the driver does under the lock of its transmit queues is one step.
`OneCpu` says whether anything can come between two steps of the transmit path,
of a tasklet or of `expire_timeout_chk`: on one processor it cannot, because
bottom halves are off.  The command thread's unlocked read, mask and write can be
interrupted in either case.

Two history variables say when the driver's own rules have been broken; no step
depends on them.  `raced` records that an unlocked statement on a bitmap or on
`sleepq_len` has met another change: it wrote back a bitmap that had changed in
between, it was itself lost to a locked statement on another processor (`Lost`), it
took back the announcement of a frame that had just come, or it asked a station
that was no longer asleep.  `late` records the stations of which a frame may be
overtaken: they fell asleep between the two decisions of `rtw_xmit`
(`rtw_xmit.c:4118`, `:4122`), or a frame of theirs was sent straight away while
the tasklet was preparing a transfer with an earlier one.

`SleepAssumption` allows fifteen stations: `sta_dz_bitmap` and `tim_bitmap` have
sixteen bits ("only support 15 stations", `sta_info.h:570`).  `OnAssocReq`
(`rtw_mlme_ext.c:2881`) gives out association numbers up to `NUM_STA`; what
happens to the bit of number 16 is not modelled.

`StationFlows` is the abstract specification: per station and category a number
of frames handed in and the number of the last one handed on, which grows by one
or, when a transfer holds several, by more, and never passes the first; an
excused station has no such promise any more.
`ImplementsFlows` maps `given` and `sent` of the stations to these two and says
who is excused: the stations in `late`, all of them once `raced` holds.

`Select(q, S)` is what a walk along one of the driver's lists picks out of it:
the frames of a category, those a trigger delivers, those it leaves.

## 3. What is checked

`MCFilterUpdate`, `MCSquidService`, `MCHotspot` and `MCSleepQueue` hold the values that a
configuration cannot express, the symmetry and the constraint.  Every property
of a passing run has a mutant in `PROJECT.json`: a plausible mistake in a
definition that makes TLC find the property violated under the same
configuration.  The mistakes that need an operator of their own stand in the
module that they change, each with a comment that says what is wrong in it.

| run | question | answer |
|---|---|---|
| `update_single` | What does one run at a time leave on the disk and in the proxy, with two ad lists, an archive, a captive portal, a kill or a power cut anywhere? | The reload after a rebuild delivers what is on the disk; a page that is not a list is never converted; a list is empty only during its conversion; a wrong file in `/tmp/adblock` freezes its list and those after it. |
| `update_overlap` | What is left of this when two runs overlap? | The database is closed only in the window of some run; a leftover download never takes a list back. |
| `update_live` | Does the proxy get the published lists in the end? | Yes, after interrupted transfers, a kill or a power cut, once the network is up, the scripts stay executable and nothing blocks `/tmp/adblock`. |
| `squid_one` | One caller, 24 rounds, a squid that needs at most 22: does stop stop, does restart restart? | Yes, also after crashes and with a configuration that is broken at times, unless a command comes before the squid of the last start has written its pid file. |
| `squid_many` | Two callers, stale pid files, reused numbers: is there ever a second squid, is `SingleDaemon` implemented, does every call end? | No second squid until a start looks at the pid file while another one's squid is coming; implemented, with the hold on the proxy lost from that moment; every call ends in any case. |
| `hotspot` | Two requests of either page, an upgrade, a power cut, in any order: what can overlap and interruption do to the files? | No request leaves a file empty; a save without company is complete whatever it found; a range set on the DHCP page survives saves and changes of mode. |
| `rx_reorder` | Lost, doubled and late frames across the wrap of the numbers, two requests at any time, both kinds of teardown, the timer against its cancellation: what does the network stack get? | Growing numbers within a session (`OrderedDelivery`); the buffer is sorted although only 12 bits are compared; the flag, the timer and the buffer agree; every frame leaves the buffer. |
| `cmd_queue` | Two callers, one of them waiting, two lives of the thread, suspend, removal, a failing transfer: do results, wakeups and joins match? | A context is written only while its owner waits; no wakeup is lost; every stop returns; every queued command is executed or freed while there is a thread. |
| `sleep_pair` | Two sleeping stations, with and without a legacy category, broadcasts, on any number of processors: do the bitmaps, the queues and the beacon on air agree? | Yes, until an unlocked statement of the command thread, of the alive check or at the end of a PS-Poll meets another change; nothing under the lock breaks them. |
| `sleep_fair` | A station of each kind that sleeps, polls, triggers and wakes whenever it likes, two frames, on any number of processors: do the frames keep their order, is the counter behind the triggers right, and does every frame leave? | `StationFlows` is implemented: in order, none lost or doubled, but for the stations in `late` and until the bitmaps have raced; the counter is never too low; every frame leaves, an overtaken one too, even if the station never wakes for good, unless the bitmaps have raced, which may take an announcement back for good. |
| `rx_newest` | Is a frame that is newer than all before it ever dropped as old? | Yes: a finding. |
| `cmd_late` | Is the queue empty for good after the last drain? | No: a finding. |

### Bounds

* `update_*`: `MaxPub = 2` gives an old and a new version, which is what "older
  than" and "fresh" distinguish; `update_single`, whose properties compare contents and
  not versions, has one.  `MaxFaults = 1` puts one kill or power cut at any step,
  a half-written download included; what it leaves meets whole runs.  The two
  kinds of working directory are in `update_live`, the one whose property the
  mode of the scripts matters to.  Two ad lists show that a failure of the first stops
  the second; lists treated alike are represented by one of their kind.  Two
  runs are enough for a window: one in it, one reading.
* `squid_one` keeps the script's own limit, `MaxPolls = 24`.  A squid of
  `MaxLife = 22` ticks needs 23 rounds at most; with 24 the result is open, so
  the bound is at the edge.  `squid_many` shortens the loop to
  one round, because the number of rounds does not change who may interleave
  with whom.
  Two callers and one foreign process cover what a call may meet; two numbers
  are enough for a second squid to appear.  `squid_many` leaves out `reload` and
  the broken configuration, which `squid_one` has.  The constraint
  `NoLookTooEarly` of `squid_one` ends a behaviour where a command has looked for
  a squid that is still coming: `early` never shrinks, and its three properties
  except it.
* `hotspot`: two requests with two submissions, one upgrade and one power cut
  cover save against save, save against upgrade, and recovery after a cut.
  `MaxSuffix = 2` counts how often a name was extended.

* `rx_reorder`: 12 numbers instead of 4096 with a window of 2 instead of 64 keep
  the proportions that matter: `2 * WSize + GapMax <= Half`, so that a frame of
  the window, or one that is late by a window, is never half the number space
  away.  Frames 10 to 13 cross the wrap at 12.  Two ADDBA requests give a session
  that finds the buffer of the one before; the rejecting answer is one of them.
  A window of 2 has room for one hole; what several holes do, each of which the
  handler frees one at a time, is in the theorems but not in `EveryFrameLeaves`.
  `rx_newest` begins at 8 so that the new numbers lie in the upper half.
* `cmd_queue`: two commands, one with a waiting caller, are enough for a queue
  that is not empty when the thread leaves; two starts for counts that the first
  thread leaves to the second.
* `sleep_pair`: `Mixed` is one station with a legacy category and one without,
  the two rules for the TIM.  One frame and one broadcast: what is sought is a
  bit that is wrong, and a frame beside a change of the sleepers is enough for
  it.  `OneCpu = FALSE` allows more interleavings than `TRUE`.  The constraint
  `BitmapsWhole` ends a behaviour where `raced` has become true: it stays so, and
  all three properties except it.
* `sleep_fair`: two frames of one category can overtake each other at each of the
  places where the path divides: sleep queue, pending queue, direct, transfer in
  preparation.  The four categories are treated alike but for PS-Poll (which is
  taken as best effort), so BE and another one are kept.  There is no broadcast
  and no second station in it; those run in `sleep_pair`, and what they may do to
  the order is in the theorems, which have no such bounds.
* `MaxStale` bounds how far `sleepq_ac_len` drifts upwards (below, section 5),
  `MaxCmds` holds back new work while as many commands are queued: commands of
  the thread itself are never refused.

`CHECK_DEADLOCK FALSE` is set for `Hotspot` and for the driver's modules: when
the submissions, frames, commands and starts that the bounds allow are used up,
nothing is left to do.  `FilterUpdate` and `SquidService` never stop.

### Fairness

* `FilterUpdate`: weak fairness of each run's steps (the shell goes on), of
  starting (cron does so daily), of starting squid after a boot, and of the
  boot rebuild.  Nothing is assumed about the network, kills, upgrades, the
  directory a run starts in or a reinstallation: `FreshFilter` is
  `<>[]Calm => []<>Fresh`, and `Calm` is that the network is up, the tools are
  installed, the scripts executable, and no file that the header test refuses has
  been left in `/tmp/adblock`.  The first part of a list that a kill leaves is not such a file:
  it is converted, and the proxy gets past it.  Starting is fair only as long as
  the scripts are executable.
* `SquidService`: weak fairness of each call's steps and of the exit of a squid
  that has no work left (none of `Boot`: a squid may take as long as it likes to
  write its pid file); strong fairness of `Tick`, since time passes however
  often somebody calls the script in between (with weak fairness a
  caller that starts a call in every interval would stop the clock).  Calls,
  crashes and other programs are not fair.
* `Hotspot`: none; its properties are safety.
* `RxReorder`: weak fairness of the tasklet, of the timer and of its handler:
  the kernel runs what is scheduled.  Strong fairness of the delivery loop:
  `indicate_seq` can be reset by the command thread in the middle of the loop,
  which disables its step for a moment, and a reset does not win every time.
  Nothing is assumed about the peer.
* `CmdQueue`: weak fairness of the callers, the threads and of a stop that has
  begun: threads that can run do, and command handlers end.  No fairness for
  opening, suspend, removal or failing transfers.
* `SleepQueue`: weak fairness of the command thread, of the rest of `rtw_xmit`
  (`HandsOn`), of the unlocked end of the receive tasklet and of a transfer that
  has been taken; strong fairness of taking one (`TakeFrame`) and of a station's
  polls (when the beacon on air names it) and trigger frames.  Strong, because
  a station may fall asleep and wake again for ever, and the frames move to and
  fro each time.  A station that does not fetch its frames is removed by the
  driver after a time-out, which is not modelled.

## 4. What is proved

The theorems hold for every set of runs, callers and requests, every sequence
of lists and every bound, from the assumptions on the constants stated in the
modules (`ListsAssumption`, `BoundsAssumption`, `ServiceAssumption`,
`ReorderAssumption`, `CmdAssumption`, `SleepAssumption`).  TLC
evaluates these assumptions in every run.

**FilterUpdate_proofs**

* `TypeInvariant`: the types are not inductive alone; `Control`, the other part
  of `TypeOK`, says that a loop index points into its list at every step that
  uses it.
* `PermissionWindow`: any number of runs.  Inductive as stated, given that a kill counts as a
  fault.
* `NoRollback`: any number of runs, kills, power cuts.  The strengthening
  `VersionsPublished` says that no file is newer than `pub`; a fresh download
  then cannot be older than what is in use, and a kept one was there before.
* `OnlyListsAreConverted` (`AdListsAreLists`), `EmptyOnlyForAMoment`
  (`EmptyOnlyWhileConverting`), `ReloadDeliversDisk` (`ReloadDelivers`) and
  `WedgedListsAreFrozen`: under `OneAtATime` (two runs are never both active
  because `Runs` has one element).  The strengthening `SoloInv` carries from step
  to step what the run has established: `PassedHeaders` (every list before `nth`
  has passed the test), `ThisHeader` (the file that is converted is the file
  tested), `CompiledIsLive` (from the rebuild to the reload) and `OpenAtReload`
  (the database can be entered when the reload comes).

**SquidService_proofs**

* `TypeInvariant`; `OneSquid` (`PidFileNamesSquid`): any number of callers,
  crashes, foreign processes, with check, launch and pid file as three steps.
  The strengthening `OneComing` says that, as long as `"start" \notin early`, one
  start at a time is past its look at the pid file, and that while it is there is
  no squid.
* `ServiceImplementsDaemon`: initial states map to the initial state, and each
  step to a step of `SingleDaemon` or a stutter.  It needs `OneSquid`: with a
  second process the phase could go from stopping back to up.  The step that puts
  `"start"` into `early` is `Lose`, and there is no other.
* `StopReallyStops` under `OneAtATime`: `WaitsForSquid` says that, as long as
  `early` is empty, a call between its reading of the pid file and its last test
  has in `seen` the number of every squid there is.
* `WaitBounded`, `RestartRestarts` under `OneAtATime` and `Reuses = FALSE`, the
  latter also with `MaxLife < MaxPolls`: `WaitInv` relates the rounds of the
  loop to the ticks squid still needs.

**Hotspot_proofs**

* `TypeInvariant`, including that a copy holds data only between its read and
  its write.
* `OverlapLeavesNoEmptyFile`: any number of requests.  The inductive invariant
  `FileInv` says for each staging file and each configuration file that it has
  a text, or somebody is still going to write one, or a copy that has read it
  empty is going to leave its target to another who has not finished.  Behind
  it is the order every request keeps: whoever truncates a staging file fills
  it before copying it.
* `LoneSaveIsComplete`, `PickedRangeSurvives`: `LoneData` follows an undisturbed
  request file by file (`SaveInv`: the files already copied have its mode;
  `CopyInv`: the staging file and the buffer hold its text; `PickedInv`: the
  range it fetched is the one that was set).

**RxReorder_proofs**, for every window and number space with
`2 * WSize + GapMax <= Half`

* `TypeInvariant`, `NeverStalls`, `FlagIsTrue`: `TimerInv` adds to `NoStall` and
  `WaitingMeansTimer` what the points of the tasklet mean for the lock.  The
  case behind it is the cancellation outside the lock: it waits for a handler
  that has been started, but not for a timer that this handler sets.
* `BufferIsSorted`: `SNLess` on remainders agrees with the order of the absolute
  numbers as long as these are less than `Half` apart (the lemmas on `%` at the
  beginning); `FrameInWindow` shows that a frame at the door of the buffer is.
* `DeliversInOrder`: every step is a step of `OrderedDelivery` or a stutter.
  `WindowKnown` says that `indicate_seq` stands for an absolute number `w` above
  all that was handed up and near the newest frame; `PendingClose` that a forced
  delivery, which sets it to the number of the oldest frame in the buffer, keeps
  it there; `OutBeforePending` that the buffer is newer than what went up;
  `DirectIsFresh` that a frame on the direct path while the session is switched
  on does no harm, because the session has nothing yet.

**CmdQueue_proofs**, for every set of callers and number of starts

* `TypeInvariant`, including that no semaphore is taken below zero.
* `ContextsAreAlive`: `ContextInv` says that a writer holds the mutex and the
  command still points to the context, that a pointer belongs to a caller that
  has not returned, and that an answered context is still pointed to only by the
  thread that is about to clear it.
* `NoWakeupIsLost`: `Attended`, for a queue that is not empty: a count in the
  semaphore, a caller about to give one, or a thread that will look again.

**SleepQueue_proofs, SleepQueueOrder_proofs**, for every set of at most fifteen
stations, every choice of delivery-enabled categories and any number of
processors

* `DozeBitmapIsExact`, `NothingHeldForTheAwake`: `DozeInv`, of which both are
  parts, holds as long as `raced` does not: what is then written back is the
  bitmap as it is, but for the bit in question.  Its third part, `Lens`, says
  that `sleepq_len` is the length of the queue.  A wake-up needs it, since a
  station counts as awake only when the count has come down to zero, and the
  unlocked reset at the end of a PS-Poll is what could break it.
* `TypeInvariant`, `CounterCoversQueue`: one invariant, `CountInv`.  The counter
  of the driver is unsigned, and that it does not go below zero is that it is no
  less than what a wake-up or a trigger takes off.  A trigger leaves nothing that
  counts (`CountLegacy`), a poll leaves no more than there was (`CountTail`).
  Neither has an exception for `raced`.
* `AnnouncementsReachTheAir`: `AirInv` follows an announcement station by
  station: `BitsSet` (who has a frame to be announced has its bit, given that the
  bitmap of sleepers is exact), `TimWritten` (the bits are in the beacon in
  memory, but while the alive check or a wake-up is about to write them:
  `Telling`), `BeaconSent` (without a command for it, that beacon is on air).
* `FramesKeepTheirOrder`: `OrderInv` reads the transfer in preparation, the
  pending queue, the sleep queue, and the frame in `rtw_xmit` as one sequence,
  `Way`, and says that it carries the numbers from the last one sent to the last
  one given (`WayInv`).  Three facts make it inductive.  A queue holds only
  frames of its station and category (`KindInv`), so that `Sleep`, which puts two
  pending queues one behind the other, and a walk for one category find each as
  it was.  Nobody whose frame is being decided sleeps (`FlightInv`), so that the
  frame is put behind an empty sleep queue; that the queue of a station that is
  awake is empty is part of `DozeInv`.  And a frame that is sent straight away is
  the only one on its way (`DirectInv`).  `FlightInv` and `DirectInv` are where the
  two reasons for `late` are needed.
* `OrderOnOneProcessor`: on one processor `late` stays empty (`OneAtWork`: no
  frame is in `rtw_xmit` while the tasklet prepares a transfer), and only the
  exception for the bitmaps is left.
* `FlowsAreKept`: each step is a step of `StationFlows` or a stutter.  What needs
  `OrderInv` are the two places where frames leave: one that is sent straight
  away is the next of its flow (`DirectIsNext`), and a transfer carries the
  oldest ones (`TransferIsNext`).  The other steps hand in, excuse, or leave the
  flows as they are.
* `SleepQueueLemmas` holds what `Select` does to an appended, joined, halved or
  already selected queue.  These are inductions over the length of a queue.  The
  library's induction theorems have an operator as parameter; `LeastNatural`
  gets by with a set, `NatSetInduction` and `SeqSetInduction` follow from it, and
  each lemma then shows that the set of the queues for which it holds is closed
  under `Append`.  `SelectWalks` shows first that the recursive function inside
  `Select` exists.

**Only model-checked**: the liveness properties `FreshFilter`, `EveryCallEnds`,
`StopReturns`, `EveryCommandLeaves` and the two `EveryFrameLeaves` (fairness and
`ENABLED` are out of the prover's reach).  Every other property that a passing
run checks is also a theorem.

## 5. Findings

1. *New frames dropped as old* (`rx_newest`).  `add_ba_rsp_hdl`
   (`rtw_mlme_ext.c:14193`) sets `indicate_seq` to `0xffff`, the mark of a new
   session, without the lock.  The tasklet may at that moment be handing up a
   frame with the reordering still off; when it comes back it computes
   `(indicate_seq + 1) % 4096` (`rtw_recv.c:3087`), which is 0.  The mark is
   lost, the window begins at 0, and every frame numbered 2048 to 4095 is dropped
   until the peer's numbers wrap, or until a frame below 2048 moves the window.
   The trace of TLC: a frame is received directly, the request is answered, the
   reset falls between the two writes of the direct path, the session is
   enabled, the next frame is dropped.
2. *A command in a queue that nobody serves* (`cmd_late`).  The filter
   (`rtw_cmd.c:423`) is asked before the lock of the queue is taken.  A caller
   that has passed it while the thread leaves puts its command into a queue that
   has been emptied for the last time, although the flag was cleared "to avoid
   enqueue cmd after free all cmd_obj" (`rtw_cmd.c:678`).  The next thread
   executes it after the device has been opened again; without a next thread it
   is never freed, and a waiting caller waits its two seconds.

### Seen while modelling

Part of the models or of the hazards, with a condition in a property where one is
needed; TLC finds each in a few seconds when the condition is dropped.

The scripts and pages:

* A captive portal page stops the ad lists until the next reboot: the exit after
  the failed header test (`get-easylist.sh:252`) leaves `/tmp/adblock`, and
  `wget -P` never replaces a file.  `FrozenWhileJunk` and the theorem
  `WedgedListsAreFrozen` state it; `FreshFilter` has to assume that nothing
  blocks the directory.  A download that is killed before its first byte does the
  same.
* `FILTER_LOG_FILE` (`:280`) is never set; `dirname ""` is `.`, and
  `chmod -R 644 .` takes the execute permission off everything below the
  directory the script was started in (the model follows the scripts only),
  although the comment above it says "to prevent problems with launching any
  processes" (`:276`).  Debian's cron starts
  `run-parts` in `/`: the first run of the update that gets so far is then the
  last one until the package is installed again.  Without `launchable` in `Calm`
  TLC finds `FreshFilter` violated.
* With two runs the reload of one falls into the permission window of the
  other; squidGuard then passes every request until the next reload
  (`ReloadDelivers` holds for one run at a time).
* `restart` ignores that `stop` gave up (`init.d/squid:191`) and can leave no
  proxy when squid needs more than 24 rounds (`RestartLeavesProxy` is for a squid
  that is fast enough).
* `stop` reads the pid file twice (`:111`, `:112`); a squid started between the
  two is signalled and not waited for (`StopLeavesNone` is for one caller).
* Two starts at once, say `restartSquid` from cron beside an administrator's: the
  second looks at the pid file before the squid of the first has written it, and
  there are two squids unless squid itself notices.  The pid file names the one
  that wrote it last; no stop and no reload reaches the other.  `PidFileNamesSquid`
  and `ImplementsDaemon` except this, and without the exception TLC finds both
  violated.
* A start reports success before there is a pid file; a stop that comes right after it
  signals nobody, waits for nobody ("we have to wait until squid has _really_
  stopped", `:114`) and reports success, and squid comes up behind it.
* A save of the hotspot page drops the mark by which an upgrade knows that the
  network has its name (`host/DEBIAN/postinst:46`), so that the next upgrade
  extends the name again.
* An upgrade whose `sed -i` overlaps a save can leave `hostapd.conf` empty with
  "saved" on the screen (excepted in `NeverLeftEmpty`); `hostapd.ini` is written
  before the form is verified (`hostapd.php:137`); the message depends on the
  last `cp` only (`:301`); a save drops the `denyinterfaces` lines until the next
  upgrade adds them; an upgrade of the wall package drops the `dhcp-range`; no
  script tells dnsmasq that its lists have changed.

The driver:

* *The unlocked bitmaps* (`rtw_cmd.c:3154-3155`).  When a station goes to sleep
  between the read and the write, its bit is lost: its frames are sent to a radio
  that is off, and broadcasts are not held back, until it goes to sleep the next
  time.  When one wakes in between, it keeps its bit.
* *The end of a PS-Poll* (`rtw_recv.c:1606-1624`).  The queue was empty under the
  lock; the bit is tested and cleared, and `sleepq_len` reset, after it.  A frame
  that is buffered in between finds its bit still set by the alive check, so
  nothing is written into the beacon, and then the bit is cleared: the frame waits
  unannounced, and a station with a legacy category never polls for it.  The same read and write can restore the bit
  of another station, and a reset of `sleepq_len` under a new frame makes the next
  wake-up leave the station asleep.
* *The alive check* (`rtw_ap.c:503`) sets its bit under `asoc_list_lock`, which
  the transmit path does not take.
  Without `raced` TLC finds `DozeMatches`, `AwakeMeansEmpty`, `AnnouncedOnAir` and
  `EveryFrameLeaves` violated.
* *`rtw_xmit` on several processors*: between the decision that a station is
  awake and the transmission (`rtw_xmit.c:4118`, `:4122`) the station can sleep,
  and a later frame go into the sleep queue and out of it again.  And the transmit
  tasklet takes a frame under the lock and writes it later
  (`rtl8812au_xmit.c:523-769`): meanwhile `pre_xmitframe` finds the queue empty
  and sends the next frame directly (`:880-901`).  Without its exception for
  `late`, `InOrder` is violated with `OneCpu = FALSE`.
* *`sleepq_ac_len` drifts*: PS-Poll takes whatever frame is first
  (`rtw_recv.c:1572`) and does not count down for a delivery-enabled one.  The
  counter is never too low (`AcLenEnough`), but it stays too high, and a trigger
  that finds it positive and the queue without such a frame gets no answer at
  all.
* *A PS-Poll is judged as best effort* (`rtw_recv.c:1524-1545`, a control frame has no
  priority): a station whose only delivery-enabled category is BE has its polls
  refused, and its legacy frames stay until it wakes.  `Single` leaves out that
  kind.
* *A broadcast without its bit*: a broadcast that is buffered between the test
  and the clearing in `rtw_chk_hi_queue_hdl` keeps its place in the queue while the
  bit of the TIM is cleared; the next broadcast, or the last station to wake,
  brings it out.  When a station falls asleep then, older pending broadcasts are
  put behind it.
* *A thread that leaves by itself* (`RTW_CANNOT_RUN`, without a stop) adds a count to
  `terminate_cmdthread_sema` that nobody takes: the next open returns before its
  thread runs (`os_intfs.c:1564` says "wait for cmd_thread to run"), and a removal
  finds `cmdthd_running` cleared and skips the join while the thread still
  drains the queue.
* *The drain tells nobody*: it frees commands whose callers wait; when such a
  caller gives up it writes `cmdobj->sctx = NULL` (`rtw_cmd.c:1276`) into an object
  that is gone.

## 6. What is not modelled, and why

* Commands that fail (a full disk, a `cp` without permission): planned for
  `Hotspot`, where the result of the last copy decides the message.
* squid, squidGuard, wget, tar, `start-stop-daemon`: external programs.  They
  are modelled by what the scripts rely on; their definitions are marked
  external in the map.
* The script has no `#!` line in `updateSquidGuard`; it is assumed that it is
  run by a shell.
* `servicestart.sh` and the log scripts that the hotspot page calls are not in
  the repository.
* The driver's register, power sequence and firmware tables (more than half of
  its lines) are data; its HAL programs the chip; `ioctl_linux.c` and
  `ioctl_cfg80211.c` translate requests into commands.  Client mode, P2P, TDLS,
  roaming and regulatory rules are not what the appliance uses the driver
  for.  What is modelled is the concurrent core of the access point's data path;
  measured in lines it is a small part of the driver.
* Of the receive path: A-MSDU de-aggregation, defragmentation and decryption come
  before or after the reordering and have no part in it.
* Of the sleep queues: a `send_beacon` that fails (its command is then lost and
  the beacon stays as it was), stations that leave or associate again with other
  U-APSD flags, association numbers above fifteen, and that `psta->state` is one word
  of several flags that are changed under different locks.
* `_rtw_down_sema` can be interrupted by a signal and its callers in the stop path
  ignore that; no signal is sent to these threads.
* The other pages change nothing, or one file, or are switched off; see the
  inventory.

## 7. Plan

In order of importance:

1. `IniRewrite`: `safefilerewrite` (`functions.php:35`) opens with truncation
   and only then asks for the lock, and reports success when it did not get it.
   Abstract specification: an atomic register per file.  Expected: the writers
   exclude each other, a reader still sees an empty file.  The password file of `admin.php:22`, without a
   lock, is a second client.
2. `Hotspot` with failing copies (full disk) and the report made from the last
   result; an abstract specification of the settings (mode, name, range) that a
   lone save implements as one step.
3. The Wi-Fi client configuration (`configure_client.php`): read, edit, stage,
   copy, against the same four questions.
4. Pure helpers as functions, against reference definitions over bounded
   inputs: `mask2cidr`, `ConvertToChannel` with channel 14, `ParseConfig`.
5. `Appliance`: boot, the update, the proxy script and the weekly upgrade in
   one module, with the restart of the proxy by `restartSquid` during an update.
6. The driver: a station that leaves while its frames are queued
   (`rtw_free_stainfo` against the tasklets), and the composition of `CmdQueue`
   with `SleepQueue`, so that the beacon command is one that can be dropped.

Theorems to come: the register refinement and mutual exclusion for
`IniRewrite`, the refinement of the abstract settings by `Hotspot`, and the
permission and version theorems carried over to `Appliance`.
