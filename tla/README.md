# Verification of SecureGuard MDM

TLA+ models of the concurrent core of SecureGuard MDM ("A Bloq"), checked by TLC
and proved about with TLAPS.  Paths are relative to the repository; `jni/`
stands for `app/src/main/jni/`, `remote_capture/` for
`app/src/main/java/com/emanuelef/remote_capture/` and `mdm/` for
`app/src/main/java/com/secureguard/mdm/`.

## 1. The system

The app is a device owner for Android that filters the network with a VPN of its
own.  It has two halves: the MDM (Kotlin, `mdm/`), which sets device policies, and
a fork of PCAPdroid (Java, `remote_capture/`) with its native engine (C, `jni/`),
which takes all packets of the device from a TUN device, classifies them,
terminates TCP and UDP in user space and relays them over ordinary sockets.

| Part | State it keeps | Operations | Correct when |
|---|---|---|---|
| TCP of the user-space NAT, `jni/zdtun.c` | per connection: status, socket, send queue, sequence numbers of both sides, client window, bits in the select sets | packet from the client (`handle_tcp_fwd`), socket readable or writable (`zdtun_handle_fd`), purge, finalize | both byte streams arrive in order and once; an ACK is true; the window is respected; no stall; closed once, and the client told |
| Connection table, UDP, ICMP, `jni/zdtun.c` | hash tables of connections and UDP mappings, number of open sockets | lookup, create, purge by age and by socket limit | the limit holds, a tuple has one connection, a shared socket is closed with its last user |
| SOCKS5 client, `jni/socks5.c` | handshake state of a connection | connect, reply of the proxy | data starts after the handshake only |
| Loop of the VPN mode, `jni/vpnrelay.c` `run_vpn` | descriptors, times of the last housekeeping | select, one packet or all ready sockets, housekeeping | nothing starves, nothing is used after it is closed |
| Tracking and notifications, `jni/vpnrelay.c` | `pd_conn_t` per connection, `new_conns`, `conns_updates` | new connection, status change, periodic dump | the app sees every connection once, with contiguous numbers |
| Firewall and lists, `jni/vpnrelay.c`, `jni/blacklist.c` | block list, allow list, blacklists and the copies to swap in | reload, swap, check | a connection is blocked exactly if the current lists say so |
| IP to host cache `jni/ip_lru.c`, port map `jni/port_map.c`, UID resolver | small caches | add, find | the cache is a least recently used one |
| Capture service, `remote_capture/CaptureService.java` | its threads, two bounded queues, the engine's run flag | start, stop, revoke, updates and dumps from the engine | the queues never block the engine, and every thread ends on stop |
| Connections register, `remote_capture/ConnectionsRegister.java` | ring of the last connections, counters | add, update, reset, read | positions and numbers agree; the counters count what is in the ring |
| VPN reconnect, VPN controller | two timers, network callbacks, intents | network lost and found | one capture at a time, a stop is obeyed, no reconnection over a VPN it knows of |
| Netfree monitor, `mdm/services/NetfreeMonitorService.kt` | approved networks, checks in flight, stored state, the always-on VPN | start, stop, recheck, network changes, answers, watchdog, restarts | the VPN is armed while the mode is on, and what is approved is up, at the latest after the next turn of the watchdog |
| Store and updates, `mdm/astore`, `mdm/utils/update` | files that are being downloaded | start, resume, retry, install | what is installed holds one whole version, and the end is shown |
| Kiosk, password, app blocker, presets, `mdm/` | preferences and device policies | lock, unlock, block, apply | the policies and the preferences agree |
| Protection features (60), screens, PCAP dumpers, vendored nDPI | - | - | no protocol of their own |

How they interact.  The engine runs one thread for packets: the loop of `run_vpn`
calls `zdtun_forward` for a packet and `zdtun_handle_fd` for ready sockets; zdtun
calls back (`send_client`, `on_connection_open`, `on_connection_close`) and
`vpnrelay.c` keeps its own record of each connection.  About once a second
`pd_housekeeping` hands the new and changed connections to Java, where
`CaptureService.updateConnections` puts them in a bounded queue for a worker that
fills the register, whose listeners are the screens.  Lists travel the other way:
Java hands over the lists the user edits, or has files downloaded and posts a
reload; a worker thread of the engine loads the files, and the loop swaps the
lists in.  The MDM starts and stops the service and keeps it running.

What is hard: a connection has three clocks (client, server, select loop) and its
segments cross; writes to sockets are partial and writes to the TUN device fail;
numbers wrap; either side may end first; what Android calls comes late and on a thread of its own; the register, the queue and the engine
are filled and emptied by three threads; a stop may come at any point; files and
checks are interrupted.  `PROJECT.json` lists each such hazard at its line.

## 2. The modules

| Module | What it is |
|---|---|
| `ZdtunTcp` | one TCP connection of the NAT with its client and its server |
| `MCZdtunTcp` | what the environment may do in each run of it |
| `ZdtunTcpProof` | proofs of its types, of the descriptor sets and of the end of a connection |
| `ZdtunTcpStreams` | proofs about its two streams, the window, and what the client is told |
| `ConnPipeline` | how a connection gets from the engine to the register, and how a capture ends |
| `ConnectionsRegister` | the ring of connections and its counters, as operators on a record |
| `ConnectionsLog` | the list of connections that the register promises |
| `ConnPipelineProof` | proofs about the engine's lists, the queue, the register, its counters, and that it implements the list |
| `MCConnPipeline` | the verdicts used in the runs of `ConnPipeline` |
| `ZdtunTable` | the connections of the NAT side by side: sockets, purges, UDP mappings, callbacks |
| `Socks5` | the handshake with a SOCKS5 proxy, as operators |
| `MCZdtunTable`, `ZdtunTableProof` | the client port used in its run, and the proofs of its invariants |
| `RelayFirewall` | whether a connection is blocked, while lists come and go |
| `IpLru` | the cache from addresses to host names, as operators |
| `MCRelayFirewall` | the connections and lists of its runs |
| `RelayFirewallProof` | proofs about its types, its cache, its lists and verdicts |
| `CaptureLifecycle` | start, stop, restart, revoke and reconnection of captures |
| `MCCaptureLifecycle`, `CaptureLifecycleProof` | its instance, and proofs about it |
| `NetfreeMonitor` | the mode that lets only networks filtered by Netfree through |
| `MCNetfreeMonitor`, `NetfreeMonitorProof` | its instance, and the proof that it stays armed |
| `AstoreDownload` | download and installation of one application of the store |
| `MCAstoreDownload`, `AstoreDownloadProof` | versions on the server, and the proof that what is installed is whole |

### ZdtunTcp

Three parties.  The *client* is the TCP stack of the device, the *server* what the
socket is connected to; both are outside of the repository and behave as standard
stacks do, except for what `Allow` says they may do.  *zdtun* is the code.

| Variables | In the code |
|---|---|
| `status`, `tx_queue`, `tx_queue_size`, `client_seq`, `zdtun_seq`, `window_size`, `fin_ack_sent`, `client_closed` | fields of `zdtun_conn_t` |
| `sock` | `conn->sock` is a descriptor that is open |
| `all_fds`, `write_fds` | the bit of this socket in the sets given to select |
| `closes` | number of calls of `on_connection_close` |
| `ready` | what the last `select` of `run_vpn` reported, until it is handled |
| `tun` | packets the client has written and `run_vpn` has not read |
| `cl_*`, `snd_*`, `rcv_*`, `toClient`, ... | the client's end |
| `srv*`, `wr_shut`, `toServer` | the server and the kernel's buffers of the socket |

Every action of zdtun is one run of a handler from its entry to its return: the
loop is one thread, so nothing comes between (`Fwd*` for `zdtun_forward`, `Reply*`,
`Connect*`, `SendQueued*` for `zdtun_handle_fd`, `Purge*`, `Finalize`).  What the
environment decides in the middle of a handler (how many bytes `send` takes,
whether a write to the TUN device fails, whether `connect` fails at once) is a
choice inside the action.  `zdtun_conn_close`, with the RST it may send and the
second close that a failure of this RST causes, is the operator `ConnClose`,
used by every handler that closes.  A segment that zdtun writes is processed by the
client in the same step; the client's own segments wait in `tun`, so that
they cross zdtun's.

Abstractions.  A byte is its position in the stream, so that a prefix property
sees loss, duplication, reordering and invention.  Sequence numbers are not
wrapped, except where the width matters: `InFlight` subtracts modulo `SeqMod` (2^32
in the code), and the runs choose `SeqMod` = 8 and `ISS` = 7, so that zdtun's
numbers wrap after its SYN.  Windows are counted in units of `WinUnit`, the scale
option of the client.  The connection is a direct one (no SOCKS5 proxy); a SYN
that reuses the tuple of a closed connection, and failures of `malloc`, are not
followed.  The comparison at `zdtun.c:1777` of what `recv` returned with the window never holds, as the
length that `recv` was given (`RecvLen`) is not above the window; `ReplyData` leaves it out.

### ConnPipeline, ConnectionsRegister, ConnectionsLog

Three threads.  The *capture thread* runs the engine: it opens connections, marks
them as changed and, once a second, dumps the marked ones (`Dump`).  The *worker*
(`connUpdateWork`) takes dumps from a bounded queue, fills the register (`Take`), and
empties it when it is long (`Clean`).  The *main thread* stops the capture
(`StopService`, then `OnDestroy`, which interrupts the capture thread; or `Stop`, the
handler's `stopPacketLoop` alone) and wakes the worker (`RequestBlacklistsUpdate`).

| Variables | In the code |
|---|---|
| `conns` | `pd_conn_t` by `incr_id`: status, bytes, verdict, `pending_notification`, `to_purge`; `freed` when `pd_purge_connection` was called |
| `new_conn_id`, `new_conns`, `conns_updates` | fields of `pcapdroid_t` |
| `running`, `capture` | the engine's flag, and how far `run()` of the service has got |
| `destroy` | whether `onDestroy` is due, has interrupted, or the interrupt was consumed |
| `mPendingUpdates`, `mQueueFull` | fields of `CaptureService` |
| `worker`, `reg` | where the worker is, and the register |
| `wakes`, `cleaned`, `signalled` | a bound and two history variables |

An iteration of the packet loop touches nothing that the other threads touch but
the queue and the run flag, so each thing it does is one action.  `LoopEnds` is all
that comes after the loop: `zdtun_finalize` closes what is open (in the order of its
table, which is any), the last dump is sent, everything is freed.  `Take` is what
the code does under the register's lock, and `Clean` what it does after it.  The
methods of `ConnectionsRegister` are synchronized, hence one operator each: a batch that
is larger than the ring, the evictions, the maximum that is taken again when its
connection leaves, positions computed from numbers.

Abstractions.  Bytes are counted in units and in one direction; a verdict is whether
the connection is blacklisted and blocked; all connections are of one application.
A packet that changes nothing but counters which are not modelled still lists its
connection.  Every close is reported to `connection_closed` (`ZdtunTcp` is about that).
Listeners, interfaces and the time of the last block are left out.

`ConnectionsLog` says what a reader of the register may rely on: a list with consecutive
numbers that grows at its end, loses connections only from its front and only
when it is full, counts those it lost, moves its entries only forward, and may be
emptied when it is long.  `RegisterIsLog` maps it to the register
(`recent` <- `Tracked(reg)`).

### ZdtunTable, Socks5

The loop of `run_vpn` seen from all connections at once: an action is a packet of
the client (`zdtun_lookup`, the verdict of the relay, `zdtun_forward`, and
`zdtun_conn_close` when that fails), an event of a socket, or a purge.

| Variables | In the code |
|---|---|
| `conn` | `conn_table`: status, whether a socket is open, its local port, state of the handshake |
| `age` | the order of the time stamps `tstamp` |
| `sockets` | `num_open_sockets` |
| `mapping` | `udp_mappings`: local port and `num_uses` of a client port |
| `owned` | history: calls of `on_connection_open` less those of `on_connection_close`, for the last connection of a tuple |

A handler may close, destroy and create several connections (a SYN at the limit of
sockets destroys the closed connection of its tuple, then purges, then creates), so
the handlers are operators from tables to tables, in the order of the calls.
`Socks5` says what `handle_socks5_reply` does with the bytes one `recv` returned; the
split of the proxy's replies is the environment's choice.

Abstractions.  What is in a packet is left out, and so is what `ZdtunTcp` follows:
bytes, ACKs and FINs of one connection.  Which idle connections have expired is a
choice that respects their order and protocol; two packets never carry the same time
stamp.  Whether a DNS answer is the last one is a choice (the code counts
queries in eight bits).  ICMP connections behave like UDP ones without a
mapping and have no tuple of their own; destination NAT and the port map change
addresses only.  Urgent data closes a connection in any state (`TcpForwarded`).  The branch of
a proxied UDP connection (`zdtun.c:1539`) is not reached, as `vpnrelay.c` sends only TCP through the
proxy (`should_proxify`).

### RelayFirewall, IpLru

Four threads: the *capture thread* (connections, packets, housekeeping), the *main
thread* with its setters, the *update thread* with the threads of its downloads, and
the *loader* that the capture thread starts.

| Variables | In the code |
|---|---|
| `disk` | of each file in `malware_bl/` a stage: there in some version, or deleted with the next one not there |
| `java` | whether `updateBlacklistsWork` is between `update` and `reloadBlacklists`, `mUpdateInProgress`, the downloads under way, and whether `finalizeUpdate` is posted |
| `reload` | `pd->malware_detection`: `bl`, `new_bl`, `reload_in_progress`/`reload_done` (as `worker`), `reload_blacklists_now`, and the files the loader has read |
| `malWl`, `fw` | the malware whitelist and the lists and switches of `pd->firewall`, each with the copy to swap in |
| `setter` | whether `reloadFirewallWhitelist` has still to set `wl_enabled` |
| `lru` | `pd->ip_to_host` |
| `conns` | `pd_conn_t` by slot: uid, host, marks, `to_block`, `netd_block_missed`, and whether it is in `new_conns` |
| `flags` | the globals `domainopen` and `thischeck`, which outlive a connection |
| `late`, `given`, `announced` | history: see the properties |

In this fork the "malware blacklist" is a list of what is *allowed*: an address or
host that it does not name is marked as malicious, unless the whitelist names it.
Each operator is a function of the code (`CheckDomain`, `Opened`, `Inspected`,
`CheckBlocked`, `CheckBlacklisted`), with its early returns and with the globals it
reads and leaves behind.  `OpenConnection` acts on other connections too: the requests netd
made for the host of the new one get its uid (`Asked`, `Give`), and if a rule would
have blocked them that is noted.  `Housekeeping` is one turn of `pd_housekeeping`; the two
statements of `reloadFirewallWhitelist` are two actions, since the capture thread may
swap the list in between.

A file is replaced in two steps (`DeleteFile`, then `EndDownload`, which renames or fails), and
the loader reads the files one by one between them; a file that is missing is skipped.
Several downloads may run, an update that is started again included (`finalizeUpdate`
clears `mUpdateInProgress`, as does `onNativeLoaded` while downloads still run); which download is
the last of its update is left open, so that `finalizeUpdate` may come earlier than in
the code.

Abstractions.  A list is a set of addresses, hosts and applications; suffix and
subnet matching is membership.  An inspection that finds a host finds any host.
Left out: country rules, private DNS, the decryption list, a loader that cannot
allocate or be started, and the times for which a dump waits for netd's
requests to be resolved (any turn of the housekeeping may dump).

### CaptureLifecycle

The instances of `CaptureService` and their capture threads, `VpnController`, and
`VpnReconnectService`.  Android is the environment: an intent is delivered later, to
the living instance or to a new one; `stopSelf` only asks for `onDestroy`, which waits
while the system is bound to the open tunnel.

| Variables | In the code |
|---|---|
| `instance` | `CaptureService.INSTANCE` |
| `svc` | of each instance: whether it lives, is started, has its tunnel open, and `mRevoked` |
| `thread` | `mCaptureThread`, by the part of `run()` it is in |
| `running` | the global of `vpnrelay.c`, shared by all instances |
| `intents`, `posts`, `restart` | starts, STOPPED statuses and the start of `restartVpn` that are under way |
| `vpn`, `used` | the VPN of another application |
| `revoking` | the instance whose `onRevoke` is to come |
| `rc`, `watched` | `VpnReconnectService`: its instance, the number of its starts, whether `mNetworkCallback` is set, and `mActiveVpnNetwork` |
| `leaked`, `calls` | callbacks that are registered and forgotten (a second start overwrites the field), and what each callback has still to be told |
| `timers` | messages of `mHandler`: the deadline and the debounce, each with the start that set it up |
| `asked` | history: what was asked for last |

A VPN of another application that comes up takes ours at once, and that is all it does (`VpnUp`):
`onRevoke`, `onAvailable` and `onLost` are actions of their own, which come later and in any order
among different callbacks.  Nothing removes the timers of a service but a network that
`checkAvailableNetwork` sees, so they outlive a service that is stopped, aborted or destroyed;
`LostRings` is the debounce, which takes back the callback of its own service and starts the
capture, unless the user must consent first (`VpnService.prepare`) or the proxy's host is
not found.  A stop may come at any time: `asked` is then "off", or "crossed" when a start is
under way.

What the thread does inside its loop, and how it waits for the others, is in
`ConnPipeline`.  `LoopIsOut` is an assumption on time: the loop looks at its flag every
250 ms (`SELECT_TIMEOUT_MS`), the timers of `restartVpn` and of the reconnection last
500 ms and more, so no timer rings between a stop and the end of the loop.

Abstractions.  A network of another application is up once (Android gives each new
one a new handle), and our own VPN network is not among those the service is told of.
`Builder.establish` fails while another application has the VPN.  A call that has begun when its
callback is taken back is not followed, nor is the death of the process (the dialogs of
`CaptureHelper` cannot be shown from a service).

### NetfreeMonitor

| Variables | In the code |
|---|---|
| `active`, `status`, `watchdog` | stored: `is_service_active`, `is_blocked` with `approved_network_type`, the scheduled job |
| `alwaysOn` | the always-on VPN of the device policy, with or without lockdown |
| `gen`, `alive`, `approved` | instances of the service, and `approvedNetworks` of each |
| `callbacks`, `last` | registered network callbacks, and `networkCallback` of each `NetworkWatcher` |
| `messages`, `events` | what waits for the main thread and for the thread of the callbacks |
| `todo`, `job` | the statements each thread has still to execute, and on which instance and network |
| `up`, `crashes` | the networks that are up, and a bound |

The code has no lock: `applyCurrentNetworkPolicy` runs on the main thread, on the
thread of the callbacks and in coroutines.  So each of the three threads has a
program of the statements that matter (`Start`, `Stop`, `Apply`, `Accepting`,
`Refusing`), and a step is one statement.  The process may die between any two statements
(`ProcessDies`): it loses all but what is on the disk, the job, the device policy
and intents.  What `apply()` stores is seen at once (`active`) and is on the disk later
(`saved`; Android waits for it at the end of a command), and the command that was cut
short is delivered again or not.

Bounds.  One check is in flight at a time; a STOP is not sent after the last death, nor to the
last instance of a process.  The answer of Netfree is a choice.
`BlockerVpnService`, which is told of the preferred network, sees no more than
`status` and is left out.

### AstoreDownload

| Variables | In the code |
|---|---|
| `dl` | calls of `downloadApk`: the attempt, the position of the stream and of `output`, what `output` writes to |
| `temp`, `final`, `extracted` | the files `*.tmp`, the file it is renamed to, and `<package>_extracted`; they outlive the process |
| `active`, `shown` | `activeInstalls` of the screen and what it shows; a screen may be closed and opened again |
| `events`, `lost` | the buffer of the flow, and (history) whether the last event did not fit there |
| `server`, `committed` | the version the server has, and what a session of the package installer was given last |

A file is a sequence of blocks, each of which says of which version it is and which
it is there; a block may be a read of 8192 bytes.  What a download reports goes by `trySend`
into a buffer of `BufferSize` events, which drops what does not fit, and the main thread
takes it out later (`Collect`).  An extraction is one step, which may be cut short by a failure or
a death (`HalfExtracted`).  A download blocks its I/O thread, so
that closing the screen ends only what waits in `delay` or `awaitClose`.  The call ends
in `awaitClose`, which nothing closes: the package stays in `activeInstalls`, and the
application cannot be updated again before the screen is opened anew.

`Faults` says what may happen beside a connection that breaks, a process that dies and
a version that is published: a second download beside that of a closed screen
(`overlap`), the rest of another version (`stale_range`: the request has no `If-Range`),
a stream that breaks like one that ends (`no_length`), a package installer that throws.
`cancelDownload`, `downloadApkOnly`, `installDownloadedApk` and `AppInstaller` have no
caller and are left out.

## 3. The runs

### ZdtunTcp

Bounds: 1 to 3 bytes in each direction, segments of up to `SegMax` = 2 bytes, a
client buffer of `RcvBuf` = 2, one keep-alive or retransmission (`MaxProbes`).  They are
enough for the cases that matter: two segments queued and written in three parts,
a window that fills, closes and opens again before the stream ends, a segment
larger than what is left of the window, sequence numbers that wrap, and a FIN,
RST or probe between any two of these.  The state space is complete, there is no
depth bound.  `CHECK_DEADLOCK FALSE` because a connection really ends: when it is
gone and both streams are over nothing happens any more.

| Run | Question |
|---|---|
| `streams` | both streams, in every environment that does not break them (below): in order, once, acknowledged only when written (`UpstreamIsPrefix`, `AckedIsWritten`, `DownstreamIsPrefix`), never past the window (`WindowRespected`), the end of the stream told only at the end (`FinIsServerEof`: a `recv` into a buffer of 0 bytes returns 0, which reads as the end) |
| `close` | every way of closing but local errors, with retransmissions: the write bit is set exactly while there is something to write (`WriteSetMatchesWork`), no closed descriptor is selected and no socket leaks (`SelectedSocketsAreOpen`), one close callback (`ClosedCallbackOnce`), a closed connection that is left alone (`ClosedIsFinal`), a client that knows of the end (`ClientKnowsClosed`) |
| `live` | under fairness: what is queued is written (`QueueDrains`), the server's data arrives in spite of a closed window (`ServerDataArrives`), a SYN is answered (`SynIsAnswered`) |

Each passing run leaves out the behaviours for which its property fails in the
code: `fin_with_data`, `retransmit` and `early_server` in `streams` (and `idle`, `stop`,
`urgent`, which only close the connection and would multiply the states); local errors
(`open_error`, `connect_error`, `send_error`) and `early_server` in `close`;
`live` keeps resets, refusals and keep-alives only.  `WriteSetMatchesWork`,
`SelectedSocketsAreOpen` and `ClosedIsFinal` are proved for every environment,
`early_server` included, which no run has.  What fails in what is left out, and has no run:

- `zdtun.c:1308`: a FIN that carries data, or overtakes queued data, acknowledges
  bytes that are never written: the socket is shut down first (`AckedIsWritten` with
  `fin_with_data`; the comment at `zdtun.c:1369` says "data send is deferred to
  handle_queued_tcp_data").
- `zdtun.c:1272`: a segment with ACK at `client_seq` - 1 is a keep-alive whatever it
  carries; the retransmission of one byte, or of the FIN, is taken twice
  (`UpstreamIsPrefix` with `retransmit`); a RST that follows acknowledges more than the
  client has sent, which drops it (hence `probes = 0` in `ClientKnowsClosed`).
- `zdtun.c:1946`: a server that talks at once is read before its connect is
  handled; its first bytes go out before the SYN+ACK and are lost
  (`DownstreamIsPrefix` with `early_server`).
- `zdtun.c:1293`: the FIN branch returns before the window is updated; a FIN that
  carries the window update due leaves the socket out of the read set, and the
  server's data stops (`ServerDataArrives` with `fin_with_ack`).
- `zdtun.c:1176`: when `open_socket` fails the status is set without
  `zdtun_conn_close`, so `on_connection_close` is never called (`zdtun.h:319`: "Called
  whenever a connection is closed").
- `zdtun.c:486`: when the RST of `zdtun_conn_close` cannot be written, `send_to_client`
  closes the connection itself, and the callback is called twice.
- `zdtun.c:1251`: when `connect` fails at once the RST is built before the client's
  sequence number is stored, and a client in SYN_SENT ignores it.
- `zdtun.c:1364`: data that comes after the server has closed is acknowledged short
  of what is queued ("We should still ACK this data").
- `zdtun.c:1241`: the window of a SYN is scaled, though no stack scales it; with
  `WinUnit` > 1 the first data may exceed the client's buffer.

Fairness (`FairSpec`, used by `live`).  Weak fairness of `Select`,
`ZdtunForward`, `ZdtunHandleFd` and `PurgeClosed`: `run_vpn` is a thread that does nothing
else.  Weak fairness of the client's ACKs, reads and RSTs and of the server's
accept or refuse: TCP stacks deliver what they owe, and an application that never
reads is owed nothing.  Strong fairness of a write that takes at least one byte:
a socket that is reported writable again and again takes data some time.  The
server is not assumed to send, nor the client to close.

Mutants.  Each property has a mutant beside the definition it changes (a queue that
is acknowledged whole after a partial send, a read of more than the window, an
error that is swallowed, a close without RST, ...): plausible slips of the code
which TLC finds.

### ConnPipeline

| Run | Question |
|---|---|
| `pipeline` | a ring of 2, 3 connections, a queue of 1 and bytes that change: an update reaches its own connection (`PositionsMatchIds`), a connection is listed once and while it is allocated (`PendingIsListed`), freed after its end was told (`ClosedIsFreed`), shown as closed when the capture has ended (`EndIsShown`), what the engine knows is shown or on its way (`NothingIsLost`), the counters agree with the ring (`CountersMatchRing`), and the register implements `ConnectionsLog` (`RegisterIsLog`) |
| `stop` | under fairness, with every way to stop, dumps that fail, verdicts that change and a queue of 1: the capture ends if its termination item found room (`CaptureStopsIfSignalled`) |

In the program the ring holds 8192 connections and is emptied at 5000, so that it
rolls over only for a batch of more than 3000: `pipeline` has that shape (emptied above
1, a ring of 2).  Its connections are all malicious and none is blocked, so that the count has
to be taken back with each that leaves.  Verdicts that change are in `stop`; that the count
follows them is left to the proof of `CountersCorrect`.  The queue holds 32 dumps, half a minute of a worker that does not get on;
a queue of 1 is filled by the same order of events, with one more dump in the hands of the
worker.  The state spaces are complete.  `CHECK_DEADLOCK FALSE`: a capture ends.

Fairness (`stop`).  Weak fairness of the worker, of the steps of the capture
thread after its loop, of `OnDestroy` and of the posted stop after a full queue: each
is a thread or a posted message that nothing blocks but what the guard says.

What the runs exclude and the code does:

- `CaptureService.java:1399`: the result of `offer` is ignored; when the queue is full
  the termination item is lost, and the capture thread waits for the worker for
  ever (hence the premise of `CaptureStopsIfSignalled`).
- `vpnrelay.c:2191`: a dump that fails is dropped whole; a number is missing in the
  register and later positions are those of other connections (`PositionsMatchIds`
  with `DumpMayFail`).

Also: `reset` leaves `mNumMalicious`, `mNumBlocked` and
`mMaxBytes` (`CountersMatchRing` is stated until the first reset); an eviction does not
take `mNumBlocked` back, so no property is about it; the class comment of
`ConnectionsRegister` says that connections stay until the capture is stopped, while
`CaptureService.java:1786` empties it above 5000.

### ZdtunTable

| Run | Question |
|---|---|
| `table` | three UDP connections of one client port, one of them DNS, and a proxied TCP connection, with two sockets: `num_open_sockets` is exact (`SocketsCounted`: too low and `FD_SET` overflows, too high and nothing opens any more), a mapping is used by no more than it counts (`MappingIsInUse`), the relay is told of every end once (`CallbacksBalance`), and the handshake stays out of the stream (`OnlyDataForwarded`) |

Two sockets and four tuples are the least with which the limit is hit while a mapping
is shared, a purge destroys connections that hold no socket, and the tuple of a
closed connection is used again.  The proxy asks for a password and sends a bound
address of two bytes (6 or 18 in the protocol), split anywhere.  What the code does
beside the properties:

- `zdtun.c:644`: a UDP connection that is closed before it was counted in the mapping
  of its client port takes a use off it all the same; the mapping may go while
  another connection still uses its port, and the next one gets another port (the
  comment at 1428 wants one local port for a client port).  Hence `<=` in
  `MappingIsInUse`.
- `zdtun.c:1176`: a TCP connection that gets no socket is closed without its callback.
- `zdtun.c:2007`: the forced purge counts connections, not sockets, so that it
  may free none.
- `socks5.c:148`: a reply that arrives together with the next one is refused.
- `zdtun.c:403`: the test for TCP is commented out, so that a UDP connection that were marked for
  the proxy would begin a handshake with each packet (1539); `vpnrelay.c:554` marks none.

### RelayFirewall

| Run | Question |
|---|---|
| `firewall` | an application's QUIC connection and a malware list of one file in two versions, neither of which allows anything, with every order of deletes, renames, failed downloads, updates, loads and trust: no request for a reload is lost (`RequestedListIsComing`), no connection of a trusted application is marked (`TrustedAppIsClean`) |
| `netd` | two connections at a time without malware detection, so that one reveals for which application netd made the other: what the lists in use forbid is blocked, or was begun before a switch was turned on, or is noted as missed (`FirewallRulesEnforced`); the cache is one, with two addresses for one entry (`TypeOK`) |
| `trust` | violation: trust clears a connection of being malicious and `check_blocked_conn_cb` blocks it at once (`vpnrelay.c:2024` starts from "not all three marks" where none was meant), though `vpnrelay.c:2229` says "to possibly whitelist (and unblock) them" |

The parts are checked apart because they share little: the firewall's lists read nothing of
the malware list, and the reload reads nothing of the connections; the proofs are about
all of it at once, with any number of files.  Two connections are the least that can give
each other an application; one is enough for the marks, since connections share only
the lists, the cache and the globals, all of which outlive a connection in the model.
`CHECK_DEADLOCK FALSE`: setters may all wait for the next housekeeping, which may do
nothing.  What the code does beside the properties:

- `vpnrelay.c:1127`: a request of netd that passed before its application was known is not
  blocked when it is; `netd_block_missed` says so, but only if there is a block list (a
  whitelist alone is not looked at).  Hence `given` in `FirewallRulesEnforced`.
- `vpnrelay.c:2925`, `vpnrelay.c:3010`: the switch for a list, and the one for the
  firewall, do not recheck the active connections, hence `late`; and
  `reloadFirewallWhitelist` switches the mode on after the list was handed over,
  so that a swap in between is checked without the mode.
- `vpnrelay.c:1147`: `domainopen` and `thischeck` are globals that a connection finds as
  the last one left them; a host of another connection can excuse an address.
- A setter refuses a list while the one before is not in use, and drops it.
- `CaptureService.java:1527`: the reload is asked for when the downloads begin, and none when
  they end, though `Blacklists.java:74` has it after the download: when all has ended, what is
  in use need not be what was downloaded.
- `Utils.java:1725`: a rename that fails leaves no file at all, and the list has
  nothing of it until the next update.

### CaptureLifecycle

| Run | Question |
|---|---|
| `lifecycle` | two instances and a reconnection service that is started twice, so that its first callback is leaked, starts and stops in any order, two networks of another VPN and calls that come late: at most one thread between its start and the end of its loop (`OneLoop`); a stop that finds the loop ends the capture unless one is asked for again (`StopIsObeyed`); while its callback is registered the service starts no capture over a VPN that is up, unless the call that tells it is still to come (`KnownVpnIsRespected`) |

What the code does beside these properties, each a behaviour of the model that they leave
out by their premises:

- `CaptureService.java:682`, `vpnrelay.c:2748`: a stop that crosses a start (it comes before the
  intent is delivered, before the thread has begun, or within the half second of a restart)
  is forgotten, though `VpnController.kt:68` says "Stops the CaptureService".
- `VpnReconnectService.java:260`: a debounce timer outlives its service and starts the capture
  over a VPN of which every callback has been told, though the class comment (`:50`) says that
  the service "waits for other apps VPNService to terminate"; so it does after the
  reconnection was "aborted" (`:94`).

The run allows none of `Behaviours`, each of which breaks `OneLoop` or the restarts:

- `quick_start`: a start by the system or by `CaptureHelper`, which do not look at the
  thread of the last capture, finds it on its way out and is refused, or runs beside
  it on the same globals.
- `early_revoke`: another VPN that takes over before the thread has entered its loop; the
  loop then sets `running` over the stop of `onRevoke` and runs on a tunnel that is gone.

Bounds: `MaxStarts` = 2 starts of one service is what leaks a callback, `MaxCalls` = 2
calls that wait is a network that came and went unseen, and two networks are needed for a
timer of the first to ring while the second is up.  Two instances suffice for a stop, a
restart and a reconnection to overlap.  `CHECK_DEADLOCK FALSE`: the bounds run out.

Fairness: the capture thread goes on and Android delivers intents.

### NetfreeMonitor

| Run | Question |
|---|---|
| `netfree` | one Wi-Fi network, two instances, one death of the process between any two statements, under fairness: the always-on VPN is set while the mode is stored as active (`ArmedWhileActive`), an open VPN with nothing approved is repaired (`OpenIsRepaired`), a network that is lost does not stay approved (`LostNetworkIsForgotten`), all three unless a death has cut a STOP short |

`torn` is true from a death in the middle of a STOP to the next START that
sets the VPN; a boot or a STOP that is delivered again ends that state as well.  Nothing
else does: after a death behind `NetfreeMonitorService.kt:125` the watchdog and the VPN
are off and the mode is still stored as active, though the mode "Blocks all network traffic if
the connection is not filtered by Netfree" (`values-en/strings.xml:307`) and the watchdog is
there to wake up a service "in a zombie state" (`ServiceWatchdogJob.kt:19`).

Fairness: each thread goes on, and the watchdog job, which is scheduled with
`setPeriodic`, runs again and again.  Both liveness properties rest on it: the START it
sends clears what was approved and applies the policy anew.  With one network a
second one cannot hide a mistake; two instances suffice for a stop with a check in flight.  A second callback of one
instance, which `startWatching` would lose (`NetworkWatcher.kt:28`: each START registers
one more, only the last is ever unregistered), is left to the proof of `ArmCorrect`, for every `MaxCallbacks`.  What the code does beside the properties: a check that is cancelled by
`onDestroy` still applies the policy in its `finally`, so that the always-on VPN may be
set again after a STOP (`NetfreeMonitorService.kt:194`).

### AstoreDownload

| Run | Question |
|---|---|
| `resume` | three versions, an archive of three blocks and two parts, an apk of one block and an archive with one part less, three attempts, a buffer of two events: what is handed over as a file is one whole version, and as parts every part of one version (`InstalledIsWhole`), the temporary file is the beginning of one (`TempIsPrefix`), a download that is shown comes to an end that is shown, unless its last event did not fit in the buffer (`DownloadIsReported`) |

Three versions of different sizes are needed for a file that is longer than the next
version, and for a directory left by the version before.  The buffer of `callbackFlow` holds
64 events, one for each 8 KB that is read; a buffer of two is filled by the
first blocks, and emptied, in the same orders (the event that the collector has in hand is one that is
taken).  Fairness: a thread that reads gets a block, the end or an exception, as its two
timeouts see to, and the main thread takes what is in the buffer.

`InstalledIsWhole` and `TempIsPrefix` hold without three of the `Faults`, each of which
breaks them (the run allows only `installer`; `TypeCorrect` covers the others): with `overlap` an answer 200 truncates the file another download writes,
or the rename takes a file that is not finished; with `stale_range` the rest of one
version follows the beginning of another; with `no_length` what has come is installed.
The package installer checks the signature of what it gets, which the run does not
rely on.  What the code does beside the properties: parts that a death left in the directory,
whole or cut short, are handed over with those of the next version, as it is not emptied
before (`AstoreDownloader.kt:334`), though `:310` says "by extracting and installing APKs" of the
archive; the error of the last attempt may find the buffer full, which `trySend` tells nobody
(`:217`), and the screen shows a download for ever, though `:214` says "If all retries failed,
report the error"; a temporary file that is whole but was not renamed before a
death makes each later download end in an error that is not tried again, as a
server that honours the range has no rest of it (`AstoreDownloader.kt:189`); and an archive
that cannot be installed as such is tried as an apk and deleted with that attempt
(`AstoreDownloader.kt:178`, `:412`), though `:340` says "Only delete the original XAPK
after successful installation".

## 4. The proofs

### ZdtunTcp

For every stream length, segment size, buffer, window unit, initial sequence number
and environment (`ConstantsAssumption`):

| Theorem | Statement |
|---|---|
| `TypeCorrect` | `Spec => []TypeOK`: no unsigned field falls below zero |
| `SocketsAreOpen`, `WriteSetCorrect` | the select sets agree with the socket and the queue |
| `ClosedStaysClosed` | `Spec => ClosedIsFinal` |
| `CallbackOnce` | one close callback, where sockets can be opened and the TUN device can be written |
| `UpstreamCorrect` | `Spec => []UpstreamIsPrefix`, where the client does not retransmit |
| `AckCorrect` | `Spec => []AckedIsWritten`, where the client neither retransmits nor sends a FIN with data |
| `DownstreamCorrect` | `Spec => []DownstreamIsPrefix`, where the server does not talk before zdtun has seen the connect |
| `WindowCorrect` | `Spec => []WindowRespected`, for a window that is not scaled and smaller than the sequence numbers |
| `EofCorrect` | `Spec => []FinIsServerEof`, under the conditions of the last two |
| `ClientIsTold` | `Spec => []ClientKnowsClosed`, under those of `EofCorrect` and without local errors |

Each hypothesis names a path on which the code does otherwise; section 3 lists them with
their lines.  `WinUnit` = 1 is a client without the scale option: the window of a SYN
is scaled by the code and not by a stack.

`TypeOK` is not inductive: that `tx_queue_size` stays a natural number when `n` bytes
are written needs the queue to be no longer than it says (`QueueSized`), and that
the client's acknowledgement minus one is a sequence number needs a
client that has sent its SYN.  `TypeInv` adds these.  `LifeInv` joins the two
select-set properties with the state of the socket; they need each other, because a
handler runs only if the bit that selected it belonged to an open socket.

`UpstreamIsPrefix` rests on `UpInv`: `client_seq` counts what was written and
`tx_queue_size` what is queued (`SeqInv`); the queue continues what was written
(`StreamInv`); the segments on their way follow one another and nothing follows a
FIN (`TunOrdered`, `FinInv`); and no data on its way was already taken (`TunAbove`).
`TunAbove` is what makes the keep-alive test harmless: a segment at `client_seq` - 1
is then empty.  It is also what a retransmission breaks, which is why the theorem
excludes it.  TLC finds `UpInv`, `AckInv`, `DownInv` and `WinInv` true in every state of
the run `streams`' instance, and `KnowInv` in that of `close`.

`AckInv` adds that the client was told of no more than `client_seq` counts while the socket
is open, and that a client that has ended its stream, which it does once all of it is
acknowledged, has had all of it written.  `DownInv` counts the other stream at both ends:
`zdtun_seq` is the SYN, what was read from the socket, and the FIN; `rcv_nxt` is the SYN, what
the client has received, and the FIN; and nothing was read before the SYN+ACK.  A segment
that does not start at `rcv_nxt` is refused, so that these counts are all that is needed.

`WinInv` is about segments that cross.  Take the *edge* of a segment of the client: its
acknowledgement plus its window.  Edges only grow along `tun` up to what the client would
accept now, and `zdtun_seq` plus the window that is left never passes the edge of any
update on its way, so that taking one in can only move it forward; the subtraction in
`InFlight` is right across the wrap because the buffer is smaller than `SeqMod`.
That a socket is in the read set only with room in
the window is in it too (`RoomToRead`), which is why a `recv` that returns 0 means the end
(`EofCorrect`).  `KnowInv` says why no RST and no FIN of zdtun is refused: it
acknowledges no more than the client has sent, as long as the client repeated
nothing (a FIN that is repeated is counted twice, and from then on the client refuses
what zdtun sends).

### ConnPipeline

For every number of connections, bytes, verdicts and updates of the lists, every
capacity of the queue and way to stop, where dumps do not fail (`DumpMayFail = FALSE`;
section 3 says what a failed dump does to the register):

| Theorem | Statement |
|---|---|
| `PendingCorrect` | `Spec => []PendingIsListed`: one entry exactly while a notification is pending |
| `FreedCorrect` | `Spec => []ClosedIsFreed`: freed by the dump that tells of the end, all at the end |
| `PositionsCorrect` | `Spec => []PositionsMatchIds`: an update finds its own connection |
| `NothingLost` | `Spec => []NothingIsLost`: what the engine knows is shown or on its way |
| `EndShown` | `Spec => []EndIsShown`: at the end of a capture every connection is shown closed |
| `RegisterImplementsLog` | `Spec => RegisterIsLog`: every step of the pipeline is a step of `ConnectionsLog` or a stutter |
| `CountersCorrect` | `Spec => []CountersMatchRing`: count, maximum and sum agree with the ring |

None is inductive.  `EngineInv` says of the two arrays that each is without
repetition and that they share nothing (`Distinct`, and `DistinctConcat` for both
together), that a number which was not given out has no record, so that a new
connection cannot be listed already, and that what is closed is marked for
`conns_clear`.  It fails for dumps that fail: the flag stays set of a connection
the failed dump did not reach, and nothing lists it any more.

`FlowInv` follows the numbers.  The connections in the register have consecutive
numbers, the items of the queue continue them without a gap, and what the engine has
listed continues the last item (`Numbered`); a termination item is the last that says
anything (`TermInv`); nothing is about a connection that was not opened (`KnownInv`).
Without the part about the queue the ring could not turn a position into a number:
`getConn` is only right because no dump between was dropped.

`ShowInv` says what the words mean: the last one on its way about a connection that is not
listed is what the engine knows of it (`FreshInv`), and one that is neither listed nor on
its way is shown so or has left the ring (`ShownInv`).  `ForwardInv` orders them: no word
in the queue is older than what the register shows, so that an update never takes
back bytes or an end; it is what the refinement needs, since an entry of the log only
moves forward.  `CountInv` says that the counters are those of the ring until the register
is emptied (`reset` leaves them alone until the next capture).  The code keeps them by
differences, with a maximum that is taken again when its connection leaves; the proof
compares sums over the ring before and after (`BytesBalance`).

### ZdtunTable

For every set of tuples (the UDP ones finite) and of local ports, every limit of sockets,
length of a bound address and number of bytes, and in every environment
(`TableAssumption`, `SocksAssumption`):

| Theorem | Statement |
|---|---|
| `TableTyped` | `Spec => []TypeOK` |
| `SocketsCorrect` | `Spec => []SocketsCounted`: `num_open_sockets` counts the open sockets |
| `MappingCorrect` | `Spec => []MappingIsInUse`: no mapping counts more uses than it has users |
| `CallbacksCorrect` | `Spec => []CallbacksBalance`: the relay knows what is open, and is told of each end once |
| `HandshakeCorrect` | `Spec => []OnlyDataForwarded`: the proxy's handshake is taken out of the stream, and no more |

All five are parts of one invariant, `Good`, of the table as a record: a handler changes the
table several times, and `Good` holds after each of the calls it makes (`GoodClosed`,
`GoodDestroyed`, `GoodSeen`, `GoodCreated`, `GoodOpened`, `GoodBound`, `GoodEdited`), so that
each action is a path through these lemmas.  What is needed beside the properties: a
socket is that of a connection on its way or there; the order by age is a list of
the table without repetition, so that a purge that walks it closes nothing twice; a use
may be taken off a mapping by a connection that was never counted in it, hence `<=`; and
for each phase of the handshake how many bytes it has taken (`TakenOut`).  A purge walks
the whole table: `GoodDestroyedAll` is an induction on its length.

### RelayFirewall

For every set of tuples, hosts and lists, every number of files, of their versions and of
connections (`FirewallAssumption`):

| Theorem | Statement |
|---|---|
| `FirewallTyped` | `Spec => []TypeOK`, above all that the cache is one: an entry for an address at most, a host in each, no more than its size |
| `ReloadCorrect` | `Spec => []RequestedListIsComing` |
| `RulesEnforced` | `Spec => []FirewallRulesEnforced` |
| `TrustedIsClean` | `Spec => []TrustedAppIsClean` |

`RequestedListIsComing` compares file by file: the list in use, or the one that is being
loaded or waits to be swapped in, has each file in the stage it was in when the last reload was
asked for, or in a later one; or a load is still to begin.  A stage may be "deleted", so a file that the loader missed between the delete and the
rename of `Utils.java:1724` is covered: the list lacks it until the reload that the
rename leads to.  `ReloadInv` adds that the stages of a file only grow along its way: what is in
use is not newer than what a load has read, nor that than the disk, nor is what was
announced (`LoadsInOrder`); without it a load that ends could replace a list by an older one.

`FwInv` carries the other two.  It says of each connection that the rules are enforced on
it (`Enforced`), or that it was begun before a switch was turned on (`late`), or that another
connection has revealed its application (`given`) and then that the miss is noted, if
there is a blocklist (`Noted`).  What the firewall forbids depends on the application, the
address and the host, and the host may be found later: so the invariant is proved from
lemmas about each function of the code, which say that an inspection only ever blocks,
blocks what it finds forbidden, and leaves the marks of a trusted connection alone
(`DomainChecked`, `InspectionBlocks`), that opening a connection enforces all rules in its
order of checks (`OpeningEnforces`), that giving its uid to the requests of netd leaves
them enforced or noted (`GivingKeeps`), and that a recheck enforces the lists that came.

### CaptureLifecycle

For every number of instances, intents, networks and reconnect services:

| Theorem | Statement |
|---|---|
| `TypeCorrect` | `Spec => []TypeOK` |
| `OneLoopCorrect` | `Spec => []OneLoop`, without `early_revoke` and `quick_start` |
| `ReconnectCorrect` | `Spec => KnownVpnIsRespected`, with no assumption |

`LoopInv` says why two threads do not meet, although an instance can be destroyed while
its thread is still there: the tunnel of a thread that has not closed it keeps its
service bound, so the instance is alive and the current one and no other is created
before; or the VPN was taken, and then no intent is pending, no thread is about to
enter the loop, and `running` is false or the `onRevoke` that clears it is still to come.

`WatchInv` is about the order of what a service is told.  A call of `onLost` that waits is
about a network that was up and is not; while the callback is registered and a VPN is up,
the service watches it or the call that tells of it waits; and no debounce timer belongs to a
service that watches the VPN that is up, as whatever makes a service watch another network
cancels its timers.  A timer that rings while the callback is registered therefore finds
no VPN, or one whose call waits.

### NetfreeMonitor

| Theorem | Statement |
|---|---|
| `ArmCorrect` | `Spec => []ArmedWhileActive`, for every number of networks, instances, callbacks, events and deaths (`MonitorAssumption`) |

`ArmInv` says where the main thread may be: only it turns the VPN off, its program is a
tail of `Start`, `Stop` or `Apply`, and after `disable` it has `deactivate` ahead,
while no other thread has either.  The process may die between any two statements, and
then the mode is what the disk says: so the invariant covers that, too (`ModeInv`).  The disk says
"active" with the VPN off only inside a STOP (`InStop`) or after a death that cut one
short (`torn`), and a STOP is not done before the disk has what it stored.

### AstoreDownload

For every number and size of versions and parts, attempts, downloads and deaths
(`StoreAssumption`):

| Theorem | Statement |
|---|---|
| `TypeCorrect` | `Spec => []TypeOK`, with every fault |
| `InstallCorrect` | `Spec => []InstalledIsWhole`, without `overlap`, `stale_range`, `no_length` (`Sound`) |
| `ResumeCorrect` | `Spec => []TempIsPrefix`, under the same condition |

The archives of two versions need have nothing in common: a part may be gone in the next one.
`TypeInv` adds to the types that a stream is read at the position its output is at, and
that an output to the temporary file has one.  `StoreInv` says that one download runs, that
the temporary file is the beginning of a version (`TempInv`), and for each place in a download
what the files hold (`DlInv`): while it reads, the blocks of its version so far; from
the rename on, the file of its version; before the session, every part of its archive,
whole, whatever else a failure or a death has left in the directory (which is handed over
too).
Each step has a lemma (`ConnectInv`, `ReadInv`, `EndInv`, `ExtractInv`, `InstallInv`).

### Induction

The induction theorems of the library take an operator as a parameter, which the
installed provers cannot instantiate.  Where a recursive function is walked (the sums of
the register, the purge of the table) the proofs use induction as a statement about
sets instead: a set that has 0 and with each number the next one has all of `Nat`
(`AllNumbers`, from the least number of a set and `WFMin`).  The function that the
definition chooses is shown to exist by building one, one argument at a time.

### What is only model-checked

Every safety invariant and action property of the passing runs is stated by a theorem.
The hypotheses of the theorems are those of the runs or weaker.  The type invariants of
`CaptureLifecycle` and `AstoreDownload` are proved and in no run; `EngineType` and `ArmInv`
have what the proofs need of those of `ConnPipeline` and `NetfreeMonitor`.

Liveness under fairness is out of the proof system's reach and stays with TLC:
`QueueDrains`, `ServerDataArrives`, `SynIsAnswered`, `CaptureStopsIfSignalled`, `StopIsObeyed`,
`OpenIsRepaired`, `LostNetworkIsForgotten`, `DownloadIsReported`.

## 5. What is left

Worth doing next: proofs of the steps the liveness properties rest on (that the write
bit, the termination item or the watchdog is there when something waits for it); the
streams of a client that retransmits, where the keep-alive test of `zdtun.c:1272` does no
harm; larger instances of `NetfreeMonitor` (two transports) and of `RelayFirewall` (two
connections together with the malware list), which exceed minutes of model checking.

Not modelled.  The update of the app, kiosk mode, password, blockers and
presets are sequences of calls to Android on one thread with their state in
preferences and files: their risk lies in what Android does, which a model would only
assume.  The PCAP dumpers write what they are given.  Parsing and formatting (PCAP,
DNS, HTTP), UID lookups, geolocation, screens and the protection features (each
sets one policy) have no protocol.  nDPI and the other vendored libraries make up most
of the lines of the repository and are not this project's code.
