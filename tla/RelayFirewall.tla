--------------------------- MODULE RelayFirewall ---------------------------
(***************************************************************************)
(* The verdicts of the engine (vpnrelay.c): whether a connection is        *)
(* blocked, which depends on five lists and on the order in which lists    *)
(* come and connections begin and show their host.                         *)
(*                                                                         *)
(* Four threads.  The capture thread opens connections, inspects their     *)
(* packets and, in its housekeeping, takes new lists in use.  The main     *)
(* thread hands it the lists the user edits.  An update thread has the     *)
(* files of the malware list downloaded, in the background, and asks for a *)
(* reload, for which the capture thread starts a loader.                   *)
(*                                                                         *)
(* A file is replaced in two steps: the old one is deleted, then the new   *)
(* one is renamed, which may fail.  Its state is a stage: 2v - 1 when      *)
(* version v of it is there, 2v when that is deleted and the next has not  *)
(* come, 0 when there never was one.                                       *)
(*                                                                         *)
(* The "malware blacklist" of the original is used as a list of what is    *)
(* allowed: an address or host that is NOT on it is blacklisted, unless    *)
(* the malware whitelist names it.                                         *)
(***************************************************************************)
EXTENDS Integers, Sequences, IpLru

CONSTANTS
    Tuples,        \* what may be connected to: [uid, ip, dns, quic]
    Domains,       \* host names
    NoHost,        \* data->info is NULL or empty
    NoList,        \* a list that is NULL
    NoConn,        \* a free slot
    UnknownUid,    \* UID_UNKNOWN
    ExemptUids,    \* netd and phone, whose DNS passes the whitelist mode
    Netd,          \* UID_NETD, which asks the DNS for the applications
    MalwareDetection,  \* pd->malware_detection.enabled
    Files,         \* the files of the malware list
    MalwareLists,  \* contents of the malware files, version by version
    MalWhitelists, Blocklists, FwWhitelists,  \* the lists a user may make
    MaxConns,      \* bound on the connections at a time
    LruSize        \* MAX_HOST_LRU_SIZE

ASSUME FirewallAssumption ==
    /\ MalwareDetection \in BOOLEAN
    /\ MaxConns \in Nat /\ LruSize \in Nat \ {0}
    /\ MalwareLists \in Seq([Files -> SUBSET (Domains \cup {t.ip : t \in Tuples})])
    /\ NoHost \notin Domains /\ Netd # UnknownUid
    /\ NoList \notin [Files -> 0..(2 * Len(MalwareLists))]

VARIABLES
    disk,     \* the stage of each malware file
    java,     \* the update thread is at work, mUpdateInProgress, the downloads
              \* under way, and whether the end of an update is posted
    reload,   \* pd->malware_detection: the blacklist and its reload
    malWl,    \* pd->malware_detection: whitelist and new_wl
    fw,       \* pd->firewall
    setter,   \* where the main thread is in reloadFirewallWhitelist
    lru,      \* pd->ip_to_host
    conns,    \* the active connections, pd_conn_t by slot
    flags,    \* the globals domainopen and thischeck
    late,     \* history: connections no list has been run over since the
              \* firewall or its whitelist mode was switched on
    given,    \* history: connections no list has been run over since they
              \* were given to an application
    announced \* history: the files when a reload was last asked for

vars == <<disk, java, reload, malWl, fw, setter, lru, conns, flags, late, given,
          announced>>

Slots    == 1..MaxConns
Stages   == 0..(2 * Len(MalwareLists))
Lists    == [Files -> Stages]   \* a malware list, by the files it was read from
Ips      == {t.ip : t \in Tuples}
Active   == {k \in Slots : conns[k] # NoConn}

Missing(stage)    == stage % 2 = 0
Content(f, stage) == IF Missing(stage) THEN {} ELSE MalwareLists[(stage + 1) \div 2][f]

\* The malware blacklist in use; a file that is missing adds nothing to it
MalBl == IF reload.bl = NoList THEN NoList
         ELSE UNION {Content(f, reload.bl[f]) : f \in Files}

Conns ==
    [t : Tuples, uid : {t.uid : t \in Tuples}, new : BOOLEAN, missed : BOOLEAN,
     info : Domains \cup {NoHost}, fromLru : BOOLEAN,
     whitelisted_app : BOOLEAN, blacklisted_ip : BOOLEAN,
     blacklisted_domain : BOOLEAN, blacklisted_internal : BOOLEAN,
     to_block : BOOLEAN]

TypeOK ==
    /\ disk \in Lists
    /\ java \in [updating : BOOLEAN, busy : BOOLEAN, downloading : SUBSET Files,
                 posted : BOOLEAN]
    /\ reload \in [bl : Lists \cup {NoList}, new_bl : Lists \cup {NoList},
                   now : BOOLEAN, worker : {"none", "started", "done"},
                   loading : UNION {[files -> Stages] : files \in SUBSET Files}]
    /\ malWl \in [wl : MalWhitelists \cup {NoList}, new_wl : MalWhitelists \cup {NoList}]
    /\ fw \in [enabled : BOOLEAN, wl_enabled : BOOLEAN,
               bl : Blocklists \cup {NoList}, new_bl : Blocklists \cup {NoList},
               wl : FwWhitelists \cup {NoList}, new_wl : FwWhitelists \cup {NoList}]
    /\ setter \in {"idle", "enable"}
    /\ IsLru(lru, Ips, Domains, LruSize)
    /\ conns \in [Slots -> Conns \cup {NoConn}]
    /\ flags \in [domainopen : BOOLEAN, thischeck : BOOLEAN]
    /\ late \subseteq Slots /\ given \subseteq Slots
    /\ announced \in Lists \cup {NoList}

NothingRead == [f \in {} |-> 0]

\* A capture starts with the files there are (pd_run), and if they are not up to
\* date (CaptureService.onStartCommand) with an update begun, which may not have
\* asked for the reload yet: no list is loaded then.
Init ==
    /\ disk \in [Files -> {0, 1} \cap Stages]
    /\ \E files \in SUBSET Files, asked \in BOOLEAN :
        LET list == IF MalwareDetection /\ asked THEN disk ELSE NoList
        IN  /\ MalwareDetection \/ files = {}
            /\ java = [updating |-> MalwareDetection /\ ~asked, busy |-> files # {},
                       downloading |-> files, posted |-> FALSE]
            /\ reload = [bl |-> list, new_bl |-> NoList, now |-> FALSE,
                         worker |-> "none", loading |-> NothingRead]
            /\ announced = list
    /\ malWl = [wl |-> NoList, new_wl |-> NoList]
    /\ fw = [enabled |-> TRUE, wl_enabled |-> FALSE, bl |-> NoList,
             new_bl |-> NoList, wl |-> NoList, new_wl |-> NoList]
    /\ setter = "idle"
    /\ lru = <<>>
    /\ conns = [k \in Slots |-> NoConn]
    /\ flags = [domainopen |-> FALSE, thischeck |-> FALSE]
    /\ late = {} /\ given = {}

-----------------------------------------------------------------------------
(* Verdicts.  s is a connection with the two globals: [c, open, this].     *)

Matches(list, x) == list # NoList /\ x \in list

\* check_blacklisted_domain
CheckDomain(s) ==
    LET checked == /\ s.c.info # NoHost /\ MalBl # NoList
                   /\ ~s.c.blacklisted_domain /\ ~s.c.whitelisted_app
        allowed == Matches(MalBl, s.c.info) \/ Matches(malWl.wl, s.c.info)
        malware == IF ~checked THEN s
                   ELSE IF allowed THEN [s EXCEPT !.open = s.this, !.this = FALSE]
                   ELSE [s EXCEPT !.open = FALSE, !.c.blacklisted_domain = TRUE,
                                  !.c.to_block = TRUE]
    IN  [malware EXCEPT !.c.to_block =
            \/ @
            \/ s.c.info # NoHost /\ fw.enabled /\ Matches(fw.bl, s.c.info)]

\* check_whitelist_mode_block, for the firewall f
WhitelistMode(c, f) ==
    [c EXCEPT !.to_block =
        \/ @
        \/ /\ f.enabled /\ f.wl_enabled /\ f.wl # NoList
           /\ ~c.t.dns \/ c.uid \notin ExemptUids \cup {UnknownUid}
           /\ c.uid \notin f.wl
        \/ c.uid = UnknownUid]

\* Mutant: what the whitelist mode would have blocked is not noted.
GiveBlocklist(c, uid) ==
    [c EXCEPT !.uid = uid,
              !.missed = \/ @
                         \/ ~c.to_block /\ fw.enabled /\ Matches(fw.bl, uid)]

\* A DNS request of netd is given to the application it was made for, and if the
\* firewall would have blocked it then, that is noted.
Give(c, uid) ==
    [c EXCEPT !.uid = uid,
              !.missed = \/ @
                         \/ /\ ~c.to_block /\ fw.enabled /\ fw.bl # NoList
                            /\ \/ Matches(fw.bl, uid)
                               \/ fw.wl_enabled /\ fw.wl # NoList /\ uid \notin fw.wl]

\* The connections that a new one, to an address whose host is known, gives its uid
Asked(t) ==
    {k \in Active : /\ t.ip \in LruKeys(lru) /\ t.uid # UnknownUid
                    /\ conns[k].new /\ conns[k].uid = Netd
                    /\ conns[k].info = LruHost(lru, t.ip)}

\* pd_new_connection: the host comes from the cache (and a connection of netd is
\* among those that are given an uid then, its own), then the address is checked,
\* unless the host has just been found open
Opened(t) ==
    LET known  == t.ip \in LruKeys(lru)
        wlApp  == Matches(malWl.wl, t.uid)
        opened == [t |-> t, uid |-> t.uid, new |-> TRUE, missed |-> FALSE,
                   info |-> IF known THEN LruHost(lru, t.ip) ELSE NoHost,
                   fromLru |-> known, whitelisted_app |-> wlApp,
                   blacklisted_ip |-> FALSE, blacklisted_domain |-> FALSE,
                   blacklisted_internal |-> FALSE, to_block |-> FALSE]
        fresh  == IF known /\ t.uid = Netd THEN Give(opened, Netd) ELSE opened
        domain == CheckDomain([c |-> fresh, open |-> flags.domainopen,
                               this |-> known \/ flags.thischeck])
        bad    == /\ ~Matches(MalBl, t.ip) /\ ~domain.open
                  /\ ~Matches(malWl.wl, t.ip)
        addr   == IF MalBl = NoList \/ wlApp THEN domain
                  ELSE [domain EXCEPT !.open = FALSE, !.c.blacklisted_ip = bad,
                                      !.c.to_block = @ \/ bad]
        rules  == [addr EXCEPT !.c.to_block =
                      \/ @
                      \/ /\ fw.enabled
                         /\ Matches(fw.bl, t.ip) \/ Matches(fw.bl, t.uid)]
    IN  [rules EXCEPT !.c = WhitelistMode(@, fw)]

\* process_ndpi_data with vpn_process_ndpi: host is what nDPI found, if it did
Inspected(s, host) ==
    LET named == host # NoHost /\ (s.c.info = NoHost \/ s.c.fromLru)
        s1    == IF named
                 THEN CheckDomain([s EXCEPT !.c.info = host, !.c.fromLru = FALSE])
                 ELSE s
        internal == s.c.t.quic
    IN  [s1 EXCEPT !.c.blacklisted_internal = @ \/ internal,
                   !.c.to_block = @ \/ internal]

\* check_blocked_conn_cb, for the firewall f
CheckBlocked(c, f) ==
    LET listed == ~c.blacklisted_internal \/ ~c.blacklisted_ip \/ ~c.blacklisted_domain
    IN  WhitelistMode([c EXCEPT !.to_block =
            \/ listed
            \/ /\ f.enabled
               /\ \/ Matches(f.bl, c.uid) \/ Matches(f.bl, c.t.ip)
                  \/ c.info # NoHost /\ Matches(f.bl, c.info)], f)

\* Mutant: the mark of a host stays on a connection of a trusted application.
CheckBlacklistedIp(c, wl) ==
    LET app == c.uid \in wl
    IN  [c EXCEPT !.whitelisted_app = app,
                  !.blacklisted_ip = @ /\ ~app /\ c.t.ip \notin wl]

\* check_blacklisted_conn_cb, for the new malware whitelist wl
CheckBlacklisted(c, wl) ==
    LET app     == c.uid \in wl
        ip      == c.blacklisted_ip /\ (app \/ c.t.ip \in wl)
        domain  == c.blacklisted_domain /\ (app \/ c.info \in wl)
        cleared == [c EXCEPT !.whitelisted_app = app,
                             !.blacklisted_ip = @ /\ ~ip,
                             !.blacklisted_domain = @ /\ ~domain]
    IN  IF (ip \/ domain) /\ fw.bl # NoList THEN CheckBlocked(cleared, fw) ELSE cleared

-----------------------------------------------------------------------------
(* The capture thread.                                                     *)

State(c) == [c |-> c, open |-> flags.domainopen, this |-> flags.thischeck]

\* The first packet of a connection: it is opened, inspected, and either goes
\* out or, if it is a DNS query, is answered with an empty address and closed.
\* The requests of netd for its host are given to its application.
OpenConnection ==
    \E k \in Slots, t \in Tuples, host \in Domains \cup {NoHost} :
        LET s == Inspected(Opened(t), host)
        IN  /\ conns[k] = NoConn /\ \A j \in 1..(k - 1) : conns[j] # NoConn
            /\ t.dns => host # NoHost
            /\ lru' = LruFind(lru, t.ip)
            /\ flags' = [domainopen |-> s.open, thischeck |-> s.this]
            /\ conns' = [j \in Slots |->
                   IF j = k THEN IF t.dns /\ s.c.to_block THEN NoConn ELSE s.c
                   ELSE IF j \in Asked(t) THEN Give(conns[j], t.uid) ELSE conns[j]]
            /\ late' = late \ {k}
            /\ given' = given \cup Asked(t)
            /\ UNCHANGED <<disk, java, reload, malWl, fw, setter, announced>>

\* A later packet, from the client or from the server
Packet ==
    \E k \in Slots, host \in Domains \cup {NoHost} :
        LET s == Inspected(State(conns[k]), host)
        IN  /\ conns[k] # NoConn /\ ~conns[k].t.dns
            /\ conns' = [conns EXCEPT ![k] = s.c]
            /\ flags' = [domainopen |-> s.open, thischeck |-> s.this]
            /\ UNCHANGED <<disk, java, reload, malWl, fw, setter, lru, late, given,
                           announced>>

\* A DNS reply enters the cache (process_dns_reply), under the query's name
DnsReply ==
    \E k \in Slots, ip \in Ips :
        /\ conns[k] # NoConn /\ conns[k].t.dns
        /\ lru' = LruAdd(lru, ip, conns[k].info, LruSize)
        /\ UNCHANGED <<disk, java, reload, malWl, fw, setter, conns, flags, late,
                       given, announced>>

\* connection_closed: nDPI gives up and says what it has
CloseConnection ==
    \E k \in Slots, host \in Domains \cup {NoHost} :
        LET s == Inspected(State(conns[k]), host)
        IN  /\ conns[k] # NoConn
            /\ conns' = [conns EXCEPT ![k] = NoConn]
            /\ flags' = [domainopen |-> s.open, thischeck |-> s.this]
            /\ late' = late \ {k} /\ given' = given \ {k}
            /\ UNCHANGED <<disk, java, reload, malWl, fw, setter, lru, announced>>

\* use_new_blacklists
Taken ==
    [reload EXCEPT !.worker = "none", !.new_bl = NoList,
                   !.bl = IF reload.new_bl = NoList THEN @ ELSE reload.new_bl]

\* Mutant: the request is cleared when the load is over.
ReloadBranchLate ==
    \/ /\ reload.worker = "done"
       /\ reload' = [Taken EXCEPT !.now = FALSE]
       /\ java' = [java EXCEPT !.posted = TRUE]
    \/ /\ reload.worker = "none" /\ reload.now
       /\ reload' = [reload EXCEPT !.worker = "started", !.new_bl = NoList]
       /\ UNCHANGED java
    \/ /\ reload.worker # "done" /\ ~(reload.worker = "none" /\ reload.now)
       /\ UNCHANGED <<reload, java>>

\* The branch of pd_housekeeping for the malware list: a finished load is taken
\* in use, of which the main thread is told, or a requested one is started.
ReloadBranch ==
    \/ /\ reload.worker = "done"
       /\ reload' = Taken
       /\ java' = [java EXCEPT !.posted = TRUE]
    \/ /\ reload.worker = "none" /\ reload.now
       /\ reload' = [reload EXCEPT !.now = FALSE, !.worker = "started", !.new_bl = NoList]
       /\ UNCHANGED java
    \/ /\ reload.worker # "done" /\ ~(reload.worker = "none" /\ reload.now)
       /\ UNCHANGED <<reload, java>>

\* pd_housekeeping: the statistics, or the dump of the connections, which are not
\* new any more, or else the branch above; then the lists of the main thread
Housekeeping ==
    \E turn \in {"stats", "dump", "reload"} :
        LET seen     == [k \in Slots |->
                            IF conns[k] = NoConn \/ turn # "dump" THEN conns[k]
                            ELSE [conns[k] EXCEPT !.new = FALSE]]
            newMalWl == malWl.new_wl # NoList
            listed   == [k \in Slots |->
                            IF seen[k] = NoConn \/ ~newMalWl THEN seen[k]
                            ELSE CheckBlacklisted(seen[k], malWl.new_wl)]
            newFw    == fw.new_bl # NoList \/ fw.new_wl # NoList
            f        == IF fw.new_bl # NoList
                        THEN [fw EXCEPT !.bl = fw.new_bl, !.new_bl = NoList]
                        ELSE IF fw.new_wl # NoList
                        THEN [fw EXCEPT !.wl = fw.new_wl, !.new_wl = NoList]
                        ELSE fw
        IN  /\ IF turn = "reload" /\ MalwareDetection THEN ReloadBranch ELSE UNCHANGED <<reload, java>>
            /\ malWl' = IF newMalWl THEN [wl |-> malWl.new_wl, new_wl |-> NoList] ELSE malWl
            /\ fw' = f
            /\ conns' = [k \in Slots |->
                            IF listed[k] = NoConn \/ ~newFw THEN listed[k]
                            ELSE CheckBlocked(listed[k], f)]
            /\ late' = IF newFw THEN {} ELSE late
            /\ given' = IF newFw THEN {} ELSE given
            /\ UNCHANGED <<disk, setter, lru, flags, announced>>

\* load_new_blacklists: the worker reads the files, in some order, of which a missing
\* one is skipped, then hands over the list
LoaderReads ==
    \E f \in Files \ DOMAIN reload.loading :
        /\ reload.worker = "started"
        /\ reload' = [reload EXCEPT !.loading =
                         [g \in DOMAIN @ \cup {f} |-> IF g = f THEN disk[f] ELSE @[g]]]
        /\ UNCHANGED <<disk, java, malWl, fw, setter, lru, conns, flags, late, given,
                       announced>>

LoaderEnds ==
    /\ reload.worker = "started" /\ DOMAIN reload.loading = Files
    /\ reload' = [reload EXCEPT !.worker = "done", !.new_bl = reload.loading,
                                !.loading = NothingRead]
    /\ UNCHANGED <<disk, java, malWl, fw, setter, lru, conns, flags, late, given,
                   announced>>

-----------------------------------------------------------------------------
(* updateBlacklistsWork, on the update thread: Blacklists.update has the   *)
(* files downloaded, does not wait for them, and the reload is asked for.  *)

\* Blacklists.update: the files that have an URL are downloaded, except those whose
\* download still runs, unless an update is in progress
StartUpdate ==
    /\ MalwareDetection /\ ~java.updating
    /\ \E files \in SUBSET Files :
        java' = IF java.busy THEN [java EXCEPT !.updating = TRUE]
                ELSE [java EXCEPT !.updating = TRUE, !.busy = files # {},
                                  !.downloading = @ \cup files]
    /\ UNCHANGED <<disk, reload, malWl, fw, setter, lru, conns, flags, late, given,
                   announced>>

\* manualDownload, on a thread of the pool: what was downloaded replaces the file
DeleteFile ==
    \E f \in java.downloading :
        /\ ~Missing(disk[f])
        /\ disk' = [disk EXCEPT ![f] = @ + 1]
        /\ UNCHANGED <<java, reload, malWl, fw, setter, lru, conns, flags, late, given,
                       announced>>

\* It ends: the new file was renamed, or the rename or the download failed.  The last
\* download of an update posts finalizeUpdate; which one that is is left open.
EndDownload ==
    \E f \in java.downloading, last \in BOOLEAN :
        /\ \/ /\ Missing(disk[f]) /\ disk[f] + 1 \in Stages
              /\ disk' = [disk EXCEPT ![f] = @ + 1]
           \/ UNCHANGED disk
        /\ java' = [java EXCEPT !.downloading = @ \ {f}, !.posted = @ \/ last]
        /\ UNCHANGED <<reload, malWl, fw, setter, lru, conns, flags, late, given,
                       announced>>

\* finalizeUpdate or onNativeLoaded on the main thread; another may be behind it
FinalizeUpdate ==
    /\ java.posted
    /\ \E more \in BOOLEAN : java' = [java EXCEPT !.busy = FALSE, !.posted = more]
    /\ UNCHANGED <<disk, reload, malWl, fw, setter, lru, conns, flags, late, given,
                   announced>>

\* reloadBlacklists
AnnounceFiles ==
    /\ java.updating
    /\ reload' = [reload EXCEPT !.now = TRUE]
    /\ java' = [java EXCEPT !.updating = FALSE]
    /\ announced' = disk
    /\ UNCHANGED <<disk, malWl, fw, setter, lru, conns, flags, late, given>>

-----------------------------------------------------------------------------
(* The setters of the main thread; each refuses a list while an earlier    *)
(* one is not in use yet.                                                  *)

reloadMalwareWhitelist ==
    \E list \in MalWhitelists :
        /\ setter = "idle" /\ malWl.new_wl = NoList
        /\ malWl' = [malWl EXCEPT !.new_wl = list]
        /\ UNCHANGED <<disk, java, reload, fw, setter, lru, conns, flags, late, given,
                       announced>>

reloadBlocklist ==
    \E list \in Blocklists :
        /\ setter = "idle" /\ fw.new_bl = NoList
        /\ fw' = [fw EXCEPT !.new_bl = list]
        /\ UNCHANGED <<disk, java, reload, malWl, setter, lru, conns, flags, late,
                       given, announced>>

\* The list is handed over first, and the mode switched on after it.
reloadFirewallWhitelist ==
    \E list \in FwWhitelists :
        /\ setter = "idle" /\ fw.new_wl = NoList
        /\ fw' = [fw EXCEPT !.new_wl = list]
        /\ setter' = "enable"
        /\ UNCHANGED <<disk, java, reload, malWl, lru, conns, flags, late, given,
                       announced>>

EnableWhitelist ==
    /\ setter = "enable"
    /\ fw' = [fw EXCEPT !.wl_enabled = TRUE]
    /\ setter' = "idle"
    /\ late' = IF fw.wl_enabled THEN late ELSE Active
    /\ UNCHANGED <<disk, java, reload, malWl, lru, conns, flags, given, announced>>

DisableWhitelist ==
    /\ setter = "idle" /\ fw.new_wl = NoList
    /\ fw' = [fw EXCEPT !.wl_enabled = FALSE]
    /\ UNCHANGED <<disk, java, reload, malWl, setter, lru, conns, flags, late, given,
                   announced>>

nativeSetFirewallEnabled ==
    /\ setter = "idle"
    /\ fw' = [fw EXCEPT !.enabled = ~@]
    /\ late' = IF fw.enabled THEN late ELSE Active
    /\ UNCHANGED <<disk, java, reload, malWl, setter, lru, conns, flags, given,
                   announced>>

Next ==
    \/ OpenConnection \/ Packet \/ DnsReply \/ CloseConnection \/ Housekeeping
    \/ LoaderReads \/ LoaderEnds
    \/ StartUpdate \/ DeleteFile \/ EndDownload \/ FinalizeUpdate \/ AnnounceFiles
    \/ reloadMalwareWhitelist \/ reloadBlocklist \/ reloadFirewallWhitelist
    \/ EnableWhitelist \/ DisableWhitelist \/ nativeSetFirewallEnabled

Spec == Init /\ [][Next]_vars

-----------------------------------------------------------------------------
(* Properties.                                                             *)

\* A list for which each file was read no earlier than the last request
AsNew(list) == \A f \in DOMAIN list : announced # NoList => announced[f] <= list[f]

\* A request for a reload of the malware list is never lost: until each file of the
\* list in use was read in the state it had when the request came, or a later one, a
\* load is ahead that will read them so, files that are being replaced and downloads
\* that fail included.  The request is cleared before the files are read
\* (vpnrelay.c:2212), and not at the end of the load, during which another may come.
\* What is downloaded after the request waits for the next one: update() does not wait
\* for its downloads, and nothing asks when they end (CaptureService.java:1527).
RequestedListIsComing ==
    \/ announced = NoList
    \/ reload.bl # NoList /\ AsNew(reload.bl)
    \/ reload.now
    \/ reload.worker = "started" /\ AsNew(reload.loading)
    \/ reload.worker = "done" /\ reload.new_bl # NoList /\ AsNew(reload.new_bl)

\* What the firewall in use says of a connection
Against(c) ==
    \/ Matches(fw.bl, c.uid) \/ Matches(fw.bl, c.t.ip)
    \/ c.info # NoHost /\ Matches(fw.bl, c.info)
    \/ /\ fw.wl_enabled /\ fw.wl # NoList
       /\ ~c.t.dns \/ c.uid \notin ExemptUids
       /\ c.uid \notin fw.wl

\* Whatever the order in which connections begin, their hosts are found and the
\* lists come, a connection that the lists in use forbid is blocked (every list
\* that comes is run over the active connections, vpnrelay.c:2019), unless no list
\* has come since the firewall or its whitelist mode was switched on, or since it was
\* given to an application that another connection revealed, after its request had
\* passed: that the rule was missed is noted then (vpnrelay.c:1129), if there is a
\* blocklist.
FirewallRulesEnforced ==
    \A k \in Slots :
        conns[k] # NoConn /\ fw.enabled /\ Against(conns[k])
            => \/ conns[k].to_block
               \/ k \in late
               \/ k \in given /\ (conns[k].missed \/ fw.bl = NoList)

\* A connection of an application that the user trusts is not marked as
\* malicious, whether the trust came before the connection or after it
\* (vpnrelay.c:1068 and 2139).
TrustedAppIsClean ==
    \A k \in Slots :
        conns[k] # NoConn /\ conns[k].whitelisted_app
            => ~conns[k].blacklisted_ip /\ ~conns[k].blacklisted_domain

\* A connection that the user's trust clears of being malicious is not blocked any
\* more, unless something else forbids it: "Check the active (blacklisted)
\* connections to possibly whitelist (and unblock) them" (vpnrelay.c:2229).
Malicious(c) == c.blacklisted_ip \/ c.blacklisted_domain
TrustUnblocks ==
    [][\A k \in Slots :
        /\ conns[k] # NoConn /\ conns'[k] # NoConn /\ fw.bl # NoList
        /\ Malicious(conns[k]) /\ ~Malicious(conns'[k])
        => \/ ~conns'[k].to_block
           \/ conns'[k].blacklisted_internal \/ conns'[k].uid = UnknownUid
           \/ Against(conns[k])']_vars
=============================================================================
