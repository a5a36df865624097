------------------------ MODULE RelayFirewallProof ------------------------
(***************************************************************************)
(* Proofs about RelayFirewall, for every set of tuples, hosts and lists,   *)
(* every number of malware files, of their versions and of connections,    *)
(* and every size of the cache of names: reloads are not lost, the rules   *)
(* are enforced, a trusted application stays clean, and the cache is one.  *)
(***************************************************************************)
EXTENDS RelayFirewall, SequenceTheorems, TLAPS

-----------------------------------------------------------------------------
(* No request for a reload of the malware list is lost.                    *)

\* What a load has read
Reads == UNION {[files -> Stages] : files \in SUBSET Files}

Reloads == [bl : Lists \cup {NoList}, new_bl : Lists \cup {NoList},
            now : BOOLEAN, worker : {"none", "started", "done"}, loading : Reads]

\* The list in use is never newer, file by file, than what a load has read, nor that
\* than the files; a request was for files that are there.
LoadsInOrder ==
    /\ announced # NoList => \A f \in Files : announced[f] <= disk[f]
    /\ reload.bl # NoList => \A f \in Files : reload.bl[f] <= disk[f]
    /\ reload.worker = "started" =>
           \A f \in DOMAIN reload.loading :
               /\ reload.loading[f] <= disk[f]
               /\ reload.bl # NoList => reload.bl[f] <= reload.loading[f]
    /\ reload.worker = "done" =>
           /\ reload.new_bl # NoList
           /\ \A f \in Files :
                 /\ reload.new_bl[f] <= disk[f]
                 /\ reload.bl # NoList => reload.bl[f] <= reload.new_bl[f]
    /\ reload.worker # "started" => reload.loading = NothingRead

ReloadInv ==
    /\ disk \in Lists /\ announced \in Lists \cup {NoList} /\ reload \in Reloads
    /\ LoadsInOrder
    /\ RequestedListIsComing

LEMMA StagesOrdered ==
  /\ Len(MalwareLists) \in Nat /\ Stages \subseteq Nat /\ 0 \in Stages
  /\ \A s \in Stages : s <= s /\ s <= s + 1
  /\ \A r, s, t \in Stages : r <= s /\ s <= t => r <= t
  BY FirewallAssumption DEF Stages

LEMMA ListsAreNotNone == NoList \notin Lists
  BY FirewallAssumption DEF Lists, Stages

LEMMA NothingReadTyped == NothingRead \in Reads /\ DOMAIN NothingRead = {}
  <1>1. NothingRead \in [{} -> Stages]
    BY DEF NothingRead
  <1> QED
    BY <1>1 DEF Reads

LEMMA InitReload == Init => ReloadInv
  <1> SUFFICES ASSUME Init PROVE ReloadInv
    OBVIOUS
  <1>1. disk \in Lists
    BY DEF Init, Lists
  <1>2. PICK files \in SUBSET Files, asked \in BOOLEAN :
            LET list == IF MalwareDetection /\ asked THEN disk ELSE NoList
            IN  /\ reload = [bl |-> list, new_bl |-> NoList, now |-> FALSE,
                             worker |-> "none", loading |-> NothingRead]
                /\ announced = list
    BY DEF Init
  <1> DEFINE list == IF MalwareDetection /\ asked THEN disk ELSE NoList
  <1>3. /\ reload = [bl |-> list, new_bl |-> NoList, now |-> FALSE,
                     worker |-> "none", loading |-> NothingRead]
        /\ announced = list
    BY <1>2
  <1>4. list \in Lists \cup {NoList} /\ (list # NoList => list = disk)
    BY <1>1
  <1> HIDE DEF list
  <1>5. \A f \in Files : disk[f] \in Stages
    BY <1>1 DEF Lists
  <1>6. reload \in Reloads /\ LoadsInOrder
    BY <1>3, <1>4, <1>5, NothingReadTyped, StagesOrdered DEF Reloads, LoadsInOrder
  <1>7. RequestedListIsComing
    <2>1. list # NoList => DOMAIN list = Files
      BY <1>1, <1>4 DEF Lists
    <2> QED
      BY <1>3, <1>4, <1>5, <2>1, StagesOrdered DEF RequestedListIsComing, AsNew
  <1> QED
    BY <1>1, <1>3, <1>4, <1>6, <1>7 DEF ReloadInv

\* A load that ends leaves its list in use; one that begins has the files to read.
LEMMA BranchKeepsReload ==
  ASSUME ReloadInv, ReloadBranch, UNCHANGED <<disk, announced>>
  PROVE  ReloadInv'
  <1>1. CASE reload.worker = "done" /\ reload' = Taken
    <2>1. /\ reload.new_bl # NoList /\ reload.new_bl \in Lists
          /\ reload' = [reload EXCEPT !.worker = "none", !.new_bl = NoList,
                                      !.bl = reload.new_bl]
      BY <1>1 DEF Taken, ReloadInv, LoadsInOrder, Reloads
    <2>2. reload' \in Reloads /\ reload'.bl = reload.new_bl /\ reload'.worker = "none"
          /\ reload'.now = reload.now /\ reload'.loading = reload.loading
      BY <2>1 DEF ReloadInv, Reloads
    <2>3. LoadsInOrder'
      BY <1>1, <2>1, <2>2 DEF ReloadInv, LoadsInOrder
    <2>4. RequestedListIsComing'
      <3>1. CASE announced = NoList \/ reload.now \/ AsNew(reload.new_bl)
        BY <2>1, <2>2, <3>1 DEF RequestedListIsComing, AsNew
      <3>2. CASE announced # NoList /\ reload.bl # NoList /\ AsNew(reload.bl)
        <4>1. /\ reload.bl \in Lists /\ announced \in Lists
              /\ \A f \in Files : reload.bl[f] <= reload.new_bl[f]
          BY <1>1, <3>2 DEF ReloadInv, LoadsInOrder, Reloads
        <4>2. ASSUME NEW f \in Files PROVE announced[f] <= reload.new_bl[f]
          <5>1. /\ announced[f] \in Stages /\ reload.bl[f] \in Stages
                /\ reload.new_bl[f] \in Stages
            BY <2>1, <4>1 DEF Lists
          <5>2. announced[f] <= reload.bl[f]
            BY <3>2, <4>1 DEF AsNew, Lists
          <5> QED
            BY <4>1, <5>1, <5>2, StagesOrdered
        <4>3. AsNew(reload.new_bl)
          BY <2>1, <4>2 DEF AsNew, Lists
        <4> QED
          BY <2>1, <2>2, <4>3 DEF RequestedListIsComing, AsNew
      <3> QED
        BY <1>1, <3>1, <3>2 DEF ReloadInv, RequestedListIsComing
    <2> QED
      BY <2>2, <2>3, <2>4 DEF ReloadInv
  <1>2. CASE reload.worker = "none" /\ reload.now /\
             reload' = [reload EXCEPT !.now = FALSE, !.worker = "started",
                                      !.new_bl = NoList]
    <2>1. reload' \in Reloads /\ reload'.bl = reload.bl /\ reload'.worker = "started"
          /\ reload'.loading = NothingRead
      BY <1>2 DEF ReloadInv, Reloads, LoadsInOrder
    <2>2. LoadsInOrder'
      BY <2>1, NothingReadTyped DEF ReloadInv, LoadsInOrder
    <2>3. RequestedListIsComing'
      BY <2>1, NothingReadTyped DEF RequestedListIsComing, AsNew
    <2> QED
      BY <2>1, <2>2, <2>3 DEF ReloadInv
  <1>3. CASE UNCHANGED reload
    BY <1>3 DEF ReloadInv, LoadsInOrder, RequestedListIsComing, AsNew
  <1> QED
    BY <1>1, <1>2, <1>3 DEF ReloadBranch

\* A load reads each file in the state it has.
LEMMA ReadingKeepsReload == ReloadInv /\ LoaderReads => ReloadInv'
  <1> SUFFICES ASSUME ReloadInv, LoaderReads PROVE ReloadInv'
    OBVIOUS
  <1>1. PICK f \in Files \ DOMAIN reload.loading :
            /\ reload.worker = "started"
            /\ reload' = [reload EXCEPT !.loading =
                   [g \in DOMAIN reload.loading \cup {f} |->
                        IF g = f THEN disk[f] ELSE reload.loading[g]]]
            /\ UNCHANGED <<disk, announced>>
    BY DEF LoaderReads
  <1> DEFINE old  == reload.loading
             more == [g \in DOMAIN old \cup {f} |-> IF g = f THEN disk[f] ELSE old[g]]
  <1>2. PICK files \in SUBSET Files : old \in [files -> Stages]
    BY DEF ReloadInv, Reloads, Reads
  <1>3. disk[f] \in Stages /\ \A g \in DOMAIN old : old[g] \in Stages
    BY <1>2 DEF ReloadInv, Lists
  <1>4. more \in [DOMAIN old \cup {f} -> Stages] /\ DOMAIN old \cup {f} \in SUBSET Files
    BY <1>2, <1>3
  <1>5. more \in Reads
    BY <1>4 DEF Reads
  <1>6. DOMAIN more = DOMAIN old \cup {f} /\ more[f] = disk[f]
        /\ \A g \in DOMAIN old : more[g] = old[g]
    BY <1>1
  <1>7. reload' = [reload EXCEPT !.loading = more]
    BY <1>1
  <1> HIDE DEF more
  <1>8. reload' \in Reloads /\ reload'.loading = more /\ reload'.bl = reload.bl
        /\ reload'.now = reload.now /\ reload'.worker = "started"
        /\ reload'.new_bl = reload.new_bl
    BY <1>1, <1>5, <1>7 DEF ReloadInv, Reloads
  <1>9. LoadsInOrder'
    <2>1. /\ announced # NoList => \A g \in Files : announced[g] <= disk[g]
          /\ reload.bl # NoList => \A g \in Files : reload.bl[g] <= disk[g]
          /\ \A g \in DOMAIN old :
                 /\ old[g] <= disk[g]
                 /\ reload.bl # NoList => reload.bl[g] <= old[g]
      BY <1>1 DEF ReloadInv, LoadsInOrder
    <2>2. \A g \in DOMAIN more :
              /\ more[g] <= disk[g]
              /\ reload.bl # NoList => reload.bl[g] <= more[g]
      BY <1>3, <1>6, <2>1, StagesOrdered
    <2> QED
      BY <1>1, <1>8, <2>1, <2>2 DEF LoadsInOrder
  <1>10. RequestedListIsComing'
    <2>1. CASE AsNew(reload.loading)
      <3>1. announced # NoList => announced[f] <= disk[f]
        BY DEF ReloadInv, LoadsInOrder
      <3>2. \A g \in DOMAIN more : announced # NoList => announced[g] <= more[g]
        BY <1>6, <2>1, <3>1 DEF AsNew
      <3> QED
        BY <1>1, <1>8, <3>2 DEF RequestedListIsComing, AsNew
    <2>2. CASE ~AsNew(reload.loading)
      BY <1>1, <1>8, <2>2 DEF ReloadInv, RequestedListIsComing, AsNew
    <2> QED
      BY <2>1, <2>2
  <1> QED
    BY <1>1, <1>8, <1>9, <1>10 DEF ReloadInv

LEMMA LoadedKeepsReload == ReloadInv /\ LoaderEnds => ReloadInv'
  <1> SUFFICES ASSUME ReloadInv, LoaderEnds PROVE ReloadInv'
    OBVIOUS
  <1>1. /\ reload.worker = "started" /\ DOMAIN reload.loading = Files
        /\ reload' = [reload EXCEPT !.worker = "done", !.new_bl = reload.loading,
                                    !.loading = NothingRead]
        /\ UNCHANGED <<disk, announced>>
    BY DEF LoaderEnds
  <1>2. reload.loading \in Lists
    BY <1>1 DEF ReloadInv, Reloads, Reads, Lists
  <1>3. reload' \in Reloads /\ reload'.new_bl = reload.loading /\ reload'.bl = reload.bl
        /\ reload'.now = reload.now /\ reload'.worker = "done"
        /\ reload'.loading = NothingRead
    BY <1>1, <1>2, NothingReadTyped DEF ReloadInv, Reloads
  <1>4. reload.loading # NoList
    BY <1>2, ListsAreNotNone
  <1>5. LoadsInOrder'
    BY <1>1, <1>3, <1>4 DEF ReloadInv, LoadsInOrder
  <1>6. RequestedListIsComing'
    BY <1>1, <1>3, <1>4 DEF ReloadInv, RequestedListIsComing, AsNew
  <1> QED
    BY <1>1, <1>3, <1>5, <1>6 DEF ReloadInv

\* Files only go on to later stages.
LEMMA FilesKeepReload ==
  ASSUME ReloadInv, NEW f \in Files, disk[f] + 1 \in Stages,
         disk' = [disk EXCEPT ![f] = @ + 1], UNCHANGED <<reload, announced>>
  PROVE  ReloadInv'
  <1>1. disk' \in Lists /\ \A g \in Files : disk[g] \in Stages /\ disk[g] <= disk'[g]
                                            /\ disk'[g] \in Stages
    BY StagesOrdered DEF ReloadInv, Lists
  <1>2. /\ announced # NoList => \A g \in Files : announced[g] \in Stages
        /\ reload.bl # NoList => \A g \in Files : reload.bl[g] \in Stages
        /\ reload.new_bl # NoList => \A g \in Files : reload.new_bl[g] \in Stages
        /\ \A g \in DOMAIN reload.loading : g \in Files /\ reload.loading[g] \in Stages
    BY DEF ReloadInv, Reloads, Lists, Reads
  <1> DEFINE l == reload.loading
  <1>5. /\ announced # NoList => \A g \in Files : announced[g] <= disk[g]
        /\ reload.bl # NoList => \A g \in Files : reload.bl[g] <= disk[g]
        /\ reload.worker = "started" => \A g \in DOMAIN l : l[g] <= disk[g]
        /\ reload.worker = "done" => reload.new_bl # NoList
        /\ reload.worker = "done" => \A g \in Files : reload.new_bl[g] <= disk[g]
    BY DEF ReloadInv, LoadsInOrder
  <1>6. announced # NoList => \A g \in Files : announced[g] <= disk'[g]
    BY <1>1, <1>2, <1>5, StagesOrdered
  <1>7. reload.bl # NoList => \A g \in Files : reload.bl[g] <= disk'[g]
    BY <1>1, <1>2, <1>5, StagesOrdered
  <1>8. reload.worker = "started" => \A g \in DOMAIN l : l[g] <= disk'[g]
    BY <1>1, <1>2, <1>5, StagesOrdered
  <1>9. reload.worker = "done" => \A g \in Files : reload.new_bl[g] <= disk'[g]
    BY <1>1, <1>2, <1>5, StagesOrdered
  <1>3. LoadsInOrder'
    BY <1>6, <1>7, <1>8, <1>9 DEF ReloadInv, LoadsInOrder
  <1>4. RequestedListIsComing'
    BY DEF ReloadInv, RequestedListIsComing, AsNew
  <1> QED
    BY <1>1, <1>3, <1>4 DEF ReloadInv

LEMMA DeletingIsAStage ==
  ASSUME NEW s \in Stages, ~Missing(s)
  PROVE  s + 1 \in Stages
  BY FirewallAssumption DEF Stages, Missing

LEMMA NextReload == ReloadInv /\ [Next]_vars /\ java.downloading \subseteq Files
                        => ReloadInv'
  <1> SUFFICES ASSUME ReloadInv, [Next]_vars, java.downloading \subseteq Files
               PROVE  ReloadInv'
    OBVIOUS
  <1>1. CASE UNCHANGED <<disk, announced, reload>>
    BY <1>1 DEF ReloadInv, LoadsInOrder, RequestedListIsComing, AsNew
  <1>2. CASE Housekeeping
    <2>1. UNCHANGED <<disk, announced>> /\ (ReloadBranch \/ UNCHANGED reload)
      BY <1>2 DEF Housekeeping
    <2> QED
      BY <1>1, <2>1, BranchKeepsReload
  <1>3. CASE DeleteFile
    <2>1. PICK f \in java.downloading : ~Missing(disk[f]) /\
              disk' = [disk EXCEPT ![f] = @ + 1] /\ UNCHANGED <<reload, announced>>
      BY <1>3 DEF DeleteFile
    <2>2. disk[f] \in Stages
      BY DEF ReloadInv, Lists
    <2> QED
      BY <2>1, <2>2, DeletingIsAStage, FilesKeepReload
  <1>4. CASE EndDownload
    <2>1. PICK f \in java.downloading :
              /\ \/ disk[f] + 1 \in Stages /\ disk' = [disk EXCEPT ![f] = @ + 1]
                 \/ UNCHANGED disk
              /\ UNCHANGED <<reload, announced>>
      BY <1>4 DEF EndDownload
    <2> QED
      BY <1>1, <2>1, FilesKeepReload
  <1>5. CASE AnnounceFiles
    <2>1. /\ disk' = disk /\ announced' = disk
          /\ reload' = [reload EXCEPT !.now = TRUE]
      BY <1>5 DEF AnnounceFiles
    <2>2. /\ reload' \in Reloads /\ reload'.now /\ reload'.bl = reload.bl
          /\ reload'.new_bl = reload.new_bl /\ reload'.worker = reload.worker
          /\ reload'.loading = reload.loading
      BY <2>1 DEF ReloadInv, Reloads
    <2>3. \A f \in Files : disk[f] <= disk[f]
      BY StagesOrdered DEF ReloadInv, Lists
    <2>4. LoadsInOrder'
      BY <2>1, <2>2, <2>3 DEF ReloadInv, LoadsInOrder
    <2> QED
      BY <2>1, <2>2, <2>4 DEF ReloadInv, RequestedListIsComing
  <1>6. \/ UNCHANGED <<disk, announced, reload>>
        \/ Housekeeping \/ LoaderReads \/ LoaderEnds
        \/ DeleteFile \/ EndDownload \/ AnnounceFiles
    BY DEF Next, vars, StartUpdate, FinalizeUpdate, OpenConnection, Packet, DnsReply,
           CloseConnection, reloadMalwareWhitelist, reloadBlocklist,
           reloadFirewallWhitelist, EnableWhitelist, DisableWhitelist,
           nativeSetFirewallEnabled
  <1> QED
    BY <1>1, <1>2, <1>3, <1>4, <1>5, <1>6, ReadingKeepsReload, LoadedKeepsReload

\* Downloads are of the files of the list.
Javas == [updating : BOOLEAN, busy : BOOLEAN, downloading : SUBSET Files,
          posted : BOOLEAN]

LEMMA InitJava == Init => java \in Javas
  <1> SUFFICES ASSUME Init PROVE java \in Javas
    OBVIOUS
  <1>1. PICK files \in SUBSET Files, asked \in BOOLEAN :
            java = [updating |-> MalwareDetection /\ ~asked, busy |-> files # {},
                    downloading |-> files, posted |-> FALSE]
    BY DEF Init
  <1> DEFINE u == MalwareDetection /\ ~asked
             b == files # {}
  <1>2. u \in BOOLEAN /\ b \in BOOLEAN
    OBVIOUS
  <1>3. java = [updating |-> u, busy |-> b, downloading |-> files, posted |-> FALSE]
    BY <1>1
  <1> HIDE DEF u, b
  <1> QED
    BY <1>2, <1>3 DEF Javas

LEMMA NextJava == java \in Javas /\ [Next]_vars => java' \in Javas
  <1> SUFFICES ASSUME java \in Javas, [Next]_vars PROVE java' \in Javas
    OBVIOUS
  <1>1. CASE Housekeeping
    <2>1. UNCHANGED java \/ java' = [java EXCEPT !.posted = TRUE]
      BY <1>1 DEF Housekeeping, ReloadBranch
    <2> QED
      BY <2>1 DEF Javas
  <1>2. CASE StartUpdate
    <2>1. PICK files \in SUBSET Files :
              java' = IF java.busy THEN [java EXCEPT !.updating = TRUE]
                      ELSE [java EXCEPT !.updating = TRUE, !.busy = files # {},
                                        !.downloading = @ \cup files]
      BY <1>2 DEF StartUpdate
    <2> DEFINE b == files # {}
    <2>2. b \in BOOLEAN /\ \/ java' = [java EXCEPT !.updating = TRUE]
                           \/ java' = [java EXCEPT !.updating = TRUE, !.busy = b,
                                           !.downloading = @ \cup files]
      BY <2>1
    <2> HIDE DEF b
    <2> QED
      BY <2>2 DEF Javas
  <1>3. CASE EndDownload
    <2>1. PICK f \in java.downloading, last \in BOOLEAN :
              java' = [java EXCEPT !.downloading = @ \ {f}, !.posted = @ \/ last]
      BY <1>3 DEF EndDownload
    <2> DEFINE p == java.posted \/ last
    <2>2. p \in BOOLEAN /\ java' = [java EXCEPT !.downloading = @ \ {f}, !.posted = p]
      BY <2>1
    <2> HIDE DEF p
    <2> QED
      BY <2>2 DEF Javas
  <1>4. CASE FinalizeUpdate
    BY <1>4 DEF FinalizeUpdate, Javas
  <1>5. CASE AnnounceFiles
    BY <1>5 DEF AnnounceFiles, Javas
  <1>6. \/ UNCHANGED java
        \/ Housekeeping \/ StartUpdate \/ EndDownload \/ FinalizeUpdate \/ AnnounceFiles
    BY DEF Next, vars, LoaderReads, LoaderEnds, DeleteFile, OpenConnection, Packet,
           DnsReply, CloseConnection, reloadMalwareWhitelist, reloadBlocklist,
           reloadFirewallWhitelist, EnableWhitelist, DisableWhitelist,
           nativeSetFirewallEnabled
  <1> QED
    BY <1>1, <1>2, <1>3, <1>4, <1>5, <1>6

\* Whatever the order of updates, downloads, loads and turns of the loop, whichever
\* files are replaced, deleted and not replaced, or not downloaded, no request for a
\* reload of the malware list is lost.
THEOREM ReloadCorrect == Spec => []RequestedListIsComing
  <1> DEFINE IInv == ReloadInv /\ java \in Javas
  <1>1. Init => IInv
    BY InitReload, InitJava
  <1>2. IInv /\ [Next]_vars => IInv'
    BY NextReload, NextJava DEF Javas
  <1>3. IInv => RequestedListIsComing
    BY DEF ReloadInv
  <1> QED
    BY <1>1, <1>2, <1>3, PTL DEF Spec

-----------------------------------------------------------------------------
(* The rules of the firewall, over every order of packets and lists.       *)

\* A connection is a record, whatever its tuple and host are.
Shape(c) ==
    /\ c = [t |-> c.t, uid |-> c.uid, new |-> c.new, missed |-> c.missed,
            info |-> c.info, fromLru |-> c.fromLru,
            whitelisted_app |-> c.whitelisted_app, blacklisted_ip |-> c.blacklisted_ip,
            blacklisted_domain |-> c.blacklisted_domain,
            blacklisted_internal |-> c.blacklisted_internal, to_block |-> c.to_block]
    /\ c.whitelisted_app \in BOOLEAN /\ c.to_block \in BOOLEAN
    /\ c.blacklisted_ip \in BOOLEAN /\ c.blacklisted_domain \in BOOLEAN
    /\ c.fromLru \in BOOLEAN /\ c.blacklisted_internal \in BOOLEAN
    /\ c.new \in BOOLEAN /\ c.missed \in BOOLEAN

\* What nothing but a gift changes
Same(c, d) == d.t = c.t /\ d.uid = c.uid /\ d.missed = c.missed

Examined(s) == s = [c |-> s.c, open |-> s.open, this |-> s.this] /\ Shape(s.c)

\* Against, for the firewall f
Forbids(f, c) ==
    \/ Matches(f.bl, c.uid) \/ Matches(f.bl, c.t.ip)
    \/ c.info # NoHost /\ Matches(f.bl, c.info)
    \/ /\ f.wl_enabled /\ f.wl # NoList
       /\ ~c.t.dns \/ c.uid \notin ExemptUids
       /\ c.uid \notin f.wl

Enforced(f, c) == f.enabled /\ Forbids(f, c) => c.to_block
Clean(c) == c.whitelisted_app => ~c.blacklisted_ip /\ ~c.blacklisted_domain

\* d is c after an inspection that blocks at most, and blocks what the firewall has
\* against a host it found.
Inspects(c, d) ==
    /\ Same(c, d) /\ d.whitelisted_app = c.whitelisted_app
    /\ c.to_block => d.to_block
    /\ \/ d.info = c.info
       \/ fw.enabled /\ d.info # NoHost /\ Matches(fw.bl, d.info) => d.to_block
    /\ c.whitelisted_app => /\ d.blacklisted_ip = c.blacklisted_ip
                            /\ d.blacklisted_domain = c.blacklisted_domain

LEMMA DomainChecked ==
  ASSUME NEW s, Examined(s)
  PROVE  /\ Examined(CheckDomain(s)) /\ Inspects(s.c, CheckDomain(s).c)
         /\ CheckDomain(s).c.info = s.c.info
         /\ CheckDomain(s).c.blacklisted_ip = s.c.blacklisted_ip
         /\ fw.enabled /\ s.c.info # NoHost /\ Matches(fw.bl, s.c.info)
                => CheckDomain(s).c.to_block
  <1> DEFINE checked == /\ s.c.info # NoHost /\ MalBl # NoList
                        /\ ~s.c.blacklisted_domain /\ ~s.c.whitelisted_app
             allowed == Matches(MalBl, s.c.info) \/ Matches(malWl.wl, s.c.info)
             m == IF ~checked THEN s
                  ELSE IF allowed THEN [s EXCEPT !.open = s.this, !.this = FALSE]
                  ELSE [s EXCEPT !.open = FALSE, !.c.blacklisted_domain = TRUE,
                                 !.c.to_block = TRUE]
             b == s.c.info # NoHost /\ fw.enabled /\ Matches(fw.bl, s.c.info)
  <1>1. /\ Examined(m) /\ Same(s.c, m.c) /\ m.c.info = s.c.info
        /\ m.c.whitelisted_app = s.c.whitelisted_app
        /\ m.c.blacklisted_ip = s.c.blacklisted_ip
        /\ s.c.to_block => m.c.to_block
        /\ s.c.whitelisted_app => m.c.blacklisted_domain = s.c.blacklisted_domain
    <2>1. CASE ~checked
      BY <2>1 DEF Same
    <2>2. CASE checked /\ allowed
      <3>1. m = [s EXCEPT !.open = s.this, !.this = FALSE]
        BY <2>2
      <3> QED
        BY <3>1 DEF Examined, Same
    <2>3. CASE checked /\ ~allowed
      <3>1. m = [s EXCEPT !.open = FALSE, !.c.blacklisted_domain = TRUE,
                          !.c.to_block = TRUE]
        BY <2>3
      <3>2. ~s.c.whitelisted_app
        BY <2>3
      <3> HIDE DEF m
      <3> QED
        BY <3>1, <3>2 DEF Examined, Shape, Same
    <2> QED
      BY <2>1, <2>2, <2>3
  <1>2. CheckDomain(s) = [m EXCEPT !.c.to_block = @ \/ b]
    BY DEF CheckDomain
  <1> HIDE DEF m
  <1>3. b \in BOOLEAN
    OBVIOUS
  <1>4. b <=> s.c.info # NoHost /\ fw.enabled /\ Matches(fw.bl, s.c.info)
    OBVIOUS
  <1> HIDE DEF b
  <1>5. /\ Examined(CheckDomain(s))
        /\ Same(m.c, CheckDomain(s).c) /\ CheckDomain(s).c.info = m.c.info
        /\ CheckDomain(s).c.whitelisted_app = m.c.whitelisted_app
        /\ CheckDomain(s).c.blacklisted_ip = m.c.blacklisted_ip
        /\ CheckDomain(s).c.blacklisted_domain = m.c.blacklisted_domain
        /\ CheckDomain(s).c.to_block = (m.c.to_block \/ b)
    BY <1>1, <1>2, <1>3 DEF Examined, Shape, Same
  <1> QED
    BY <1>1, <1>4, <1>5 DEF Inspects, Same

LEMMA InspectionBlocks ==
  ASSUME NEW s, Examined(s), NEW host
  PROVE  /\ Examined(Inspected(s, host)) /\ Inspects(s.c, Inspected(s, host).c)
         /\ Inspected(s, host).c.info =
                IF host # NoHost /\ (s.c.info = NoHost \/ s.c.fromLru) THEN host
                ELSE s.c.info
  <1> DEFINE named == host # NoHost /\ (s.c.info = NoHost \/ s.c.fromLru)
             r == [s EXCEPT !.c.info = host, !.c.fromLru = FALSE]
             s1 == IF named THEN CheckDomain(r) ELSE s
             q == s.c.t.quic
  <1>1. Examined(r) /\ r.c.info = host /\ Same(s.c, r.c) /\ r.c.to_block = s.c.to_block
        /\ r.c.whitelisted_app = s.c.whitelisted_app
        /\ r.c.blacklisted_ip = s.c.blacklisted_ip
        /\ r.c.blacklisted_domain = s.c.blacklisted_domain
    <2> DEFINE u == [s EXCEPT !.c.info = host]
    <2>1. /\ Examined(u) /\ u.c.info = host /\ Same(s.c, u.c)
          /\ u.c.to_block = s.c.to_block
          /\ u.c.whitelisted_app = s.c.whitelisted_app
          /\ u.c.blacklisted_ip = s.c.blacklisted_ip
          /\ u.c.blacklisted_domain = s.c.blacklisted_domain
      BY DEF Examined, Shape, Same
    <2>2. r = [u EXCEPT !.c.fromLru = FALSE]
      OBVIOUS
    <2> HIDE DEF u, r
    <2> QED
      BY <2>1, <2>2 DEF Examined, Shape, Same
  <1> HIDE DEF r
  <1>2. Examined(s1) /\ Inspects(s.c, s1.c)
        /\ s1.c.info = IF named THEN host ELSE s.c.info
    <2>1. CASE named
      <3>1. s1 = CheckDomain(r)
        BY <2>1
      <3>2. /\ Examined(CheckDomain(r)) /\ Inspects(r.c, CheckDomain(r).c)
            /\ CheckDomain(r).c.info = r.c.info
            /\ fw.enabled /\ r.c.info # NoHost /\ Matches(fw.bl, r.c.info)
                   => CheckDomain(r).c.to_block
        BY <1>1, DomainChecked
      <3> HIDE DEF s1
      <3> QED
        BY <1>1, <2>1, <3>1, <3>2 DEF Inspects, Same
    <2>2. CASE ~named
      BY <2>2 DEF Inspects, Same
    <2> QED
      BY <2>1, <2>2
  <1>3. Inspected(s, host) = [s1 EXCEPT !.c.blacklisted_internal = @ \/ q,
                                        !.c.to_block = @ \/ q]
    BY DEF Inspected, r
  <1> DEFINE v == s1.c.to_block \/ q
             w == s1.c.blacklisted_internal \/ q
  <1>5. v \in BOOLEAN /\ w \in BOOLEAN /\ (s1.c.to_block => v)
    OBVIOUS
  <1> DEFINE u == [s1 EXCEPT !.c.blacklisted_internal = w]
  <1>6. Inspected(s, host) = [u EXCEPT !.c.to_block = v]
    BY <1>3
  <1> HIDE DEF s1, q, v, w
  <1>7. /\ Examined(u) /\ Same(s1.c, u.c) /\ u.c.info = s1.c.info
        /\ u.c.whitelisted_app = s1.c.whitelisted_app
        /\ u.c.blacklisted_ip = s1.c.blacklisted_ip
        /\ u.c.blacklisted_domain = s1.c.blacklisted_domain
    BY <1>2, <1>5 DEF Examined, Shape, Same
  <1> HIDE DEF u
  <1>4. /\ Examined(Inspected(s, host))
        /\ Same(s1.c, Inspected(s, host).c) /\ Inspected(s, host).c.info = s1.c.info
        /\ Inspected(s, host).c.whitelisted_app = s1.c.whitelisted_app
        /\ Inspected(s, host).c.blacklisted_ip = s1.c.blacklisted_ip
        /\ Inspected(s, host).c.blacklisted_domain = s1.c.blacklisted_domain
        /\ s1.c.to_block => Inspected(s, host).c.to_block
    BY <1>5, <1>6, <1>7 DEF Examined, Shape, Same
  <1> QED
    BY <1>2, <1>4 DEF Inspects, Same

LEMMA WhitelistModeBlocks ==
  ASSUME NEW c, Shape(c), NEW f
  PROVE  LET d == WhitelistMode(c, f)
         IN  /\ Shape(d) /\ d = [c EXCEPT !.to_block = d.to_block]
             /\ c.to_block => d.to_block
             /\ /\ f.enabled /\ f.wl_enabled /\ f.wl # NoList
                /\ ~c.t.dns \/ c.uid \notin ExemptUids
                /\ c.uid \notin f.wl
                => d.to_block
  <1> DEFINE b == \/ /\ f.enabled /\ f.wl_enabled /\ f.wl # NoList
                     /\ ~c.t.dns \/ c.uid \notin ExemptUids \cup {UnknownUid}
                     /\ c.uid \notin f.wl
                  \/ c.uid = UnknownUid
  <1>1. /\ f.enabled /\ f.wl_enabled /\ f.wl # NoList
        /\ ~c.t.dns \/ c.uid \notin ExemptUids
        /\ c.uid \notin f.wl
        => b
    OBVIOUS
  <1>2. b \in BOOLEAN
    OBVIOUS
  <1>3. WhitelistMode(c, f) = [c EXCEPT !.to_block = @ \/ b]
    BY DEF WhitelistMode
  <1> DEFINE d == WhitelistMode(c, f)
             v == c.to_block \/ b
  <1>4. v \in BOOLEAN /\ (b => v) /\ (c.to_block => v)
    OBVIOUS
  <1>5. d = [c EXCEPT !.to_block = v]
    BY <1>3
  <1> HIDE DEF b, d, v
  <1>6. d.to_block = v /\ Shape(d)
    BY <1>4, <1>5 DEF Shape
  <1> QED
    BY <1>1, <1>4, <1>5, <1>6 DEF d

LEMMA RecheckEnforces ==
  ASSUME NEW c, Shape(c), NEW f
  PROVE  LET d == CheckBlocked(c, f)
         IN  Shape(d) /\ d = [c EXCEPT !.to_block = d.to_block] /\ Enforced(f, d)
  <1> DEFINE b == \/ ~c.blacklisted_internal \/ ~c.blacklisted_ip \/ ~c.blacklisted_domain
                  \/ /\ f.enabled
                     /\ \/ Matches(f.bl, c.uid) \/ Matches(f.bl, c.t.ip)
                        \/ c.info # NoHost /\ Matches(f.bl, c.info)
             r == [c EXCEPT !.to_block = b]
  <1>1. CheckBlocked(c, f) = WhitelistMode(r, f)
    BY DEF CheckBlocked
  <1>2. b \in BOOLEAN
    OBVIOUS
  <1>3. f.enabled /\ (\/ Matches(f.bl, c.uid) \/ Matches(f.bl, c.t.ip)
                      \/ c.info # NoHost /\ Matches(f.bl, c.info)) => b
    OBVIOUS
  <1> HIDE DEF b
  <1>4. Shape(r) /\ Same(c, r) /\ r.info = c.info /\ r.to_block = b
    BY <1>2 DEF Shape, Same
  <1>5. LET d == WhitelistMode(r, f)
        IN  /\ Shape(d) /\ d = [r EXCEPT !.to_block = d.to_block]
            /\ r.to_block => d.to_block
            /\ /\ f.enabled /\ f.wl_enabled /\ f.wl # NoList
               /\ ~r.t.dns \/ r.uid \notin ExemptUids
               /\ r.uid \notin f.wl
               => d.to_block
    BY <1>4, WhitelistModeBlocks
  <1>6. /\ CheckBlocked(c, f) = [c EXCEPT !.to_block = CheckBlocked(c, f).to_block]
        /\ Same(c, CheckBlocked(c, f)) /\ CheckBlocked(c, f).info = c.info
    <2> DEFINE d == CheckBlocked(c, f)
               v == d.to_block
    <2>1. d = [r EXCEPT !.to_block = v]
      BY <1>1, <1>5
    <2> HIDE DEF d, v
    <2>2. [r EXCEPT !.to_block = v] = [c EXCEPT !.to_block = v]
      OBVIOUS
    <2>3. d = [c EXCEPT !.to_block = v]
      BY <2>1, <2>2
    <2>4. Same(c, d) /\ d.info = c.info
      BY <2>3 DEF Shape, Same
    <2> QED
      BY <2>3, <2>4 DEF d, v
  <1> QED
    BY <1>1, <1>3, <1>4, <1>5, <1>6 DEF Enforced, Forbids, Same

\* A new malware whitelist marks no connection and undoes no rule.
LEMMA TrustEnforces ==
  ASSUME NEW c, Shape(c), Clean(c), NEW wl
  PROVE  LET d == CheckBlacklisted(c, wl)
         IN  /\ Shape(d) /\ Clean(d) /\ Same(c, d) /\ d.info = c.info
             /\ Enforced(fw, c) => Enforced(fw, d)
  <1> DEFINE app == c.uid \in wl
             ip == c.blacklisted_ip /\ (app \/ c.t.ip \in wl)
             domain == c.blacklisted_domain /\ (app \/ c.info \in wl)
             r == [c EXCEPT !.whitelisted_app = app,
                            !.blacklisted_ip = @ /\ ~ip,
                            !.blacklisted_domain = @ /\ ~domain]
  <1>1. CheckBlacklisted(c, wl) =
            IF (ip \/ domain) /\ fw.bl # NoList THEN CheckBlocked(r, fw) ELSE r
    BY DEF CheckBlacklisted
  <1>2. app => (c.blacklisted_ip => ip) /\ (c.blacklisted_domain => domain)
    OBVIOUS
  <1>3. app \in BOOLEAN /\ ip \in BOOLEAN /\ domain \in BOOLEAN
    OBVIOUS
  <1> DEFINE x == c.blacklisted_ip /\ ~ip
             y == c.blacklisted_domain /\ ~domain
  <1>8. x \in BOOLEAN /\ y \in BOOLEAN /\ (app => ~x /\ ~y)
    BY <1>2
  <1>9. r = [c EXCEPT !.whitelisted_app = app, !.blacklisted_ip = x,
                      !.blacklisted_domain = y]
    OBVIOUS
  <1> HIDE DEF app, ip, domain, x, y, r
  <1>4. /\ Shape(r) /\ Same(c, r) /\ r.info = c.info /\ r.to_block = c.to_block
        /\ Clean(r)
    BY <1>3, <1>8, <1>9 DEF Shape, Clean, Same
  <1>5. Enforced(fw, c) => Enforced(fw, r)
    BY <1>4 DEF Enforced, Forbids, Same
  <1>6. LET d == CheckBlocked(r, fw)
        IN  Shape(d) /\ d = [r EXCEPT !.to_block = d.to_block] /\ Enforced(fw, d)
    BY <1>4, RecheckEnforces
  <1>7. /\ Clean(CheckBlocked(r, fw)) /\ Same(r, CheckBlocked(r, fw))
        /\ CheckBlocked(r, fw).info = r.info
    <2> DEFINE d == CheckBlocked(r, fw)
               v == d.to_block
    <2>1. d = [r EXCEPT !.to_block = v]
      BY <1>6
    <2> HIDE DEF d, v
    <2>2. Clean(d) /\ Same(r, d) /\ d.info = r.info
      BY <1>4, <2>1 DEF Clean, Shape, Same
    <2> QED
      BY <2>2 DEF d
  <1> QED
    BY <1>1, <1>4, <1>5, <1>6, <1>7 DEF Same

LEMMA InspectionEnforces ==
  ASSUME NEW s, Examined(s), Clean(s.c), NEW host
  PROVE  /\ Clean(Inspected(s, host).c)
         /\ Enforced(fw, s.c) => Enforced(fw, Inspected(s, host).c)
  <1>1. Examined(Inspected(s, host)) /\ Inspects(s.c, Inspected(s, host).c)
    BY InspectionBlocks
  <1> QED
    BY <1>1 DEF Inspects, Same, Clean, Enforced, Forbids

\* A request that is given to an application is noted if its rule has been missed.
LEMMA GivingKeeps ==
  ASSUME NEW c, Shape(c), Clean(c), NEW uid
  PROVE  LET d == Give(c, uid)
         IN  /\ Shape(d) /\ Clean(d) /\ d.t = c.t /\ d.info = c.info /\ d.uid = uid
             /\ d.to_block = c.to_block /\ (c.missed => d.missed)
             /\ d.fromLru = c.fromLru /\ d.whitelisted_app = c.whitelisted_app
             /\ d.blacklisted_ip = c.blacklisted_ip
             /\ d.blacklisted_domain = c.blacklisted_domain
             /\ Enforced(fw, c) => Enforced(fw, d) \/ d.missed \/ fw.bl = NoList
  <1> DEFINE b == /\ ~c.to_block /\ fw.enabled /\ fw.bl # NoList
                  /\ \/ Matches(fw.bl, uid)
                     \/ fw.wl_enabled /\ fw.wl # NoList /\ uid \notin fw.wl
             v == c.missed \/ b
             d == Give(c, uid)
  <1>1. v \in BOOLEAN /\ (c.missed => v) /\ (b => v)
    OBVIOUS
  <1>2. d = [c EXCEPT !.uid = uid, !.missed = v]
    BY DEF Give
  <1> HIDE DEF d, v
  <1>3. /\ Shape(d) /\ Clean(d) /\ d.t = c.t /\ d.info = c.info /\ d.uid = uid
        /\ d.to_block = c.to_block /\ d.missed = v
        /\ d.fromLru = c.fromLru /\ d.whitelisted_app = c.whitelisted_app
        /\ d.blacklisted_ip = c.blacklisted_ip
        /\ d.blacklisted_domain = c.blacklisted_domain
    BY <1>1, <1>2 DEF Shape, Clean
  <1>4. Enforced(fw, c) => Enforced(fw, d) \/ d.missed \/ fw.bl = NoList
    BY <1>1, <1>3 DEF Enforced, Forbids
  <1> QED
    BY <1>1, <1>3, <1>4 DEF d

LEMMA OpeningEnforces ==
  ASSUME NEW t
  PROVE  /\ Examined(Opened(t)) /\ Clean(Opened(t).c) /\ Enforced(fw, Opened(t).c)
         /\ Opened(t).c.t = t /\ Opened(t).c.uid = t.uid
         /\ Opened(t).c.info = IF t.ip \in LruKeys(lru) THEN LruHost(lru, t.ip)
                               ELSE NoHost
  <1> DEFINE known == t.ip \in LruKeys(lru)
             wlApp == Matches(malWl.wl, t.uid)
             host == IF known THEN LruHost(lru, t.ip) ELSE NoHost
             opened == [t |-> t, uid |-> t.uid, new |-> TRUE, missed |-> FALSE,
                        info |-> host, fromLru |-> known, whitelisted_app |-> wlApp,
                        blacklisted_ip |-> FALSE, blacklisted_domain |-> FALSE,
                        blacklisted_internal |-> FALSE, to_block |-> FALSE]
             fresh == IF known /\ t.uid = Netd THEN Give(opened, Netd) ELSE opened
             s == [c |-> fresh, open |-> flags.domainopen,
                   this |-> known \/ flags.thischeck]
             domain == CheckDomain(s)
             bad == /\ ~Matches(MalBl, t.ip) /\ ~domain.open
                    /\ ~Matches(malWl.wl, t.ip)
             addr == IF MalBl = NoList \/ wlApp THEN domain
                     ELSE [domain EXCEPT !.open = FALSE, !.c.blacklisted_ip = bad,
                                         !.c.to_block = @ \/ bad]
             b == fw.enabled /\ (Matches(fw.bl, t.ip) \/ Matches(fw.bl, t.uid))
             rules == [addr EXCEPT !.c.to_block = @ \/ b]
  <1>1. Opened(t) = [rules EXCEPT !.c = WhitelistMode(@, fw)]
    BY DEF Opened
  <1>2. wlApp \in BOOLEAN /\ known \in BOOLEAN /\ bad \in BOOLEAN /\ b \in BOOLEAN
    BY DEF Matches
  <1>3. fw.enabled /\ (Matches(fw.bl, t.ip) \/ Matches(fw.bl, t.uid)) => b
    OBVIOUS
  <1> HIDE DEF wlApp, known, b, host
  <1>15. /\ Shape(opened) /\ opened.t = t /\ opened.uid = t.uid /\ opened.info = host
         /\ opened.whitelisted_app = wlApp /\ opened.blacklisted_ip = FALSE
         /\ opened.blacklisted_domain = FALSE /\ Clean(opened)
    BY <1>2 DEF Shape, Clean
  <1> HIDE DEF opened
  <1>16. /\ Shape(fresh) /\ fresh.t = t /\ fresh.uid = t.uid /\ fresh.info = host
         /\ fresh.whitelisted_app = wlApp /\ fresh.blacklisted_ip = FALSE
         /\ fresh.blacklisted_domain = FALSE
    <2>1. CASE known /\ t.uid = Netd
      BY <1>15, <2>1, GivingKeeps
    <2>2. CASE ~(known /\ t.uid = Netd)
      BY <1>15, <2>2
    <2> QED
      BY <2>1, <2>2
  <1> HIDE DEF fresh
  <1>4. Examined(s) /\ s.c.t = t /\ s.c.uid = t.uid /\ s.c.whitelisted_app = wlApp
        /\ s.c.blacklisted_ip = FALSE /\ s.c.blacklisted_domain = FALSE
        /\ s.c.info = host
    BY <1>16 DEF Examined
  <1> HIDE DEF s
  <1>5. /\ Examined(domain) /\ Inspects(s.c, domain.c) /\ domain.c.info = s.c.info
        /\ domain.c.blacklisted_ip = s.c.blacklisted_ip
        /\ fw.enabled /\ s.c.info # NoHost /\ Matches(fw.bl, s.c.info)
               => domain.c.to_block
    BY <1>4, DomainChecked
  <1>6. /\ domain.c.t = t /\ domain.c.uid = t.uid
        /\ domain.c.whitelisted_app = wlApp /\ Clean(domain.c)
    BY <1>4, <1>5 DEF Inspects, Same, Clean
  <1> HIDE DEF domain, bad
  <1>7. /\ Examined(addr) /\ addr.c.t = t /\ addr.c.uid = t.uid
        /\ addr.c.info = domain.c.info
        /\ Clean(addr.c)
        /\ domain.c.to_block => addr.c.to_block
    <2>1. CASE MalBl = NoList \/ wlApp
      BY <1>5, <1>6, <2>1
    <2>2. CASE ~(MalBl = NoList \/ wlApp)
      <3>1. addr = [domain EXCEPT !.open = FALSE, !.c.blacklisted_ip = bad,
                                  !.c.to_block = @ \/ bad]
        BY <2>2
      <3> HIDE DEF addr
      <3> QED
        BY <1>2, <1>5, <1>6, <2>2, <3>1 DEF Examined, Shape, Clean
    <2> QED
      BY <2>1, <2>2
  <1> HIDE DEF addr
  <1>8. /\ Examined(rules) /\ rules.c.t = t /\ rules.c.uid = t.uid
        /\ rules.c.info = domain.c.info
        /\ Clean(rules.c)
        /\ addr.c.to_block \/ b => rules.c.to_block
    BY <1>2, <1>7 DEF Examined, Shape, Clean
  <1> HIDE DEF rules
  <1>9. LET d == WhitelistMode(rules.c, fw)
        IN  /\ Shape(d) /\ d = [rules.c EXCEPT !.to_block = d.to_block]
            /\ rules.c.to_block => d.to_block
            /\ /\ fw.enabled /\ fw.wl_enabled /\ fw.wl # NoList
               /\ ~t.dns \/ t.uid \notin ExemptUids
               /\ t.uid \notin fw.wl
               => d.to_block
    BY <1>8, WhitelistModeBlocks DEF Examined
  <1> DEFINE d == WhitelistMode(rules.c, fw)
  <1>10. Opened(t) = [rules EXCEPT !.c = d] /\ Shape(d)
         /\ d = [rules.c EXCEPT !.to_block = d.to_block]
    BY <1>1, <1>9
  <1> HIDE DEF d
  <1>11. Examined(Opened(t)) /\ Opened(t).c = d
    BY <1>8, <1>10 DEF Examined
  <1>12. d.t = t /\ d.uid = t.uid /\ d.info = domain.c.info /\ Clean(d)
    <2> DEFINE e == rules.c
               v == d.to_block
    <2>1. d = [e EXCEPT !.to_block = v]
      BY <1>10
    <2>2. Shape(e) /\ e.t = t /\ e.uid = t.uid /\ e.info = domain.c.info /\ Clean(e)
      <3>1. Shape(rules.c)
        BY <1>8 DEF Examined
      <3> QED
        BY <1>8, <3>1
    <2> HIDE DEF e, v
    <2> QED
      BY <2>1, <2>2 DEF Shape, Clean
  <1>13. fw.enabled /\ Forbids(fw, d) => d.to_block
    <2>1. /\ rules.c.to_block => d.to_block
          /\ /\ fw.enabled /\ fw.wl_enabled /\ fw.wl # NoList
             /\ ~t.dns \/ t.uid \notin ExemptUids
             /\ t.uid \notin fw.wl
             => d.to_block
      BY <1>9 DEF d
    <2>2. fw.enabled /\ d.info # NoHost /\ Matches(fw.bl, d.info) => d.to_block
      <3>1. fw.enabled /\ d.info # NoHost /\ Matches(fw.bl, d.info) => domain.c.to_block
        BY <1>5, <1>12
      <3>2. domain.c.to_block => addr.c.to_block
        BY <1>7
      <3>3. addr.c.to_block => rules.c.to_block
        BY <1>8
      <3> QED
        BY <2>1, <3>1, <3>2, <3>3
    <2>3. fw.enabled /\ (Matches(fw.bl, t.ip) \/ Matches(fw.bl, t.uid)) => d.to_block
      BY <1>3, <1>8, <2>1
    <2> QED
      BY <1>12, <2>1, <2>2, <2>3 DEF Forbids
  <1>14. d.info = IF t.ip \in LruKeys(lru) THEN LruHost(lru, t.ip) ELSE NoHost
    BY <1>4, <1>5, <1>12 DEF host, known
  <1> QED
    BY <1>11, <1>12, <1>13, <1>14 DEF Enforced

-----------------------------------------------------------------------------
(* The invariant: every connection is in order, and what the firewall in   *)
(* use forbids is blocked, but for the connections in late, and those in   *)
(* given of which it is noted.                                             *)

FwShape ==
    /\ fw = [enabled |-> fw.enabled, wl_enabled |-> fw.wl_enabled, bl |-> fw.bl,
             new_bl |-> fw.new_bl, wl |-> fw.wl, new_wl |-> fw.new_wl]
    /\ fw.enabled \in BOOLEAN /\ fw.wl_enabled \in BOOLEAN

\* A rule that was missed is noted, if there is a blocklist.
Noted(c) == c.missed \/ fw.bl = NoList

InOrder(k) ==
    conns[k] # NoConn =>
        /\ Shape(conns[k]) /\ Clean(conns[k])
        /\ Enforced(fw, conns[k]) \/ k \in late \/ (k \in given /\ Noted(conns[k]))

FwInv ==
    /\ FwShape
    /\ conns = [k \in Slots |-> conns[k]]
    /\ \A k \in Slots : InOrder(k)

LEMMA InitFw == Init => FwInv
  BY DEF Init, FwInv, FwShape, InOrder

\* The slots that an action leaves alone stay in order.
LEMMA OthersInOrder ==
  ASSUME FwInv, NEW k \in Slots, NEW d, fw' = fw,
         conns' = [conns EXCEPT ![k] = d],
         \A j \in Slots \ {k} : (j \in late => j \in late') /\ (j \in given => j \in given'),
         d # NoConn => /\ Shape(d) /\ Clean(d)
                       /\ Enforced(fw, d) \/ k \in late' \/ (k \in given' /\ Noted(d))
  PROVE  FwInv'
  <1>1. FwShape'
    BY DEF FwInv, FwShape
  <1>2. conns' = [j \in Slots |-> conns'[j]] /\ conns'[k] = d
        /\ \A j \in Slots \ {k} : conns'[j] = conns[j]
    BY DEF FwInv
  <1>3. InOrder(k)'
    BY <1>2 DEF InOrder, Enforced, Forbids, Noted
  <1>4. ASSUME NEW j \in Slots \ {k} PROVE InOrder(j)'
    BY <1>2 DEF FwInv, InOrder, Enforced, Forbids, Noted
  <1> QED
    BY <1>1, <1>2, <1>3, <1>4 DEF FwInv

LEMMA OpeningInOrder == FwInv /\ OpenConnection => FwInv'
  <1> SUFFICES ASSUME FwInv, OpenConnection PROVE FwInv'
    OBVIOUS
  <1>1. PICK k \in Slots, t \in Tuples, host \in Domains \cup {NoHost} :
            LET s == Inspected(Opened(t), host)
            IN  /\ conns' = [j \in Slots |->
                       IF j = k THEN IF t.dns /\ s.c.to_block THEN NoConn ELSE s.c
                       ELSE IF j \in Asked(t) THEN Give(conns[j], t.uid)
                       ELSE conns[j]]
                /\ late' = late \ {k} /\ given' = given \cup Asked(t) /\ fw' = fw
    BY DEF OpenConnection
  <1> DEFINE o == Opened(t)
             s == Inspected(o, host)
             d == IF t.dns /\ s.c.to_block THEN NoConn ELSE s.c
  <1>2. Examined(o) /\ Clean(o.c) /\ Enforced(fw, o.c)
    BY OpeningEnforces
  <1> HIDE DEF o
  <1>3. Examined(s) /\ Clean(s.c) /\ Enforced(fw, s.c)
    BY <1>2, InspectionBlocks, InspectionEnforces
  <1>4. /\ conns' = [j \in Slots |-> IF j = k THEN d
                                     ELSE IF j \in Asked(t) THEN Give(conns[j], t.uid)
                                     ELSE conns[j]]
        /\ late' = late \ {k} /\ given' = given \cup Asked(t) /\ fw' = fw
    BY <1>1 DEF o
  <1> HIDE DEF s
  <1>5. d # NoConn => Shape(d) /\ Clean(d) /\ Enforced(fw, d)
    BY <1>3 DEF Examined
  <1> HIDE DEF d
  <1>6. InOrder(k)'
    <2>1. conns'[k] = d
      BY <1>4
    <2> QED
      BY <1>4, <1>5, <2>1 DEF InOrder, Enforced, Forbids
  <1>7. ASSUME NEW j \in Slots \ {k}, j \notin Asked(t) PROVE InOrder(j)'
    BY <1>4, <1>7 DEF FwInv, InOrder, Enforced, Forbids, Noted
  <1>8. ASSUME NEW j \in Slots \ {k}, j \in Asked(t) PROVE InOrder(j)'
    <2> DEFINE c == conns[j]
               g == Give(c, t.uid)
    <2>1. Shape(c) /\ Clean(c)
          /\ (Enforced(fw, c) \/ j \in late \/ (j \in given /\ Noted(c)))
      BY <1>8 DEF FwInv, InOrder, Asked, Active
    <2>2. /\ Shape(g) /\ Clean(g) /\ (c.missed => g.missed)
          /\ Enforced(fw, c) => Enforced(fw, g) \/ g.missed \/ fw.bl = NoList
      BY <2>1, GivingKeeps
    <2>3. conns'[j] = g /\ j \in given' /\ (j \in late => j \in late') /\ fw' = fw
      BY <1>4, <1>8
    <2> HIDE DEF c, g
    <2>4. Enforced(fw, g) \/ j \in late' \/ (j \in given' /\ Noted(g))
      BY <2>1, <2>2, <2>3 DEF Noted
    <2> QED
      BY <2>2, <2>3, <2>4 DEF InOrder, Enforced, Forbids, Noted
  <1>9. conns' = [j \in Slots |-> conns'[j]] /\ FwShape'
    BY <1>4 DEF FwInv, FwShape
  <1> QED
    BY <1>6, <1>7, <1>8, <1>9 DEF FwInv

LEMMA PacketInOrder == FwInv /\ Packet => FwInv'
  <1> SUFFICES ASSUME FwInv, Packet PROVE FwInv'
    OBVIOUS
  <1>1. PICK k \in Slots, host \in Domains \cup {NoHost} :
            /\ conns[k] # NoConn
            /\ conns' = [conns EXCEPT ![k] = Inspected(State(conns[k]), host).c]
            /\ late' = late /\ given' = given /\ fw' = fw
    BY DEF Packet
  <1> DEFINE o == State(conns[k])
             s == Inspected(o, host)
  <1>2. Examined(o) /\ o.c = conns[k]
    BY <1>1 DEF FwInv, InOrder, State, Examined
  <1>3. Clean(o.c) /\ (Enforced(fw, o.c) \/ k \in late \/ (k \in given /\ Noted(o.c)))
    BY <1>1, <1>2 DEF FwInv, InOrder
  <1>4. conns' = [conns EXCEPT ![k] = s.c]
    BY <1>1
  <1> HIDE DEF o
  <1>5. Examined(s) /\ Clean(s.c) /\ (Enforced(fw, o.c) => Enforced(fw, s.c))
        /\ s.c.missed = o.c.missed
    BY <1>2, <1>3, InspectionBlocks, InspectionEnforces DEF Inspects, Same
  <1> HIDE DEF s
  <1>6. Enforced(fw, s.c) \/ k \in late' \/ (k \in given' /\ Noted(s.c))
    BY <1>1, <1>3, <1>5 DEF Noted
  <1> QED
    BY <1>1, <1>4, <1>5, <1>6, OthersInOrder DEF Examined

LEMMA ClosingInOrder == FwInv /\ CloseConnection => FwInv'
  <1> SUFFICES ASSUME FwInv, CloseConnection PROVE FwInv'
    OBVIOUS
  <1>1. PICK k \in Slots :
            /\ conns' = [conns EXCEPT ![k] = NoConn]
            /\ late' = late \ {k} /\ given' = given \ {k} /\ fw' = fw
    BY DEF CloseConnection
  <1> QED
    BY <1>1, OthersInOrder

\* A connection that the dump has seen is not new any more.
SeenAt(turn) == [k \in Slots |->
    IF conns[k] = NoConn \/ turn # "dump" THEN conns[k] ELSE [conns[k] EXCEPT !.new = FALSE]]

LEMMA OldKeeps ==
  ASSUME NEW c, Shape(c), Clean(c)
  PROVE  LET e == [c EXCEPT !.new = FALSE]
         IN  /\ Shape(e) /\ Clean(e) /\ Same(c, e) /\ e.info = c.info
             /\ e.to_block = c.to_block
  <1> DEFINE v == FALSE
             e == [c EXCEPT !.new = v]
  <1>1. v \in BOOLEAN
    OBVIOUS
  <1> HIDE DEF v
  <1>2. Shape(e)
    BY <1>1 DEF Shape
  <1>3. /\ e.t = c.t /\ e.uid = c.uid /\ e.missed = c.missed /\ e.info = c.info
        /\ e.to_block = c.to_block /\ e.whitelisted_app = c.whitelisted_app
        /\ e.blacklisted_ip = c.blacklisted_ip
        /\ e.blacklisted_domain = c.blacklisted_domain
    BY DEF Shape
  <1> QED
    BY <1>2, <1>3 DEF Clean, Same, v

LEMMA SeeingKeeps ==
  ASSUME FwInv, NEW turn, NEW k \in Slots, SeenAt(turn)[k] # NoConn
  PROVE  /\ conns[k] # NoConn
         /\ Shape(SeenAt(turn)[k]) /\ Clean(SeenAt(turn)[k])
         /\ Same(conns[k], SeenAt(turn)[k]) /\ SeenAt(turn)[k].info = conns[k].info
         /\ \/ Enforced(fw, SeenAt(turn)[k])
            \/ k \in late \/ (k \in given /\ Noted(SeenAt(turn)[k]))
  <1> DEFINE c == conns[k]
             e == [c EXCEPT !.new = FALSE]
  <1>1. conns[k] # NoConn
    BY DEF SeenAt
  <1>2. Shape(c) /\ Clean(c) /\ (Enforced(fw, c) \/ k \in late \/ (k \in given /\ Noted(c)))
    BY <1>1 DEF FwInv, InOrder
  <1>3. SeenAt(turn)[k] = c \/ SeenAt(turn)[k] = e
    BY <1>1 DEF SeenAt
  <1> HIDE DEF c
  <1>4. /\ Shape(e) /\ Clean(e) /\ Same(c, e) /\ e.info = c.info
        /\ e.to_block = c.to_block
    BY <1>2, OldKeeps
  <1> HIDE DEF e
  <1>5. Enforced(fw, e) \/ k \in late \/ (k \in given /\ Noted(e))
    BY <1>2, <1>4 DEF Enforced, Forbids, Same, Noted
  <1>6. CASE SeenAt(turn)[k] = c
    BY <1>1, <1>2, <1>6 DEF Same, c
  <1>7. CASE SeenAt(turn)[k] = e
    BY <1>1, <1>4, <1>5, <1>7 DEF c
  <1> QED
    BY <1>3, <1>6, <1>7

\* The connections after the new malware whitelist was run over them
ListedAt(turn) == [k \in Slots |->
    IF SeenAt(turn)[k] = NoConn \/ malWl.new_wl = NoList THEN SeenAt(turn)[k]
    ELSE CheckBlacklisted(SeenAt(turn)[k], malWl.new_wl)]

LEMMA ListingKeeps ==
  ASSUME FwInv, NEW turn, NEW k \in Slots, ListedAt(turn)[k] # NoConn
  PROVE  /\ conns[k] # NoConn
         /\ Shape(ListedAt(turn)[k]) /\ Clean(ListedAt(turn)[k])
         /\ Same(conns[k], ListedAt(turn)[k]) /\ ListedAt(turn)[k].info = conns[k].info
         /\ \/ Enforced(fw, ListedAt(turn)[k])
            \/ k \in late \/ (k \in given /\ Noted(ListedAt(turn)[k]))
  <1> DEFINE s == SeenAt(turn)[k]
             d == ListedAt(turn)[k]
             e == CheckBlacklisted(s, malWl.new_wl)
  <1>1. s = NoConn => d = NoConn
    BY DEF ListedAt
  <1>2. /\ conns[k] # NoConn /\ Shape(s) /\ Clean(s)
        /\ Same(conns[k], s) /\ s.info = conns[k].info
        /\ Enforced(fw, s) \/ k \in late \/ (k \in given /\ Noted(s))
    BY <1>1, SeeingKeeps
  <1>3. d = s \/ d = e
    BY DEF ListedAt
  <1> HIDE DEF s, d
  <1>4. Shape(e) /\ Clean(e) /\ Same(s, e) /\ e.info = s.info
        /\ (Enforced(fw, s) => Enforced(fw, e))
    BY <1>2, TrustEnforces
  <1> HIDE DEF e
  <1>5. CASE d = s
    BY <1>2, <1>5 DEF d
  <1>6. CASE d = e
    BY <1>2, <1>4, <1>6 DEF d, Same, Noted
  <1> QED
    BY <1>3, <1>5, <1>6

\* What a turn of the housekeeping does to the connections and the firewall
LEMMA HousekeepingDoes ==
  ASSUME Housekeeping
  PROVE  \E turn \in {"stats", "dump", "reload"} :
           LET newFw == fw.new_bl # NoList \/ fw.new_wl # NoList
               f == IF fw.new_bl # NoList
                    THEN [fw EXCEPT !.bl = fw.new_bl, !.new_bl = NoList]
                    ELSE IF fw.new_wl # NoList
                    THEN [fw EXCEPT !.wl = fw.new_wl, !.new_wl = NoList]
                    ELSE fw
           IN  /\ fw' = f
               /\ conns' = [k \in Slots |->
                      IF ListedAt(turn)[k] = NoConn \/ ~newFw THEN ListedAt(turn)[k]
                      ELSE CheckBlocked(ListedAt(turn)[k], f)]
               /\ late' = IF newFw THEN {} ELSE late
               /\ given' = IF newFw THEN {} ELSE given
  BY DEF Housekeeping, SeenAt, ListedAt

\* A turn of the housekeeping runs the lists that came over every connection.
LEMMA HousekeepingInOrder == FwInv /\ Housekeeping => FwInv'
  <1> SUFFICES ASSUME FwInv, Housekeeping PROVE FwInv'
    OBVIOUS
  <1> DEFINE newFw == fw.new_bl # NoList \/ fw.new_wl # NoList
             f == IF fw.new_bl # NoList
                  THEN [fw EXCEPT !.bl = fw.new_bl, !.new_bl = NoList]
                  ELSE IF fw.new_wl # NoList
                  THEN [fw EXCEPT !.wl = fw.new_wl, !.new_wl = NoList]
                  ELSE fw
  <1>7. PICK turn \in {"stats", "dump", "reload"} :
            /\ fw' = f
            /\ conns' = [k \in Slots |->
                   IF ListedAt(turn)[k] = NoConn \/ ~newFw THEN ListedAt(turn)[k]
                   ELSE CheckBlocked(ListedAt(turn)[k], f)]
            /\ late' = IF newFw THEN {} ELSE late
            /\ given' = IF newFw THEN {} ELSE given
    BY HousekeepingDoes
  <1> DEFINE listed == ListedAt(turn)
  <1>1. /\ fw' = f
        /\ conns' = [k \in Slots |->
                        IF listed[k] = NoConn \/ ~newFw THEN listed[k]
                        ELSE CheckBlocked(listed[k], f)]
        /\ late' = IF newFw THEN {} ELSE late
        /\ given' = IF newFw THEN {} ELSE given
    BY <1>7
  <1>2. FwShape'
    <2>1. FwShape
      BY DEF FwInv
    <2>2. CASE fw.new_bl # NoList
      BY <1>1, <2>1, <2>2 DEF FwShape
    <2>3. CASE fw.new_bl = NoList /\ fw.new_wl # NoList
      BY <1>1, <2>1, <2>3 DEF FwShape
    <2>4. CASE fw.new_bl = NoList /\ fw.new_wl = NoList
      BY <1>1, <2>1, <2>4 DEF FwShape
    <2> QED
      BY <2>2, <2>3, <2>4
  <1>3. ~newFw => f = fw
    OBVIOUS
  <1> HIDE DEF newFw, f
  <1>4. ASSUME NEW k \in Slots, listed[k] # NoConn
        PROVE  /\ Shape(listed[k]) /\ Clean(listed[k])
               /\ Enforced(fw, listed[k]) \/ k \in late \/ (k \in given /\ Noted(listed[k]))
    BY <1>4, ListingKeeps
  <1> HIDE DEF listed
  <1>5. ASSUME NEW k \in Slots PROVE InOrder(k)'
    <2>1. CASE listed[k] = NoConn
      BY <1>1, <2>1 DEF InOrder
    <2>2. CASE listed[k] # NoConn /\ ~newFw
      <3>1. conns'[k] = listed[k] /\ fw' = fw /\ late' = late /\ given' = given
        BY <1>1, <1>3, <2>2
      <3> QED
        BY <1>4, <2>2, <3>1 DEF InOrder, Enforced, Forbids, Noted
    <2>3. CASE listed[k] # NoConn /\ newFw
      <3> DEFINE d == CheckBlocked(listed[k], f)
      <3>1. conns'[k] = d /\ fw' = f
        BY <1>1, <2>3
      <3>2. Shape(listed[k]) /\ Clean(listed[k])
        BY <1>4, <2>3
      <3>3. /\ Shape(d) /\ d = [listed[k] EXCEPT !.to_block = d.to_block]
            /\ Enforced(f, d)
        BY <3>2, RecheckEnforces
      <3>4. Clean(d)
        <4> DEFINE e == listed[k]
                   v == d.to_block
        <4>1. d = [e EXCEPT !.to_block = v] /\ Shape(e) /\ Clean(e)
          BY <3>2, <3>3
        <4> HIDE DEF d, e, v
        <4> QED
          BY <4>1 DEF Shape, Clean
      <3> HIDE DEF d
      <3> QED
        BY <3>1, <3>3, <3>4 DEF InOrder, Enforced, Forbids
    <2> QED
      BY <2>1, <2>2, <2>3
  <1>6. conns' = [k \in Slots |-> conns'[k]]
    BY <1>1
  <1> QED
    BY <1>2, <1>5, <1>6 DEF FwInv

\* The main thread hands a list over without a change to what is in use, or turns
\* a switch: what it switches on, it has to tell of the connections there are.
LEMMA SettersInOrder ==
  ASSUME FwInv, FwShape', conns' = conns,
         \/ /\ late' = late /\ given' = given
            /\ fw'.bl = fw.bl /\ fw'.wl = fw.wl
            /\ fw'.enabled => fw.enabled
            /\ fw'.wl_enabled => fw.wl_enabled
         \/ late' = Active
  PROVE  FwInv'
  <1>1. ASSUME NEW k \in Slots PROVE InOrder(k)'
    <2>1. CASE late' = Active
      BY <2>1 DEF FwInv, InOrder, Active, Enforced, Forbids, Noted
    <2>2. CASE late' # Active
      <3>1. ASSUME Enforced(fw, conns[k]) PROVE Enforced(fw', conns[k])
        BY <2>2, <3>1 DEF Enforced, Forbids
      <3> QED
        BY <2>2, <3>1 DEF FwInv, InOrder, Enforced, Forbids, Noted
    <2> QED
      BY <2>1, <2>2
  <1> QED
    BY <1>1 DEF FwInv

LEMMA NextFw == FwInv /\ [Next]_vars => FwInv'
  <1> SUFFICES ASSUME FwInv, [Next]_vars PROVE FwInv'
    OBVIOUS
  <1> USE DEF FwInv
  <1>1. CASE fw' = fw /\ conns' = conns /\ late' = late /\ given' = given
    BY <1>1 DEF FwShape, InOrder, Enforced, Forbids, Noted
  <1>2. CASE reloadBlocklist
    BY <1>2, SettersInOrder DEF reloadBlocklist, FwShape
  <1>3. CASE reloadFirewallWhitelist
    BY <1>3, SettersInOrder DEF reloadFirewallWhitelist, FwShape
  <1>4. CASE EnableWhitelist
    <2>1. FwShape'
      BY <1>4 DEF EnableWhitelist, FwShape
    <2>2. /\ conns' = conns /\ given' = given
          /\ fw'.bl = fw.bl /\ fw'.wl = fw.wl /\ fw'.enabled = fw.enabled
          /\ late' = IF fw.wl_enabled THEN late ELSE Active
      BY <1>4 DEF EnableWhitelist, FwShape
    <2> QED
      BY <2>1, <2>2, SettersInOrder
  <1>5. CASE DisableWhitelist
    BY <1>5, SettersInOrder DEF DisableWhitelist, FwShape
  <1>6. CASE nativeSetFirewallEnabled
    <2>1. FwShape'
      BY <1>6 DEF nativeSetFirewallEnabled, FwShape
    <2>2. /\ conns' = conns /\ given' = given
          /\ fw'.bl = fw.bl /\ fw'.wl = fw.wl /\ fw'.wl_enabled = fw.wl_enabled
          /\ fw'.enabled = ~fw.enabled
          /\ late' = IF fw.enabled THEN late ELSE Active
      BY <1>6 DEF nativeSetFirewallEnabled, FwShape
    <2> QED
      BY <2>1, <2>2, SettersInOrder
  <1>7. \/ fw' = fw /\ conns' = conns /\ late' = late /\ given' = given
        \/ OpenConnection \/ Packet \/ CloseConnection \/ Housekeeping
        \/ reloadBlocklist \/ reloadFirewallWhitelist \/ EnableWhitelist
        \/ DisableWhitelist \/ nativeSetFirewallEnabled
    BY DEF Next, vars, DnsReply, LoaderReads, LoaderEnds, StartUpdate, DeleteFile,
           EndDownload, FinalizeUpdate, AnnounceFiles, reloadMalwareWhitelist
  <1> QED
    BY <1>1, <1>2, <1>3, <1>4, <1>5, <1>6, <1>7, OpeningInOrder, PacketInOrder,
       ClosingInOrder, HousekeepingInOrder

\* Whatever the order of packets, hosts and lists, a connection that the firewall
\* in use forbids is blocked, unless a switch was turned on after it began, or it was
\* given to an application after its request had passed, which is noted if there is a
\* blocklist.
THEOREM RulesEnforced == Spec => []FirewallRulesEnforced
  <1>1. FwInv => FirewallRulesEnforced
    BY DEF FwInv, InOrder, Enforced, Forbids, Noted, FirewallRulesEnforced, Against
  <1> QED
    BY <1>1, InitFw, NextFw, PTL DEF Spec

\* Whenever the trust of the user comes, the connections of a trusted application
\* carry no mark of malice.
THEOREM TrustedIsClean == Spec => []TrustedAppIsClean
  <1>1. FwInv => TrustedAppIsClean
    BY DEF FwInv, InOrder, Clean, TrustedAppIsClean
  <1> QED
    BY <1>1, InitFw, NextFw, PTL DEF Spec

-----------------------------------------------------------------------------
(* The cache of host names: an address has one entry, and there are never  *)
(* more than max, however lookups and replies follow each other.           *)

\* Taking the entry of an address out leaves the others.
LEMMA LruWithoutOne ==
  ASSUME NEW ips, NEW hosts, NEW max \in Nat, NEW cache,
         IsLru(cache, ips, hosts, max), NEW ip \in LruKeys(cache)
  PROVE  LET w == LruWithout(cache, ip)
         IN  /\ w \in Seq([ip : ips, host : hosts]) /\ Len(w) = Len(cache) - 1
             /\ \A i, j \in 1..Len(w) : w[i].ip = w[j].ip => i = j
             /\ \A i \in 1..Len(w) : w[i].ip # ip
             /\ LruHost(cache, ip) \in hosts
  <1> DEFINE E == [ip : ips, host : hosts]
             n == Len(cache)
             a == LruAt(cache, ip)
             u == SubSeq(cache, 1, a - 1)
             v == SubSeq(cache, a + 1, n)
             w == LruWithout(cache, ip)
  <1>1. cache \in Seq(E) /\ n \in Nat /\ DOMAIN cache = 1..n
        /\ \A i \in 1..n : cache[i] \in E
    BY LenProperties, ElementOfSeq DEF IsLru
  <1>2. a \in 1..n /\ cache[a].ip = ip
    <2>1. \E i \in DOMAIN cache : cache[i].ip = ip
      BY DEF LruKeys
    <2> QED
      BY <1>1, <2>1 DEF LruAt
  <1>3. w = u \o v
    BY DEF LruWithout
  <1>4. LruHost(cache, ip) \in hosts
    BY <1>1, <1>2 DEF LruHost
  <1>5. \A i, j \in 1..n : cache[i].ip = cache[j].ip => i = j
    BY DEF IsLru
  <1> HIDE DEF E, n, a
  <1>6. u \in Seq(E) /\ Len(u) = a - 1 /\ \A i \in 1..(a - 1) : u[i] = cache[i]
    <2>1. \A i \in 1..(a - 1) : cache[i] \in E
      BY <1>1, <1>2
    <2>2. 1 \in Int /\ a - 1 \in Int
      BY <1>1, <1>2
    <2>3. /\ u \in Seq(E) /\ Len(u) = IF 1 <= a - 1 THEN a - 1 - 1 + 1 ELSE 0
          /\ \A i \in 1..(a - 1 - 1 + 1) : u[i] = cache[1 + i - 1]
      BY <2>1, <2>2, SubSeqProperties
    <2> HIDE DEF u
    <2> QED
      BY <1>1, <1>2, <2>3
  <1>7. v \in Seq(E) /\ Len(v) = n - a /\ \A i \in 1..(n - a) : v[i] = cache[a + i]
    <2>1. \A i \in (a + 1)..n : cache[i] \in E
      BY <1>1, <1>2
    <2>2. n \in Int /\ a + 1 \in Int
      BY <1>1, <1>2
    <2>3. /\ v \in Seq(E) /\ Len(v) = IF a + 1 <= n THEN n - (a + 1) + 1 ELSE 0
          /\ \A i \in 1..(n - (a + 1) + 1) : v[i] = cache[a + 1 + i - 1]
      BY <2>1, <2>2, SubSeqProperties
    <2> HIDE DEF v
    <2> QED
      BY <1>1, <1>2, <2>3
  <1> HIDE DEF u, v, w
  <1>8. w \in Seq(E) /\ Len(w) = n - 1
        /\ \A i \in 1..(n - 1) : w[i] = IF i < a THEN cache[i] ELSE cache[i + 1]
    <2>1. /\ w \in Seq(E) /\ Len(w) = Len(u) + Len(v)
          /\ \A i \in 1..Len(u) + Len(v) : w[i] = IF i <= Len(u) THEN u[i] ELSE v[i - Len(u)]
      BY <1>3, <1>6, <1>7, ConcatProperties
    <2>2. Len(u) + Len(v) = n - 1
      BY <1>1, <1>2, <1>6, <1>7
    <2>3. ASSUME NEW i \in 1..(n - 1)
          PROVE  w[i] = IF i < a THEN cache[i] ELSE cache[i + 1]
      <3>1. CASE i < a
        BY <1>1, <1>2, <1>6, <2>1, <2>2, <3>1, SMTT(40)
      <3>2. CASE ~(i < a)
        <4>1. i - (a - 1) \in 1..(n - a) /\ a + (i - (a - 1)) = i + 1 /\ ~(i <= a - 1)
          BY <1>1, <1>2, <3>2
        <4>2. w[i] = v[i - (a - 1)]
          BY <1>6, <2>1, <2>2, <4>1
        <4> QED
          BY <1>7, <3>2, <4>1, <4>2
      <3> QED
        BY <3>1, <3>2
    <2> QED
      BY <2>1, <2>2, <2>3
  <1>9. ASSUME NEW i \in 1..(n - 1)
        PROVE  \E k \in 1..n \ {a} : /\ w[i] = cache[k]
                                      /\ k = IF i < a THEN i ELSE i + 1
    <2> DEFINE k == IF i < a THEN i ELSE i + 1
    <2>1. k \in 1..n \ {a}
      BY <1>1, <1>2
    <2> QED
      BY <1>8, <2>1
  <1>10. ASSUME NEW i \in 1..(n - 1) PROVE w[i].ip # ip
    <2>1. PICK k \in 1..n \ {a} : w[i] = cache[k]
      BY <1>9
    <2> QED
      BY <1>2, <1>5, <2>1
  <1>11. ASSUME NEW i \in 1..(n - 1), NEW j \in 1..(n - 1), w[i].ip = w[j].ip
         PROVE  i = j
    <2>1. PICK k \in 1..n \ {a} : w[i] = cache[k] /\ k = IF i < a THEN i ELSE i + 1
      BY <1>9
    <2>2. PICK m \in 1..n \ {a} : w[j] = cache[m] /\ m = IF j < a THEN j ELSE j + 1
      BY <1>9
    <2>3. k = m
      BY <1>5, <1>11, <2>1, <2>2
    <2> QED
      BY <1>1, <1>2, <2>1, <2>2, <2>3
  <1> QED
    BY <1>4, <1>8, <1>10, <1>11 DEF E, n, w

\* No address has two entries, and ip has none.
OneEach(w)    == \A i, j \in 1..Len(w) : w[i].ip = w[j].ip => i = j
NoneOf(w, ip) == \A i \in 1..Len(w) : w[i].ip # ip

\* A new entry at the young end, for an address that has none
LEMMA LruYoung ==
  ASSUME NEW ips, NEW hosts, NEW w \in Seq([ip : ips, host : hosts]),
         OneEach(w), NEW ip \in ips, NEW host \in hosts, NoneOf(w, ip)
  PROVE  LET y == Append(w, [ip |-> ip, host |-> host])
         IN  /\ y \in Seq([ip : ips, host : hosts]) /\ Len(y) = Len(w) + 1
             /\ OneEach(y)
  <1> DEFINE e == [ip |-> ip, host |-> host]
             y == Append(w, e)
  <1>1. e \in [ip : ips, host : hosts] /\ e.ip = ip
    OBVIOUS
  <1>2. Len(w) \in Nat
    BY LenProperties
  <1> HIDE DEF e
  <1>3. /\ y \in Seq([ip : ips, host : hosts]) /\ Len(y) = Len(w) + 1
        /\ \A i \in 1..Len(w) : y[i] = w[i]
        /\ y[Len(w) + 1] = e
    BY <1>1, AppendProperties
  <1> HIDE DEF y
  <1>4. ASSUME NEW i \in 1..(Len(w) + 1), NEW j \in 1..(Len(w) + 1), y[i].ip = y[j].ip
        PROVE  i = j
    <2>1. i \in 1..Len(w) \/ i = Len(w) + 1
      BY <1>2
    <2>2. j \in 1..Len(w) \/ j = Len(w) + 1
      BY <1>2
    <2> QED
      BY <1>1, <1>3, <1>4, <2>1, <2>2 DEF OneEach, NoneOf
  <1>5. OneEach(y)
    BY <1>3, <1>4 DEF OneEach
  <1> QED
    BY <1>3, <1>5 DEF y, e

LEMMA LruMovedIsLru ==
  ASSUME NEW ips, NEW hosts, NEW max \in Nat, NEW cache,
         IsLru(cache, ips, hosts, max), NEW ip \in LruKeys(cache), ip \in ips,
         NEW host \in hosts
  PROVE  IsLru(LruMoved(cache, ip, host), ips, hosts, max)
  <1> DEFINE w == LruWithout(cache, ip)
  <1>1. /\ w \in Seq([ip : ips, host : hosts]) /\ Len(w) = Len(cache) - 1
        /\ \A i, j \in 1..Len(w) : w[i].ip = w[j].ip => i = j
        /\ \A i \in 1..Len(w) : w[i].ip # ip
        /\ LruHost(cache, ip) \in hosts
    <2> HIDE DEF w
    <2> QED
      BY LruWithoutOne, Zenon DEF w
  <1>2. Len(cache) <= max /\ Len(cache) \in Nat
    BY LenProperties DEF IsLru
  <1> HIDE DEF w
  <1> DEFINE y == Append(w, [ip |-> ip, host |-> host])
  <1>3. /\ y \in Seq([ip : ips, host : hosts]) /\ Len(y) = Len(w) + 1
        /\ \A i, j \in 1..Len(y) : y[i].ip = y[j].ip => i = j
    <2>1. OneEach(w) /\ NoneOf(w, ip)
      BY <1>1 DEF OneEach, NoneOf
    <2>2. y \in Seq([ip : ips, host : hosts]) /\ Len(y) = Len(w) + 1 /\ OneEach(y)
      BY <1>1, <2>1, LruYoung
    <2> HIDE DEF y
    <2> QED
      BY <2>2 DEF OneEach
  <1>4. LruMoved(cache, ip, host) = y
    BY DEF LruMoved, w
  <1> HIDE DEF y
  <1>5. Len(y) <= max
    BY <1>1, <1>2, <1>3
  <1> QED
    BY <1>3, <1>4, <1>5 DEF IsLru

\* ip_lru_find keeps a cache a cache, and finds a host.
LEMMA LruFindIsLru ==
  ASSUME NEW ips, NEW hosts, NEW max \in Nat, NEW cache,
         IsLru(cache, ips, hosts, max), NEW ip \in ips
  PROVE  /\ IsLru(LruFind(cache, ip), ips, hosts, max)
         /\ ip \in LruKeys(cache) => LruHost(cache, ip) \in hosts
  <1>1. CASE ip \in LruKeys(cache)
    <2>1. LruHost(cache, ip) \in hosts
      BY <1>1, LruWithoutOne
    <2> QED
      BY <1>1, <2>1, LruMovedIsLru DEF LruFind
  <1>2. CASE ip \notin LruKeys(cache)
    BY <1>2 DEF LruFind
  <1> QED
    BY <1>1, <1>2

\* ip_lru_add keeps a cache a cache: a new entry pushes out at most the oldest.
LEMMA LruAddIsLru ==
  ASSUME NEW ips, NEW hosts, NEW max \in Nat \ {0}, NEW cache,
         IsLru(cache, ips, hosts, max), NEW ip \in ips, NEW host \in hosts
  PROVE  IsLru(LruAdd(cache, ip, host, max), ips, hosts, max)
  <1>1. CASE ip \in LruKeys(cache)
    BY <1>1, LruMovedIsLru DEF LruAdd
  <1>2. CASE ip \notin LruKeys(cache)
    <2> DEFINE E == [ip : ips, host : hosts]
               y == Append(cache, [ip |-> ip, host |-> host])
    <2>1. /\ cache \in Seq(E) /\ Len(cache) <= max /\ Len(cache) \in Nat
          /\ DOMAIN cache = 1..Len(cache)
          /\ \A i, j \in 1..Len(cache) : cache[i].ip = cache[j].ip => i = j
      BY LenProperties DEF IsLru
    <2>2. \A i \in 1..Len(cache) : cache[i].ip # ip
      BY <1>2, <2>1 DEF LruKeys
    <2>3. /\ y \in Seq(E) /\ Len(y) = Len(cache) + 1
          /\ \A i, j \in 1..Len(y) : y[i].ip = y[j].ip => i = j
      <3>1. OneEach(cache) /\ NoneOf(cache, ip)
        BY <2>1, <2>2 DEF OneEach, NoneOf
      <3>2. y \in Seq(E) /\ Len(y) = Len(cache) + 1 /\ OneEach(y)
        BY <2>1, <3>1, LruYoung
      <3> HIDE DEF y
      <3> QED
        BY <3>2 DEF OneEach
    <2>4. LruAdd(cache, ip, host, max) = IF Len(y) > max THEN Tail(y) ELSE y
      BY <1>2 DEF LruAdd
    <2> HIDE DEF E, y
    <2>5. CASE Len(y) > max
      <3>1. y # <<>>
        BY <2>1, <2>3, EmptySeq
      <3>2. /\ Tail(y) \in Seq(E) /\ Len(Tail(y)) = Len(y) - 1
            /\ \A i \in 1..Len(Tail(y)) : Tail(y)[i] = y[i + 1]
        BY <2>3, <3>1, HeadTailProperties
      <3>3. ASSUME NEW i \in 1..Len(Tail(y)), NEW j \in 1..Len(Tail(y)),
                   Tail(y)[i].ip = Tail(y)[j].ip
            PROVE  i = j
        <4>1. i + 1 \in 1..Len(y) /\ j + 1 \in 1..Len(y)
          BY <2>1, <2>3, <3>2
        <4>2. y[i + 1].ip = y[j + 1].ip
          BY <3>2, <3>3
        <4>3. i + 1 = j + 1
          BY <2>3, <4>1, <4>2
        <4>4. i \in Nat /\ j \in Nat
          BY <2>1, <2>3, <3>2
        <4> QED
          BY <4>3, <4>4
      <3>4. Len(Tail(y)) <= max
        BY <2>1, <2>3, <3>2
      <3> QED
        BY <2>4, <2>5, <3>2, <3>3, <3>4 DEF IsLru, E
    <2>6. CASE ~(Len(y) > max)
      <3>1. Len(y) <= max
        BY <2>1, <2>3, <2>6
      <3> QED
        BY <2>3, <2>4, <2>6, <3>1 DEF IsLru, E
    <2> QED
      BY <2>5, <2>6
  <1> QED
    BY <1>1, <1>2

-----------------------------------------------------------------------------
(* The types.                                                              *)

Fws == [enabled : BOOLEAN, wl_enabled : BOOLEAN,
        bl : Blocklists \cup {NoList}, new_bl : Blocklists \cup {NoList},
        wl : FwWhitelists \cup {NoList}, new_wl : FwWhitelists \cup {NoList}]

MalWls == [wl : MalWhitelists \cup {NoList}, new_wl : MalWhitelists \cup {NoList}]

\* What a connection is of, and the name that a query has from its first packet on
Named(c) ==
    /\ c.t \in Tuples /\ c.uid \in {t.uid : t \in Tuples}
    /\ c.info \in Domains \cup {NoHost}
    /\ c.t.dns => c.info # NoHost

NamedInv == \A k \in Active : Named(conns[k])

Histories == late \subseteq Slots /\ given \subseteq Slots

TypeInv == TypeOK /\ FwInv /\ ReloadInv /\ NamedInv

LEMMA ShapeIsConn ==
  ASSUME NEW c, Shape(c), Named(c)
  PROVE  c \in Conns
  BY DEF Shape, Named, Conns

\* The variables that TypeOK is about one by one
LEMMA TypeOfParts ==
  TypeOK <=>
    /\ disk \in Lists /\ announced \in Lists \cup {NoList} /\ reload \in Reloads
    /\ java \in Javas
    /\ malWl \in MalWls /\ fw \in Fws /\ setter \in {"idle", "enable"}
    /\ IsLru(lru, Ips, Domains, LruSize)
    /\ conns \in [Slots -> Conns \cup {NoConn}]
    /\ flags \in [domainopen : BOOLEAN, thischeck : BOOLEAN]
    /\ Histories
  BY DEF TypeOK, Reloads, Reads, Javas, MalWls, Fws, Histories

LEMMA InitType == Init => TypeInv
  <1> SUFFICES ASSUME Init PROVE TypeInv
    OBVIOUS
  <1>1. FwInv /\ ReloadInv
    BY InitFw, InitReload
  <1>2. disk \in Lists /\ announced \in Lists \cup {NoList} /\ reload \in Reloads
    BY <1>1 DEF ReloadInv
  <1>3. java \in Javas
    BY InitJava
  <1>4. malWl \in MalWls /\ fw \in Fws
    BY DEF Init, MalWls, Fws
  <1>5. IsLru(lru, Ips, Domains, LruSize)
    <2>1. lru = <<>> /\ LruSize \in Nat
      BY FirewallAssumption DEF Init
    <2>2. <<>> \in Seq([ip : Ips, host : Domains]) /\ Len(<<>>) = 0
      BY EmptySeq
    <2>3. 1..0 = {} /\ 0 <= LruSize
      BY <2>1
    <2> QED
      BY <2>1, <2>2, <2>3 DEF IsLru
  <1>6. /\ conns \in [Slots -> Conns \cup {NoConn}] /\ Histories
        /\ setter \in {"idle", "enable"} /\ Active = {}
        /\ flags \in [domainopen : BOOLEAN, thischeck : BOOLEAN]
    BY DEF Init, Active, Histories
  <1> QED
    BY <1>1, <1>2, <1>3, <1>4, <1>5, <1>6, TypeOfParts DEF TypeInv, NamedInv

\* The types of the globals: an inspection leaves two flags.
Flagged(s) == s.open \in BOOLEAN /\ s.this \in BOOLEAN

LEMMA DomainFlags ==
  ASSUME NEW s, Examined(s), Flagged(s) PROVE Flagged(CheckDomain(s))
  <1> DEFINE checked == /\ s.c.info # NoHost /\ MalBl # NoList
                        /\ ~s.c.blacklisted_domain /\ ~s.c.whitelisted_app
             allowed == Matches(MalBl, s.c.info) \/ Matches(malWl.wl, s.c.info)
             m == IF ~checked THEN s
                  ELSE IF allowed THEN [s EXCEPT !.open = s.this, !.this = FALSE]
                  ELSE [s EXCEPT !.open = FALSE, !.c.blacklisted_domain = TRUE,
                                 !.c.to_block = TRUE]
             b == s.c.info # NoHost /\ fw.enabled /\ Matches(fw.bl, s.c.info)
  <1>1. CheckDomain(s) = [m EXCEPT !.c.to_block = @ \/ b]
    BY DEF CheckDomain
  <1>2. m.open \in BOOLEAN /\ m.this \in BOOLEAN
        /\ m = [c |-> m.c, open |-> m.open, this |-> m.this]
    <2> HIDE DEF checked, allowed
    <2>1. CASE ~checked
      BY <2>1 DEF Examined, Flagged
    <2>2. CASE checked /\ allowed
      <3>1. m = [s EXCEPT !.open = s.this, !.this = FALSE]
        BY <2>2
      <3> QED
        BY <3>1 DEF Examined, Flagged
    <2>3. CASE checked /\ ~allowed
      <3>1. m = [s EXCEPT !.open = FALSE, !.c.blacklisted_domain = TRUE,
                          !.c.to_block = TRUE]
        BY <2>3
      <3> HIDE DEF m
      <3> QED
        BY <3>1 DEF Examined, Flagged
    <2> QED
      BY <2>1, <2>2, <2>3
  <1> HIDE DEF m, b
  <1> QED
    BY <1>1, <1>2 DEF Flagged

LEMMA InspectionFlags ==
  ASSUME NEW s, Examined(s), Flagged(s), NEW host
  PROVE  Flagged(Inspected(s, host))
  <1> DEFINE named == host # NoHost /\ (s.c.info = NoHost \/ s.c.fromLru)
             r == [s EXCEPT !.c.info = host, !.c.fromLru = FALSE]
             s1 == IF named THEN CheckDomain(r) ELSE s
             q == s.c.t.quic
  <1>1. Examined(r) /\ Flagged(r)
    <2> DEFINE u == [s EXCEPT !.c.info = host]
    <2>1. Examined(u) /\ Flagged(u)
      BY DEF Examined, Shape, Flagged
    <2>2. r = [u EXCEPT !.c.fromLru = FALSE]
      OBVIOUS
    <2> HIDE DEF u, r
    <2> QED
      BY <2>1, <2>2 DEF Examined, Shape, Flagged
  <1>2. Examined(s1) /\ Flagged(s1)
    <2> HIDE DEF r
    <2> QED
      BY <1>1, DomainChecked, DomainFlags
  <1>3. Inspected(s, host) = [s1 EXCEPT !.c.blacklisted_internal = @ \/ q,
                                        !.c.to_block = @ \/ q]
    BY DEF Inspected
  <1> HIDE DEF s1, q
  <1> QED
    BY <1>2, <1>3 DEF Examined, Flagged

LEMMA OpeningFlags ==
  ASSUME NEW t, flags \in [domainopen : BOOLEAN, thischeck : BOOLEAN]
  PROVE  Flagged(Opened(t))
  <1> DEFINE known == t.ip \in LruKeys(lru)
             wlApp == Matches(malWl.wl, t.uid)
             host == IF known THEN LruHost(lru, t.ip) ELSE NoHost
             opened == [t |-> t, uid |-> t.uid, new |-> TRUE, missed |-> FALSE,
                        info |-> host, fromLru |-> known, whitelisted_app |-> wlApp,
                        blacklisted_ip |-> FALSE, blacklisted_domain |-> FALSE,
                        blacklisted_internal |-> FALSE, to_block |-> FALSE]
             fresh == IF known /\ t.uid = Netd THEN Give(opened, Netd) ELSE opened
             s == [c |-> fresh, open |-> flags.domainopen,
                   this |-> known \/ flags.thischeck]
             domain == CheckDomain(s)
             bad == /\ ~Matches(MalBl, t.ip) /\ ~domain.open
                    /\ ~Matches(malWl.wl, t.ip)
             addr == IF MalBl = NoList \/ wlApp THEN domain
                     ELSE [domain EXCEPT !.open = FALSE, !.c.blacklisted_ip = bad,
                                         !.c.to_block = @ \/ bad]
             b == fw.enabled /\ (Matches(fw.bl, t.ip) \/ Matches(fw.bl, t.uid))
             rules == [addr EXCEPT !.c.to_block = @ \/ b]
  <1>1. Opened(t) = [rules EXCEPT !.c = WhitelistMode(@, fw)]
    BY DEF Opened
  <1>2. wlApp \in BOOLEAN /\ known \in BOOLEAN
    BY DEF Matches
  <1> HIDE DEF wlApp, known, b, host
  <1>6. Shape(opened) /\ Clean(opened)
    BY <1>2 DEF Shape, Clean
  <1> HIDE DEF opened
  <1>7. Shape(fresh)
    BY <1>6, GivingKeeps
  <1> HIDE DEF fresh
  <1>3. Examined(s) /\ Flagged(s)
    BY <1>2, <1>7 DEF Examined, Flagged
  <1> HIDE DEF s
  <1>4. Examined(domain) /\ Flagged(domain)
    BY <1>3, DomainChecked, DomainFlags
  <1> HIDE DEF domain, bad
  <1>5. addr.open \in BOOLEAN /\ addr.this \in BOOLEAN
        /\ addr = [c |-> addr.c, open |-> addr.open, this |-> addr.this]
    <2>1. CASE MalBl = NoList \/ wlApp
      BY <1>4, <2>1 DEF Examined, Flagged
    <2>2. CASE ~(MalBl = NoList \/ wlApp)
      <3>1. addr = [domain EXCEPT !.open = FALSE, !.c.blacklisted_ip = bad,
                                  !.c.to_block = @ \/ bad]
        BY <2>2
      <3> HIDE DEF addr
      <3> QED
        BY <1>4, <3>1 DEF Examined, Flagged
    <2> QED
      BY <2>1, <2>2
  <1> HIDE DEF addr
  <1> QED
    BY <1>1, <1>5 DEF Flagged

\* Connections in order that are named are of the type.
LEMMA ConnsTyped ==
  ASSUME FwInv', NamedInv'
  PROVE  conns' \in [Slots -> Conns \cup {NoConn}]
  <1>1. conns' = [k \in Slots |-> conns'[k]]
    BY DEF FwInv
  <1>2. ASSUME NEW k \in Slots, conns'[k] # NoConn PROVE conns'[k] \in Conns
    <2>1. Shape(conns'[k]) /\ Named(conns'[k])
      BY <1>2 DEF FwInv, InOrder, NamedInv, Active
    <2> QED
      BY <2>1, ShapeIsConn
  <1> QED
    BY <1>1, <1>2

LEMMA OpeningTyped ==
  ASSUME TypeInv, OpenConnection
  PROVE  /\ IsLru(lru', Ips, Domains, LruSize) /\ NamedInv' /\ Histories'
         /\ flags' \in [domainopen : BOOLEAN, thischeck : BOOLEAN]
  <1>1. PICK k \in Slots, t \in Tuples, host \in Domains \cup {NoHost} :
            LET s == Inspected(Opened(t), host)
            IN  /\ t.dns => host # NoHost
                /\ lru' = LruFind(lru, t.ip)
                /\ flags' = [domainopen |-> s.open, thischeck |-> s.this]
                /\ conns' = [j \in Slots |->
                       IF j = k THEN IF t.dns /\ s.c.to_block THEN NoConn ELSE s.c
                       ELSE IF j \in Asked(t) THEN Give(conns[j], t.uid)
                       ELSE conns[j]]
                /\ late' = late \ {k} /\ given' = given \cup Asked(t)
    BY DEF OpenConnection
  <1> DEFINE o == Opened(t)
             s == Inspected(o, host)
             d == IF t.dns /\ s.c.to_block THEN NoConn ELSE s.c
             found == IF t.ip \in LruKeys(lru) THEN LruHost(lru, t.ip) ELSE NoHost
  <1>2. IsLru(lru, Ips, Domains, LruSize) /\ t.ip \in Ips /\ LruSize \in Nat
    BY FirewallAssumption DEF TypeInv, TypeOK, Ips
  <1>3. IsLru(lru', Ips, Domains, LruSize) /\ found \in Domains \cup {NoHost}
    BY <1>1, <1>2, LruFindIsLru
  <1>4. /\ Examined(o) /\ Flagged(o) /\ o.c.t = t /\ o.c.uid = t.uid /\ o.c.info = found
    BY OpeningEnforces, OpeningFlags DEF TypeInv, TypeOK
  <1> HIDE DEF o, found
  <1>5. /\ Examined(s) /\ Inspects(o.c, s.c) /\ Flagged(s)
        /\ s.c.info = IF host # NoHost /\ (o.c.info = NoHost \/ o.c.fromLru) THEN host
                      ELSE o.c.info
    BY <1>4, InspectionBlocks, InspectionFlags
  <1>6. /\ flags' = [domainopen |-> s.open, thischeck |-> s.this]
        /\ conns' = [j \in Slots |-> IF j = k THEN d
                                     ELSE IF j \in Asked(t) THEN Give(conns[j], t.uid)
                                     ELSE conns[j]]
    BY <1>1 DEF o
  <1> HIDE DEF s
  <1>7. flags' \in [domainopen : BOOLEAN, thischeck : BOOLEAN]
    BY <1>5, <1>6 DEF Flagged
  <1>8. d # NoConn => Named(d)
    BY <1>1, <1>3, <1>4, <1>5 DEF Named, Inspects, Same
  <1> HIDE DEF d
  <1>9. ASSUME NEW j \in Slots, conns'[j] # NoConn PROVE Named(conns'[j])
    <2>1. CASE j = k
      BY <1>6, <1>8, <1>9, <2>1
    <2>2. CASE j # k /\ j \notin Asked(t)
      BY <1>6, <1>9, <2>2 DEF TypeInv, NamedInv, Active
    <2>3. CASE j # k /\ j \in Asked(t)
      <3> DEFINE c == conns[j]
                 g == Give(c, t.uid)
      <3>1. Named(c) /\ Shape(c) /\ Clean(c)
        BY <2>3 DEF TypeInv, NamedInv, FwInv, InOrder, Asked, Active
      <3>2. g.t = c.t /\ g.info = c.info /\ g.uid = t.uid
        BY <3>1, GivingKeeps
      <3>3. conns'[j] = g
        BY <1>6, <2>3
      <3> HIDE DEF c, g
      <3> QED
        BY <3>1, <3>2, <3>3 DEF Named
    <2> QED
      BY <2>1, <2>2, <2>3
  <1>10. Histories'
    BY <1>1 DEF TypeInv, TypeOK, Histories, Asked, Active
  <1> QED
    BY <1>3, <1>7, <1>9, <1>10 DEF NamedInv, Active

\* What a later packet or the end of a connection shows
LEMMA InspectionTyped ==
  ASSUME TypeInv, NEW k \in Active, NEW host \in Domains \cup {NoHost}
  PROVE  LET s == Inspected(State(conns[k]), host)
         IN  Flagged(s) /\ (~conns[k].t.dns => Named(s.c))
  <1> DEFINE o == State(conns[k])
             s == Inspected(o, host)
  <1>1. Shape(conns[k]) /\ Named(conns[k])
    BY DEF TypeInv, NamedInv, FwInv, InOrder, Active
  <1>2. flags \in [domainopen : BOOLEAN, thischeck : BOOLEAN]
    BY DEF TypeInv, TypeOK
  <1>3. Examined(o) /\ Flagged(o) /\ o.c = conns[k]
    BY <1>1, <1>2 DEF State, Examined, Flagged
  <1> HIDE DEF o
  <1>4. /\ Examined(s) /\ Inspects(o.c, s.c) /\ Flagged(s)
        /\ s.c.info = IF host # NoHost /\ (o.c.info = NoHost \/ o.c.fromLru) THEN host
                      ELSE o.c.info
    BY <1>3, InspectionBlocks, InspectionFlags
  <1> HIDE DEF s
  <1>5. Flagged(s) /\ (~conns[k].t.dns => Named(s.c))
    BY <1>1, <1>3, <1>4 DEF Named, Inspects, Same
  <1> QED
    BY <1>5 DEF s, o

\* Lists change verdicts, and no tuple or name.
LEMMA HousekeepingTyped ==
  ASSUME TypeInv, Housekeeping
  PROVE  NamedInv' /\ malWl' \in MalWls /\ fw' \in Fws /\ Histories'
  <1> DEFINE newFw == fw.new_bl # NoList \/ fw.new_wl # NoList
             f == IF fw.new_bl # NoList
                  THEN [fw EXCEPT !.bl = fw.new_bl, !.new_bl = NoList]
                  ELSE IF fw.new_wl # NoList
                  THEN [fw EXCEPT !.wl = fw.new_wl, !.new_wl = NoList]
                  ELSE fw
  <1>7. PICK turn \in {"stats", "dump", "reload"} :
            /\ fw' = f
            /\ conns' = [k \in Slots |->
                   IF ListedAt(turn)[k] = NoConn \/ ~newFw THEN ListedAt(turn)[k]
                   ELSE CheckBlocked(ListedAt(turn)[k], f)]
            /\ late' = IF newFw THEN {} ELSE late
            /\ given' = IF newFw THEN {} ELSE given
    BY HousekeepingDoes
  <1> DEFINE listed == ListedAt(turn)
  <1>1. /\ fw' = f
        /\ conns' = [k \in Slots |->
                        IF listed[k] = NoConn \/ ~newFw THEN listed[k]
                        ELSE CheckBlocked(listed[k], f)]
        /\ late' = IF newFw THEN {} ELSE late
        /\ given' = IF newFw THEN {} ELSE given
    BY <1>7
  <1>8. malWl' = IF malWl.new_wl # NoList THEN [wl |-> malWl.new_wl, new_wl |-> NoList]
                 ELSE malWl
    BY DEF Housekeeping
  <1>2. malWl \in MalWls /\ fw \in Fws /\ Histories
    BY TypeOfParts DEF TypeInv
  <1>3. malWl' \in MalWls /\ Histories'
    BY <1>1, <1>2, <1>8 DEF MalWls, Histories
  <1>4. fw' \in Fws
    <2> HIDE DEF listed, newFw
    <2>1. CASE fw.new_bl # NoList
      BY <1>1, <1>2, <2>1 DEF Fws
    <2>2. CASE fw.new_bl = NoList /\ fw.new_wl # NoList
      BY <1>1, <1>2, <2>2 DEF Fws
    <2>3. CASE fw.new_bl = NoList /\ fw.new_wl = NoList
      BY <1>1, <1>2, <2>3
    <2> QED
      BY <2>1, <2>2, <2>3
  <1> HIDE DEF newFw, f
  <1>5. ASSUME NEW k \in Slots, listed[k] # NoConn
        PROVE  /\ Shape(listed[k]) /\ Named(listed[k])
    <2>1. /\ conns[k] # NoConn /\ Shape(listed[k]) /\ Same(conns[k], listed[k])
          /\ listed[k].info = conns[k].info
      BY <1>5, ListingKeeps DEF TypeInv
    <2>2. Named(conns[k])
      BY <2>1 DEF TypeInv, NamedInv, Active
    <2> QED
      BY <2>1, <2>2 DEF Named, Same
  <1> HIDE DEF listed
  <1>6. ASSUME NEW k \in Slots, conns'[k] # NoConn PROVE Named(conns'[k])
    <2>1. CASE listed[k] = NoConn \/ ~newFw
      BY <1>1, <1>5, <1>6, <2>1
    <2>2. CASE ~(listed[k] = NoConn \/ ~newFw)
      <3> DEFINE d == CheckBlocked(listed[k], f)
                 e == listed[k]
                 v == d.to_block
      <3>1. conns'[k] = d
        BY <1>1, <2>2
      <3>2. Shape(e) /\ Named(e)
        BY <1>5, <2>2
      <3>3. d = [e EXCEPT !.to_block = v]
        BY <3>2, RecheckEnforces
      <3> HIDE DEF d, e, v
      <3>4. d.t = e.t /\ d.info = e.info /\ d.uid = e.uid
        BY <3>2, <3>3 DEF Shape
      <3> QED
        BY <3>1, <3>2, <3>4 DEF Named
    <2> QED
      BY <2>1, <2>2
  <1> QED
    BY <1>3, <1>4, <1>6 DEF NamedInv, Active

\* A step keeps the types when the variables beside the reload keep theirs.
LEMMA PartsTyped ==
  ASSUME TypeInv, [Next]_vars, NamedInv',
         malWl' \in MalWls, fw' \in Fws, setter' \in {"idle", "enable"},
         IsLru(lru', Ips, Domains, LruSize),
         flags' \in [domainopen : BOOLEAN, thischeck : BOOLEAN], Histories'
  PROVE  TypeInv'
  <1>5. java \in Javas
    BY TypeOfParts DEF TypeInv
  <1>1. FwInv' /\ ReloadInv' /\ java' \in Javas
    BY <1>5, NextFw, NextReload, NextJava DEF TypeInv, Javas
  <1>2. conns' \in [Slots -> Conns \cup {NoConn}]
    BY <1>1, ConnsTyped
  <1>3. disk' \in Lists /\ announced' \in Lists \cup {NoList} /\ reload' \in Reloads
    BY <1>1 DEF ReloadInv
  <1>4. TypeOK'
    BY <1>1, <1>2, <1>3 DEF TypeOK, Reloads, Reads, Javas, MalWls, Fws, Histories
  <1> QED
    BY <1>1, <1>4 DEF TypeInv

LEMMA NextType == TypeInv /\ [Next]_vars => TypeInv'
  <1> SUFFICES ASSUME TypeInv, [Next]_vars PROVE TypeInv'
    OBVIOUS
  <1>1. /\ NamedInv
        /\ malWl \in MalWls /\ fw \in Fws /\ setter \in {"idle", "enable"}
        /\ IsLru(lru, Ips, Domains, LruSize)
        /\ conns \in [Slots -> Conns \cup {NoConn}]
        /\ flags \in [domainopen : BOOLEAN, thischeck : BOOLEAN]
        /\ Histories
    BY TypeOfParts DEF TypeInv
  <1>2. UNCHANGED conns => NamedInv'
    BY <1>1 DEF NamedInv, Active
  <1>11. UNCHANGED <<late, given>> => Histories'
    BY <1>1 DEF Histories
  <1>3. CASE OpenConnection
    <2>1. UNCHANGED <<malWl, fw, setter>>
      BY <1>3 DEF OpenConnection
    <2> QED
      BY <1>1, <1>3, <2>1, OpeningTyped, PartsTyped
  <1>4. CASE Packet
    <2>1. PICK k \in Slots, host \in Domains \cup {NoHost} :
             /\ conns[k] # NoConn /\ ~conns[k].t.dns
             /\ conns' = [conns EXCEPT ![k] = Inspected(State(conns[k]), host).c]
             /\ flags' = [domainopen |-> Inspected(State(conns[k]), host).open,
                          thischeck |-> Inspected(State(conns[k]), host).this]
             /\ UNCHANGED <<malWl, fw, setter, lru, late, given>>
      BY <1>4 DEF Packet
    <2> DEFINE s == Inspected(State(conns[k]), host)
    <2>2. Flagged(s) /\ Named(s.c)
      BY <2>1, InspectionTyped DEF Active
    <2>3. /\ conns' = [conns EXCEPT ![k] = s.c]
          /\ flags' = [domainopen |-> s.open, thischeck |-> s.this]
      BY <2>1
    <2> HIDE DEF s
    <2>4. NamedInv'
      BY <1>1, <2>2, <2>3 DEF NamedInv, Active
    <2>5. flags' \in [domainopen : BOOLEAN, thischeck : BOOLEAN]
      BY <2>2, <2>3 DEF Flagged
    <2> QED
      BY <1>1, <1>11, <2>1, <2>4, <2>5, PartsTyped
  <1>5. CASE DnsReply
    <2>1. PICK k \in Slots, ip \in Ips :
             /\ conns[k] # NoConn /\ conns[k].t.dns
             /\ lru' = LruAdd(lru, ip, conns[k].info, LruSize)
             /\ UNCHANGED <<malWl, fw, setter, conns, flags, late, given>>
      BY <1>5 DEF DnsReply
    <2>2. conns[k].info \in Domains
      BY <1>1, <2>1 DEF NamedInv, Active, Named
    <2>3. IsLru(lru', Ips, Domains, LruSize)
      BY <1>1, <2>1, <2>2, LruAddIsLru, FirewallAssumption
    <2> QED
      BY <1>1, <1>2, <1>11, <2>1, <2>3, PartsTyped
  <1>6. CASE CloseConnection
    <2>1. PICK k \in Slots, host \in Domains \cup {NoHost} :
             /\ conns[k] # NoConn
             /\ conns' = [conns EXCEPT ![k] = NoConn]
             /\ late' = late \ {k} /\ given' = given \ {k}
             /\ flags' = [domainopen |-> Inspected(State(conns[k]), host).open,
                          thischeck |-> Inspected(State(conns[k]), host).this]
             /\ UNCHANGED <<malWl, fw, setter, lru>>
      BY <1>6 DEF CloseConnection
    <2>2. Flagged(Inspected(State(conns[k]), host))
      BY <2>1, InspectionTyped DEF Active
    <2>3. flags' \in [domainopen : BOOLEAN, thischeck : BOOLEAN]
      BY <2>1, <2>2 DEF Flagged
    <2>4. NamedInv' /\ Histories'
      BY <1>1, <2>1 DEF NamedInv, Active, Histories
    <2> QED
      BY <1>1, <2>1, <2>3, <2>4, PartsTyped
  <1>7. CASE Housekeeping
    <2>1. UNCHANGED <<setter, lru, flags>>
      BY <1>7 DEF Housekeeping
    <2> QED
      BY <1>1, <1>7, <2>1, HousekeepingTyped, PartsTyped
  <1>8. CASE \/ LoaderReads \/ LoaderEnds \/ UNCHANGED vars \/ StartUpdate \/ DeleteFile
             \/ EndDownload \/ FinalizeUpdate \/ AnnounceFiles
    <2>1. UNCHANGED <<malWl, fw, setter, lru, conns, flags, late, given>>
      BY <1>8 DEF LoaderReads, LoaderEnds, vars, StartUpdate, DeleteFile, EndDownload,
                  FinalizeUpdate, AnnounceFiles
    <2> QED
      BY <1>1, <1>2, <1>11, <2>1, PartsTyped
  <1>9. CASE reloadMalwareWhitelist
    <2>1. /\ UNCHANGED <<fw, setter, lru, conns, flags, late, given>>
          /\ malWl' \in MalWls
      BY <1>1, <1>9 DEF reloadMalwareWhitelist, MalWls
    <2> QED
      BY <1>1, <1>2, <1>11, <2>1, PartsTyped
  <1>10. CASE \/ reloadBlocklist \/ reloadFirewallWhitelist \/ EnableWhitelist
              \/ DisableWhitelist \/ nativeSetFirewallEnabled
    <2>1. UNCHANGED <<malWl, lru, conns, flags, given>>
      BY <1>10 DEF reloadBlocklist, reloadFirewallWhitelist, EnableWhitelist,
                   DisableWhitelist, nativeSetFirewallEnabled
    <2>2. setter' \in {"idle", "enable"} /\ Histories'
      BY <1>1, <1>10 DEF reloadBlocklist, reloadFirewallWhitelist, EnableWhitelist,
                         DisableWhitelist, nativeSetFirewallEnabled, Active, Histories
    <2>3. fw' \in Fws
      BY <1>1, <1>10, ZenonT(40) DEF reloadBlocklist, reloadFirewallWhitelist,
                         EnableWhitelist, DisableWhitelist, nativeSetFirewallEnabled, Fws
    <2> QED
      BY <1>1, <1>2, <2>1, <2>2, <2>3, PartsTyped
  <1> QED
    BY <1>3, <1>4, <1>5, <1>6, <1>7, <1>8, <1>9, <1>10 DEF Next

\* Whatever the order of packets, lists, loads and switches, the state is of its
\* type; above all the cache of names stays one: at most LruSize entries, one for
\* an address, each with a host, which rests on a DNS connection having one.
THEOREM FirewallTyped == Spec => []TypeOK
  <1>1. TypeInv => TypeOK
    BY DEF TypeInv
  <1> QED
    BY <1>1, InitType, NextType, PTL DEF Spec
=============================================================================
