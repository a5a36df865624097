--------------------------- MODULE AstoreDownload ---------------------------
(***************************************************************************)
(* Download and installation of one application of the store:              *)
(* AstoreDownloader.downloadApk, its two ways to install, and updateApp of *)
(* the screen that starts it.                                              *)
(*                                                                         *)
(* A download reads blocks into a temporary file that outlives it, asks    *)
(* for the rest of a file that is there, and renames it when the stream    *)
(* ends.  It blocks an I/O thread, so that closing the screen does not end *)
(* it: it goes on with no one to report to.  It tells the screen how it    *)
(* goes by trySend into the buffer of the flow, which drops what does not  *)
(* fit.                                                                    *)
(***************************************************************************)
EXTENDS Naturals, FiniteSets, Sequences

CONSTANTS
    Versions,    \* number of versions of the application on the server
    Size,        \* of each version: its size in blocks
    Parts,       \* of each version: the parts of an archive, {} for an apk
    MaxSize,     \* bound on a size
    MaxRetries,  \* maxRetries
    Downloads,   \* calls of downloadApk that may run at a time
    BufferSize,  \* events the channel of callbackFlow holds: 64
    NoFile,
    Faults       \* see below

(* What may happen beside a connection that breaks and a process that dies: *)
(*   "overlap"      the screen is opened again and starts another download  *)
(*                  while that of a closed screen still runs                *)
(*   "stale_range"  the server sends the rest of another version            *)
(*   "no_length"    a stream that breaks looks like one that ends           *)
(*   "installer"    the package installer throws                            *)
ASSUME StoreAssumption ==
    /\ Versions \in Nat \ {0} /\ MaxSize \in Nat /\ MaxRetries \in Nat \ {0}
    /\ BufferSize \in Nat \ {0}
    /\ Size \in [1..Versions -> 1..MaxSize]
    /\ DOMAIN Parts = 1..Versions
    /\ Faults \subseteq {"overlap", "stale_range", "no_length", "installer"}

VARIABLES
    server,     \* the version the server has
    active,     \* the package is in activeInstalls of the screen
    shown,      \* what the screen shows of it: "closed" when there is none
    events,     \* what the flow it collects has in its buffer
    lost,       \* the last event of the download it started did not fit there
    dl,         \* the downloads
    temp,       \* the file *.tmp
    final,      \* the file it is renamed to
    extracted,  \* of each part: the version of the file in extractDir, or 0
    committed   \* what was handed to the package installer last

files  == <<temp, final, extracted, committed>>
screen == <<active, shown, events, lost>>
vars   == <<server, screen, dl, files>>

Offsets   == 1..MaxSize
PartNames == UNION {Parts[v] : v \in 1..Versions}
Blocks    == (0..Versions) \X (0..MaxSize)
File      == [size : 0..MaxSize, data : [Offsets -> Blocks]]
Torn      == Versions + 1   \* a part of which only the beginning was written
PartFiles == [PartNames -> 0..Torn]
Events    == {"busy", "installed", "error"}

ASSUME NoFileAssumption == NoFile \notin File

Nothing == <<0, 0>>

\* The file of a version, and the parts in its archive.  A block says which version it
\* is of and which it is there.
FileOf(v)  == [size |-> Size[v],
               data |-> [i \in Offsets |-> IF i <= Size[v] THEN <<v, i>> ELSE Nothing]]
PartsOf(v) == [p \in PartNames |-> IF p \in Parts[v] THEN v ELSE 0]
EmptyFile  == [size |-> 0, data |-> [i \in Offsets |-> Nothing]]
NoParts    == [p \in PartNames |-> 0]

\* A call of downloadApk
Call ==
    [pc : {"idle", "open", "connect", "read", "install", "clean", "extract",
           "commit", "cleanDir", "delay", "await"},
     attempt : 1..MaxRetries,
     at : 0..MaxSize,               \* existingFileSize, then total
     pos : 0..MaxSize,              \* the position of output
     ver : 1..Versions,             \* what the stream carries
     range : BOOLEAN,               \* the request asks for a range
     fd : {"none", "temp", "final", "lost"},  \* where output writes to
     ok : BOOLEAN,                  \* the session was committed
     heard : BOOLEAN]               \* the screen collects its progress

Idle == [pc |-> "idle", attempt |-> 1, at |-> 0, pos |-> 0, ver |-> 1, range |-> FALSE,
         fd |-> "none", ok |-> FALSE, heard |-> FALSE]

TypeOK ==
    /\ server \in 1..Versions
    /\ active \in BOOLEAN
    /\ shown \in {"closed", "update", "busy", "installed", "error"}
    /\ events \in Seq(Events) /\ Len(events) <= BufferSize
    /\ lost \in BOOLEAN
    /\ dl \in [Downloads -> Call]
    /\ temp \in File \cup {NoFile}
    /\ final \in File \cup {NoFile}
    /\ extracted \in PartFiles
    /\ committed \in [file : File \cup {NoFile}, parts : PartFiles]

Init ==
    /\ server = 1
    /\ active = FALSE /\ shown = "closed" /\ events = <<>> /\ lost = FALSE
    /\ dl = [d \in Downloads |-> Idle]
    /\ temp = NoFile /\ final = NoFile
    /\ extracted = NoParts
    /\ committed = [file |-> NoFile, parts |-> NoParts]

Running(d) == dl[d].pc # "idle"
At(d, pc)  == dl[d].pc = pc
Goto(d, pc) == dl' = [dl EXCEPT ![d].pc = pc]

-----------------------------------------------------------------------------
(* The screen                                                              *)

OpenScreen ==
    /\ shown = "closed"
    /\ shown' = "update" /\ active' = FALSE
    /\ UNCHANGED <<server, events, lost, dl, files>>

NoScreen == active' = FALSE /\ shown' = "closed" /\ events' = <<>> /\ lost' = FALSE

\* onCleared cancels the scope.  What waits in awaitClose or in delay ends there;
\* what reads or installs is not interrupted.
CloseScreen ==
    /\ shown # "closed"
    /\ NoScreen
    /\ dl' = [d \in Downloads |->
                  IF dl[d].pc \in {"await", "delay"} THEN Idle
                  ELSE [dl[d] EXCEPT !.heard = FALSE]]
    /\ UNCHANGED <<server, files>>

\* updateApp: one that is in activeInstalls is passed over.
updateApp ==
    /\ shown # "closed" /\ ~active
    /\ \/ \E d \in Downloads :
              /\ ~Running(d)
              /\ "overlap" \notin Faults => \A e \in Downloads : ~Running(e)
              /\ active' = TRUE /\ shown' = "busy" /\ events' = <<>> /\ lost' = FALSE
              /\ dl' = [dl EXCEPT ![d] = [Idle EXCEPT !.pc = "open", !.heard = TRUE]]
       \/ \* the application is blocked, or has no link
          shown' = "error" /\ UNCHANGED <<active, events, lost, dl>>
    /\ UNCHANGED <<server, files>>

\* The collector takes an event of the buffer and shows it.
Collect ==
    /\ events # <<>>
    /\ shown' = Head(events) /\ events' = Tail(events)
    /\ UNCHANGED <<server, active, lost, dl, files>>

Full == Len(events) >= BufferSize

\* trySend: the buffer after it.  A flow that was cancelled takes nothing.
Sent(d, buffer, event) ==
    IF dl[d].heard /\ Len(buffer) < BufferSize THEN Append(buffer, event) ELSE buffer

\* Downloading or Installing
Send(d, event) == events' = Sent(d, events, event) /\ UNCHANGED <<active, shown, lost>>

Waiting(d, ok) ==
    [Idle EXCEPT !.pc = "await", !.heard = TRUE, !.attempt = dl[d].attempt, !.ok = ok]

\* Completed or Error is sent, and dropped if the buffer is full; the flow then waits
\* in awaitClose, and the package stays in activeInstalls.
Report(d, event) ==
    /\ events' = Sent(d, events, event)
    /\ lost' = (lost \/ (dl[d].heard /\ Full))
    /\ dl' = [dl EXCEPT ![d] = IF dl[d].heard THEN Waiting(d, event = "installed") ELSE Idle]
    /\ UNCHANGED <<active, shown>>

\* Mutant: the last failure is not reported.
ThrowsSilently(d) ==
    /\ dl' = [dl EXCEPT ![d] =
                  IF ~dl[d].heard THEN Idle
                  ELSE IF dl[d].attempt < MaxRetries
                  THEN [Idle EXCEPT !.pc = "delay", !.heard = TRUE, !.attempt = dl[d].attempt + 1]
                  ELSE Waiting(d, FALSE)]
    /\ UNCHANGED screen

\* An exception in the loop: the streams are closed, and it is tried again after a
\* delay, which throws if the scope was cancelled.
Throws(d) ==
    IF dl[d].attempt < MaxRetries
    THEN /\ dl' = [dl EXCEPT ![d] =
                       IF ~dl[d].heard THEN Idle
                       ELSE [Idle EXCEPT !.pc = "delay", !.heard = TRUE,
                                         !.attempt = dl[d].attempt + 1]]
         /\ UNCHANGED screen
    ELSE Report(d, "error")

-----------------------------------------------------------------------------
(* An attempt                                                              *)

Retry(d) == At(d, "delay") /\ Goto(d, "open") /\ UNCHANGED <<server, screen, files>>

\* The size of the temporary file is what the request asks the rest of.
OpenConnection(d) ==
    /\ At(d, "open")
    /\ dl' = [dl EXCEPT ![d].pc = "connect",
                        ![d].range = temp # NoFile,
                        ![d].at = IF temp = NoFile THEN 0 ELSE temp.size]
    /\ UNCHANGED <<server, screen, files>>

\* The server sends from a position of the version it has: to a file that is opened
\* by its name, and created if it is gone.
Receive(d, at, pos) ==
    /\ dl' = [dl EXCEPT ![d].pc = "read", ![d].at = at, ![d].pos = pos,
                        ![d].ver = server, ![d].fd = "temp"]
    /\ UNCHANGED screen

\* Mutant: the file is not truncated when the whole is sent.
HttpOkKeeps(d) ==
    /\ Receive(d, 0, 0)
    /\ temp' = IF temp = NoFile THEN EmptyFile ELSE temp

HttpOk(d) ==
    /\ Receive(d, 0, 0)
    /\ temp' = EmptyFile

\* External: the range is honoured for the version it was begun with.
SameVersion(d) ==
    "stale_range" \notin Faults /\ temp # NoFile =>
        \A i \in 1..temp.size : temp.data[i][1] = server

\* Mutant: the rest is written from the start of the file.
HttpPartialNoSeek(d) ==
    /\ dl[d].range /\ dl[d].at < Size[server] /\ SameVersion(d)
    /\ Receive(d, dl[d].at, 0)
    /\ temp' = IF temp = NoFile THEN EmptyFile ELSE temp

HttpPartial(d) ==
    /\ dl[d].range /\ dl[d].at < Size[server] /\ SameVersion(d)
    /\ Receive(d, dl[d].at, dl[d].at)
    /\ temp' = IF temp = NoFile THEN EmptyFile ELSE temp

\* 416 when there is no rest, or any other code: not tried again.
HttpError(d) == Report(d, "error") /\ UNCHANGED temp

Connect(d) ==
    /\ At(d, "connect")
    /\ \/ HttpOk(d)
       \/ HttpPartial(d)
       \/ HttpError(d)
       \/ Throws(d) /\ UNCHANGED temp
    /\ UNCHANGED <<server, final, extracted, committed>>

\* A block written at a position of a file
Written(f, pos, block) ==
    [size |-> IF f.size > pos THEN f.size ELSE pos + 1,
     data |-> [f.data EXCEPT ![pos + 1] = block]]

ReadBlock(d) ==
    LET block == <<dl[d].ver, dl[d].at + 1>>
    IN  /\ At(d, "read") /\ dl[d].at < Size[dl[d].ver]
        /\ dl' = [dl EXCEPT ![d].at = @ + 1, ![d].pos = @ + 1]
        /\ temp' = IF dl[d].fd = "temp" THEN Written(temp, dl[d].pos, block) ELSE temp
        /\ final' = IF dl[d].fd = "final" /\ final # NoFile THEN Written(final, dl[d].pos, block) ELSE final
        /\ \/ Send(d, "busy")
           \/ "no_length" \in Faults /\ UNCHANGED screen
        /\ UNCHANGED <<server, extracted, committed>>

BreakStream(d) == At(d, "read") /\ Throws(d) /\ UNCHANGED <<server, files>>

\* What the output of each download writes to after the file was renamed
Renamed == [d \in Downloads |->
               IF dl[d].fd = "temp" THEN [dl[d] EXCEPT !.fd = "final"]
               ELSE IF dl[d].fd = "final" THEN [dl[d] EXCEPT !.fd = "lost"] ELSE dl[d]]

IsArchive(f) == \E v \in 1..Versions : f = FileOf(v) /\ Parts[v] # {}

\* The end of the stream: renameTo, which does nothing if the file is gone, and the
\* look into the archive.
EndOfStream(d) ==
    /\ At(d, "read")
    /\ "no_length" \notin Faults => dl[d].at = Size[dl[d].ver]
    /\ final' = IF temp = NoFile THEN final ELSE temp
    /\ temp' = NoFile
    /\ dl' = [(IF temp = NoFile THEN dl ELSE Renamed) EXCEPT
                  ![d].pc = IF IsArchive(final') THEN "extract" ELSE "install"]
    /\ events' = Sent(d, Sent(d, events, "busy"), "busy")
    /\ UNCHANGED <<server, active, shown, lost, extracted, committed>>

-----------------------------------------------------------------------------
(* Installation                                                            *)

\* The directory when some parts of an archive are written, and one may be cut short
Extracting(v, done, cut) ==
    [p \in PartNames |-> IF p \in done THEN v ELSE IF p = cut THEN Torn ELSE extracted[p]]
HalfExtracted(v) == {Extracting(v, done, cut) : done \in SUBSET Parts[v], cut \in Parts[v]}

\* What is in the directory is handed over as it is there: it is not emptied before,
\* and what a process that died left in it stays.
Extract(d) ==
    /\ At(d, "extract")
    /\ \/ \E v \in 1..Versions : final = FileOf(v) /\
              \/ /\ extracted' = [p \in PartNames |-> IF p \in Parts[v] THEN v ELSE extracted[p]]
                 /\ Goto(d, "commit")
              \/ extracted' \in HalfExtracted(v) /\ Goto(d, "cleanDir")
       \/ ~IsArchive(final) /\ Goto(d, "cleanDir") /\ UNCHANGED extracted
    /\ UNCHANGED <<server, screen, temp, final, committed>>

\* The end of an installation, successful or not: ok is what it returns.
Ends(d, pc, ok) == dl' = [dl EXCEPT ![d].pc = pc, ![d].ok = ok]

\* installMultipleApks
CommitParts(d) ==
    /\ At(d, "commit")
    /\ \/ /\ extracted # NoParts
          /\ committed' = [file |-> NoFile, parts |-> extracted]
          /\ Ends(d, "cleanDir", TRUE)
       \/ /\ extracted = NoParts \/ "installer" \in Faults
          /\ Ends(d, "cleanDir", FALSE) /\ UNCHANGED committed
    /\ UNCHANGED <<server, screen, temp, final, extracted>>

\* The archive is deleted if it was installed, the directory in any case; an archive
\* that was not is tried as an apk.
CleanDir(d) ==
    /\ At(d, "cleanDir")
    /\ extracted' = NoParts
    /\ IF dl[d].ok THEN final' = NoFile /\ Report(d, "installed")
       ELSE Goto(d, "install") /\ UNCHANGED <<screen, final>>
    /\ UNCHANGED <<server, temp, committed>>

\* installApkSilently
InstallFile(d) ==
    /\ At(d, "install")
    /\ \/ /\ final # NoFile
          /\ committed' = [file |-> final, parts |-> NoParts]
          /\ Ends(d, "clean", TRUE)
       \/ /\ final = NoFile \/ "installer" \in Faults
          /\ Ends(d, "clean", FALSE) /\ UNCHANGED committed
    /\ UNCHANGED <<server, screen, temp, final, extracted>>

\* Its finally deletes the file; an exception is that of the attempt.
CleanFile(d) ==
    /\ At(d, "clean")
    /\ final' = NoFile
    /\ IF dl[d].ok THEN Report(d, "installed") ELSE Throws(d)
    /\ UNCHANGED <<server, temp, extracted, committed>>

-----------------------------------------------------------------------------
\* External: another version is published.
Publish ==
    /\ server < Versions /\ server' = server + 1
    /\ UNCHANGED <<screen, dl, files>>

\* What is left of the archive and its directory when the process dies in download d:
\* in the middle of an extraction, or of what deletes it
Remains(d) ==
    \/ UNCHANGED <<final, extracted>>
    \/ /\ At(d, "extract") /\ UNCHANGED final
       /\ \E v \in 1..Versions : final = FileOf(v) /\ extracted' \in HalfExtracted(v)
    \/ /\ At(d, "cleanDir") /\ final' = IF dl[d].ok THEN NoFile ELSE final
       /\ \E gone \in SUBSET PartNames :
              extracted' = [p \in PartNames |-> IF p \in gone THEN 0 ELSE extracted[p]]

\* External: the process dies; the files stay as they are.
Die ==
    /\ \E d \in Downloads : Remains(d)
    /\ NoScreen
    /\ dl' = [d \in Downloads |-> Idle]
    /\ UNCHANGED <<server, temp, committed>>

Step(d) ==
    \/ Retry(d) \/ OpenConnection(d) \/ Connect(d)
    \/ ReadBlock(d) \/ BreakStream(d) \/ EndOfStream(d)
    \/ Extract(d) \/ CommitParts(d) \/ CleanDir(d)
    \/ InstallFile(d) \/ CleanFile(d)

Next ==
    \/ OpenScreen \/ CloseScreen \/ updateApp \/ Collect
    \/ \E d \in Downloads : Step(d)
    \/ Publish \/ Die

Spec == Init /\ [][Next]_vars

\* A thread that reads gets a block, the end or an exception: connectTimeout and
\* readTimeout see to it (AstoreDownloader.kt:123).  The main thread runs what is posted
\* to it, however late.
FairSpec == Spec /\ WF_vars(Collect) /\ \A d \in Downloads : WF_vars(Step(d))

-----------------------------------------------------------------------------
(* Properties                                                              *)

\* What is handed to the package installer as one file is one whole version, however
\* many attempts, calls and processes it took (AstoreDownloader.kt:136).  What is handed
\* over as parts holds every part of the archive of one version, whole, beside
\* what else the directory held, which is not emptied before (AstoreDownloader.kt:334).
InstalledIsWhole ==
    /\ committed.file # NoFile => \E v \in 1..Versions : committed.file = FileOf(v)
    /\ committed.parts # NoParts =>
           \E v \in 1..Versions : Parts[v] # {} /\ \A p \in Parts[v] : committed.parts[p] = v

\* Whatever ends an attempt leaves a file that can be resumed: the first blocks of one
\* version (AstoreDownloader.kt:112).
TempIsPrefix ==
    temp # NoFile =>
        \E v \in 1..Versions :
            /\ temp.size <= Size[v]
            /\ \A i \in Offsets : temp.data[i] = IF i <= temp.size THEN <<v, i>> ELSE Nothing

\* A download that is shown comes to an end that is shown, whatever the server and the
\* package installer do (AstoreDownloader.kt:99), unless its last event did not fit in
\* the buffer, which trySend tells nobody (AstoreDownloader.kt:217).
DownloadIsReported == shown = "busy" ~> shown # "busy" \/ lost
=============================================================================
