------------------------ MODULE AstoreDownloadProof ------------------------
(***************************************************************************)
(* What is handed to the package installer is whole, for every number and  *)
(* size of versions, attempts and deaths, while one download runs at a     *)
(* time, the server sends the rest of the version that was begun and a     *)
(* broken stream is told from one that ends.                               *)
(***************************************************************************)
EXTENDS AstoreDownload, TLAPS

Pcs == {"idle", "open", "connect", "read", "install", "clean", "extract", "commit",
        "cleanDir", "delay", "await"}

\* The first n blocks of version v
Prefix(v, n) ==
    [size |-> n, data |-> [i \in Offsets |-> IF i <= n THEN <<v, i>> ELSE Nothing]]

\* Only one download runs.
OneRuns == \A d, e \in Downloads : Running(d) /\ Running(e) => d = e

\* The file that is resumed is the beginning of a version.
TempInv == temp # NoFile => \E v \in 1..Versions : \E n \in 0..Size[v] : temp = Prefix(v, n)

\* Where a download is, its position and what the files hold
DlInv(d) ==
    /\ At(d, "connect") /\ dl[d].range => temp # NoFile /\ dl[d].at = temp.size
    /\ At(d, "read") =>
           /\ dl[d].fd = "temp" /\ dl[d].pos = dl[d].at
           /\ dl[d].at \in 0..Size[dl[d].ver] /\ temp = Prefix(dl[d].ver, dl[d].at)
    /\ dl[d].pc \in {"extract", "commit", "cleanDir", "install"} => final = FileOf(dl[d].ver)
    /\ At(d, "extract") => Parts[dl[d].ver] # {}
    /\ At(d, "commit") =>
           Parts[dl[d].ver] # {} /\ \A p \in Parts[dl[d].ver] : extracted[p] = dl[d].ver

StoreInv ==
    /\ TypeOK /\ OneRuns /\ TempInv
    /\ \A d \in Downloads : DlInv(d)
    /\ InstalledIsWhole

\* What the types rest on: the position of a stream that is read, and its file
TypeInv ==
    /\ TypeOK
    /\ \A d \in Downloads : At(d, "read") =>
           dl[d].pos = dl[d].at /\ (dl[d].fd = "temp" => temp # NoFile)

-----------------------------------------------------------------------------
(* Types                                                                   *)

LEMMA Constants ==
    /\ Versions \in Nat \ {0} /\ MaxSize \in Nat /\ MaxRetries \in Nat \ {0}
    /\ BufferSize \in Nat \ {0}
    /\ \A v \in 1..Versions : Size[v] \in 1..MaxSize
    /\ \A v \in 1..Versions : Parts[v] \subseteq PartNames
  BY StoreAssumption DEF PartNames

LEMMA EmptyIsFile == EmptyFile \in File /\ NoParts \in PartFiles
  BY StoreAssumption DEF EmptyFile, File, Blocks, Nothing, Offsets, NoParts, PartFiles, Torn

LEMMA IdleType ==
  ASSUME TypeOK
  PROVE  /\ Idle \in Call
         /\ \A h \in BOOLEAN : [Idle EXCEPT !.pc = "open", !.heard = h] \in Call
         /\ \A d \in Downloads, ok \in BOOLEAN : Waiting(d, ok) \in Call
         /\ \A n \in 1..MaxRetries :
                [Idle EXCEPT !.pc = "delay", !.heard = TRUE, !.attempt = n] \in Call
<1>1. 1 \in 1..MaxRetries /\ 1 \in 1..Versions /\ 0 \in 0..MaxSize BY StoreAssumption
<1>2. Idle \in Call BY <1>1 DEF Idle, Call
<1>3. \A h \in BOOLEAN : [Idle EXCEPT !.pc = "open", !.heard = h] \in Call
  BY <1>2 DEF Call
<1>4. ASSUME NEW d \in Downloads, NEW ok \in BOOLEAN PROVE Waiting(d, ok) \in Call
  <2>1. dl[d].attempt \in 1..MaxRetries BY DEF TypeOK, Call
  <2> QED BY <1>2, <2>1 DEF Waiting, Call
<1>5. \A n \in 1..MaxRetries :
          [Idle EXCEPT !.pc = "delay", !.heard = TRUE, !.attempt = n] \in Call
  BY <1>2 DEF Call
<1> QED BY <1>2, <1>3, <1>4, <1>5

\* The screen and the buffer of what it collects
ScreenOK ==
    /\ active \in BOOLEAN
    /\ shown \in {"closed", "update", "busy", "installed", "error"}
    /\ events \in Seq(Events) /\ Len(events) <= BufferSize
    /\ lost \in BOOLEAN

LEMMA SentType ==
  ASSUME NEW d \in Downloads, NEW b \in Seq(Events), NEW e \in Events, Len(b) <= BufferSize
  PROVE  Sent(d, b, e) \in Seq(Events) /\ Len(Sent(d, b, e)) <= BufferSize
<1>1. Append(b, e) \in Seq(Events) /\ Len(Append(b, e)) = Len(b) + 1 /\ Len(b) \in Nat
  OBVIOUS
<1> QED BY <1>1, Constants DEF Sent

\* Files that are typed: of a version, or with a block more.
LEMMA FileType ==
  /\ \A v \in 1..Versions : FileOf(v) \in File /\ PartsOf(v) \in PartFiles
  /\ \A f \in File, pos \in 0..MaxSize, b \in Blocks :
         pos < MaxSize => Written(f, pos, b) \in File
<1>1. ASSUME NEW v \in 1..Versions PROVE FileOf(v) \in File
  <2>1. Size[v] \in 0..MaxSize BY Constants
  <2>2. ASSUME NEW i \in Offsets
        PROVE  (IF i <= Size[v] THEN <<v, i>> ELSE Nothing) \in Blocks
    BY Constants DEF Blocks, Nothing, Offsets
  <2> QED BY <2>1, <2>2 DEF FileOf, File
<1>2. ASSUME NEW v \in 1..Versions PROVE PartsOf(v) \in PartFiles
  BY Constants DEF PartsOf, PartFiles, Torn
<1>3. ASSUME NEW f \in File, NEW pos \in 0..MaxSize, NEW b \in Blocks, pos < MaxSize
      PROVE  Written(f, pos, b) \in File
  <2>1. pos + 1 \in 0..MaxSize /\ f.size \in 0..MaxSize BY <1>3, Constants DEF File
  <2>2. [f.data EXCEPT ![pos + 1] = b] \in [Offsets -> Blocks] BY DEF File
  <2> QED BY <2>1, <2>2 DEF Written, File
<1> QED BY <1>1, <1>2, <1>3

LEMMA GotoType ==
  ASSUME TypeOK, NEW d \in Downloads, NEW pc \in Pcs, NEW ok \in BOOLEAN
  PROVE  /\ [dl EXCEPT ![d].pc = pc] \in [Downloads -> Call]
         /\ [dl EXCEPT ![d].pc = pc, ![d].ok = ok] \in [Downloads -> Call]
<1>1. dl[d] \in Call BY DEF TypeOK
<1>2. [dl[d] EXCEPT !.pc = pc] \in Call BY <1>1 DEF Call, Pcs
<1>3. [dl[d] EXCEPT !.pc = pc, !.ok = ok] \in Call BY <1>1 DEF Call, Pcs
<1> QED BY <1>2, <1>3 DEF TypeOK

LEMMA ExtractingType ==
  ASSUME TypeOK, NEW v \in 1..Versions PROVE HalfExtracted(v) \subseteq PartFiles
<1> SUFFICES ASSUME NEW done \in SUBSET Parts[v], NEW cut \in Parts[v]
             PROVE  Extracting(v, done, cut) \in PartFiles
  BY DEF HalfExtracted
<1> QED BY Constants DEF Extracting, TypeOK, PartFiles, Torn

LEMMA CommittedType ==
  \A f \in File \cup {NoFile}, p \in PartFiles :
      [file |-> f, parts |-> p] \in [file : File \cup {NoFile}, parts : PartFiles]
  OBVIOUS

LEMMA ReportType ==
  ASSUME TypeOK, NEW d \in Downloads, NEW p \in {"installed", "error"}, Report(d, p)
  PROVE  ScreenOK' /\ dl' \in [Downloads -> Call]
<1>1. events' \in Seq(Events) /\ Len(events') <= BufferSize
  BY SentType DEF TypeOK, Report, Events
<1>2. lost' \in BOOLEAN BY DEF TypeOK, Report
<1>3. dl' \in [Downloads -> Call]
  <2>1. Idle \in Call /\ Waiting(d, p = "installed") \in Call BY IdleType
  <2> QED BY <2>1 DEF Report, TypeOK
<1> QED BY <1>1, <1>2, <1>3 DEF TypeOK, Report, ScreenOK

LEMMA ThrowsType ==
  ASSUME TypeOK, NEW d \in Downloads, Throws(d)
  PROVE  ScreenOK' /\ dl' \in [Downloads -> Call]
<1>1. CASE dl[d].attempt < MaxRetries
  <2>1. dl[d].attempt + 1 \in 1..MaxRetries BY <1>1, StoreAssumption DEF TypeOK, Call
  <2> QED BY <1>1, <2>1, IdleType DEF TypeOK, Throws, screen, ScreenOK
<1>2. CASE ~(dl[d].attempt < MaxRetries) BY <1>2, ReportType DEF Throws
<1> QED BY <1>1, <1>2

LEMMA ReceiveType ==
  ASSUME TypeOK, NEW d \in Downloads, NEW at \in 0..MaxSize, NEW pos \in 0..MaxSize,
         Receive(d, at, pos)
  PROVE  ScreenOK' /\ dl' \in [Downloads -> Call]
<1>1. dl[d] \in Call /\ server \in 1..Versions BY DEF TypeOK
<1>2. [dl[d] EXCEPT !.pc = "read", !.at = at, !.pos = pos, !.ver = server, !.fd = "temp"]
          \in Call
  BY <1>1 DEF Call
<1> QED BY <1>2 DEF TypeOK, Receive, screen, ScreenOK

LEMMA TypeInit == Init => TypeOK
<1> SUFFICES ASSUME Init PROVE TypeOK OBVIOUS
<1>1. 1 \in 1..Versions BY StoreAssumption
<1>2. 1 \in 1..MaxRetries /\ 0 \in 0..MaxSize BY StoreAssumption
<1>3. Idle \in Call BY <1>1, <1>2 DEF Idle, Call
<1>4. <<>> \in Seq(Events) /\ Len(<<>>) <= BufferSize BY Constants
<1> QED BY <1>1, <1>3, <1>4, EmptyIsFile DEF Init, TypeOK

LEMMA ReadBlockType ==
  ASSUME TypeInv, NEW d \in Downloads, ReadBlock(d)
  PROVE  /\ temp' \in File \cup {NoFile} /\ (temp # NoFile => temp' # NoFile)
         /\ final' \in File \cup {NoFile}
         /\ dl' \in [Downloads -> Call]
<1>0. TypeOK BY DEF TypeInv
<1> USE <1>0
<1> DEFINE b == <<dl[d].ver, dl[d].at + 1>>
<1>1. dl[d].at + 1 \in 0..MaxSize /\ dl[d].ver \in 1..Versions
  BY Constants DEF ReadBlock, TypeOK, Call
<1>2. b \in Blocks BY <1>1, Constants DEF Blocks
<1>3. dl[d].pos = dl[d].at /\ dl[d].pos < MaxSize /\ dl[d].pos \in 0..MaxSize
  BY Constants DEF ReadBlock, TypeOK, TypeInv, Call
<1>4. temp' \in File \cup {NoFile} /\ (temp # NoFile => temp' # NoFile)
  <2>1. CASE dl[d].fd = "temp"
    <3>1. temp \in File BY <2>1 DEF ReadBlock, TypeInv, TypeOK
    <3>2. Written(temp, dl[d].pos, b) \in File BY <1>2, <1>3, <3>1, FileType
    <3> QED BY <2>1, <3>2, NoFileAssumption DEF ReadBlock
  <2>2. CASE dl[d].fd # "temp" BY <2>2 DEF ReadBlock, TypeOK
  <2> QED BY <2>1, <2>2
<1>5. final' \in File \cup {NoFile}
  <2>1. CASE dl[d].fd = "final" /\ final # NoFile
    <3>1. final \in File BY <2>1 DEF TypeOK
    <3>2. Written(final, dl[d].pos, b) \in File BY <1>2, <1>3, <3>1, FileType
    <3> QED BY <2>1, <3>2 DEF ReadBlock
  <2>2. CASE ~(dl[d].fd = "final" /\ final # NoFile)
    BY <2>2 DEF ReadBlock, TypeOK
  <2> QED BY <2>1, <2>2
<1>6. dl' \in [Downloads -> Call]
  <2>1. dl[d] \in Call /\ dl[d].pos + 1 \in 0..MaxSize BY <1>1, <1>3 DEF TypeOK
  <2>2. [dl[d] EXCEPT !.at = dl[d].at + 1, !.pos = dl[d].pos + 1] \in Call
    BY <1>1, <2>1 DEF Call
  <2> QED BY <2>2 DEF ReadBlock, TypeOK
<1> QED BY <1>4, <1>5, <1>6

LEMMA TypeNext == TypeInv /\ [Next]_vars => TypeOK'
<1> SUFFICES ASSUME TypeInv, [Next]_vars PROVE TypeOK' OBVIOUS
<1>0. TypeOK BY DEF TypeInv
<1> USE <1>0
<1>0a. <<>> \in Seq(Events) /\ Len(<<>>) <= BufferSize BY Constants
<1>1. CASE OpenScreen BY <1>1 DEF OpenScreen, TypeOK, files
<1>9. CASE Collect
  <2>1. Head(events) \in Events /\ Tail(events) \in Seq(Events)
        /\ Len(Tail(events)) <= BufferSize
    BY <1>9, Constants DEF Collect, TypeOK
  <2> QED BY <1>9, <2>1 DEF Collect, TypeOK, files, Events
<1>2. CASE CloseScreen
  <2>1. \A d \in Downloads : [dl[d] EXCEPT !.heard = FALSE] \in Call BY ZenonT(40) DEF TypeOK, Call
  <2> QED BY <1>0a, <1>2, <2>1, IdleType DEF CloseScreen, NoScreen, TypeOK, files
<1>3. CASE updateApp BY <1>0a, <1>3, IdleType DEF updateApp, TypeOK, files
<1>4. ASSUME NEW d \in Downloads, Step(d) PROVE TypeOK'
  <2>1. CASE Retry(d)
    BY <2>1, GotoType DEF Retry, Goto, TypeOK, screen, files, Pcs
  <2>2. CASE OpenConnection(d)
    <3>1. (IF temp = NoFile THEN 0 ELSE temp.size) \in 0..MaxSize
      BY StoreAssumption DEF TypeOK, File
    <3>2. dl[d] \in Call /\ (temp # NoFile) \in BOOLEAN BY DEF TypeOK
    <3>3. [dl[d] EXCEPT !.pc = "connect", !.range = temp # NoFile,
                        !.at = IF temp = NoFile THEN 0 ELSE temp.size] \in Call
      BY <3>1, <3>2 DEF Call
    <3>4. dl' \in [Downloads -> Call] BY <2>2, <3>3 DEF OpenConnection, TypeOK
    <3> QED BY <2>2, <3>4 DEF OpenConnection, TypeOK, screen, files
  <2>3. CASE Connect(d)
    <3>1. UNCHANGED <<server, final, extracted, committed>> BY <2>3 DEF Connect
    <3>2. CASE HttpOk(d)
      BY <3>1, <3>2, ReceiveType, EmptyIsFile, StoreAssumption DEF HttpOk, TypeOK, ScreenOK
    <3>3. CASE HttpPartial(d)
      <4>1. dl[d].at \in 0..MaxSize BY DEF TypeOK, Call
      <4> QED BY <3>1, <3>3, <4>1, ReceiveType, EmptyIsFile DEF HttpPartial, TypeOK, ScreenOK
    <3>4. CASE HttpError(d) BY <3>1, <3>4, ReportType DEF HttpError, TypeOK, ScreenOK
    <3>5. CASE Throws(d) /\ UNCHANGED temp BY <3>1, <3>5, ThrowsType DEF TypeOK, ScreenOK
    <3> QED BY <2>3, <3>2, <3>3, <3>4, <3>5 DEF Connect
  <2>4. CASE ReadBlock(d)
    <3>1. UNCHANGED <<active, shown, lost>>
          /\ (events' = events \/ events' = Sent(d, events, "busy"))
      BY <2>4 DEF ReadBlock, Send, screen
    <3>2. events' \in Seq(Events) /\ Len(events') <= BufferSize
      BY <3>1, SentType DEF TypeOK, Events
    <3> QED BY <2>4, <3>1, <3>2, ReadBlockType DEF ReadBlock, TypeOK
  <2>5. CASE BreakStream(d)
    BY <2>5, ThrowsType DEF BreakStream, TypeOK, ScreenOK, files
  <2>6. CASE EndOfStream(d)
    <3>0. \A c \in Call : [c EXCEPT !.fd = "final"] \in Call /\ [c EXCEPT !.fd = "lost"] \in Call
      BY DEF Call
    <3>1. Renamed \in [Downloads -> Call] BY <3>0 DEF TypeOK, Renamed
    <3>2. \A t \in [Downloads -> Call] : \A pc \in Pcs :
              [t EXCEPT ![d].pc = pc] \in [Downloads -> Call]
      BY DEF Call, Pcs
    <3>3. dl' \in [Downloads -> Call]
      BY <2>6, <3>1, <3>2 DEF EndOfStream, TypeOK, Pcs
    <3>4. events' \in Seq(Events) /\ Len(events') <= BufferSize
      BY <2>6, SentType DEF EndOfStream, TypeOK, Events
    <3> QED BY <2>6, <3>3, <3>4 DEF EndOfStream, TypeOK
  <2>7. CASE Extract(d)
    <3>1. dl' \in [Downloads -> Call]
      <4>1. PICK pc \in {"commit", "cleanDir"} : Goto(d, pc) BY <2>7 DEF Extract
      <4> QED BY <4>1, GotoType DEF Goto, Pcs
    <3>2. extracted' \in PartFiles
      <4>1. ASSUME NEW v \in 1..Versions, NEW f \in PartFiles
            PROVE  [p \in PartNames |-> IF p \in Parts[v] THEN v ELSE f[p]] \in PartFiles
        BY Constants DEF PartFiles, Torn
      <4>2. extracted \in PartFiles BY DEF TypeOK
      <4> QED BY <2>7, <4>1, <4>2, ExtractingType DEF Extract
    <3> QED BY <2>7, <3>1, <3>2 DEF Extract, TypeOK, screen
  <2>8. CASE CommitParts(d)
    <3>1. dl' \in [Downloads -> Call]
      <4>1. PICK ok \in BOOLEAN : Ends(d, "cleanDir", ok) BY <2>8 DEF CommitParts
      <4> QED BY <4>1, GotoType DEF Ends, Pcs
    <3>2. committed' \in [file : File \cup {NoFile}, parts : PartFiles]
      <4>1. extracted \in PartFiles
            /\ committed \in [file : File \cup {NoFile}, parts : PartFiles] BY DEF TypeOK
      <4> QED BY <2>8, <4>1, CommittedType DEF CommitParts
    <3> QED BY <2>8, <3>1, <3>2 DEF CommitParts, TypeOK, screen
  <2>9. CASE CleanDir(d)
    <3>1. CASE dl[d].ok
      BY <2>9, <3>1, ReportType, EmptyIsFile DEF CleanDir, TypeOK, ScreenOK
    <3>2. CASE ~dl[d].ok
      <4>1. dl' \in [Downloads -> Call]
        <5>1. dl' = [dl EXCEPT ![d].pc = "install"] BY <2>9, <3>2 DEF CleanDir, Goto
        <5>2. "install" \in Pcs BY DEF Pcs
        <5> QED BY <5>1, <5>2, GotoType
      <4> QED BY <2>9, <3>2, <4>1, EmptyIsFile DEF CleanDir, TypeOK, screen
    <3> QED BY <3>1, <3>2
  <2>10. CASE InstallFile(d)
    <3>1. dl' \in [Downloads -> Call]
      <4>1. PICK ok \in BOOLEAN : Ends(d, "clean", ok) BY <2>10 DEF InstallFile
      <4> QED BY <4>1, GotoType DEF Ends, Pcs
    <3>2. committed' \in [file : File \cup {NoFile}, parts : PartFiles]
      <4>1. final \in File \cup {NoFile}
            /\ committed \in [file : File \cup {NoFile}, parts : PartFiles] BY DEF TypeOK
      <4> QED BY <2>10, <4>1, EmptyIsFile, CommittedType DEF InstallFile
    <3> QED BY <2>10, <3>1, <3>2 DEF InstallFile, TypeOK, screen
  <2>11. CASE CleanFile(d)
    BY <2>11, ReportType, ThrowsType DEF CleanFile, TypeOK, ScreenOK
  <2> QED BY <1>4, <2>1, <2>2, <2>3, <2>4, <2>5, <2>6, <2>7, <2>8, <2>9, <2>10, <2>11 DEF Step
<1>5. CASE Publish BY <1>5, StoreAssumption DEF Publish, TypeOK, screen, files
<1>6. CASE Die
  <2>1. PICK d \in Downloads : Remains(d) BY <1>6 DEF Die
  <2>2. extracted' \in PartFiles
    <3>1. ASSUME NEW gone \in SUBSET PartNames, NEW f \in PartFiles
          PROVE  [p \in PartNames |-> IF p \in gone THEN 0 ELSE f[p]] \in PartFiles
      BY Constants DEF PartFiles, Torn
    <3>2. extracted \in PartFiles BY DEF TypeOK
    <3> QED BY <2>1, <3>1, <3>2, ExtractingType DEF Remains
  <2>3. final' \in File \cup {NoFile} BY <2>1 DEF Remains, TypeOK
  <2> QED BY <1>0a, <1>6, <2>2, <2>3, IdleType DEF Die, NoScreen, TypeOK
<1>7. CASE UNCHANGED vars BY <1>7 DEF vars, screen, files, TypeOK
<1> QED BY <1>1, <1>2, <1>3, <1>4, <1>5, <1>6, <1>7, <1>9 DEF Next

\* What ends an attempt changes its download alone, which reads and installs no more.
Leaves(d, e) ==
    /\ d # e => dl'[e] = dl[e]
    /\ d = e => dl'[e].pc \in {"idle", "delay", "await"}

LEMMA LeavesAttempt ==
  ASSUME TypeOK, NEW d \in Downloads, NEW e \in Downloads,
         Report(d, "installed") \/ Report(d, "error") \/ Throws(d)
  PROVE  Leaves(d, e)
<1>1. dl \in [Downloads -> Call] BY DEF TypeOK
<1>2. ASSUME NEW p, Report(d, p) PROVE Leaves(d, e)
  BY <1>1, <1>2 DEF Report, Leaves, Idle, Waiting
<1>3. CASE Throws(d) /\ dl[d].attempt < MaxRetries
  <2>1. CASE dl[d].heard
    <3> DEFINE x == [Idle EXCEPT !.pc = "delay", !.heard = TRUE, !.attempt = dl[d].attempt + 1]
    <3>1. dl' = [dl EXCEPT ![d] = x] BY <1>3, <2>1 DEF Throws
    <3>2. x.pc = "delay" BY DEF Idle
    <3> QED BY <1>1, <3>1, <3>2 DEF Leaves
  <2>2. CASE ~dl[d].heard BY <1>1, <1>3, <2>2 DEF Throws, Leaves, Idle
  <2> QED BY <2>1, <2>2
<1> QED BY <1>2, <1>3 DEF Throws

\* A step of one download leaves another where it is, but for a file that is renamed.
LEMMA OthersKeep ==
  ASSUME TypeOK, NEW d \in Downloads, NEW e \in Downloads, d # e, Step(d)
  PROVE  /\ dl'[e].pc = dl[e].pc /\ dl'[e].at = dl[e].at /\ dl'[e].pos = dl[e].pos
         /\ dl'[e].fd = dl[e].fd \/ dl'[e].fd # "temp"
<1>1. dl \in [Downloads -> Call] BY DEF TypeOK
<1>2. CASE Report(d, "installed") \/ Report(d, "error") \/ Throws(d)
  BY <1>2, LeavesAttempt DEF Leaves
<1>3. CASE EndOfStream(d)
  <2>1. dl'[e] = dl[e] \/ dl'[e] = Renamed[e] BY <1>1, <1>3 DEF EndOfStream, Renamed
  <2> QED BY <1>1, <2>1 DEF Renamed, Call
<1>4. CASE Retry(d) \/ OpenConnection(d) \/ HttpOk(d) \/ HttpPartial(d) \/ ReadBlock(d)
  BY <1>1, <1>4 DEF Retry, Goto, OpenConnection, HttpOk, HttpPartial, Receive, ReadBlock
<1>5. CASE Extract(d) \/ CommitParts(d) \/ InstallFile(d)
           \/ (CleanDir(d) /\ ~dl[d].ok)
  BY <1>1, <1>5 DEF Extract, Goto, CommitParts, InstallFile, Ends, CleanDir
<1> QED BY <1>2, <1>3, <1>4, <1>5 DEF Step, Connect, HttpError, BreakStream, CleanDir, CleanFile

\* The stream that is read, and its file
LEMMA StreamNext == TypeInv /\ [Next]_vars => TypeInv'
<1> SUFFICES ASSUME TypeInv, [Next]_vars PROVE TypeInv' OBVIOUS
<1>0. TypeOK /\ TypeOK' BY TypeNext DEF TypeInv
<1> DEFINE At1(d) == At(d, "read") =>
                        dl[d].pos = dl[d].at /\ (dl[d].fd = "temp" => temp # NoFile)
<1> SUFFICES ASSUME NEW e \in Downloads PROVE At1(e)' BY <1>0 DEF TypeInv
<1>1. At1(e) BY DEF TypeInv
<1>2. CASE OpenScreen BY <1>1, <1>2 DEF OpenScreen, files, At
<1>3. CASE CloseScreen
  BY <1>0, <1>1, <1>3 DEF CloseScreen, files, At, Idle, TypeOK, Call
<1>9. CASE Collect BY <1>1, <1>9 DEF Collect, files, At
<1>4. CASE updateApp BY <1>0, <1>1, <1>4, ZenonT(40) DEF updateApp, files, At, Idle, TypeOK
<1>5. ASSUME NEW d \in Downloads, Step(d) PROVE At1(e)'
  <2>1. Report(d, "installed") \/ Report(d, "error") \/ Throws(d) => Leaves(d, e)
    BY <1>0, LeavesAttempt
  <2>2. CASE temp' = temp \/ temp' # NoFile
    <3>1. CASE d # e
      <4>1. dl'[e].pc = dl[e].pc /\ dl'[e].at = dl[e].at /\ dl'[e].pos = dl[e].pos
            /\ (dl'[e].fd = dl[e].fd \/ dl'[e].fd # "temp")
        BY <1>0, <1>5, <3>1, OthersKeep
      <4> QED BY <1>1, <2>2, <4>1 DEF At
    <3>2. CASE d = e
      <4>1. CASE Connect(d)
        <5>1. CASE HttpOk(d) \/ HttpPartial(d)
          <6>1. dl'[e].pos = dl'[e].at
            BY <1>0, <3>2, <5>1 DEF HttpOk, HttpPartial, Receive, TypeOK, Call
          <6>2. temp' # NoFile
            BY <5>1, EmptyIsFile, NoFileAssumption DEF HttpOk, HttpPartial
          <6> QED BY <6>1, <6>2
        <5>2. CASE HttpError(d) \/ Throws(d)
          BY <2>1, <3>2, <5>2 DEF HttpError, Leaves, At
        <5> QED BY <4>1, <5>1, <5>2 DEF Connect
      <4>2. CASE ReadBlock(d) BY <1>0, <1>1, <2>2, <3>2, <4>2 DEF ReadBlock, At, TypeOK, Call
      <4>3. CASE ~Connect(d) /\ ~ReadBlock(d)
        <5>1. dl'[e].pc # "read"
          <6>1. CASE Report(d, "installed") \/ Report(d, "error") \/ Throws(d)
            BY <2>1, <3>2, <6>1 DEF Leaves
          <6>2. CASE EndOfStream(d) BY <1>0, <3>2, <6>2 DEF EndOfStream, Renamed, TypeOK
          <6>0. dl \in [Downloads -> Call] BY <1>0 DEF TypeOK
          <6>3. CASE Retry(d) BY <3>2, <6>0, <6>3 DEF Retry, Goto
          <6>4. CASE OpenConnection(d) BY <3>2, <6>0, <6>4 DEF OpenConnection
          <6>5. ASSUME NEW pc \in {"commit", "cleanDir", "install", "clean"},
                       dl' = [dl EXCEPT ![d].pc = pc]
                PROVE  dl'[e].pc # "read"
            BY <3>2, <6>0, <6>5
          <6>6. ASSUME NEW pc \in {"cleanDir", "clean"}, NEW ok \in BOOLEAN, Ends(d, pc, ok)
                PROVE  dl'[e].pc # "read"
            BY <3>2, <6>0, <6>6 DEF Ends
          <6>7. CASE Extract(d) BY <6>5, <6>7 DEF Extract, Goto
          <6>8. CASE CommitParts(d) BY <6>6, <6>8 DEF CommitParts
          <6>9. CASE InstallFile(d) BY <6>6, <6>9 DEF InstallFile
          <6>10. CASE CleanDir(d) /\ ~dl[d].ok BY <6>5, <6>10 DEF CleanDir, Goto
          <6> QED BY <1>5, <4>3, <6>1, <6>2, <6>3, <6>4, <6>5,
                 <6>7, <6>8, <6>9, <6>10 DEF Step, BreakStream, CleanDir,
                 CleanFile
        <5> QED BY <5>1 DEF At
      <4> QED BY <4>1, <4>2, <4>3
    <3> QED BY <3>1, <3>2
  <2>3. CASE ~(temp' = temp \/ temp' # NoFile)
    <3>1. EndOfStream(d)
      <4>1. ~ReadBlock(d)
        <5>1. ReadBlock(d) /\ temp = NoFile => temp' = temp
          BY <1>1, <2>3 DEF ReadBlock, TypeInv
        <5> QED BY <2>3, <5>1, ReadBlockType
      <4>2. ~Connect(d)
        BY <2>3, EmptyIsFile, NoFileAssumption DEF Connect, HttpOk, HttpPartial, HttpError
      <4> QED BY <1>5, <2>3, <4>1, <4>2 DEF Step, Retry, OpenConnection, BreakStream,
                Extract, CommitParts, CleanDir, InstallFile, CleanFile, files
    <3>2. PICK p \in {"extract", "install"} : dl' = [Renamed EXCEPT ![d].pc = p]
      BY <2>3, <3>1 DEF EndOfStream
    <3>3. /\ Renamed[e].pc = dl[e].pc /\ Renamed[e].at = dl[e].at
          /\ Renamed[e].pos = dl[e].pos /\ Renamed[e].fd # "temp"
      <4>1. dl[e] \in Call BY <1>0 DEF TypeOK
      <4>2. Renamed[e] = IF dl[e].fd = "temp" THEN [dl[e] EXCEPT !.fd = "final"]
                         ELSE IF dl[e].fd = "final" THEN [dl[e] EXCEPT !.fd = "lost"]
                         ELSE dl[e]
        BY DEF Renamed
      <4> QED BY <4>1, <4>2 DEF Call
    <3>4. CASE d = e
      <4>1. dl'[e] = [Renamed[e] EXCEPT !.pc = p] BY <3>2, <3>4 DEF Renamed
      <4>2. "pc" \in DOMAIN Renamed[e] BY <1>0 DEF Renamed, TypeOK, Call
      <4>3. dl'[e].pc # "read" BY <4>1, <4>2
      <4> QED BY <4>3 DEF At
    <3>5. CASE d # e
      <4>1. dl'[e] = Renamed[e] BY <3>2, <3>5 DEF Renamed
      <4> QED BY <1>1, <3>3, <3>5, <4>1 DEF At
    <3> QED BY <3>4, <3>5
  <2> QED BY <2>2, <2>3
<1>6. CASE Publish BY <1>1, <1>6 DEF Publish, files, At
<1>7. CASE Die BY <1>7 DEF Die, At, Idle
<1>8. CASE UNCHANGED vars BY <1>1, <1>8 DEF vars, files, At
<1> QED BY <1>2, <1>3, <1>4, <1>5, <1>6, <1>7, <1>8, <1>9 DEF Next

\* For every number of versions, blocks, attempts and downloads: the state is
\* well-formed, the attempts do not pass maxRetries and no file grows past its version.
THEOREM TypeCorrect == Spec => []TypeOK
<1>1. Init => TypeInv
  <2> SUFFICES ASSUME Init PROVE TypeInv OBVIOUS
  <2> QED BY TypeInit DEF Init, TypeInv, At, Idle
<1>2. TypeInv => TypeOK BY DEF TypeInv
<1> QED BY <1>1, <1>2, StreamNext, PTL DEF Spec

-----------------------------------------------------------------------------
(* What is installed                                                       *)

\* One thread, a server that goes on with what was begun, streams that say they break
Sound == Faults \cap {"overlap", "stale_range", "no_length"} = {}

LEMMA WholeIsPrefix ==
  ASSUME NEW v \in 1..Versions PROVE FileOf(v) = Prefix(v, Size[v])
  BY DEF FileOf, Prefix

\* A file that is not empty is the beginning of one version, and of one length.
LEMMA PrefixIsOne ==
  ASSUME NEW v \in 1..Versions, NEW w \in 1..Versions,
         NEW n \in 1..MaxSize, NEW m \in 0..MaxSize, Prefix(v, n) = Prefix(w, m)
  PROVE  v = w /\ n = m
<1>1. n = m BY DEF Prefix
<1>2. 1 \in Offsets /\ 1 <= n BY StoreAssumption DEF Offsets
<1>3. Prefix(v, n).data[1] = <<v, 1>> BY <1>2 DEF Prefix
<1>4. Prefix(w, m).data[1] = <<w, 1>> BY <1>1, <1>2 DEF Prefix
<1> QED BY <1>1, <1>3, <1>4

LEMMA WholeIsOne ==
  ASSUME NEW v \in 1..Versions, NEW w \in 1..Versions, FileOf(v) = FileOf(w) PROVE v = w
<1>1. Size[v] \in 1..MaxSize /\ Size[w] \in 0..MaxSize BY Constants
<1>2. Prefix(v, Size[v]) = Prefix(w, Size[w]) BY WholeIsPrefix
<1> QED BY <1>1, <1>2, PrefixIsOne

LEMMA EmptyIsPrefix ==
  ASSUME NEW v \in 1..Versions, NEW w \in 1..Versions
  PROVE  Prefix(v, 0) = EmptyFile /\ Prefix(v, 0) = Prefix(w, 0)
<1>1. \A i \in Offsets : ~(i <= 0) BY StoreAssumption DEF Offsets
<1>2. \A u \in 1..Versions : Prefix(u, 0).data = [i \in Offsets |-> Nothing]
  BY <1>1 DEF Prefix
<1> QED BY <1>2 DEF Prefix, EmptyFile

\* A block more
LEMMA WrittenIsPrefix ==
  ASSUME NEW v \in 1..Versions, NEW n \in 0..MaxSize, n < Size[v]
  PROVE  Written(Prefix(v, n), n, <<v, n + 1>>) = Prefix(v, n + 1)
<1> DEFINE W == Written(Prefix(v, n), n, <<v, n + 1>>)
<1>1. n + 1 \in Offsets /\ n \in Nat BY Constants DEF Offsets
<1>2. W.size = n + 1 BY <1>1 DEF Written, Prefix
<1>3. W.data = [i \in Offsets |-> IF i <= n + 1 THEN <<v, i>> ELSE Nothing]
  <2>1. W.data = [Prefix(v, n).data EXCEPT ![n + 1] = <<v, n + 1>>] BY DEF Written
  <2>2. Prefix(v, n).data = [i \in Offsets |-> IF i <= n THEN <<v, i>> ELSE Nothing]
    BY DEF Prefix
  <2>3. \A i \in Offsets : i # n + 1 => (i <= n <=> i <= n + 1) BY <1>1 DEF Offsets
  <2>4. W.data = [i \in Offsets |-> IF i = n + 1 THEN <<v, n + 1>>
                                   ELSE IF i <= n THEN <<v, i>> ELSE Nothing]
    BY <2>1, <2>2
  <2>5. \A i \in Offsets :
            (IF i = n + 1 THEN <<v, n + 1>> ELSE IF i <= n THEN <<v, i>> ELSE Nothing)
                = (IF i <= n + 1 THEN <<v, i>> ELSE Nothing)
    <3> SUFFICES ASSUME NEW i \in Offsets
                 PROVE  (IF i = n + 1 THEN <<v, n + 1>> ELSE IF i <= n THEN <<v, i>> ELSE Nothing)
                            = (IF i <= n + 1 THEN <<v, i>> ELSE Nothing)
      OBVIOUS
    <3>1. CASE i = n + 1 BY <1>1, <3>1
    <3>2. CASE i # n + 1 BY <2>3, <3>2
    <3> QED BY <3>1, <3>2
  <2> QED BY <2>4, <2>5
<1> QED BY <1>2, <1>3 DEF Written, Prefix

\* While one download runs its step leaves the others idle.
LEMMA Alone ==
  ASSUME TypeOK, OneRuns, NEW d \in Downloads, Step(d)
  PROVE  /\ Running(d)
         /\ \A e \in Downloads : e # d => dl'[e].pc = "idle"
<1>1. Running(d)
  BY DEF Step, Retry, OpenConnection, Connect, ReadBlock, BreakStream, EndOfStream,
     Extract, CommitParts, CleanDir, InstallFile, CleanFile, At, Running
<1> QED BY <1>1, OthersKeep DEF OneRuns, Running

\* What a step of d has to show
StepInv(d) == TempInv /\ DlInv(d) /\ InstalledIsWhole

LEMMA StepSuffices ==
  ASSUME StoreInv, NEW d \in Downloads, Step(d), TypeOK', StepInv(d)'
  PROVE  StoreInv'
<1>1. \A e \in Downloads : e # d => dl'[e].pc = "idle" BY Alone DEF StoreInv
<1>2. OneRuns' BY <1>1 DEF OneRuns, Running
<1>3. ASSUME NEW e \in Downloads, e # d PROVE DlInv(e)' BY <1>1, <1>3 DEF DlInv, At
<1> QED BY <1>2, <1>3 DEF StoreInv, StepInv

\* A download that waits or has ended promises nothing.
LEMMA EndedInv ==
  ASSUME NEW d \in Downloads, dl'[d].pc \in {"idle", "open", "delay", "await", "clean"}
  PROVE  DlInv(d)'
  BY DEF DlInv, At

\* The stream begins with what the file holds.
LEMMA ConnectInv ==
  ASSUME StoreInv, Sound, NEW d \in Downloads, Connect(d) PROVE StepInv(d)'
<1>0. TypeOK /\ TempInv /\ DlInv(d) /\ InstalledIsWhole BY DEF StoreInv
<1>1. server \in 1..Versions /\ dl \in [Downloads -> Call] BY <1>0 DEF TypeOK
<1>2. InstalledIsWhole'
  BY <1>0 DEF Connect, InstalledIsWhole
<1>3. ASSUME NEW n \in 0..Size[server], Receive(d, n, n), temp' = Prefix(server, n)
      PROVE  StepInv(d)'
  <2>1. dl'[d].pc = "read" /\ dl'[d].at = n /\ dl'[d].pos = n /\ dl'[d].ver = server
        /\ dl'[d].fd = "temp"
    BY <1>1, <1>3 DEF Receive, Call
  <2>2. UNCHANGED extracted BY DEF Connect
  <2>4. TempInv' BY <1>1, <1>3 DEF TempInv
  <2>5. DlInv(d)' BY <1>3, <2>1 DEF DlInv, At
  <2> QED BY <1>2, <2>4, <2>5 DEF StepInv
<1>4. CASE HttpOk(d)
  <2>1. 0 \in 0..Size[server] BY <1>1, Constants
  <2> QED BY <1>1, <1>3, <1>4, <2>1, EmptyIsPrefix DEF HttpOk
<1>5. CASE HttpPartial(d)
  <2>1. temp # NoFile /\ dl[d].at = temp.size
    BY <1>0, <1>5 DEF Connect, HttpPartial, DlInv
  <2> PICK w \in 1..Versions : \E k \in 0..Size[w] : temp = Prefix(w, k)
    BY <1>0, <2>1 DEF TempInv
  <2>2. PICK n \in 0..Size[w] : temp = Prefix(w, n) OBVIOUS
  <2>3. dl[d].at = n /\ n < Size[server] BY <1>5, <2>1, <2>2 DEF HttpPartial, Prefix
  <2>4. temp = Prefix(server, n)
    <3>1. CASE n = 0 BY <1>1, <2>2, <3>1, EmptyIsPrefix
    <3>2. CASE n # 0
      <4>1. 1 \in 1..temp.size /\ 1 \in Offsets
        BY <2>2, <3>2, Constants DEF Prefix, Offsets
      <4>2. temp.data[1][1] = server
        BY <1>5, <2>1, <4>1 DEF HttpPartial, SameVersion, Sound
      <4>3. temp.data[1] = <<w, 1>> BY <2>2, <4>1 DEF Prefix
      <4> QED BY <2>2, <4>2, <4>3
    <3> QED BY <3>1, <3>2
  <2>5. n \in 0..Size[server] BY <1>1, <2>3, Constants
  <2> QED BY <1>3, <1>5, <2>1, <2>3, <2>4, <2>5 DEF HttpPartial
<1>6. CASE HttpError(d) \/ (Throws(d) /\ UNCHANGED temp)
  <2>1. DlInv(d)' BY <1>0, <1>6, LeavesAttempt, EndedInv DEF HttpError, Leaves
  <2>2. TempInv' BY <1>0, <1>6 DEF HttpError, TempInv
  <2> QED BY <1>2, <2>1, <2>2 DEF StepInv
<1> QED BY <1>4, <1>5, <1>6 DEF Connect

\* A block is written behind those that are there.
LEMMA ReadInv ==
  ASSUME StoreInv, NEW d \in Downloads, ReadBlock(d) PROVE StepInv(d)'
<1>0. TypeOK /\ DlInv(d) /\ InstalledIsWhole BY DEF StoreInv
<1>1. dl \in [Downloads -> Call] /\ dl[d] \in Call BY <1>0 DEF TypeOK
<1> DEFINE v == dl[d].ver
           n == dl[d].at
<1>2. v \in 1..Versions /\ n \in 0..MaxSize /\ n < Size[v] /\ n + 1 \in 0..Size[v]
  BY <1>1, Constants DEF ReadBlock, Call
<1>3. dl[d].fd = "temp" /\ dl[d].pos = n /\ temp = Prefix(v, n)
  BY <1>0 DEF DlInv, ReadBlock
<1>4. dl'[d].pc = "read" /\ dl'[d].ver = v /\ dl'[d].at = n + 1 /\ dl'[d].pos = n + 1
      /\ dl'[d].fd = "temp"
  BY <1>1, <1>3 DEF ReadBlock, At, Call
<1>5. temp' = Prefix(v, n + 1) BY <1>2, <1>3, WrittenIsPrefix DEF ReadBlock
<1>7. TempInv' BY <1>2, <1>5 DEF TempInv
<1>8. DlInv(d)' BY <1>2, <1>4, <1>5 DEF DlInv, At
<1> QED BY <1>0, <1>7, <1>8 DEF StepInv, ReadBlock, InstalledIsWhole

\* The file is whole when it gets its name.
LEMMA EndInv ==
  ASSUME StoreInv, Sound, NEW d \in Downloads, EndOfStream(d) PROVE StepInv(d)'
<1>0. TypeOK /\ DlInv(d) /\ InstalledIsWhole BY DEF StoreInv
<1>1. dl \in [Downloads -> Call] /\ dl[d] \in Call /\ dl[d].ver \in 1..Versions
  BY <1>0 DEF TypeOK, Call
<1>2. temp = FileOf(dl[d].ver)
  BY <1>0, <1>1, WholeIsPrefix DEF DlInv, EndOfStream, Sound
<1>3. temp # NoFile BY <1>1, <1>2, FileType, NoFileAssumption
<1>4. final' = FileOf(dl[d].ver) /\ temp' = NoFile BY <1>2, <1>3 DEF EndOfStream
<1>5. dl'[d].ver = dl[d].ver
      /\ dl'[d].pc = (IF IsArchive(final') THEN "extract" ELSE "install")
  BY <1>1, <1>3 DEF EndOfStream, Renamed, Call
<1>8. IsArchive(final') => Parts[dl[d].ver] # {}
  BY <1>1, <1>4, WholeIsOne DEF IsArchive
<1>7. DlInv(d)' BY <1>4, <1>5, <1>8 DEF DlInv, At
<1> QED BY <1>0, <1>4, <1>7 DEF StepInv, EndOfStream, TempInv, InstalledIsWhole

\* Every part of the archive is in the directory, whatever was left in it.
LEMMA ExtractInv ==
  ASSUME StoreInv, NEW d \in Downloads, Extract(d) PROVE StepInv(d)'
<1>0. TypeOK /\ TempInv /\ DlInv(d) /\ InstalledIsWhole BY DEF StoreInv
<1>1. dl \in [Downloads -> Call] /\ dl[d].ver \in 1..Versions BY <1>0 DEF TypeOK, Call
<1>2. final = FileOf(dl[d].ver) /\ Parts[dl[d].ver] # {} BY <1>0 DEF DlInv, Extract, At
<1>3. TempInv' /\ InstalledIsWhole' BY <1>0 DEF Extract, TempInv, InstalledIsWhole
<1>4. CASE Goto(d, "cleanDir")
  <2>1. dl'[d].ver = dl[d].ver /\ dl'[d].pc = "cleanDir" BY <1>1, <1>4 DEF Goto, Call
  <2> QED BY <1>2, <1>3, <2>1 DEF StepInv, DlInv, At, Extract
<1>5. ASSUME NEW v \in 1..Versions, final = FileOf(v), Goto(d, "commit"),
             extracted' = [p \in PartNames |-> IF p \in Parts[v] THEN v ELSE extracted[p]]
      PROVE  StepInv(d)'
  <2>1. v = dl[d].ver BY <1>1, <1>2, <1>5, WholeIsOne
  <2>2. dl'[d].ver = v /\ dl'[d].pc = "commit" BY <1>1, <1>5, <2>1 DEF Goto, Call
  <2>3. \A p \in Parts[v] : extracted'[p] = v BY <1>5, Constants
  <2>4. DlInv(d)' BY <1>2, <2>1, <2>2, <2>3 DEF DlInv, At, Extract
  <2> QED BY <1>3, <2>4 DEF StepInv
<1> QED BY <1>4, <1>5 DEF Extract

\* What is handed over is the archive's parts, or the file.
LEMMA InstallInv ==
  ASSUME StoreInv, NEW d \in Downloads,
         CommitParts(d) \/ CleanDir(d) \/ InstallFile(d) \/ CleanFile(d)
  PROVE  StepInv(d)'
<1>0. TypeOK /\ TempInv /\ DlInv(d) /\ InstalledIsWhole BY DEF StoreInv
<1>1. dl \in [Downloads -> Call] /\ dl[d].ver \in 1..Versions BY <1>0 DEF TypeOK, Call
<1>2. TempInv' BY <1>0 DEF CommitParts, CleanDir, InstallFile, CleanFile, TempInv
<1>3. CASE CommitParts(d)
  <2>1. final = FileOf(dl[d].ver) /\ Parts[dl[d].ver] # {}
        /\ \A p \in Parts[dl[d].ver] : extracted[p] = dl[d].ver
    BY <1>0, <1>3 DEF DlInv, CommitParts, At
  <2>2. dl'[d].ver = dl[d].ver /\ dl'[d].pc = "cleanDir"
    BY <1>1, <1>3 DEF CommitParts, Ends, Call
  <2>3. DlInv(d)' BY <1>3, <2>1, <2>2 DEF DlInv, At, CommitParts
  <2>4. InstalledIsWhole'
    <3>1. CASE UNCHANGED committed BY <1>0, <3>1 DEF InstalledIsWhole
    <3>2. CASE committed' = [file |-> NoFile, parts |-> extracted]
      BY <1>1, <2>1, <3>2 DEF InstalledIsWhole
    <3> QED BY <1>3, <3>1, <3>2 DEF CommitParts
  <2> QED BY <1>0, <1>2, <1>3, <2>3, <2>4 DEF StepInv, CommitParts
<1>4. CASE CleanDir(d)
  <2>1. extracted' = NoParts /\ UNCHANGED committed BY <1>4 DEF CleanDir
  <2>2. InstalledIsWhole'
    BY <1>0, <2>1 DEF NoParts, InstalledIsWhole
  <2>3. CASE dl[d].ok
    BY <1>0, <1>2, <1>4, <2>2, <2>3, LeavesAttempt, EndedInv DEF CleanDir, StepInv, Leaves
  <2>4. CASE ~dl[d].ok
    <3>1. final' = FileOf(dl[d].ver) BY <1>0, <1>4, <2>4 DEF DlInv, CleanDir, At
    <3>2. dl'[d].ver = dl[d].ver /\ dl'[d].pc = "install"
      BY <1>1, <1>4, <2>4 DEF CleanDir, Goto, Call
    <3> QED BY <1>2, <2>2, <3>1, <3>2 DEF StepInv, DlInv, At
  <2> QED BY <2>3, <2>4
<1>5. CASE InstallFile(d)
  <2>1. final = FileOf(dl[d].ver) BY <1>0, <1>5 DEF DlInv, InstallFile, At
  <2>2. dl'[d].pc = "clean"
    <3>1. PICK ok \in BOOLEAN : Ends(d, "clean", ok) BY <1>5 DEF InstallFile
    <3> QED BY <1>1, <3>1 DEF Ends
  <2>3. InstalledIsWhole'
    <3>1. CASE UNCHANGED committed BY <1>0, <3>1 DEF InstalledIsWhole
    <3>2. CASE committed' = [file |-> final, parts |-> NoParts]
      BY <1>1, <2>1, <3>2 DEF InstalledIsWhole
    <3> QED BY <1>5, <3>1, <3>2 DEF InstallFile
  <2> QED BY <1>0, <1>2, <1>5, <2>2, <2>3, EndedInv DEF StepInv, InstallFile
<1>6. CASE CleanFile(d)
  <2>1. DlInv(d)' BY <1>0, <1>6, LeavesAttempt, EndedInv DEF CleanFile, Leaves
  <2> QED BY <1>0, <1>2, <1>6, <2>1 DEF StepInv, CleanFile, InstalledIsWhole
<1> QED BY <1>3, <1>4, <1>5, <1>6

LEMMA StoreInit == Init => StoreInv
<1> SUFFICES ASSUME Init PROVE StoreInv OBVIOUS
<1>1. \A d \in Downloads : dl[d] = Idle BY DEF Init
<1>2. OneRuns BY <1>1 DEF OneRuns, Running, Idle, Init
<1>3. \A d \in Downloads : DlInv(d) BY <1>1 DEF DlInv, At, Idle
<1>4. TempInv /\ InstalledIsWhole
  BY DEF Init, TempInv, NoParts, InstalledIsWhole
<1> QED BY <1>2, <1>3, <1>4, TypeInit DEF StoreInv

LEMMA StoreNext == Sound /\ TypeInv /\ StoreInv /\ [Next]_vars => StoreInv'
<1> SUFFICES ASSUME Sound, TypeInv, StoreInv, [Next]_vars PROVE StoreInv' OBVIOUS
<1>0. TypeOK' BY TypeNext
<1>1. dl \in [Downloads -> Call] /\ server \in 1..Versions BY DEF StoreInv, TypeOK
<1>2. ASSUME UNCHANGED <<temp, committed>>, OneRuns', \A d \in Downloads : DlInv(d)'
      PROVE  StoreInv'
  <2>1. TempInv' /\ InstalledIsWhole' BY <1>2 DEF StoreInv, TempInv, InstalledIsWhole
  <2> QED BY <1>0, <1>2, <2>1 DEF StoreInv
<1>3. CASE OpenScreen \/ Collect \/ Publish \/ UNCHANGED vars
  <2>1. UNCHANGED <<dl, files>> BY <1>3 DEF OpenScreen, Collect, Publish, vars
  <2>2. OneRuns' /\ \A d \in Downloads : DlInv(d)'
    BY <2>1 DEF StoreInv, OneRuns, Running, DlInv, At, files
  <2> QED BY <1>2, <2>1, <2>2 DEF files
<1>4. CASE CloseScreen
  <2>1. UNCHANGED files BY <1>4 DEF CloseScreen
  <2>2. ASSUME NEW d \in Downloads
        PROVE  \/ dl'[d] = Idle
               \/ /\ dl'[d].pc = dl[d].pc /\ dl'[d].at = dl[d].at /\ dl'[d].pos = dl[d].pos
                  /\ dl'[d].ver = dl[d].ver /\ dl'[d].range = dl[d].range
                  /\ dl'[d].fd = dl[d].fd
    BY <1>1, <1>4 DEF CloseScreen, Call
  <2>3. OneRuns' BY <2>2 DEF StoreInv, OneRuns, Running, Idle
  <2>4. ASSUME NEW d \in Downloads PROVE DlInv(d)'
    <3>1. CASE dl'[d] = Idle BY <3>1, EndedInv DEF Idle
    <3>2. CASE dl'[d] # Idle BY <2>1, <2>2, <3>2 DEF StoreInv, DlInv, At, files
    <3> QED BY <3>1, <3>2
  <2> QED BY <1>2, <2>1, <2>3, <2>4 DEF files
<1>5. CASE updateApp
  <2>1. UNCHANGED files BY <1>5 DEF updateApp
  <2>2. CASE dl' = dl
    <3>1. OneRuns' /\ \A d \in Downloads : DlInv(d)'
      BY <2>1, <2>2 DEF StoreInv, OneRuns, Running, DlInv, At, files
    <3> QED BY <1>2, <2>1, <3>1 DEF files
  <2>3. CASE dl' # dl
    <3>1. PICK d \in Downloads :
              /\ \A e \in Downloads : ~Running(e)
              /\ dl' = [dl EXCEPT ![d] = [Idle EXCEPT !.pc = "open", !.heard = TRUE]]
      BY <1>5, <2>3 DEF updateApp, Sound
    <3>2. \A e \in Downloads : dl'[e].pc \in {"idle", "open"}
                               /\ (e # d => dl'[e].pc = "idle")
      BY <1>1, <3>1 DEF Running, Idle
    <3>3. OneRuns' BY <3>2 DEF OneRuns, Running
    <3>4. \A e \in Downloads : DlInv(e)' BY <3>2, EndedInv
    <3> QED BY <1>2, <2>1, <3>3, <3>4 DEF files
  <2> QED BY <2>2, <2>3
<1>6. ASSUME NEW d \in Downloads, Step(d) PROVE StoreInv'
  <2>1. CASE Connect(d) BY <1>0, <1>6, <2>1, ConnectInv, StepSuffices
  <2>2. CASE ReadBlock(d) BY <1>0, <1>6, <2>2, ReadInv, StepSuffices
  <2>3. CASE EndOfStream(d) BY <1>0, <1>6, <2>3, EndInv, StepSuffices
  <2>4. CASE Extract(d) BY <1>0, <1>6, <2>4, ExtractInv, StepSuffices
  <2>5. CASE CommitParts(d) \/ CleanDir(d) \/ InstallFile(d) \/ CleanFile(d)
    BY <1>0, <1>6, <2>5, InstallInv, StepSuffices
  <2>6. CASE Retry(d) \/ OpenConnection(d) \/ BreakStream(d)
    <3>1. UNCHANGED <<server, files>> BY <2>6 DEF Retry, OpenConnection, BreakStream
    <3>2. DlInv(d)'
      <4>1. CASE Retry(d)
        <5>1. dl'[d].pc = "open" BY <1>1, <4>1 DEF Retry, Goto
        <5> QED BY <5>1, EndedInv
      <4>2. CASE BreakStream(d)
        BY <4>2, LeavesAttempt, EndedInv DEF BreakStream, Leaves, StoreInv
      <4>3. CASE OpenConnection(d)
        <5>1. dl'[d].pc = "connect" /\ (dl'[d].range => temp # NoFile)
              /\ (temp # NoFile => dl'[d].at = temp.size)
          BY <1>1, <4>3 DEF OpenConnection, Call
        <5> QED BY <3>1, <5>1 DEF DlInv, At, files
      <4> QED BY <2>6, <4>1, <4>2, <4>3
    <3>3. StepInv(d)'
      BY <3>1, <3>2 DEF StepInv, StoreInv, TempInv, InstalledIsWhole, files
    <3> QED BY <1>0, <1>6, <3>3, StepSuffices
  <2> QED BY <1>6, <2>1, <2>2, <2>3, <2>4, <2>5, <2>6 DEF Step
<1>7. CASE Die
  <2>1. UNCHANGED <<temp, committed>> /\ \A d \in Downloads : dl'[d] = Idle BY <1>7 DEF Die
  <2>2. OneRuns' BY <2>1 DEF OneRuns, Running, Idle
  <2>3. \A d \in Downloads : DlInv(d)' BY <2>1, EndedInv DEF Idle
  <2> QED BY <1>2, <2>1, <2>2, <2>3
<1> QED BY <1>3, <1>4, <1>5, <1>6, <1>7 DEF Next

LEMMA StoreAlways == ASSUME Sound PROVE Spec => []StoreInv
<1>1. Init => TypeInv /\ StoreInv
  <2> SUFFICES ASSUME Init PROVE TypeInv /\ StoreInv OBVIOUS
  <2> QED BY StoreInit DEF Init, StoreInv, TypeInv, At, Idle
<1>2. TypeInv /\ StoreInv /\ [Next]_vars => TypeInv' /\ StoreInv'
  BY StreamNext, StoreNext
<1> QED BY <1>1, <1>2, PTL DEF Spec

\* For every number, size and archive of versions, attempts, closed screens and
\* processes that die, in the middle of an extraction too: what is handed to the package
\* installer is one whole version, or has every part of one.
THEOREM InstallCorrect == ASSUME Sound PROVE Spec => []InstalledIsWhole
  BY StoreAlways, PTL DEF StoreInv

\* Whatever ends an attempt, the temporary file is the beginning of one version.
THEOREM ResumeCorrect == ASSUME Sound PROVE Spec => []TempIsPrefix
<1>1. StoreInv => TempIsPrefix
  <2> SUFFICES ASSUME StoreInv, temp # NoFile
               PROVE  \E v \in 1..Versions :
                          /\ temp.size <= Size[v]
                          /\ \A i \in Offsets : temp.data[i] =
                                 IF i <= temp.size THEN <<v, i>> ELSE Nothing
    BY DEF TempIsPrefix
  <2> PICK v \in 1..Versions : \E n \in 0..Size[v] : temp = Prefix(v, n)
    BY DEF StoreInv, TempInv
  <2>1. PICK n \in 0..Size[v] : temp = Prefix(v, n) OBVIOUS
  <2>2. temp.size = n /\ n <= Size[v] BY <2>1, Constants DEF Prefix
  <2> QED BY <2>1, <2>2 DEF Prefix
<1> QED BY <1>1, StoreAlways, PTL
=============================================================================
