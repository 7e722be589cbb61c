-------------------------- MODULE AppUpdateProofs --------------------------
(***************************************************************************)
(* Proofs about the patcher's updater, for any number of releases, pieces, *)
(* checks and downloads.                                                   *)
(***************************************************************************)
EXTENDS AppUpdate, TLAPS

(***************************************************************************)
(* The inductive invariant.  These parts hold whatever overlaps: a stream  *)
(* that is linked writes into a file that is there; every tag there is has *)
(* been published; a release that is offered, fetched or checked is not    *)
(* the one installed.                                                      *)
(***************************************************************************)
LinkedIsThere ==
  \A d \in DownloadJob : downloads[d].linked => downloads[d].pc = "body" /\ apk # NoFile

OfThePast(f) == f # NoFile => \A c \in 1 .. Chunks : f[c] <= latest

Published == /\ ours <= latest /\ knownTag <= latest /\ appUpdate.tag <= latest
             /\ \A j \in CheckJob : checks[j].tag <= latest
             /\ \A d \in DownloadJob : downloads[d].tag <= latest
             /\ OfThePast(apk) /\ OfThePast(installer)

Newer(t) == t # 0 /\ t # ours

OthersOffered ==
  /\ appUpdate.st \in {"Available", "Downloading", "Downloaded"} => Newer(appUpdate.tag)
  /\ \A j \in CheckJob : checks[j].pc = "notes" => Newer(checks[j].tag)
  /\ \A d \in DownloadJob : downloads[d].pc # "none" => Newer(downloads[d].tag)

(***************************************************************************)
(* And these as long as no jobs have overlapped: there is one job at most; *)
(* a download has written what it has read; a finished one is alone, its   *)
(* file is whole, and what the installer has is whole as well; what was    *)
(* declined is not newer than what is known, offered or checked.           *)
(***************************************************************************)
Checks    == {j \in CheckJob : checks[j].pc # "none"}
Downloads == {d \in DownloadJob : downloads[d].pc # "none"}

OneJob == /\ \A i, j \in Checks : i = j
          /\ \A d, e \in Downloads : d = e
          /\ Checks = {} \/ Downloads = {}

WrittenIsRead ==
  \A d \in DownloadJob :
    /\ downloads[d].pc = "body" => downloads[d].linked
    /\ downloads[d].pc # "body" => downloads[d].done = 0
    /\ \A c \in 1 .. downloads[d].done : apk[c] = downloads[d].tag

FinishedIsWhole ==
  /\ appUpdate.st = "Downloaded" => ~ InFlight /\ Whole(apk, appUpdate.tag)
  /\ effect => appUpdate.st = "Downloaded"
  /\ installer # NoFile => /\ Downloads = {} /\ appUpdate.st # "Downloaded"
                           /\ \E t \in Tag : Whole(installer, t) /\ t # ours

DeclinedIsPast ==
  /\ declined <= knownTag
  /\ appUpdate.st = "Available" => declined <= appUpdate.tag
  /\ \A d \in DownloadJob : downloads[d].pc # "none" => declined <= downloads[d].tag
  /\ \A j \in CheckJob : checks[j].pc = "notes" =>
       /\ declined <= checks[j].tag
       /\ checks[j].silent => declined < checks[j].tag

IInv == /\ TypeOK /\ LinkedIsThere /\ Published /\ OthersOffered
        /\ ~ overlap => OneJob /\ WrittenIsRead /\ FinishedIsWhole /\ DeclinedIsPast
-----------------------------------------------------------------------------
(***************************************************************************)
(* Types.                                                                  *)
(***************************************************************************)
DataTyped == /\ appUpdate \in AppUpdate /\ shown \in AppUpdate
             /\ knownTag \in Tag /\ latest \in Tag /\ ours \in Tag /\ declined \in Tag
             /\ checks \in [CheckJob -> Check] /\ downloads \in [DownloadJob -> Download]
             /\ poll \in {"off", "delay"}
             /\ apk \in Content \cup {NoFile} /\ installer \in Content \cup {NoFile}

FlagsTyped == /\ pollEnabled \in BOOLEAN /\ backoff \in BOOLEAN /\ effect \in BOOLEAN
              /\ pollKey \in BOOLEAN /\ overlap \in BOOLEAN

LEMMA TypeParts == TypeOK <=> DataTyped /\ FlagsTyped
BY DEF TypeOK, DataTyped, FlagsTyped

\* What checkAppUpdate() does: nothing, or one job begins.
Begins(silent) ==
  /\ ~ Refused(silent)
  /\ overlap' = (overlap \/ InFlight)
  /\ \E j \in CheckJob :
       /\ checks[j].pc = "none"
       /\ checks'[j] = [pc |-> "start", silent |-> silent, tag |-> 0]
       /\ \A i \in CheckJob : i # j => checks'[i] = checks[i]

LEMMA CheckBegins ==
  ASSUME checks \in [CheckJob -> Check], NEW silent \in BOOLEAN, checkAppUpdate(silent)
  PROVE  /\ UNCHANGED <<checks, overlap>> \/ Begins(silent)
         /\ checks' \in [CheckJob -> Check]
         /\ \A j \in CheckJob : checks'[j] = checks[j]
                                \/ (checks'[j].pc = "start" /\ checks'[j].tag = 0)
<1>1. CASE UNCHANGED <<checks, overlap>>
  <2>1. checks' = checks
    BY <1>1
  <2>. QED  BY <1>1, <2>1
<1>2. CASE ~ UNCHANGED <<checks, overlap>>
  <2> DEFINE new == [pc |-> "start", silent |-> silent, tag |-> 0]
  <2>1. PICK j \in CheckJob : FirstIdle(checks, j) /\ checks' = [checks EXCEPT ![j] = new]
    BY <1>2, Zenon DEF checkAppUpdate
  <2>2. 0 \in Tag
    BY SizesAssumption DEF Tag
  <2>3. checks[j].pc = "none"
    BY <2>1, Zenon DEF FirstIdle
  <2>4. new \in Check /\ new.pc = "start" /\ new.tag = 0
    BY <2>2 DEF Check
  <2>. HIDE DEF new
  <2>5. /\ checks' \in [CheckJob -> Check] /\ checks'[j] = new
        /\ \A i \in CheckJob : i # j => checks'[i] = checks[i]
    BY <2>1, <2>4
  <2>6. ~ Refused(silent) /\ overlap' = (overlap \/ InFlight)
    BY <1>2, Zenon DEF checkAppUpdate
  <2>7. \A i \in CheckJob : checks'[i] = checks[i]
                            \/ (checks'[i].pc = "start" /\ checks'[i].tag = 0)
    BY <2>4, <2>5
  <2>. QED  BY <2>3, <2>5, <2>6, <2>7 DEF Begins, new
<1>. QED  BY <1>1, <1>2

\* And what "Download" does: nothing, or one job begins.
LEMMA DownloadBegins ==
  ASSUME DataTyped, downloadAppUpdate
  PROVE  /\ downloads' \in [DownloadJob -> Download]
         /\ UNCHANGED <<downloads, overlap>>
            \/ (/\ overlap' = (overlap \/ InFlight)
                /\ \E d \in DownloadJob :
                     \A e \in DownloadJob : e # d => downloads'[e] = downloads[e])
         /\ \A d \in DownloadJob :
              \/ downloads'[d] = downloads[d]
              \/ /\ appUpdate.st = "Available"
                 /\ downloads'[d].pc = "start" /\ downloads'[d].tag = appUpdate.tag
                 /\ downloads'[d].done = 0 /\ ~ downloads'[d].linked
<1>1. CASE UNCHANGED <<downloads, overlap>>
  BY <1>1 DEF DataTyped
<1>2. CASE ~ UNCHANGED <<downloads, overlap>>
  <2> DEFINE new == [NoDownload EXCEPT !.pc = "start", !.tag = appUpdate.tag]
  <2>1. PICK d \in DownloadJob : /\ FirstIdle(downloads, d)
                                 /\ downloads' = [downloads EXCEPT ![d] = new]
    BY <1>2, Zenon DEF downloadAppUpdate
  <2>2. 0 \in 0 .. Chunks /\ appUpdate.tag \in Tag
    BY SizesAssumption DEF DataTyped, AppUpdate
  <2>3. new \in Download
    BY <2>2 DEF Download, NoDownload
  <2>4. new.pc = "start" /\ new.tag = appUpdate.tag /\ new.done = 0 /\ ~ new.linked
    BY DEF NoDownload
  <2>. HIDE DEF new
  <2>5. /\ downloads' \in [DownloadJob -> Download] /\ downloads'[d] = new
        /\ \A e \in DownloadJob : e # d => downloads'[e] = downloads[e]
    BY <2>1, <2>3 DEF DataTyped
  <2>6. appUpdate.st = "Available" /\ overlap' = (overlap \/ InFlight)
    BY <1>2, Zenon DEF downloadAppUpdate
  <2>7. \A e \in DownloadJob :
          \/ downloads'[e] = downloads[e]
          \/ /\ appUpdate.st = "Available"
             /\ downloads'[e].pc = "start" /\ downloads'[e].tag = appUpdate.tag
             /\ downloads'[e].done = 0 /\ ~ downloads'[e].linked
    BY <2>4, <2>5, <2>6
  <2>. QED  BY <2>5, <2>6, <2>7, Zenon
<1>. QED  BY <1>1, <1>2

\* A file that was created is not one that is not there.
LEMMA FilesDiffer == NoFile \notin Content /\ \A t : ~ Whole(NoFile, t)
<1>1. DOMAIN NoFile = {}
  BY DEF NoFile
<1>2. 1 \in 1 .. Chunks
  BY SizesAssumption
<1>3. \A t : DOMAIN [c \in 1 .. Chunks |-> t] = 1 .. Chunks
  OBVIOUS
<1>. QED  BY <1>1, <1>2, <1>3 DEF Content, Whole

\* A read puts one piece into its place in the file it is linked to.
LEMMA WrittenEffect ==
  ASSUME DataTyped, LinkedIsThere, NEW d \in DownloadJob, Reads(d), downloads[d].linked
  PROVE  /\ Written(d) \in Content
         /\ \A c \in 1 .. Chunks :
              Written(d)[c] = IF c = downloads[d].done + 1 THEN downloads[d].tag ELSE apk[c]
<1>1. /\ downloads[d].done + 1 \in 1 .. Chunks
      /\ downloads[d].tag \in Tag
  BY SizesAssumption DEF Reads, DataTyped, Download
<1>2. apk \in Content
  BY DEF Reads, DataTyped, LinkedIsThere
<1>. QED  BY <1>1, <1>2 DEF Written, Content

LEMMA DataStep ==
  ASSUME DataTyped, LinkedIsThere, [Next]_vars
  PROVE  DataTyped'
<1>a. 0 \in Tag /\ 0 \in 0 .. Chunks
  BY SizesAssumption DEF Tag
<1>1. ASSUME NEW j \in CheckJob, CheckStarts(j) PROVE DataTyped'
  BY <1>1, <1>a
  DEF CheckStarts, DataTyped, AppUpdate, At, States, Check, user, ui, world
<1>2. ASSUME NEW j \in CheckJob, CheckFails(j) PROVE DataTyped'
  BY <1>2, <1>a
  DEF CheckFails, Ends, DataTyped, AppUpdate, At, Idle, Failed, NoCheck, States, Check,
       user, ui, world
<1>3. ASSUME NEW j \in CheckJob, TagArrives(j) PROVE DataTyped'
  <2>1. CASE Ends(j, At("UpToDate", latest)) /\ UNCHANGED downloads
    BY <1>3, <2>1, <1>a DEF TagArrives, Ends, DataTyped, AppUpdate, At, Idle, States, Check,
       NoCheck, user, ui, world
  <2>2. CASE /\ checks' = [checks EXCEPT ![j].pc = "notes", ![j].tag = latest]
             /\ UNCHANGED appUpdate
    BY <1>3, <2>2, <1>a DEF TagArrives, DataTyped, Check, user, ui, world
  <2>. QED  BY <1>3, <2>1, <2>2 DEF TagArrives
<1>4. ASSUME NEW j \in CheckJob, NotesArrive(j) PROVE DataTyped'
  <2>1. checks[j].tag \in Tag /\ knownTag' \in Tag
    BY <1>4 DEF NotesArrive, DataTyped, Check
  <2>2. CASE Ends(j, At("UpToDate", checks[j].tag))
    BY <1>4, <2>1, <2>2, <1>a DEF NotesArrive, Ends, DataTyped, AppUpdate, At, Idle, States, Check,
       NoCheck, user, ui, world
  <2>3. CASE /\ appUpdate' = At("Available", checks[j].tag)
             /\ checks' = [checks EXCEPT ![j] = NoCheck]
    BY <1>4, <2>1, <2>3, <1>a DEF NotesArrive, DataTyped, AppUpdate, At, States, Check,
       NoCheck, user, ui, world
  <2>. QED  BY <1>4, <2>2, <2>3 DEF NotesArrive
<1>5. ASSUME NEW d \in DownloadJob, Deletes(d) PROVE DataTyped'
  BY <1>5, <1>a
  DEF Deletes, Goes, DataTyped, Download, user, ui
<1>6. ASSUME NEW d \in DownloadJob, Opens(d) PROVE DataTyped'
  <2>1. Fresh \in Content
    BY <1>a DEF Fresh, Content
  <2>. QED  BY <1>6, <2>1 DEF Opens, Goes, DataTyped, Download, user, ui, world
<1>7. ASSUME NEW d \in DownloadJob, Reads(d) PROVE DataTyped'
  <2>1. /\ downloads[d].done + 1 \in 0 .. Chunks
        /\ downloads[d].tag \in Tag
    BY <1>7, SizesAssumption DEF Reads, DataTyped, Download
  <2>2. apk' \in Content \cup {NoFile}
    BY <1>7, WrittenEffect DEF Reads, DataTyped
  <2>3. downloads' \in [DownloadJob -> Download]
    BY <1>7, <2>1 DEF Reads, DataTyped, Download
  <2>4. appUpdate' \in AppUpdate
    BY <1>7, <2>1 DEF Reads, AppUpdate, At, States
  <2>. QED  BY <1>7, <2>2, <2>3, <2>4 DEF Reads, Goes, DataTyped, user, ui
<1>8. ASSUME NEW d \in DownloadJob, Completes(d) PROVE DataTyped'
  BY <1>8, <1>a
  DEF Completes, DataTyped, AppUpdate, At, NoDownload, States, Download, ui, world
<1>9. ASSUME NEW d \in DownloadJob, DownloadFails(d) PROVE DataTyped'
  BY <1>9, <1>a
  DEF DownloadFails, Goes, DataTyped, AppUpdate, At, Failed, NoDownload, States,
       Download, user, ui
<1>10. CASE Recompose
  BY <1>10, <1>a
  DEF Recompose, DataTyped, AppUpdate, States, user, world
<1>11. CASE StartInstall
  BY <1>11, <1>a
  DEF StartInstall, DataTyped, AppUpdate, At, Idle, States, user
<1>12. CASE RestartPoll
  BY <1>12, <1>a, CheckBegins
  DEF RestartPoll, DataTyped, Check, user, world
<1>13. CASE Poll
  BY <1>13, <1>a, CheckBegins
  DEF Poll, DataTyped, At, Idle, Failed, Check, user, world
<1>14. CASE downloadAppUpdate
  BY <1>14, DownloadBegins DEF downloadAppUpdate, DataTyped, ui, world
<1>15. CASE dismissUpdate
  BY <1>15, <1>a
  DEF dismissUpdate, DataTyped, AppUpdate, At, Idle, States, ui, world
<1>16. CASE Retry
  BY <1>16, <1>a, CheckBegins
  DEF Retry, DataTyped, At, Failed, Check, user, ui, world
<1>25. CASE UpdateCheck
  BY <1>25, <1>a, CheckBegins
  DEF UpdateCheck, DataTyped, At, Failed, Check, user, ui, world
<1>17. CASE showDismissedUpdate
  BY <1>17, <1>a, CheckBegins
  DEF showDismissedUpdate, DataTyped, Check, ui, world
<1>18. CASE BackoffEnds
  BY <1>18, <1>a
  DEF BackoffEnds, DataTyped, user, ui, world
<1>19. CASE Publish
  BY <1>19, <1>a, SizesAssumption
  DEF Publish, Tag, DataTyped, user, ui
<1>20. CASE InstallerCloses
  BY <1>20, <1>a
  DEF InstallerCloses, DataTyped, user, ui
<1>21. CASE Recreate
  BY <1>21, <1>a
  DEF Recreate, DataTyped, AppUpdate, States, user, world
<1>22. CASE Killed
  BY <1>22, <1>a
  DEF Killed, NewProcess, DataTyped, AppUpdate, At, Idle, NoCheck, NoDownload, States,
       Check, Download
<1>23. ASSUME NEW t \in Tag, Installed(t) PROVE DataTyped'
  BY <1>23, <1>a
  DEF Installed, NewProcess, DataTyped, AppUpdate, At, Idle, NoCheck, NoDownload,
       States, Check, Download
<1>24. CASE UNCHANGED vars
  BY <1>24, <1>a DEF vars, user, ui, world, DataTyped, AppUpdate, At, Idle, Failed,
       NoCheck, NoDownload, States, Check, Download
<1>. QED  BY <1>1, <1>2, <1>3, <1>4, <1>5, <1>6, <1>7, <1>8, <1>9, <1>10, <1>11, <1>12,
     <1>13, <1>14, <1>15, <1>16, <1>17, <1>18, <1>19, <1>20, <1>21, <1>22, <1>23, <1>24,
     <1>25
          DEF Next, CheckStep, DownloadStep

LEMMA FlagsStep ==
  ASSUME FlagsTyped, [Next]_vars
  PROVE  FlagsTyped'
<1>1. ASSUME NEW j \in CheckJob, CheckStarts(j) PROVE FlagsTyped'
  BY <1>1, Zenon
  DEF CheckStarts, FlagsTyped, user, ui, world
<1>2. ASSUME NEW j \in CheckJob, CheckFails(j) PROVE FlagsTyped'
  BY <1>2, Zenon
  DEF CheckFails, Ends, FlagsTyped, user, ui, world
<1>3. ASSUME NEW j \in CheckJob, TagArrives(j) PROVE FlagsTyped'
  BY <1>3, Zenon
  DEF TagArrives, Ends, isNew, FlagsTyped, user, ui, world
<1>4. ASSUME NEW j \in CheckJob, NotesArrive(j) PROVE FlagsTyped'
  BY <1>4, Zenon
  DEF NotesArrive, Ends, TreatedAsBundle, FlagsTyped, ui, world
<1>5. ASSUME NEW d \in DownloadJob, Deletes(d) PROVE FlagsTyped'
  BY <1>5, Zenon
  DEF Deletes, Goes, FlagsTyped, user, ui
<1>6. ASSUME NEW d \in DownloadJob, Opens(d) PROVE FlagsTyped'
  BY <1>6, Zenon
  DEF Opens, Goes, FlagsTyped, user, ui
<1>7. ASSUME NEW d \in DownloadJob, Reads(d) PROVE FlagsTyped'
  BY <1>7, Zenon
  DEF Reads, Goes, Written, FlagsTyped, user, ui
<1>8. ASSUME NEW d \in DownloadJob, Completes(d) PROVE FlagsTyped'
  BY <1>8, Zenon
  DEF Completes, FlagsTyped, ui, world
<1>9. ASSUME NEW d \in DownloadJob, DownloadFails(d) PROVE FlagsTyped'
  BY <1>9, Zenon
  DEF DownloadFails, Goes, FlagsTyped, user, ui
<1>10. CASE Recompose
  BY <1>10, Zenon
  DEF Recompose, FlagsTyped, user, world
<1>11. CASE StartInstall
  BY <1>11, Zenon
  DEF StartInstall, FlagsTyped, user
<1>12. CASE RestartPoll
  BY <1>12, Zenon
  DEF RestartPoll, checkAppUpdate, FlagsTyped, user, world
<1>13. CASE Poll
  BY <1>13, Zenon
  DEF Poll, checkAppUpdate, FlagsTyped, user, world
<1>14. CASE downloadAppUpdate
  BY <1>14, Zenon
  DEF downloadAppUpdate, FlagsTyped, ui, world
<1>15. CASE dismissUpdate
  BY <1>15, Zenon
  DEF dismissUpdate, FlagsTyped, ui, world
<1>16. CASE Retry
  BY <1>16, Zenon
  DEF Retry, checkAppUpdate, FlagsTyped, user, ui, world
<1>25. CASE UpdateCheck
  BY <1>25, Zenon
  DEF UpdateCheck, checkAppUpdate, FlagsTyped, user, ui, world
<1>17. CASE showDismissedUpdate
  BY <1>17, Zenon
  DEF showDismissedUpdate, checkAppUpdate, FlagsTyped, ui, world
<1>18. CASE BackoffEnds
  BY <1>18, Zenon
  DEF BackoffEnds, FlagsTyped, user, ui, world
<1>19. CASE Publish
  BY <1>19, Zenon
  DEF Publish, FlagsTyped, user, ui
<1>20. CASE InstallerCloses
  BY <1>20, Zenon
  DEF InstallerCloses, FlagsTyped, user, ui
<1>21. CASE Recreate
  BY <1>21, Zenon
  DEF Recreate, FlagsTyped, user, world
<1>22. CASE Killed
  BY <1>22, Zenon
  DEF Killed, NewProcess, FlagsTyped
<1>23. ASSUME NEW t \in Tag, Installed(t) PROVE FlagsTyped'
  BY <1>23, Zenon
  DEF Installed, NewProcess, FlagsTyped
<1>24. CASE UNCHANGED vars
  BY <1>24, Zenon DEF vars, user, ui, world, FlagsTyped
<1>. QED  BY <1>1, <1>2, <1>3, <1>4, <1>5, <1>6, <1>7, <1>8, <1>9, <1>10, <1>11, <1>12,
     <1>13, <1>14, <1>15, <1>16, <1>17, <1>18, <1>19, <1>20, <1>21, <1>22, <1>23, <1>24,
     <1>25
          DEF Next, CheckStep, DownloadStep
-----------------------------------------------------------------------------
(***************************************************************************)
(* The parts that hold whatever overlaps.                                  *)
(***************************************************************************)
LEMMA LinkedStep ==
  ASSUME DataTyped, LinkedIsThere, [Next]_vars
  PROVE  LinkedIsThere'
<1>1. ASSUME NEW j \in CheckJob, CheckStarts(j) PROVE LinkedIsThere'
  BY <1>1
  DEF CheckStarts, LinkedIsThere, DataTyped, AppUpdate, Check, At, user, ui, world
<1>2. ASSUME NEW j \in CheckJob, CheckFails(j) PROVE LinkedIsThere'
  BY <1>2
  DEF CheckFails, Ends, LinkedIsThere, DataTyped, AppUpdate, Check, At, Idle, Failed,
       NoCheck, user, ui, world
<1>3. ASSUME NEW j \in CheckJob, TagArrives(j) PROVE LinkedIsThere'
  BY <1>3
  DEF TagArrives, Ends, isNew, LinkedIsThere, DataTyped, AppUpdate, Check, At, Idle,
       NoCheck, user, ui, world
<1>4. ASSUME NEW j \in CheckJob, NotesArrive(j) PROVE LinkedIsThere'
  BY <1>4
  DEF NotesArrive, Ends, TreatedAsBundle, LinkedIsThere, DataTyped, AppUpdate, Check,
       At, Idle, NoCheck, ui, world
<1>5. ASSUME NEW d \in DownloadJob, Deletes(d) PROVE LinkedIsThere'
  BY <1>5
  DEF Deletes, Goes, LinkedIsThere, DataTyped, Download, user, ui
<1>6. ASSUME NEW d \in DownloadJob, Opens(d) PROVE LinkedIsThere'
  <2>1. Fresh # NoFile
    <3>1. 0 \in Tag
      BY SizesAssumption DEF Tag
    <3>. QED  BY <3>1, FilesDiffer DEF Fresh, Content
  <2>. QED  BY <1>6, <2>1 DEF Opens, LinkedIsThere, DataTyped, Download
<1>7. ASSUME NEW d \in DownloadJob, Reads(d) PROVE LinkedIsThere'
  <2>1. downloads[d].linked => apk' # NoFile
    BY <1>7, WrittenEffect, FilesDiffer DEF Reads
  <2>2. ~ downloads[d].linked => apk' = apk
    BY <1>7 DEF Reads
  <2>. QED  BY <1>7, <2>1, <2>2 DEF Reads, LinkedIsThere, DataTyped, Download
<1>8. ASSUME NEW d \in DownloadJob, Completes(d) PROVE LinkedIsThere'
  BY <1>8
  DEF Completes, LinkedIsThere, DataTyped, AppUpdate, Download, At, NoDownload, ui,
       world
<1>9. ASSUME NEW d \in DownloadJob, DownloadFails(d) PROVE LinkedIsThere'
  BY <1>9
  DEF DownloadFails, Goes, LinkedIsThere, DataTyped, AppUpdate, Download, At, Failed,
       NoDownload, user, ui
<1>10. CASE Recompose
  BY <1>10
  DEF Recompose, LinkedIsThere, DataTyped, AppUpdate, user, world
<1>11. CASE StartInstall
  BY <1>11
  DEF StartInstall, LinkedIsThere, DataTyped, AppUpdate, At, Idle, user
<1>12. CASE RestartPoll
  BY <1>12, CheckBegins
  DEF RestartPoll, LinkedIsThere, DataTyped, Check, user, world
<1>13. CASE Poll
  BY <1>13, CheckBegins
  DEF Poll, LinkedIsThere, DataTyped, Check, At, Idle, Failed, user, world
<1>14. CASE downloadAppUpdate
  BY <1>14, DownloadBegins
  DEF downloadAppUpdate, LinkedIsThere, DataTyped, Download, NoDownload, ui, world
<1>15. CASE dismissUpdate
  BY <1>15
  DEF dismissUpdate, LinkedIsThere, DataTyped, AppUpdate, At, Idle, ui, world
<1>16. CASE Retry
  BY <1>16, CheckBegins
  DEF Retry, LinkedIsThere, DataTyped, Check, At, Failed, user, ui, world
<1>25. CASE UpdateCheck
  BY <1>25, CheckBegins
  DEF UpdateCheck, LinkedIsThere, DataTyped, Check, At, Failed, user, ui, world
<1>17. CASE showDismissedUpdate
  BY <1>17, CheckBegins
  DEF showDismissedUpdate, LinkedIsThere, DataTyped, Check, ui, world
<1>18. CASE BackoffEnds
  BY <1>18
  DEF BackoffEnds, LinkedIsThere, DataTyped, user, ui, world
<1>19. CASE Publish
  BY <1>19
  DEF Publish, LinkedIsThere, DataTyped, user, ui
<1>20. CASE InstallerCloses
  BY <1>20
  DEF InstallerCloses, LinkedIsThere, DataTyped, user, ui
<1>21. CASE Recreate
  BY <1>21
  DEF Recreate, LinkedIsThere, DataTyped, AppUpdate, user, world
<1>22. CASE Killed
  BY <1>22
  DEF Killed, NewProcess, LinkedIsThere, DataTyped, AppUpdate, Check, Download, At,
       Idle, NoCheck, NoDownload
<1>23. ASSUME NEW t \in Tag, Installed(t) PROVE LinkedIsThere'
  BY <1>23
  DEF Installed, NewProcess, LinkedIsThere, DataTyped, AppUpdate, Check, Download, At,
       Idle, NoCheck, NoDownload
<1>24. CASE UNCHANGED vars
  BY <1>24 DEF vars, user, ui, world, LinkedIsThere, DataTyped, AppUpdate, Check,
       Download, At, Idle, Failed, NoCheck, NoDownload
<1>. QED  BY <1>1, <1>2, <1>3, <1>4, <1>5, <1>6, <1>7, <1>8, <1>9, <1>10, <1>11, <1>12,
     <1>13, <1>14, <1>15, <1>16, <1>17, <1>18, <1>19, <1>20, <1>21, <1>22, <1>23, <1>24,
     <1>25
          DEF Next, CheckStep, DownloadStep

LEMMA PublishedStep ==
  ASSUME DataTyped, LinkedIsThere, Published, [Next]_vars
  PROVE  Published'
<1>a. 0 <= latest
  BY SizesAssumption DEF DataTyped, Tag
<1>1. ASSUME NEW j \in CheckJob, CheckStarts(j) PROVE Published'
  BY <1>1, <1>a
  DEF CheckStarts, Published, OfThePast, DataTyped, AppUpdate, Check, At, user, ui,
       world
<1>2. ASSUME NEW j \in CheckJob, CheckFails(j) PROVE Published'
  BY <1>2, <1>a
  DEF CheckFails, Ends, Published, OfThePast, DataTyped, AppUpdate, Check, At, Idle,
       Failed, NoCheck, user, ui, world
<1>3. ASSUME NEW j \in CheckJob, TagArrives(j) PROVE Published'
  BY <1>3, <1>a
  DEF TagArrives, Ends, isNew, Published, OfThePast, DataTyped, AppUpdate, Check, At,
       Idle, NoCheck, user, ui, world
<1>4. ASSUME NEW j \in CheckJob, NotesArrive(j) PROVE Published'
  BY <1>4, <1>a
  DEF NotesArrive, Ends, TreatedAsBundle, Published, OfThePast, DataTyped, AppUpdate,
       Check, At, Idle, NoCheck, ui, world
<1>5. ASSUME NEW d \in DownloadJob, Deletes(d) PROVE Published'
  BY <1>5, <1>a
  DEF Deletes, Goes, Published, OfThePast, DataTyped, Download, user, ui
<1>6. ASSUME NEW d \in DownloadJob, Opens(d) PROVE Published'
  <2>1. OfThePast(Fresh)
    BY <1>a DEF OfThePast, Fresh
  <2>. QED  BY <1>6, <2>1 DEF Opens, Goes, Published, OfThePast, DataTyped, Download, user, ui
<1>7. ASSUME NEW d \in DownloadJob, Reads(d) PROVE Published'
  <2>1. downloads[d].tag <= latest
    BY <1>7 DEF Published
  <2>2. downloads[d].linked => \A c \in 1 .. Chunks : apk'[c] <= latest
    BY <1>7, <2>1, WrittenEffect DEF Reads, Published, OfThePast, LinkedIsThere
  <2>3. OfThePast(apk)'
    BY <1>7, <2>2 DEF Reads, Goes, Published, OfThePast
  <2>. QED  BY <1>7, <2>1, <2>3 DEF Reads, Goes, Published, OfThePast, DataTyped, Download, At,
                                  user, ui
<1>8. ASSUME NEW d \in DownloadJob, Completes(d) PROVE Published'
  BY <1>8, <1>a
  DEF Completes, Published, OfThePast, DataTyped, AppUpdate, Download, At, NoDownload,
       ui, world
<1>9. ASSUME NEW d \in DownloadJob, DownloadFails(d) PROVE Published'
  BY <1>9, <1>a
  DEF DownloadFails, Goes, Published, OfThePast, DataTyped, AppUpdate, Download, At,
       Failed, NoDownload, user, ui
<1>10. CASE Recompose
  BY <1>10, <1>a
  DEF Recompose, Published, OfThePast, DataTyped, AppUpdate, user, world
<1>11. CASE StartInstall
  BY <1>11, <1>a
  DEF StartInstall, Published, OfThePast, DataTyped, AppUpdate, At, Idle, user
<1>12. CASE RestartPoll
  BY <1>12, <1>a, CheckBegins
  DEF RestartPoll, Published, OfThePast, DataTyped, Check, user, world
<1>13. CASE Poll
  BY <1>13, <1>a, CheckBegins
  DEF Poll, Published, OfThePast, DataTyped, Check, At, Idle, Failed, user, world
<1>14. CASE downloadAppUpdate
  BY <1>14, <1>a, DownloadBegins
  DEF downloadAppUpdate, Published, OfThePast, DataTyped, Download, NoDownload, ui,
       world
<1>15. CASE dismissUpdate
  BY <1>15, <1>a
  DEF dismissUpdate, Published, OfThePast, DataTyped, AppUpdate, At, Idle, ui, world
<1>16. CASE Retry
  BY <1>16, <1>a, CheckBegins
  DEF Retry, Published, OfThePast, DataTyped, Check, At, Failed, user, ui, world
<1>25. CASE UpdateCheck
  BY <1>25, <1>a, CheckBegins
  DEF UpdateCheck, Published, OfThePast, DataTyped, Check, At, Failed, user, ui, world
<1>17. CASE showDismissedUpdate
  BY <1>17, <1>a, CheckBegins
  DEF showDismissedUpdate, Published, OfThePast, DataTyped, Check, ui, world
<1>18. CASE BackoffEnds
  BY <1>18, <1>a
  DEF BackoffEnds, Published, OfThePast, DataTyped, user, ui, world
<1>19. CASE Publish
  <2>1. \A t \in Tag : t <= latest => t <= latest'
    BY <1>19 DEF Publish, DataTyped, Tag
  <2>2. \A f \in Content \cup {NoFile} : OfThePast(f) => OfThePast(f)'
    <3> SUFFICES ASSUME NEW f \in Content, OfThePast(f), NEW c \in 1 .. Chunks
                 PROVE  f[c] <= latest'
      BY DEF OfThePast
    <3>. QED  BY <2>1, FilesDiffer DEF OfThePast, Content
  <2>3. OfThePast(apk)' /\ OfThePast(installer)'
    BY <1>19, <2>2 DEF Publish, Published, DataTyped, OfThePast
  <2>4. /\ \A j \in CheckJob : checks[j].tag \in Tag
        /\ \A d \in DownloadJob : downloads[d].tag \in Tag
        /\ appUpdate.tag \in Tag
    BY DEF DataTyped, AppUpdate, Check, Download
  <2>. QED  BY <1>19, <2>1, <2>3, <2>4 DEF Publish, Published, DataTyped, user
<1>20. CASE InstallerCloses
  BY <1>20, <1>a
  DEF InstallerCloses, Published, OfThePast, DataTyped, user, ui
<1>21. CASE Recreate
  BY <1>21, <1>a
  DEF Recreate, Published, OfThePast, DataTyped, AppUpdate, user, world
<1>22. CASE Killed
  BY <1>22, <1>a
  DEF Killed, NewProcess, Published, OfThePast, DataTyped, AppUpdate, Check, Download,
       At, Idle, NoCheck, NoDownload
<1>23. ASSUME NEW t \in Tag, Installed(t) PROVE Published'
  <2>1. t <= latest
    <3>1. 1 \in 1 .. Chunks
      BY SizesAssumption
    <3>. QED  BY <1>23, <3>1, FilesDiffer DEF Installed, Whole, Published, OfThePast
  <2>. QED  BY <1>23, <2>1, <1>a DEF Installed, NewProcess, Published, OfThePast, Idle, At, NoCheck,
                                  NoDownload
<1>24. CASE UNCHANGED vars
  BY <1>24, <1>a DEF vars, user, ui, world, Published, OfThePast, DataTyped, AppUpdate,
       Check, Download, At, Idle, Failed, NoCheck, NoDownload
<1>. QED  BY <1>1, <1>2, <1>3, <1>4, <1>5, <1>6, <1>7, <1>8, <1>9, <1>10, <1>11, <1>12,
     <1>13, <1>14, <1>15, <1>16, <1>17, <1>18, <1>19, <1>20, <1>21, <1>22, <1>23, <1>24,
     <1>25
          DEF Next, CheckStep, DownloadStep

LEMMA OthersStep ==
  ASSUME DataTyped, Published, OthersOffered, [Next]_vars
  PROVE  OthersOffered'
<1>1. ASSUME NEW j \in CheckJob, CheckStarts(j) PROVE OthersOffered'
  BY <1>1
  DEF CheckStarts, OthersOffered, Newer, DataTyped, AppUpdate, Check, At, user, ui,
       world
<1>2. ASSUME NEW j \in CheckJob, CheckFails(j) PROVE OthersOffered'
  BY <1>2
  DEF CheckFails, Ends, OthersOffered, Newer, DataTyped, AppUpdate, Check, At, Idle,
       Failed, NoCheck, user, ui, world
<1>3. ASSUME NEW j \in CheckJob, TagArrives(j) PROVE OthersOffered'
  <2>1. isNew(latest, checks[j].silent) => Newer(latest)
    BY DEF isNew, Newer, Published, DataTyped, Tag
  <2>. QED  BY <1>3, <2>1 DEF TagArrives, Ends, OthersOffered, Newer, DataTyped, Check, AppUpdate,
                            At, Idle, NoCheck, user, ui, world
<1>4. ASSUME NEW j \in CheckJob, NotesArrive(j) PROVE OthersOffered'
  BY <1>4
  DEF NotesArrive, Ends, TreatedAsBundle, OthersOffered, Newer, DataTyped, AppUpdate,
       Check, At, Idle, NoCheck, ui, world
<1>5. ASSUME NEW d \in DownloadJob, Deletes(d) PROVE OthersOffered'
  BY <1>5
  DEF Deletes, Goes, OthersOffered, Newer, DataTyped, Download, user, ui
<1>6. ASSUME NEW d \in DownloadJob, Opens(d) PROVE OthersOffered'
  BY <1>6
  DEF Opens, Goes, OthersOffered, Newer, DataTyped, Download, user, ui
<1>7. ASSUME NEW d \in DownloadJob, Reads(d) PROVE OthersOffered'
  BY <1>7
  DEF Reads, Goes, Written, OthersOffered, Newer, DataTyped, AppUpdate, Download, At,
       user, ui
<1>8. ASSUME NEW d \in DownloadJob, Completes(d) PROVE OthersOffered'
  BY <1>8
  DEF Completes, OthersOffered, Newer, DataTyped, AppUpdate, Download, At, NoDownload,
       ui, world
<1>9. ASSUME NEW d \in DownloadJob, DownloadFails(d) PROVE OthersOffered'
  BY <1>9
  DEF DownloadFails, Goes, OthersOffered, Newer, DataTyped, AppUpdate, Download, At,
       Failed, NoDownload, user, ui
<1>10. CASE Recompose
  BY <1>10
  DEF Recompose, OthersOffered, Newer, DataTyped, AppUpdate, user, world
<1>11. CASE StartInstall
  BY <1>11
  DEF StartInstall, OthersOffered, Newer, DataTyped, AppUpdate, At, Idle, user
<1>12. CASE RestartPoll
  BY <1>12, CheckBegins
  DEF RestartPoll, OthersOffered, Newer, DataTyped, Check, user, world
<1>13. CASE Poll
  BY <1>13, CheckBegins
  DEF Poll, OthersOffered, Newer, DataTyped, Check, At, Idle, Failed, user, world
<1>14. CASE downloadAppUpdate
  <2>1. \A d \in DownloadJob : \/ downloads'[d] = downloads[d]
                              \/ Newer(downloads'[d].tag)
    BY <1>14, DownloadBegins DEF OthersOffered
  <2>. QED  BY <1>14, <2>1 DEF downloadAppUpdate, OthersOffered, Newer, ui, world
<1>15. CASE dismissUpdate
  BY <1>15
  DEF dismissUpdate, OthersOffered, Newer, DataTyped, AppUpdate, At, Idle, ui, world
<1>16. CASE Retry
  BY <1>16, CheckBegins
  DEF Retry, OthersOffered, Newer, DataTyped, Check, At, Failed, user, ui, world
<1>25. CASE UpdateCheck
  BY <1>25, CheckBegins
  DEF UpdateCheck, OthersOffered, Newer, DataTyped, Check, At, Failed, user, ui, world
<1>17. CASE showDismissedUpdate
  BY <1>17, CheckBegins
  DEF showDismissedUpdate, OthersOffered, Newer, DataTyped, Check, ui, world
<1>18. CASE BackoffEnds
  BY <1>18
  DEF BackoffEnds, OthersOffered, Newer, DataTyped, user, ui, world
<1>19. CASE Publish
  BY <1>19
  DEF Publish, OthersOffered, Newer, DataTyped, user, ui
<1>20. CASE InstallerCloses
  BY <1>20
  DEF InstallerCloses, OthersOffered, Newer, DataTyped, user, ui
<1>21. CASE Recreate
  BY <1>21
  DEF Recreate, OthersOffered, Newer, DataTyped, AppUpdate, user, world
<1>22. CASE Killed
  BY <1>22
  DEF Killed, NewProcess, OthersOffered, Newer, DataTyped, AppUpdate, Check, Download,
       At, Idle, NoCheck, NoDownload
<1>23. ASSUME NEW t \in Tag, Installed(t) PROVE OthersOffered'
  BY <1>23
  DEF Installed, NewProcess, OthersOffered, Newer, DataTyped, AppUpdate, Check,
       Download, At, Idle, NoCheck, NoDownload
<1>24. CASE UNCHANGED vars
  BY <1>24 DEF vars, user, ui, world, OthersOffered, Newer, DataTyped, AppUpdate, Check,
       Download, At, Idle, Failed, NoCheck, NoDownload
<1>. QED  BY <1>1, <1>2, <1>3, <1>4, <1>5, <1>6, <1>7, <1>8, <1>9, <1>10, <1>11, <1>12,
     <1>13, <1>14, <1>15, <1>16, <1>17, <1>18, <1>19, <1>20, <1>21, <1>22, <1>23, <1>24,
     <1>25
          DEF Next, CheckStep, DownloadStep
-----------------------------------------------------------------------------
(***************************************************************************)
(* The parts that need jobs which do not overlap.                          *)
(***************************************************************************)
LEMMA CheckAlone ==
  ASSUME DataTyped, OneJob, NEW silent \in BOOLEAN, checkAppUpdate(silent), ~ overlap',
         UNCHANGED downloads
  PROVE  OneJob'
<1>1. CASE UNCHANGED checks
  BY <1>1 DEF OneJob, Checks, Downloads
<1>2. CASE ~ UNCHANGED checks
  <2>1. Begins(silent) /\ ~ InFlight
    BY <1>2, CheckBegins, Zenon DEF Begins, DataTyped
  <2>2. PICK j \in CheckJob : \A i \in CheckJob : i # j => checks'[i] = checks[i]
    BY <2>1 DEF Begins
  <2>. QED  BY <2>1, <2>2 DEF InFlight, OneJob, Checks, Downloads
<1>. QED  BY <1>1, <1>2

LEMMA OneJobStep ==
  ASSUME DataTyped, OneJob, [Next]_vars, ~ overlap'
  PROVE  OneJob'
<1>1. ASSUME NEW j \in CheckJob, CheckStarts(j) PROVE OneJob'
  BY <1>1
  DEF CheckStarts, OneJob, Checks, Downloads, DataTyped, AppUpdate, Check, At, user, ui,
       world
<1>2. ASSUME NEW j \in CheckJob, CheckFails(j) PROVE OneJob'
  BY <1>2
  DEF CheckFails, Ends, OneJob, Checks, Downloads, DataTyped, AppUpdate, Check, At,
       Idle, Failed, NoCheck, user, ui, world
<1>3. ASSUME NEW j \in CheckJob, TagArrives(j) PROVE OneJob'
  BY <1>3
  DEF TagArrives, Ends, isNew, OneJob, Checks, Downloads, DataTyped, AppUpdate, Check,
       At, Idle, NoCheck, user, ui, world
<1>4. ASSUME NEW j \in CheckJob, NotesArrive(j) PROVE OneJob'
  BY <1>4
  DEF NotesArrive, Ends, TreatedAsBundle, OneJob, Checks, Downloads, DataTyped,
       AppUpdate, Check, At, Idle, NoCheck, ui, world
<1>5. ASSUME NEW d \in DownloadJob, Deletes(d) PROVE OneJob'
  BY <1>5
  DEF Deletes, Goes, OneJob, Checks, Downloads, DataTyped, Download, user, ui
<1>6. ASSUME NEW d \in DownloadJob, Opens(d) PROVE OneJob'
  BY <1>6
  DEF Opens, Goes, OneJob, Checks, Downloads, DataTyped, Download, user, ui
<1>7. ASSUME NEW d \in DownloadJob, Reads(d) PROVE OneJob'
  BY <1>7
  DEF Reads, Goes, Written, OneJob, Checks, Downloads, DataTyped, AppUpdate, Download,
       At, user, ui
<1>8. ASSUME NEW d \in DownloadJob, Completes(d) PROVE OneJob'
  BY <1>8
  DEF Completes, OneJob, Checks, Downloads, DataTyped, AppUpdate, Download, At,
       NoDownload, ui, world
<1>9. ASSUME NEW d \in DownloadJob, DownloadFails(d) PROVE OneJob'
  BY <1>9
  DEF DownloadFails, Goes, OneJob, Checks, Downloads, DataTyped, AppUpdate, Download,
       At, Failed, NoDownload, user, ui
<1>10. CASE Recompose
  BY <1>10
  DEF Recompose, OneJob, Checks, Downloads, DataTyped, AppUpdate, user, world
<1>11. CASE StartInstall
  BY <1>11
  DEF StartInstall, OneJob, Checks, Downloads, DataTyped, AppUpdate, At, Idle, user
<1>12. CASE RestartPoll
  <2>1. CASE UNCHANGED <<checks, downloads>>
    BY <2>1 DEF OneJob, Checks, Downloads
  <2>2. CASE ~ UNCHANGED <<checks, downloads>>
    BY <1>12, <2>2, CheckAlone, Zenon DEF RestartPoll, world, ui
  <2>. QED  BY <2>1, <2>2
<1>13. CASE Poll
  <2>1. CASE UNCHANGED <<checks, downloads>>
    BY <2>1 DEF OneJob, Checks, Downloads
  <2>2. CASE ~ UNCHANGED <<checks, downloads>>
    BY <1>13, <2>2, CheckAlone, Zenon DEF Poll, world, ui
  <2>. QED  BY <2>1, <2>2
<1>14. CASE downloadAppUpdate
  <2>1. CASE UNCHANGED downloads
    BY <1>14, <2>1 DEF downloadAppUpdate, OneJob, Checks, Downloads
  <2>2. CASE ~ UNCHANGED downloads
    <3>1. ~ UNCHANGED <<downloads, overlap>>
      BY <2>2
    <3>2. overlap' = (overlap \/ InFlight)
      BY <1>14, <3>1, DownloadBegins, Zenon
    <3>3. ~ InFlight
      BY <3>2, Zenon
    <3>4. PICK d \in DownloadJob :
            \A e \in DownloadJob : e # d => downloads'[e] = downloads[e]
      BY <1>14, <3>1, DownloadBegins, Zenon
    <3>. QED  BY <1>14, <3>3, <3>4 DEF downloadAppUpdate, InFlight, OneJob, Checks, Downloads
  <2>. QED  BY <2>1, <2>2
<1>15. CASE dismissUpdate
  BY <1>15
  DEF dismissUpdate, OneJob, Checks, Downloads, DataTyped, AppUpdate, At, Idle, ui,
       world
<1>16. CASE Retry
  <2>1. CASE UNCHANGED <<checks, downloads>>
    BY <2>1 DEF OneJob, Checks, Downloads
  <2>2. CASE ~ UNCHANGED <<checks, downloads>>
    BY <1>16, <2>2, CheckAlone, Zenon DEF Retry, world, ui
  <2>. QED  BY <2>1, <2>2
<1>25. CASE UpdateCheck
  <2>1. CASE UNCHANGED <<checks, downloads>>
    BY <2>1 DEF OneJob, Checks, Downloads
  <2>2. CASE ~ UNCHANGED <<checks, downloads>>
    BY <1>25, <2>2, CheckAlone, Zenon DEF UpdateCheck, world, ui
  <2>. QED  BY <2>1, <2>2
<1>17. CASE showDismissedUpdate
  <2>1. CASE UNCHANGED <<checks, downloads>>
    BY <2>1 DEF OneJob, Checks, Downloads
  <2>2. CASE ~ UNCHANGED <<checks, downloads>>
    BY <1>17, <2>2, CheckAlone, Zenon DEF showDismissedUpdate, world, ui
  <2>. QED  BY <2>1, <2>2
<1>18. CASE BackoffEnds
  BY <1>18
  DEF BackoffEnds, OneJob, Checks, Downloads, DataTyped, user, ui, world
<1>19. CASE Publish
  BY <1>19
  DEF Publish, OneJob, Checks, Downloads, DataTyped, user, ui
<1>20. CASE InstallerCloses
  BY <1>20
  DEF InstallerCloses, OneJob, Checks, Downloads, DataTyped, user, ui
<1>21. CASE Recreate
  BY <1>21
  DEF Recreate, OneJob, Checks, Downloads, DataTyped, AppUpdate, user, world
<1>22. CASE Killed
  BY <1>22
  DEF Killed, NewProcess, OneJob, Checks, Downloads, DataTyped, AppUpdate, Check,
       Download, At, Idle, NoCheck, NoDownload
<1>23. ASSUME NEW t \in Tag, Installed(t) PROVE OneJob'
  BY <1>23
  DEF Installed, NewProcess, OneJob, Checks, Downloads, DataTyped, AppUpdate, Check,
       Download, At, Idle, NoCheck, NoDownload
<1>24. CASE UNCHANGED vars
  BY <1>24 DEF vars, user, ui, world, OneJob, Checks, Downloads, DataTyped, AppUpdate,
       Check, Download, At, Idle, Failed, NoCheck, NoDownload
<1>. QED  BY <1>1, <1>2, <1>3, <1>4, <1>5, <1>6, <1>7, <1>8, <1>9, <1>10, <1>11, <1>12,
     <1>13, <1>14, <1>15, <1>16, <1>17, <1>18, <1>19, <1>20, <1>21, <1>22, <1>23, <1>24,
     <1>25
          DEF Next, CheckStep, DownloadStep

LEMMA WrittenStep ==
  ASSUME DataTyped, LinkedIsThere, OneJob, WrittenIsRead, [Next]_vars
  PROVE  WrittenIsRead'
<1>1. ASSUME NEW j \in CheckJob, CheckStarts(j) PROVE WrittenIsRead'
  BY <1>1
  DEF CheckStarts, WrittenIsRead, DataTyped, AppUpdate, Check, At, user, ui, world
<1>2. ASSUME NEW j \in CheckJob, CheckFails(j) PROVE WrittenIsRead'
  BY <1>2
  DEF CheckFails, Ends, WrittenIsRead, DataTyped, AppUpdate, Check, At, Idle, Failed,
       NoCheck, user, ui, world
<1>3. ASSUME NEW j \in CheckJob, TagArrives(j) PROVE WrittenIsRead'
  BY <1>3
  DEF TagArrives, Ends, isNew, WrittenIsRead, DataTyped, AppUpdate, Check, At, Idle,
       NoCheck, user, ui, world
<1>4. ASSUME NEW j \in CheckJob, NotesArrive(j) PROVE WrittenIsRead'
  BY <1>4
  DEF NotesArrive, Ends, TreatedAsBundle, WrittenIsRead, DataTyped, AppUpdate, Check,
       At, Idle, NoCheck, ui, world
<1>5. ASSUME NEW d \in DownloadJob, Deletes(d) PROVE WrittenIsRead'
  <2>1. \A e \in DownloadJob : e # d => downloads[e].pc = "none" /\ downloads[e].done = 0
    BY <1>5 DEF Deletes, OneJob, Downloads, WrittenIsRead
  <2>2. \A e \in DownloadJob : downloads[e].done = 0
    BY <1>5, <2>1 DEF Deletes, WrittenIsRead
  <2>3. \A e \in DownloadJob : /\ downloads'[e].done = downloads[e].done
                               /\ downloads'[e].pc # "body"
    BY <1>5, <2>1 DEF Deletes, DataTyped, Download
  <2>. QED  BY <2>2, <2>3 DEF WrittenIsRead
<1>6. ASSUME NEW d \in DownloadJob, Opens(d) PROVE WrittenIsRead'
  <2>1. \A e \in DownloadJob : downloads[e].pc # "body" /\ downloads[e].done = 0
    BY <1>6 DEF Opens, OneJob, Downloads, WrittenIsRead
  <2>2. \A e \in DownloadJob : /\ downloads'[e].done = downloads[e].done
                               /\ downloads'[e].pc = "body" => downloads'[e].linked
    BY <1>6, <2>1 DEF Opens, DataTyped, Download
  <2>. QED  BY <2>1, <2>2 DEF WrittenIsRead
<1>7. ASSUME NEW d \in DownloadJob, Reads(d) PROVE WrittenIsRead'
  <2>1. downloads[d].linked /\ apk' = Written(d)
    BY <1>7 DEF Reads, WrittenIsRead
  <2>2. \A e \in DownloadJob : e # d => downloads[e].pc = "none" /\ downloads[e].done = 0
    BY <1>7 DEF Reads, OneJob, Downloads, WrittenIsRead
  <2>3. downloads[d].done \in Nat /\ downloads[d].done + 1 \in 1 .. Chunks
    BY <1>7, SizesAssumption DEF Reads, DataTyped, Download
  <2>4. \A c \in 1 .. downloads[d].done + 1 : apk'[c] = downloads[d].tag
    <3> SUFFICES ASSUME NEW c \in 1 .. downloads[d].done + 1
                 PROVE  apk'[c] = downloads[d].tag
      OBVIOUS
    <3>1. c \in 1 .. Chunks /\ (c # downloads[d].done + 1 => c \in 1 .. downloads[d].done)
      BY <2>3, SizesAssumption
    <3>2. apk'[c] = IF c = downloads[d].done + 1 THEN downloads[d].tag ELSE apk[c]
      BY <1>7, <2>1, <3>1, WrittenEffect
    <3>3. c # downloads[d].done + 1 => apk[c] = downloads[d].tag
      BY <3>1 DEF WrittenIsRead
    <3>. QED  BY <3>2, <3>3
  <2>5. /\ downloads'[d].done = downloads[d].done + 1 /\ downloads'[d].pc = "body"
        /\ downloads'[d].tag = downloads[d].tag /\ downloads'[d].linked
        /\ \A e \in DownloadJob : e # d => downloads'[e] = downloads[e]
    BY <1>7, <2>1 DEF Reads, DataTyped, Download
  <2>. QED  BY <2>2, <2>3, <2>4, <2>5 DEF WrittenIsRead
<1>8. ASSUME NEW d \in DownloadJob, Completes(d) PROVE WrittenIsRead'
  BY <1>8
  DEF Completes, WrittenIsRead, DataTyped, AppUpdate, Download, At, NoDownload, ui,
       world
<1>9. ASSUME NEW d \in DownloadJob, DownloadFails(d) PROVE WrittenIsRead'
  BY <1>9
  DEF DownloadFails, Goes, WrittenIsRead, DataTyped, AppUpdate, Download, At, Failed,
       NoDownload, user, ui
<1>10. CASE Recompose
  BY <1>10
  DEF Recompose, WrittenIsRead, DataTyped, AppUpdate, user, world
<1>11. CASE StartInstall
  BY <1>11
  DEF StartInstall, WrittenIsRead, DataTyped, AppUpdate, At, Idle, user
<1>12. CASE RestartPoll
  BY <1>12, CheckBegins
  DEF RestartPoll, WrittenIsRead, DataTyped, Check, user, world
<1>13. CASE Poll
  BY <1>13, CheckBegins
  DEF Poll, WrittenIsRead, DataTyped, Check, At, Idle, Failed, user, world
<1>14. CASE downloadAppUpdate
  <2>1. apk' = apk
    BY <1>14 DEF downloadAppUpdate, world
  <2>2. \A d \in DownloadJob :
          \/ downloads'[d] = downloads[d]
          \/ downloads'[d].pc = "start" /\ downloads'[d].done = 0
    BY <1>14, DownloadBegins
  <2>3. \A c \in 1 .. 0 : FALSE
    OBVIOUS
  <2>. QED  BY <2>1, <2>2, <2>3 DEF WrittenIsRead
<1>15. CASE dismissUpdate
  BY <1>15
  DEF dismissUpdate, WrittenIsRead, DataTyped, AppUpdate, At, Idle, ui, world
<1>16. CASE Retry
  BY <1>16, CheckBegins
  DEF Retry, WrittenIsRead, DataTyped, Check, At, Failed, user, ui, world
<1>25. CASE UpdateCheck
  BY <1>25, CheckBegins
  DEF UpdateCheck, WrittenIsRead, DataTyped, Check, At, Failed, user, ui, world
<1>17. CASE showDismissedUpdate
  BY <1>17, CheckBegins
  DEF showDismissedUpdate, WrittenIsRead, DataTyped, Check, ui, world
<1>18. CASE BackoffEnds
  BY <1>18
  DEF BackoffEnds, WrittenIsRead, DataTyped, user, ui, world
<1>19. CASE Publish
  BY <1>19
  DEF Publish, WrittenIsRead, DataTyped, user, ui
<1>20. CASE InstallerCloses
  BY <1>20
  DEF InstallerCloses, WrittenIsRead, DataTyped, user, ui
<1>21. CASE Recreate
  BY <1>21
  DEF Recreate, WrittenIsRead, DataTyped, AppUpdate, user, world
<1>22. CASE Killed
  BY <1>22
  DEF Killed, NewProcess, WrittenIsRead, DataTyped, AppUpdate, Check, Download, At,
       Idle, NoCheck, NoDownload
<1>23. ASSUME NEW t \in Tag, Installed(t) PROVE WrittenIsRead'
  BY <1>23
  DEF Installed, NewProcess, WrittenIsRead, DataTyped, AppUpdate, Check, Download, At,
       Idle, NoCheck, NoDownload
<1>24. CASE UNCHANGED vars
  BY <1>24 DEF vars, user, ui, world, WrittenIsRead, DataTyped, AppUpdate, Check,
       Download, At, Idle, Failed, NoCheck, NoDownload
<1>. QED  BY <1>1, <1>2, <1>3, <1>4, <1>5, <1>6, <1>7, <1>8, <1>9, <1>10, <1>11, <1>12,
     <1>13, <1>14, <1>15, <1>16, <1>17, <1>18, <1>19, <1>20, <1>21, <1>22, <1>23, <1>24,
     <1>25
          DEF Next, CheckStep, DownloadStep

LEMMA FinishedStep ==
  ASSUME DataTyped, LinkedIsThere, Published, OthersOffered, OneJob, WrittenIsRead,
         FinishedIsWhole, [Next]_vars, ~ overlap'
  PROVE  FinishedIsWhole'
<1>1. ASSUME NEW j \in CheckJob, CheckStarts(j) PROVE FinishedIsWhole'
  BY <1>1
  DEF CheckStarts, FinishedIsWhole, Downloads, InFlight, DataTyped, AppUpdate, Check,
       At, user, ui, world
<1>2. ASSUME NEW j \in CheckJob, CheckFails(j) PROVE FinishedIsWhole'
  BY <1>2
  DEF CheckFails, Ends, FinishedIsWhole, Downloads, InFlight, DataTyped, AppUpdate,
       Check, At, Idle, Failed, NoCheck, user, ui, world
<1>3. ASSUME NEW j \in CheckJob, TagArrives(j) PROVE FinishedIsWhole'
  BY <1>3
  DEF TagArrives, Ends, isNew, FinishedIsWhole, Downloads, InFlight, DataTyped,
       AppUpdate, Check, At, Idle, NoCheck, user, ui, world
<1>4. ASSUME NEW j \in CheckJob, NotesArrive(j) PROVE FinishedIsWhole'
  BY <1>4
  DEF NotesArrive, Ends, TreatedAsBundle, FinishedIsWhole, Downloads, InFlight,
       DataTyped, AppUpdate, Check, At, Idle, NoCheck, ui, world
<1>5. ASSUME NEW d \in DownloadJob, Deletes(d) PROVE FinishedIsWhole'
  BY <1>5
  DEF Deletes, Goes, FinishedIsWhole, Downloads, InFlight, DataTyped, Download, user, ui
<1>6. ASSUME NEW d \in DownloadJob, Opens(d) PROVE FinishedIsWhole'
  BY <1>6
  DEF Opens, Goes, FinishedIsWhole, Downloads, InFlight, DataTyped, Download, user, ui
<1>7. ASSUME NEW d \in DownloadJob, Reads(d) PROVE FinishedIsWhole'
  BY <1>7
  DEF Reads, Goes, Written, FinishedIsWhole, Downloads, InFlight, DataTyped, AppUpdate,
       Download, At, user, ui
<1>8. ASSUME NEW d \in DownloadJob, Completes(d) PROVE FinishedIsWhole'
  <2>1. apk = [c \in 1 .. Chunks |-> downloads[d].tag]
    BY <1>8 DEF Completes, WrittenIsRead, LinkedIsThere, DataTyped, Content
  <2>2. Whole(apk, downloads[d].tag)
    BY <1>8, <2>1 DEF Completes, OthersOffered, Newer, Whole
  <2>3. \A e \in DownloadJob : downloads'[e].pc = "none"
    BY <1>8 DEF Completes, OneJob, Downloads, DataTyped, Download, NoDownload
  <2>4. \A j \in CheckJob : checks'[j].pc = "none"
    BY <1>8 DEF Completes, OneJob, Downloads, Checks
  <2>5. installer = NoFile
    BY <1>8 DEF Completes, FinishedIsWhole, Downloads
  <2>. QED  BY <1>8, <2>2, <2>3, <2>4, <2>5 DEF Completes, FinishedIsWhole, InFlight, Downloads, At,
                                            ui, world
<1>9. ASSUME NEW d \in DownloadJob, DownloadFails(d) PROVE FinishedIsWhole'
  BY <1>9
  DEF DownloadFails, Goes, FinishedIsWhole, Downloads, InFlight, DataTyped, AppUpdate,
       Download, At, Failed, NoDownload, user, ui
<1>10. CASE Recompose
  BY <1>10
  DEF Recompose, FinishedIsWhole, Downloads, InFlight, DataTyped, AppUpdate, user, world
<1>11. CASE StartInstall
  <2>1. ~ InFlight /\ Whole(apk, appUpdate.tag) /\ Newer(appUpdate.tag) /\ appUpdate.tag \in Tag
    BY <1>11 DEF StartInstall, FinishedIsWhole, OthersOffered, DataTyped, AppUpdate
  <2>. QED  BY <1>11, <2>1 DEF StartInstall, FinishedIsWhole, InFlight, Downloads, Newer, Whole, At,
                           Idle
<1>12. CASE RestartPoll
  <2>1. appUpdate.st = "Downloaded" => UNCHANGED checks
    <3>1. appUpdate.st = "Downloaded" => Refused(TRUE)
      BY DEF Refused, Busy
    <3>. QED  BY <1>12, <3>1, Zenon DEF RestartPoll, checkAppUpdate
  <2>. QED  BY <1>12, <2>1 DEF RestartPoll, FinishedIsWhole, InFlight, Downloads, Whole, world
<1>13. CASE Poll
  BY <1>13, CheckBegins
  DEF Poll, FinishedIsWhole, Downloads, InFlight, DataTyped, Check, At, Idle, Failed,
       user, world
<1>14. CASE downloadAppUpdate
  <2>1. installer = NoFile
    BY <1>14 DEF downloadAppUpdate, UserActs
  <2>2. appUpdate.st = "Downloaded" => UNCHANGED downloads
    BY <1>14 DEF downloadAppUpdate
  <2>. QED  BY <1>14, <2>1, <2>2 DEF downloadAppUpdate, FinishedIsWhole, InFlight, Whole, ui, world
<1>15. CASE dismissUpdate
  BY <1>15 DEF dismissUpdate, UserActs, FinishedIsWhole, Idle, At, ui, world
<1>16. CASE Retry
  <2>1. appUpdate.st = "Downloaded" => UNCHANGED checks
    <3>1. appUpdate.st = "Downloaded" => Refused(FALSE)
      BY DEF Refused, Busy
    <3>. QED  BY <1>16, <3>1, Zenon DEF Retry, checkAppUpdate
  <2>. QED  BY <1>16, <2>1 DEF Retry, FinishedIsWhole, InFlight, Downloads, Whole, user, ui, world
<1>25. CASE UpdateCheck
  <2>1. appUpdate.st = "Downloaded" => UNCHANGED checks
    <3>1. appUpdate.st = "Downloaded" => Refused(FALSE)
      BY DEF Refused, Busy
    <3>. QED  BY <1>25, <3>1, Zenon DEF UpdateCheck, checkAppUpdate
  <2>. QED  BY <1>25, <2>1 DEF UpdateCheck, FinishedIsWhole, InFlight, Downloads, Whole, user, ui, world
<1>17. CASE showDismissedUpdate
  <2>1. appUpdate.st = "Downloaded" => UNCHANGED checks
    <3>1. appUpdate.st = "Downloaded" => Refused(FALSE)
      BY DEF Refused, Busy
    <3>. QED  BY <1>17, <3>1, Zenon DEF showDismissedUpdate, checkAppUpdate
  <2>. QED  BY <1>17, <2>1 DEF showDismissedUpdate, FinishedIsWhole, InFlight, Downloads, Whole, ui, world
<1>18. CASE BackoffEnds
  BY <1>18
  DEF BackoffEnds, FinishedIsWhole, Downloads, InFlight, DataTyped, user, ui, world
<1>19. CASE Publish
  BY <1>19
  DEF Publish, FinishedIsWhole, Downloads, InFlight, DataTyped, user, ui
<1>20. CASE InstallerCloses
  BY <1>20
  DEF InstallerCloses, FinishedIsWhole, Downloads, InFlight, DataTyped, user, ui
<1>21. CASE Recreate
  BY <1>21
  DEF Recreate, FinishedIsWhole, Downloads, InFlight, DataTyped, AppUpdate, user, world
<1>22. CASE Killed
  BY <1>22
  DEF Killed, NewProcess, FinishedIsWhole, Downloads, InFlight, DataTyped, AppUpdate,
       Check, Download, At, Idle, NoCheck, NoDownload
<1>23. ASSUME NEW t \in Tag, Installed(t) PROVE FinishedIsWhole'
  BY <1>23
  DEF Installed, NewProcess, FinishedIsWhole, Downloads, InFlight, DataTyped, AppUpdate,
       Check, Download, At, Idle, NoCheck, NoDownload
<1>24. CASE UNCHANGED vars
  BY <1>24 DEF vars, user, ui, world, FinishedIsWhole, Downloads, InFlight, DataTyped,
       AppUpdate, Check, Download, At, Idle, Failed, NoCheck, NoDownload
<1>. QED  BY <1>1, <1>2, <1>3, <1>4, <1>5, <1>6, <1>7, <1>8, <1>9, <1>10, <1>11, <1>12,
     <1>13, <1>14, <1>15, <1>16, <1>17, <1>18, <1>19, <1>20, <1>21, <1>22, <1>23, <1>24,
     <1>25
          DEF Next, CheckStep, DownloadStep

LEMMA DeclinedStep ==
  ASSUME DataTyped, Published, OthersOffered, DeclinedIsPast, [Next]_vars, ~ overlap'
  PROVE  DeclinedIsPast'
<1>1. ASSUME NEW j \in CheckJob, CheckStarts(j) PROVE DeclinedIsPast'
  BY <1>1
  DEF CheckStarts, DeclinedIsPast, DataTyped, AppUpdate, Check, At, user, ui, world
<1>2. ASSUME NEW j \in CheckJob, CheckFails(j) PROVE DeclinedIsPast'
  BY <1>2
  DEF CheckFails, Ends, DeclinedIsPast, DataTyped, AppUpdate, Check, At, Idle, Failed,
       NoCheck, user, ui, world
<1>3. ASSUME NEW j \in CheckJob, TagArrives(j) PROVE DeclinedIsPast'
  <2>1. declined <= latest
    BY DEF DeclinedIsPast, Published, DataTyped, Tag
  <2>2. isNew(latest, checks[j].silent) /\ checks[j].silent => declined < latest
    BY DEF isNew, DeclinedIsPast, Published, DataTyped, Tag
  <2>3. CASE Ends(j, At("UpToDate", latest))
    BY <1>3, <2>3 DEF TagArrives, Ends, DeclinedIsPast, DataTyped, Check, At, Idle, NoCheck,
                    user, ui, world
  <2>4. CASE /\ isNew(latest, checks[j].silent)
             /\ checks' = [checks EXCEPT ![j].pc = "notes", ![j].tag = latest]
             /\ UNCHANGED appUpdate
    <3>1. /\ \A i \in CheckJob : i # j => checks'[i] = checks[i]
          /\ checks'[j].tag = latest /\ checks'[j].silent = checks[j].silent
      BY <2>4 DEF DataTyped, Check
    <3>. QED  BY <1>3, <2>1, <2>2, <2>4, <3>1 DEF TagArrives, DeclinedIsPast, user
  <2>. QED  BY <1>3, <2>3, <2>4 DEF TagArrives
<1>4. ASSUME NEW j \in CheckJob, NotesArrive(j) PROVE DeclinedIsPast'
  BY <1>4
  DEF NotesArrive, Ends, TreatedAsBundle, DeclinedIsPast, DataTyped, AppUpdate, Check,
       At, Idle, NoCheck, ui, world
<1>5. ASSUME NEW d \in DownloadJob, Deletes(d) PROVE DeclinedIsPast'
  BY <1>5
  DEF Deletes, Goes, DeclinedIsPast, DataTyped, Download, user, ui
<1>6. ASSUME NEW d \in DownloadJob, Opens(d) PROVE DeclinedIsPast'
  BY <1>6
  DEF Opens, Goes, DeclinedIsPast, DataTyped, Download, user, ui
<1>7. ASSUME NEW d \in DownloadJob, Reads(d) PROVE DeclinedIsPast'
  BY <1>7
  DEF Reads, Goes, Written, DeclinedIsPast, DataTyped, AppUpdate, Download, At, user, ui
<1>8. ASSUME NEW d \in DownloadJob, Completes(d) PROVE DeclinedIsPast'
  BY <1>8
  DEF Completes, DeclinedIsPast, DataTyped, AppUpdate, Download, At, NoDownload, ui,
       world
<1>9. ASSUME NEW d \in DownloadJob, DownloadFails(d) PROVE DeclinedIsPast'
  BY <1>9
  DEF DownloadFails, Goes, DeclinedIsPast, DataTyped, AppUpdate, Download, At, Failed,
       NoDownload, user, ui
<1>10. CASE Recompose
  BY <1>10
  DEF Recompose, DeclinedIsPast, DataTyped, AppUpdate, user, world
<1>11. CASE StartInstall
  BY <1>11
  DEF StartInstall, DeclinedIsPast, DataTyped, AppUpdate, At, Idle, user
<1>12. CASE RestartPoll
  BY <1>12, CheckBegins
  DEF RestartPoll, DeclinedIsPast, DataTyped, Check, user, world
<1>13. CASE Poll
  BY <1>13, CheckBegins
  DEF Poll, DeclinedIsPast, DataTyped, Check, At, Idle, Failed, user, world
<1>14. CASE downloadAppUpdate
  BY <1>14, DownloadBegins
  DEF downloadAppUpdate, DeclinedIsPast, DataTyped, Download, NoDownload, ui, world
<1>15. CASE dismissUpdate
  <2>1. ~ InFlight
    BY <1>15, Zenon DEF dismissUpdate
  <2>2. declined' <= knownTag'
    BY <1>15 DEF dismissUpdate, DeclinedIsPast, DataTyped, AppUpdate, Tag
  <2>. QED  BY <1>15, <2>1, <2>2 DEF dismissUpdate, InFlight, DeclinedIsPast, Idle, At
<1>16. CASE Retry
  <2>1. \A j \in CheckJob : checks'[j] = checks[j] \/ checks'[j].pc = "start"
    BY <1>16, CheckBegins DEF Retry, DataTyped
  <2>. QED  BY <1>16, <2>1 DEF Retry, DeclinedIsPast, user
<1>25. CASE UpdateCheck
  <2>1. \A j \in CheckJob : checks'[j] = checks[j] \/ checks'[j].pc = "start"
    BY <1>25, CheckBegins DEF UpdateCheck, DataTyped
  <2>. QED  BY <1>25, <2>1 DEF UpdateCheck, DeclinedIsPast, user
<1>17. CASE showDismissedUpdate
  <2>1. declined' = 0 /\ UNCHANGED <<downloads, appUpdate>> /\ 0 <= knownTag'
    BY <1>17 DEF showDismissedUpdate, DataTyped, Tag
  <2>2. \A j \in CheckJob : checks'[j] = checks[j] \/ checks'[j].pc = "start"
    BY <1>17, CheckBegins DEF showDismissedUpdate, DataTyped
  <2>3. /\ \A j \in CheckJob : checks[j].tag \in Nat
        /\ \A d \in DownloadJob : downloads[d].tag \in Nat
        /\ appUpdate.tag \in Nat
    BY DEF DataTyped, AppUpdate, Check, Download, Tag
  <2>4. \A j \in CheckJob : checks'[j].pc = "notes" => 0 < checks'[j].tag
    BY <2>2, <2>3 DEF OthersOffered, Newer
  <2>. QED  BY <2>1, <2>2, <2>3, <2>4 DEF DeclinedIsPast
<1>18. CASE BackoffEnds
  BY <1>18
  DEF BackoffEnds, DeclinedIsPast, DataTyped, user, ui, world
<1>19. CASE Publish
  BY <1>19
  DEF Publish, DeclinedIsPast, DataTyped, user, ui
<1>20. CASE InstallerCloses
  BY <1>20
  DEF InstallerCloses, DeclinedIsPast, DataTyped, user, ui
<1>21. CASE Recreate
  BY <1>21
  DEF Recreate, DeclinedIsPast, DataTyped, AppUpdate, user, world
<1>22. CASE Killed
  BY <1>22
  DEF Killed, NewProcess, DeclinedIsPast, DataTyped, AppUpdate, Check, Download, At,
       Idle, NoCheck, NoDownload
<1>23. ASSUME NEW t \in Tag, Installed(t) PROVE DeclinedIsPast'
  BY <1>23
  DEF Installed, NewProcess, DeclinedIsPast, DataTyped, AppUpdate, Check, Download, At,
       Idle, NoCheck, NoDownload
<1>24. CASE UNCHANGED vars
  BY <1>24 DEF vars, user, ui, world, DeclinedIsPast, DataTyped, AppUpdate, Check,
       Download, At, Idle, Failed, NoCheck, NoDownload
<1>. QED  BY <1>1, <1>2, <1>3, <1>4, <1>5, <1>6, <1>7, <1>8, <1>9, <1>10, <1>11, <1>12,
     <1>13, <1>14, <1>15, <1>16, <1>17, <1>18, <1>19, <1>20, <1>21, <1>22, <1>23, <1>24,
     <1>25
          DEF Next, CheckStep, DownloadStep

LEMMA OverlapStays ==
  ASSUME FlagsTyped, [Next]_vars, ~ overlap'
  PROVE  ~ overlap
<1>1. ASSUME NEW j \in CheckJob, CheckStarts(j) PROVE ~ overlap
  BY <1>1, Zenon
  DEF CheckStarts, FlagsTyped, user, ui, world
<1>2. ASSUME NEW j \in CheckJob, CheckFails(j) PROVE ~ overlap
  BY <1>2, Zenon
  DEF CheckFails, Ends, FlagsTyped, user, ui, world
<1>3. ASSUME NEW j \in CheckJob, TagArrives(j) PROVE ~ overlap
  BY <1>3, Zenon
  DEF TagArrives, Ends, isNew, FlagsTyped, user, ui, world
<1>4. ASSUME NEW j \in CheckJob, NotesArrive(j) PROVE ~ overlap
  BY <1>4, Zenon
  DEF NotesArrive, Ends, TreatedAsBundle, FlagsTyped, ui, world
<1>5. ASSUME NEW d \in DownloadJob, Deletes(d) PROVE ~ overlap
  BY <1>5, Zenon
  DEF Deletes, Goes, FlagsTyped, user, ui
<1>6. ASSUME NEW d \in DownloadJob, Opens(d) PROVE ~ overlap
  BY <1>6, Zenon
  DEF Opens, Goes, FlagsTyped, user, ui
<1>7. ASSUME NEW d \in DownloadJob, Reads(d) PROVE ~ overlap
  BY <1>7, Zenon
  DEF Reads, Goes, Written, FlagsTyped, user, ui
<1>8. ASSUME NEW d \in DownloadJob, Completes(d) PROVE ~ overlap
  BY <1>8, Zenon
  DEF Completes, FlagsTyped, ui, world
<1>9. ASSUME NEW d \in DownloadJob, DownloadFails(d) PROVE ~ overlap
  BY <1>9, Zenon
  DEF DownloadFails, Goes, FlagsTyped, user, ui
<1>10. CASE Recompose
  BY <1>10, Zenon
  DEF Recompose, FlagsTyped, user, world
<1>11. CASE StartInstall
  BY <1>11, Zenon
  DEF StartInstall, FlagsTyped, user
<1>12. CASE RestartPoll
  BY <1>12, Zenon
  DEF RestartPoll, checkAppUpdate, FlagsTyped, user, world
<1>13. CASE Poll
  BY <1>13, Zenon
  DEF Poll, checkAppUpdate, FlagsTyped, user, world
<1>14. CASE downloadAppUpdate
  BY <1>14, Zenon
  DEF downloadAppUpdate, FlagsTyped, ui, world
<1>15. CASE dismissUpdate
  BY <1>15, Zenon
  DEF dismissUpdate, FlagsTyped, ui, world
<1>16. CASE Retry
  BY <1>16, Zenon
  DEF Retry, checkAppUpdate, FlagsTyped, user, ui, world
<1>25. CASE UpdateCheck
  BY <1>25, Zenon
  DEF UpdateCheck, checkAppUpdate, FlagsTyped, user, ui, world
<1>17. CASE showDismissedUpdate
  BY <1>17, Zenon
  DEF showDismissedUpdate, checkAppUpdate, FlagsTyped, ui, world
<1>18. CASE BackoffEnds
  BY <1>18, Zenon
  DEF BackoffEnds, FlagsTyped, user, ui, world
<1>19. CASE Publish
  BY <1>19, Zenon
  DEF Publish, FlagsTyped, user, ui
<1>20. CASE InstallerCloses
  BY <1>20, Zenon
  DEF InstallerCloses, FlagsTyped, user, ui
<1>21. CASE Recreate
  BY <1>21, Zenon
  DEF Recreate, FlagsTyped, user, world
<1>22. CASE Killed
  BY <1>22, Zenon
  DEF Killed, NewProcess, FlagsTyped
<1>23. ASSUME NEW t \in Tag, Installed(t) PROVE ~ overlap
  BY <1>23, Zenon
  DEF Installed, NewProcess, FlagsTyped
<1>24. CASE UNCHANGED vars
  BY <1>24, Zenon DEF vars, user, ui, world, FlagsTyped
<1>. QED  BY <1>1, <1>2, <1>3, <1>4, <1>5, <1>6, <1>7, <1>8, <1>9, <1>10, <1>11, <1>12,
     <1>13, <1>14, <1>15, <1>16, <1>17, <1>18, <1>19, <1>20, <1>21, <1>22, <1>23, <1>24,
     <1>25
          DEF Next, CheckStep, DownloadStep
-----------------------------------------------------------------------------
(***************************************************************************)
(* The invariant, and what follows from it.                                *)
(***************************************************************************)
LEMMA InitIInv == Init => IInv
<1> SUFFICES ASSUME Init PROVE IInv
  OBVIOUS
<1>1. 0 \in Tag /\ 0 \in 0 .. Chunks /\ \A c \in 1 .. 0 : FALSE
  BY SizesAssumption DEF Tag
<1>12. latest \in Tag /\ ours \in Tag /\ ours <= latest
  <2>1. PICK v \in FirstVersions : ours = v[1] /\ latest = v[2]
    BY DEF Init
  <2>. QED  BY <2>1, SizesAssumption, VersionsAssumption DEF Tag
<1>2. DataTyped
  BY <1>1, <1>12 DEF Init, DataTyped, AppUpdate, At, Idle, States, Check, NoCheck, Download, NoDownload
<1>3. FlagsTyped
  BY Zenon DEF Init, FlagsTyped
<1>4. \A j \in CheckJob : checks[j].pc = "none" /\ checks[j].tag = 0
  BY DEF Init, NoCheck
<1>5. \A d \in DownloadJob : /\ downloads[d].pc = "none" /\ downloads[d].tag = 0
                             /\ downloads[d].done = 0 /\ ~ downloads[d].linked
  BY DEF Init, NoDownload
<1>6. /\ appUpdate.st = "Idle" /\ appUpdate.tag = 0 /\ apk = NoFile /\ installer = NoFile
      /\ knownTag = 0 /\ declined = 0
  BY DEF Init, Idle, At
<1>7. LinkedIsThere /\ OthersOffered
  BY <1>4, <1>5, <1>6 DEF LinkedIsThere, OthersOffered
<1>8. Published
  BY <1>4, <1>5, <1>6, <1>12 DEF Published, OfThePast, Tag
<1>9. OneJob /\ WrittenIsRead /\ DeclinedIsPast
  BY <1>1, <1>4, <1>5, <1>6 DEF OneJob, Checks, Downloads, WrittenIsRead, DeclinedIsPast
<1>10. ~ effect
  BY Zenon DEF Init
<1>11. FinishedIsWhole
  BY <1>6, <1>10 DEF FinishedIsWhole
<1>. QED  BY <1>2, <1>3, <1>7, <1>8, <1>9, <1>11, TypeParts DEF IInv

LEMMA NextIInv == IInv /\ [Next]_vars => IInv'
<1> SUFFICES ASSUME IInv, [Next]_vars PROVE IInv'
  OBVIOUS
<1>1. /\ DataTyped /\ FlagsTyped /\ LinkedIsThere /\ Published /\ OthersOffered
      /\ ~ overlap => OneJob /\ WrittenIsRead /\ FinishedIsWhole /\ DeclinedIsPast
  BY TypeParts, Zenon DEF IInv
<1>2. DataTyped'
  BY <1>1, DataStep
<1>3. FlagsTyped'
  BY <1>1, FlagsStep
<1>4. TypeOK'
  BY <1>2, <1>3 DEF TypeOK, DataTyped, FlagsTyped
<1>5. LinkedIsThere' /\ Published' /\ OthersOffered'
  BY <1>1, LinkedStep, PublishedStep, OthersStep
<1>6. ASSUME ~ overlap' PROVE OneJob' /\ WrittenIsRead' /\ FinishedIsWhole' /\ DeclinedIsPast'
  <2>1. OneJob /\ WrittenIsRead /\ FinishedIsWhole /\ DeclinedIsPast
    BY <1>1, <1>6, OverlapStays, Zenon
  <2>. QED  BY <1>1, <1>6, <2>1, OneJobStep, WrittenStep, FinishedStep, DeclinedStep
<1>. QED  BY <1>4, <1>5, <1>6, Zenon DEF IInv

LEMMA AlwaysIInv == Spec => []IInv
BY InitIInv, NextIInv, PTL DEF Spec

(***************************************************************************)
(* The updater's variables keep their types: no answer of the network, no  *)
(* tap and no kill leaves a state the handlers do not know.                *)
(***************************************************************************)
THEOREM TypeCorrect == Spec => []TypeOK
<1>1. IInv => TypeOK
  BY Zenon DEF IInv
<1>. QED  BY <1>1, AlwaysIInv, PTL

(***************************************************************************)
(* What StartInstall hands to the package installer is the whole APK of    *)
(* one release, and another one than is installed, if no jobs overlapped.  *)
(***************************************************************************)
THEOREM AlwaysInstallsWhole == Spec => []InstallsWhole
<1>1. IInv => InstallsWhole
  BY DEF IInv, FinishedIsWhole, InstallsWhole
<1>. QED  BY <1>1, AlwaysIInv, PTL

(***************************************************************************)
(* A finished download is left only by handing the file to the installer,  *)
(* by Later, or by a kill: no job is in flight that could overwrite the    *)
(* state, and none starts.                                                 *)
(***************************************************************************)
LEMMA DownloadedStep ==
  ASSUME IInv, [Next]_vars, appUpdate.st = "Downloaded", appUpdate'.st # "Downloaded", ~ overlap
  PROVE  installer' # NoFile \/ dismissUpdate \/ Killed
<1>a. DataTyped /\ ~ InFlight /\ Whole(apk, appUpdate.tag) /\ installer = NoFile
  BY TypeParts, Zenon DEF IInv, FinishedIsWhole
<1>1. ASSUME NEW j \in CheckJob, CheckStarts(j) PROVE installer' # NoFile \/
     dismissUpdate \/ Killed
  BY <1>1, <1>a
  DEF CheckStarts, InFlight, user, ui, world
<1>2. ASSUME NEW j \in CheckJob, CheckFails(j) PROVE installer' # NoFile \/
     dismissUpdate \/ Killed
  BY <1>2, <1>a
  DEF CheckFails, Ends, InFlight, user, ui, world
<1>3. ASSUME NEW j \in CheckJob, TagArrives(j) PROVE installer' # NoFile \/
     dismissUpdate \/ Killed
  BY <1>3, <1>a
  DEF TagArrives, Ends, isNew, InFlight, user, ui, world
<1>4. ASSUME NEW j \in CheckJob, NotesArrive(j) PROVE installer' # NoFile \/
     dismissUpdate \/ Killed
  BY <1>4, <1>a
  DEF NotesArrive, Ends, TreatedAsBundle, InFlight, ui, world
<1>5. ASSUME NEW d \in DownloadJob, Deletes(d) PROVE installer' # NoFile \/
     dismissUpdate \/ Killed
  BY <1>5, <1>a
  DEF Deletes, Goes, InFlight, user, ui
<1>6. ASSUME NEW d \in DownloadJob, Opens(d) PROVE installer' # NoFile \/ dismissUpdate
     \/ Killed
  BY <1>6, <1>a
  DEF Opens, Goes, InFlight, user, ui
<1>7. ASSUME NEW d \in DownloadJob, Reads(d) PROVE installer' # NoFile \/ dismissUpdate
     \/ Killed
  BY <1>7, <1>a
  DEF Reads, Goes, Written, InFlight, user, ui
<1>8. ASSUME NEW d \in DownloadJob, Completes(d) PROVE installer' # NoFile \/
     dismissUpdate \/ Killed
  BY <1>8, <1>a
  DEF Completes, InFlight, ui, world
<1>9. ASSUME NEW d \in DownloadJob, DownloadFails(d) PROVE installer' # NoFile \/
     dismissUpdate \/ Killed
  BY <1>9, <1>a
  DEF DownloadFails, Goes, InFlight, user, ui
<1>10. CASE Recompose
  BY <1>10, <1>a
  DEF Recompose, InFlight, user, world
<1>11. CASE StartInstall
  BY <1>11, <1>a, FilesDiffer DEF StartInstall
<1>12. CASE RestartPoll
  BY <1>12, <1>a
  DEF RestartPoll, InFlight, user, world
<1>13. CASE Poll
  BY <1>13, <1>a
  DEF Poll, InFlight, user, world
<1>14. CASE downloadAppUpdate
  BY <1>14, <1>a
  DEF downloadAppUpdate, InFlight, ui, world
<1>15. CASE dismissUpdate
  BY <1>15, Zenon
<1>16. CASE Retry
  BY <1>16, <1>a
  DEF Retry, InFlight, user, ui, world
<1>25. CASE UpdateCheck
  BY <1>25, <1>a
  DEF UpdateCheck, InFlight, user, ui, world
<1>17. CASE showDismissedUpdate
  BY <1>17, <1>a
  DEF showDismissedUpdate, InFlight, ui, world
<1>18. CASE BackoffEnds
  BY <1>18, <1>a
  DEF BackoffEnds, InFlight, user, ui, world
<1>19. CASE Publish
  BY <1>19, <1>a
  DEF Publish, InFlight, user, ui
<1>20. CASE InstallerCloses
  BY <1>20, <1>a
  DEF InstallerCloses, InFlight, user, ui
<1>21. CASE Recreate
  BY <1>21, <1>a
  DEF Recreate, InFlight, user, world
<1>22. CASE Killed
  BY <1>22, Zenon
<1>23. ASSUME NEW t \in Tag, Installed(t) PROVE installer' # NoFile \/ dismissUpdate \/
     Killed
  BY <1>23, <1>a, FilesDiffer DEF Installed
<1>24. CASE UNCHANGED vars
  BY <1>24, <1>a DEF vars, user, ui, world, InFlight
<1>. QED  BY <1>1, <1>2, <1>3, <1>4, <1>5, <1>6, <1>7, <1>8, <1>9, <1>10, <1>11, <1>12,
     <1>13, <1>14, <1>15, <1>16, <1>17, <1>18, <1>19, <1>20, <1>21, <1>22, <1>23, <1>24,
     <1>25
          DEF Next, CheckStep, DownloadStep

(***************************************************************************)
(* A download that has finished is left only by handing it to the          *)
(* installer, unless the process is killed, the user says Later on the     *)
(* dialog that is still open, or two jobs have overlapped: no check and no *)
(* further tap on Download gets past Downloaded.                           *)
(***************************************************************************)
THEOREM AlwaysDownloadedIsInstalled == Spec => DownloadedIsInstalled
<1>1. IInv /\ [Next]_vars
      => [appUpdate.st = "Downloaded" /\ appUpdate'.st # "Downloaded" /\ ~ overlap
            => installer' # NoFile \/ dismissUpdate \/ Killed]_vars
  BY DownloadedStep, Zenon
<1>. QED  BY <1>1, AlwaysIInv, PTL DEF Spec, DownloadedIsInstalled

(***************************************************************************)
(* A silent check that ends in an offer, offers another release than the   *)
(* one declined: it compared with known_tag after the user's answer.       *)
(***************************************************************************)
LEMMA OfferStep ==
  ASSUME IInv, [Next]_vars, NEW k \in CheckJob, Offers(k), checks[k].silent, ~ overlap
  PROVE  appUpdate'.tag # declined
<1>a. DataTyped /\ declined \in Nat /\ checks[k].tag \in Nat /\ declined < checks[k].tag
  <2>1. DataTyped /\ DeclinedIsPast
    BY TypeParts, Zenon DEF IInv
  <2>. QED  BY <2>1 DEF DataTyped, DeclinedIsPast, Offers, Tag, Check
<1>1. ASSUME NEW j \in CheckJob, CheckStarts(j) PROVE appUpdate'.tag # declined
  BY <1>1, <1>a
  DEF CheckStarts, Offers, DataTyped, AppUpdate, Check, At, user, ui, world
<1>2. ASSUME NEW j \in CheckJob, CheckFails(j) PROVE appUpdate'.tag # declined
  BY <1>2, <1>a
  DEF CheckFails, Ends, Offers, DataTyped, AppUpdate, Check, At, Idle, Failed, NoCheck,
       user, ui, world
<1>3. ASSUME NEW j \in CheckJob, TagArrives(j) PROVE appUpdate'.tag # declined
  BY <1>3, <1>a
  DEF TagArrives, Ends, isNew, Offers, DataTyped, AppUpdate, Check, At, Idle, NoCheck,
       user, ui, world
<1>4. ASSUME NEW j \in CheckJob, NotesArrive(j) PROVE appUpdate'.tag # declined
  BY <1>4, <1>a
  DEF NotesArrive, Ends, TreatedAsBundle, Offers, DataTyped, AppUpdate, Check, At, Idle,
       NoCheck, ui, world
<1>5. ASSUME NEW d \in DownloadJob, Deletes(d) PROVE appUpdate'.tag # declined
  BY <1>5, <1>a
  DEF Deletes, Goes, Offers, DataTyped, user, ui
<1>6. ASSUME NEW d \in DownloadJob, Opens(d) PROVE appUpdate'.tag # declined
  BY <1>6, <1>a
  DEF Opens, Goes, Offers, DataTyped, user, ui
<1>7. ASSUME NEW d \in DownloadJob, Reads(d) PROVE appUpdate'.tag # declined
  BY <1>7, <1>a
  DEF Reads, Goes, Written, Offers, DataTyped, AppUpdate, At, user, ui
<1>8. ASSUME NEW d \in DownloadJob, Completes(d) PROVE appUpdate'.tag # declined
  BY <1>8, <1>a
  DEF Completes, Offers, DataTyped, AppUpdate, At, ui, world
<1>9. ASSUME NEW d \in DownloadJob, DownloadFails(d) PROVE appUpdate'.tag # declined
  BY <1>9, <1>a
  DEF DownloadFails, Goes, Offers, DataTyped, AppUpdate, At, Failed, user, ui
<1>10. CASE Recompose
  BY <1>10, <1>a
  DEF Recompose, Offers, DataTyped, AppUpdate, user, world
<1>11. CASE StartInstall
  BY <1>11, <1>a
  DEF StartInstall, Offers, DataTyped, AppUpdate, At, Idle, user
<1>12. CASE RestartPoll
  BY <1>12, <1>a, CheckBegins
  DEF RestartPoll, Offers, DataTyped, Check, user, world
<1>13. CASE Poll
  BY <1>13, <1>a, CheckBegins
  DEF Poll, Offers, DataTyped, Check, At, Idle, Failed, user, world
<1>14. CASE downloadAppUpdate
  BY <1>14, <1>a
  DEF downloadAppUpdate, Offers, DataTyped, ui, world
<1>15. CASE dismissUpdate
  BY <1>15, <1>a
  DEF dismissUpdate, Offers, DataTyped, AppUpdate, At, Idle, ui, world
<1>16. CASE Retry
  BY <1>16, <1>a, CheckBegins
  DEF Retry, Offers, DataTyped, Check, At, Failed, user, ui, world
<1>25. CASE UpdateCheck
  BY <1>25, <1>a, CheckBegins
  DEF UpdateCheck, Offers, DataTyped, Check, At, Failed, user, ui, world
<1>17. CASE showDismissedUpdate
  BY <1>17, <1>a, CheckBegins
  DEF showDismissedUpdate, Offers, DataTyped, Check, ui, world
<1>18. CASE BackoffEnds
  BY <1>18, <1>a
  DEF BackoffEnds, Offers, DataTyped, user, ui, world
<1>19. CASE Publish
  BY <1>19, <1>a
  DEF Publish, Offers, DataTyped, user, ui
<1>20. CASE InstallerCloses
  BY <1>20, <1>a
  DEF InstallerCloses, Offers, DataTyped, user, ui
<1>21. CASE Recreate
  BY <1>21, <1>a
  DEF Recreate, Offers, DataTyped, AppUpdate, user, world
<1>22. CASE Killed
  BY <1>22, <1>a
  DEF Killed, NewProcess, Offers, DataTyped, AppUpdate, Check, At, Idle, NoCheck
<1>23. ASSUME NEW t \in Tag, Installed(t) PROVE appUpdate'.tag # declined
  BY <1>23, <1>a
  DEF Installed, NewProcess, Offers, DataTyped, AppUpdate, Check, At, Idle, NoCheck
<1>24. CASE UNCHANGED vars
  BY <1>24, <1>a DEF vars, user, ui, world, Offers, DataTyped, AppUpdate, Check, At,
       Idle, Failed, NoCheck
<1>. QED  BY <1>1, <1>2, <1>3, <1>4, <1>5, <1>6, <1>7, <1>8, <1>9, <1>10, <1>11, <1>12,
     <1>13, <1>14, <1>15, <1>16, <1>17, <1>18, <1>19, <1>20, <1>21, <1>22, <1>23, <1>24,
     <1>25
          DEF Next, CheckStep, DownloadStep

(***************************************************************************)
(* Whatever the process was killed, restarted or installed for in between: *)
(* a silent check that overlaps no other job never offers the release      *)
(* whose tag was declined last.  It holds since the tag of every offer is  *)
(* newer than known_tag, which declining has raised.                       *)
(***************************************************************************)
THEOREM AlwaysDismissedStays == Spec => DismissedStays
<1>1. IInv /\ [Next]_vars
      => [\A j \in CheckJob : Offers(j) /\ checks[j].silent /\ ~ overlap
                                => appUpdate'.tag # declined]_vars
  BY OfferStep, Zenon
<1>. QED  BY <1>1, AlwaysIInv, PTL DEF Spec, DismissedStays

(***************************************************************************)
(* After an answer of the user's, only what he asks for starts a check.    *)
(***************************************************************************)
LEMMA QuietStep ==
  ASSUME IInv, [Next]_vars, ~ pollEnabled,
         NEW j \in CheckJob, checks[j].pc = "none", checks'[j].pc # "none"
  PROVE  ~ checks'[j].silent
<1>a. checks \in [CheckJob -> Check]
  BY DEF IInv, TypeOK
<1>1. ASSUME NEW i \in CheckJob, CheckStarts(i) PROVE ~ checks'[j].silent
  BY <1>1, <1>a
  DEF CheckStarts, Check, user, ui, world
<1>2. ASSUME NEW i \in CheckJob, CheckFails(i) PROVE ~ checks'[j].silent
  BY <1>2, <1>a
  DEF CheckFails, Ends, Check, NoCheck, user, ui, world
<1>3. ASSUME NEW i \in CheckJob, TagArrives(i) PROVE ~ checks'[j].silent
  BY <1>3, <1>a
  DEF TagArrives, Ends, isNew, Check, NoCheck, user, ui, world
<1>4. ASSUME NEW i \in CheckJob, NotesArrive(i) PROVE ~ checks'[j].silent
  BY <1>4, <1>a
  DEF NotesArrive, Ends, TreatedAsBundle, Check, NoCheck, ui, world
<1>5. ASSUME NEW d \in DownloadJob, Deletes(d) PROVE ~ checks'[j].silent
  BY <1>5, <1>a
  DEF Deletes, Goes, user, ui
<1>6. ASSUME NEW d \in DownloadJob, Opens(d) PROVE ~ checks'[j].silent
  BY <1>6, <1>a
  DEF Opens, Goes, user, ui
<1>7. ASSUME NEW d \in DownloadJob, Reads(d) PROVE ~ checks'[j].silent
  BY <1>7, <1>a
  DEF Reads, Goes, Written, user, ui
<1>8. ASSUME NEW d \in DownloadJob, Completes(d) PROVE ~ checks'[j].silent
  BY <1>8, <1>a
  DEF Completes, ui, world
<1>9. ASSUME NEW d \in DownloadJob, DownloadFails(d) PROVE ~ checks'[j].silent
  BY <1>9, <1>a
  DEF DownloadFails, Goes, user, ui
<1>10. CASE Recompose
  BY <1>10, <1>a
  DEF Recompose, user, world
<1>11. CASE StartInstall
  BY <1>11, <1>a
  DEF StartInstall, user
<1>12. CASE RestartPoll
  <2>1. UNCHANGED checks
    BY <1>12, Zenon DEF RestartPoll, world
  <2>. QED  BY <2>1
<1>13. CASE Poll
  <2>1. UNCHANGED checks
    BY <1>13, Zenon DEF Poll, world
  <2>. QED  BY <2>1
<1>14. CASE downloadAppUpdate
  BY <1>14, <1>a
  DEF downloadAppUpdate, ui, world
<1>15. CASE dismissUpdate
  BY <1>15, <1>a
  DEF dismissUpdate, ui, world
<1>16. CASE Retry
  <2>1. UNCHANGED <<checks, overlap>> \/ Begins(FALSE)
    BY <1>16, <1>a, CheckBegins DEF Retry
  <2>2. checks'[j] = [pc |-> "start", silent |-> FALSE, tag |-> 0]
    BY <2>1 DEF Begins
  <2>. QED  BY <2>2
<1>25. CASE UpdateCheck
  <2>1. UNCHANGED <<checks, overlap>> \/ Begins(FALSE)
    BY <1>25, <1>a, CheckBegins DEF UpdateCheck
  <2>2. checks'[j] = [pc |-> "start", silent |-> FALSE, tag |-> 0]
    BY <2>1 DEF Begins
  <2>. QED  BY <2>2
<1>17. CASE showDismissedUpdate
  <2>1. UNCHANGED <<checks, overlap>> \/ Begins(FALSE)
    BY <1>17, <1>a, CheckBegins DEF showDismissedUpdate
  <2>2. checks'[j] = [pc |-> "start", silent |-> FALSE, tag |-> 0]
    BY <2>1 DEF Begins
  <2>. QED  BY <2>2
<1>18. CASE BackoffEnds
  BY <1>18, <1>a
  DEF BackoffEnds, user, ui, world
<1>19. CASE Publish
  BY <1>19, <1>a
  DEF Publish, user, ui
<1>20. CASE InstallerCloses
  BY <1>20, <1>a
  DEF InstallerCloses, user, ui
<1>21. CASE Recreate
  BY <1>21, <1>a
  DEF Recreate, user, world
<1>22. CASE Killed
  BY <1>22, <1>a
  DEF Killed, NewProcess, Check, NoCheck
<1>23. ASSUME NEW t \in Tag, Installed(t) PROVE ~ checks'[j].silent
  BY <1>23, <1>a
  DEF Installed, NewProcess, Check, NoCheck
<1>24. CASE UNCHANGED vars
  BY <1>24, <1>a DEF vars, user, ui, world, Check, NoCheck
<1>. QED  BY <1>1, <1>2, <1>3, <1>4, <1>5, <1>6, <1>7, <1>8, <1>9, <1>10, <1>11, <1>12,
     <1>13, <1>14, <1>15, <1>16, <1>17, <1>18, <1>19, <1>20, <1>21, <1>22, <1>23, <1>24,
     <1>25
          DEF Next, CheckStep, DownloadStep

(***************************************************************************)
(* LaunchedEffect and the poll loop read pollEnabled at every turn, also   *)
(* after the delay and when the activity is composed anew, and no button   *)
(* starts a silent check: after an answer none starts until the user asks  *)
(* for a check or the process restarts.                                    *)
(***************************************************************************)
THEOREM AlwaysQuietAfterAnswer == Spec => QuietAfterAnswer
<1>1. IInv /\ [Next]_vars
      => [~ pollEnabled => \A j \in CheckJob : checks[j].pc = "none" /\ checks'[j].pc # "none"
                                                 => ~ checks'[j].silent]_vars
  BY QuietStep, Zenon
<1>. QED  BY <1>1, AlwaysIInv, PTL DEF Spec, QuietAfterAnswer

(***************************************************************************)
(* The user's own check ends in an answer: known_tag does not stand in its *)
(* way, and only the release that is installed ends it before the notes.   *)
(***************************************************************************)
Answered(j) == \/ appUpdate'.st \in {"Available", "Failed"}
               \/ appUpdate'.st = "UpToDate" /\ (checks[j].pc = "notes" \/ appUpdate'.tag = ours)
               \/ NewProcess

LEMMA AnswerStep ==
  ASSUME IInv, [Next]_vars,
         NEW j \in CheckJob, ~ checks[j].silent, checks[j].pc # "none", checks'[j].pc = "none"
  PROVE  Answered(j)
<1>a. checks \in [CheckJob -> Check]
  BY DEF IInv, TypeOK
<1>1. ASSUME NEW i \in CheckJob, CheckStarts(i) PROVE Answered(j)
  BY <1>1, <1>a DEF CheckStarts, Check
<1>2. ASSUME NEW i \in CheckJob, CheckFails(i) PROVE Answered(j)
  BY <1>2, <1>a DEF CheckFails, Ends, Failed, At, Answered
<1>3. ASSUME NEW i \in CheckJob, TagArrives(i) PROVE Answered(j)
  <2>1. i = j
    BY <1>3, <1>a DEF TagArrives, Ends, Check
  <2>2. CASE ~ isNew(latest, FALSE) /\ Ends(j, At("UpToDate", latest))
    BY <2>2 DEF isNew, Ends, At, Answered
  <2>3. CASE checks' = [checks EXCEPT ![j].pc = "notes", ![j].tag = latest]
    BY <2>3, <1>a DEF Check
  <2>4. checks[j].silent = FALSE
    BY <1>a DEF Check
  <2>. QED  BY <1>3, <2>1, <2>2, <2>3, <2>4 DEF TagArrives
<1>4. ASSUME NEW i \in CheckJob, NotesArrive(i) PROVE Answered(j)
  <2>1. i = j
    BY <1>4, <1>a DEF NotesArrive, Ends, Check
  <2>. QED  BY <1>4, <2>1 DEF NotesArrive, Ends, At, Answered
<1>5. ASSUME NEW d \in DownloadJob, DownloadStep(d) PROVE Answered(j)
  BY <1>5 DEF DownloadStep, Deletes, Opens, Reads, Completes, DownloadFails, Goes
<1>6. CASE Recompose \/ StartInstall \/ downloadAppUpdate \/ dismissUpdate
  BY <1>6 DEF Recompose, StartInstall, downloadAppUpdate, dismissUpdate
<1>7. CASE \/ RestartPoll \/ Poll \/ Retry \/ UpdateCheck \/ showDismissedUpdate
  <2>1. UNCHANGED checks \/ checkAppUpdate(TRUE) \/ checkAppUpdate(FALSE)
    BY <1>7, Zenon DEF RestartPoll, Poll, Retry, UpdateCheck, showDismissedUpdate
  <2>2. checks'[j] = checks[j] \/ checks'[j].pc = "start"
    BY <2>1, <1>a, CheckBegins
  <2>. QED  BY <2>2
<1>8. CASE BackoffEnds \/ Publish \/ InstallerCloses \/ Recreate
  BY <1>8 DEF BackoffEnds, Publish, InstallerCloses, Recreate
<1>9. CASE Killed \/ \E t \in Tag : Installed(t)
  BY <1>9, Zenon DEF Killed, Installed, Answered
<1>10. CASE UNCHANGED vars
  BY <1>10 DEF vars
<1>. QED  BY <1>1, <1>2, <1>3, <1>4, <1>5, <1>6, <1>7, <1>8, <1>9, <1>10 DEF Next, CheckStep

(***************************************************************************)
(* checkAppUpdate(silent = false) compares the tag with known_tag only for *)
(* a silent check and leaves none of its ends without a state the dialog   *)
(* shows, unless the process ends first.                                   *)
(***************************************************************************)
THEOREM AlwaysAskedIsAnswered == Spec => AskedIsAnswered
<1>1. IInv /\ [Next]_vars
      => [\A j \in CheckJob : ~ checks[j].silent /\ checks[j].pc # "none" /\ checks'[j].pc = "none"
            => \/ appUpdate'.st \in {"Available", "Failed"}
               \/ appUpdate'.st = "UpToDate" /\ (checks[j].pc = "notes" \/ appUpdate'.tag = ours)
               \/ NewProcess]_vars
  BY AnswerStep, Zenon DEF Answered
<1>. QED  BY <1>1, AlwaysIInv, PTL DEF Spec, AskedIsAnswered
=============================================================================
