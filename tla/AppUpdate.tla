----------------------------- MODULE AppUpdate -----------------------------
(***************************************************************************)
(* The patcher's updater of itself (PatcherViewModel.kt, the updater; its  *)
(* dialog and effects in MainActivity.kt).  One StateFlow, appUpdate, is   *)
(* written by jobs on the IO threads -- checks for a release, downloads of *)
(* its APK -- and by the handlers of the main thread, with no lock and no  *)
(* job ever cancelled.  The user sees, and taps on, the value of the last  *)
(* composition (shown), which may be behind; the handlers read the actual  *)
(* one.                                                                    *)
(*                                                                         *)
(* Nothing but the guard of checkAppUpdate() keeps jobs apart, and that    *)
(* reads a state which silent checks, and a download until its first byte, *)
(* leave alone.  So jobs may overlap: the history variable `overlap' tells *)
(* the properties that need them apart from those that do not.             *)
(*                                                                         *)
(* Left out: the bundle notification, the release notes, the lag of        *)
(* SharedPreferences.apply() behind a process kill.                        *)
(***************************************************************************)
EXTENDS Naturals, FiniteSets

CONSTANTS
  MaxTag,         \* bound on the releases published
  FirstVersions,  \* the versions installed first, each with the latest release then
  BundleReleases, \* the releases that have no APK or are marked as bundles
  Chunks,         \* the reads a download takes
  MaxChecks,      \* bounds on the checks and downloads in flight at one time
  MaxDownloads

ASSUME SizesAssumption == /\ MaxTag \in Nat /\ Chunks \in Nat \ {0}
                          /\ MaxChecks \in Nat \ {0} /\ MaxDownloads \in Nat \ {0}
ASSUME VersionsAssumption == /\ FirstVersions \subseteq (0 .. MaxTag) \X (1 .. MaxTag)
                             /\ \A v \in FirstVersions : v[1] <= v[2]
ASSUME BundlesAssumption == BundleReleases \subseteq 1 .. MaxTag

\* The releases are 1, 2 and so on; 0 is the version of a local build, which no
\* release has.
Tag         == 0 .. MaxTag
CheckJob    == 1 .. MaxChecks
DownloadJob == 1 .. MaxDownloads

VARIABLES
  appUpdate,    \* _appUpdate
  pollEnabled,  \* _pollEnabled
  knownTag,     \* "known_tag" in the updater's preferences; 0 if not there
  backoff,      \* whether nextPollAt is still to come
  checks,       \* the jobs of checkAppUpdate()
  downloads,    \* the jobs of downloadAppUpdate()
  shown,        \* appUpdate as of the last composition
  effect,       \* whether LaunchedEffect(update) is yet to run
  pollKey,      \* pollEnabled as of the last composition
  poll,         \* the loop of LaunchedEffect(pollEnabled)
  latest,       \* the latest release on GitHub
  ours,         \* the version that is installed
  apk,          \* the contents of update.apk, if it exists
  installer,    \* what the package installer has been handed, if it is open
  overlap,      \* history: whether a job was ever in flight when another was started
                \* or the user answered an offer
  declined      \* history: the release the user said Later to last, if he has not had
                \* dismissed ones shown again since

user  == <<pollEnabled, knownTag, declined>>
ui    == <<shown, effect, pollKey, poll>>
world == <<latest, ours, apk, installer>>
vars  == <<appUpdate, user, backoff, checks, downloads, ui, world, overlap>>

States == {"Idle", "Checking", "Available", "Downloading", "Downloaded", "UpToDate",
           "Failed"}

\* sealed interface AppUpdate; the tag is that of the release the state is about.
AppUpdate == [st : States, tag : Tag]
At(st, t) == [st |-> st, tag |-> t]
Idle      == At("Idle", 0)
Failed    == At("Failed", 0)

Busy == {"Checking", "Downloading", "Downloaded"}

\* The file holds at each place what was written there last, by the release;
\* 0 is a hole.
NoFile      == <<>>
Fresh       == [c \in 1 .. Chunks |-> 0]
Content     == [1 .. Chunks -> Tag]
Whole(f, t) == t # 0 /\ f = [c \in 1 .. Chunks |-> t]

\* A download's stream goes on into the file it opened, linked at its path or not.
Check    == [pc : {"none", "start", "tag", "notes"}, silent : BOOLEAN, tag : Tag]
Download == [pc : {"none", "start", "open", "body"}, tag : Tag, done : 0 .. Chunks,
             linked : BOOLEAN]

NoCheck    == [pc |-> "none", silent |-> TRUE, tag |-> 0]
NoDownload == [pc |-> "none", tag |-> 0, done |-> 0, linked |-> FALSE]

InFlight == \/ \E j \in CheckJob : checks[j].pc # "none"
            \/ \E d \in DownloadJob : downloads[d].pc # "none"

FirstIdle(jobs, j) == /\ jobs[j].pc = "none"
                      /\ \A i \in DOMAIN jobs : jobs[i].pc = "none" => j <= i
-----------------------------------------------------------------------------
(***************************************************************************)
(* The check for a release.                                                *)
(***************************************************************************)
Refused(silent) == appUpdate.st \in Busy \/ (silent /\ backoff)

checkAppUpdate(silent) ==
  \/ Refused(silent) /\ UNCHANGED <<checks, overlap>>
  \/ /\ ~ Refused(silent)
     /\ \E j \in CheckJob :
          /\ FirstIdle(checks, j)
          /\ checks' = [checks EXCEPT ![j] = [pc |-> "start", silent |-> silent, tag |-> 0]]
     /\ overlap' = (overlap \/ InFlight)

CheckStarts(j) ==
  /\ checks[j].pc = "start"
  /\ appUpdate' = IF checks[j].silent THEN appUpdate ELSE At("Checking", 0)
  /\ checks' = [checks EXCEPT ![j].pc = "tag"]
  /\ UNCHANGED <<user, backoff, downloads, ui, world, overlap>>

\* A check that offers nothing: a silent one does so silently.
Ends(j, answer) == /\ appUpdate' = IF checks[j].silent THEN Idle ELSE answer
                   /\ checks' = [checks EXCEPT ![j] = NoCheck]

\* latestTagRedirect() has no answer, or the check throws.
CheckFails(j) ==
  /\ checks[j].pc \in {"tag", "notes"}
  /\ backoff' = TRUE
  /\ Ends(j, Failed)
  /\ UNCHANGED <<user, downloads, ui, world, overlap>>

\* The user's own check overrules known_tag; to a local build every release is new.
\* Mutant: known_tag answers the user as well.
isNew_known(tag, silent) == tag # knownTag /\ tag # ours
isNew(tag, silent) == (tag # knownTag \/ ~ silent) /\ tag # ours

\* The answer of latestTagRedirect().
TagArrives(j) ==
  /\ checks[j].pc = "tag"
  /\ \/ ~ isNew(latest, checks[j].silent) /\ Ends(j, At("UpToDate", latest))
     \/ /\ isNew(latest, checks[j].silent)
        /\ checks' = [checks EXCEPT ![j].pc = "notes", ![j].tag = latest]
        /\ UNCHANGED appUpdate
  /\ UNCHANGED <<user, backoff, downloads, ui, world, overlap>>

\* What parseBuildType() makes of the release's notes and assets.  When they
\* could not be fetched, or are those of a newer release, it sees no APK.
TreatedAsBundle(tag, answered) == tag \in BundleReleases \/ ~ answered \/ latest # tag

NotesArrive(j) ==
  LET tag == checks[j].tag
  IN  /\ checks[j].pc = "notes"
      /\ \E answered \in BOOLEAN :
           /\ backoff' = (backoff \/ ~ answered)
           /\ \/ /\ TreatedAsBundle(tag, answered)
                 /\ knownTag' = tag
                 /\ Ends(j, At("UpToDate", tag))
              \/ /\ ~ TreatedAsBundle(tag, answered)
                 /\ appUpdate' = At("Available", tag)
                 /\ checks' = [checks EXCEPT ![j] = NoCheck]
                 /\ UNCHANGED knownTag
      /\ UNCHANGED <<pollEnabled, declined, downloads, ui, world, overlap>>
-----------------------------------------------------------------------------
(***************************************************************************)
(* The download: delete update.apk, open the connection, create it again   *)
(* and write what arrives.                                                 *)
(***************************************************************************)
Goes(d) == UNCHANGED <<user, backoff, checks, ui, latest, ours, installer, overlap>>

Deletes(d) ==
  /\ downloads[d].pc = "start"
  /\ apk' = NoFile
  /\ downloads' = [e \in DownloadJob |-> IF e = d THEN [downloads[d] EXCEPT !.pc = "open"]
                                         ELSE [downloads[e] EXCEPT !.linked = FALSE]]
  /\ UNCHANGED appUpdate
  /\ Goes(d)

\* The stream truncates what another download may have created meanwhile.
Opens(d) ==
  /\ downloads[d].pc = "open"
  /\ apk' = Fresh
  /\ downloads' = [downloads EXCEPT ![d].pc = "body", ![d].linked = TRUE]
  /\ UNCHANGED appUpdate
  /\ Goes(d)

\* Mutant: what arrives is appended.
Written_appended(d) == [c \in 1 .. Chunks + 1 |-> IF c <= Chunks THEN apk[c] ELSE downloads[d].tag]
Written(d) == [apk EXCEPT ![downloads[d].done + 1] = downloads[d].tag]

Reads(d) ==
  /\ downloads[d].pc = "body" /\ downloads[d].done < Chunks
  /\ apk' = IF downloads[d].linked THEN Written(d) ELSE apk
  /\ downloads' = [downloads EXCEPT ![d].done = @ + 1]
  /\ appUpdate' = At("Downloading", downloads[d].tag)
  /\ Goes(d)

Completes(d) ==
  /\ downloads[d].pc = "body" /\ downloads[d].done = Chunks
  /\ knownTag' = downloads[d].tag
  /\ appUpdate' = At("Downloaded", downloads[d].tag)
  /\ downloads' = [downloads EXCEPT ![d] = NoDownload]
  /\ UNCHANGED <<pollEnabled, declined, backoff, checks, ui, world, overlap>>

\* Mutants: a download that fails is taken for finished; or it leaves the state alone.
DownloadFails_done(d) ==
  /\ downloads[d].pc \in {"open", "body"}
  /\ appUpdate' = At("Downloaded", downloads[d].tag)
  /\ downloads' = [downloads EXCEPT ![d] = NoDownload]
  /\ UNCHANGED apk
  /\ Goes(d)

DownloadFails_silently(d) ==
  /\ downloads[d].pc \in {"open", "body"}
  /\ UNCHANGED appUpdate
  /\ downloads' = [downloads EXCEPT ![d] = NoDownload]
  /\ UNCHANGED apk
  /\ Goes(d)

DownloadFails(d) ==
  /\ downloads[d].pc \in {"open", "body"}
  /\ appUpdate' = Failed
  /\ downloads' = [downloads EXCEPT ![d] = NoDownload]
  /\ UNCHANGED apk
  /\ Goes(d)
-----------------------------------------------------------------------------
(***************************************************************************)
(* The screen.  The dialog is modal; while it is there the menu is not.    *)
(***************************************************************************)
Dialog   == shown.st \in {"Available", "Downloading", "UpToDate", "Failed"}
UserActs == installer = NoFile /\ ~ effect

Recompose == /\ ~ effect /\ shown # appUpdate
             /\ shown' = appUpdate
             /\ effect' = (appUpdate.st = "Downloaded")
             /\ UNCHANGED <<appUpdate, user, backoff, checks, downloads, pollKey, poll,
                            world, overlap>>

\* LaunchedEffect(update) of a Downloaded one: installIntentFor() and
\* consumeDownloaded().
\* Mutant: the state is consumed and nothing is installed.
StartInstall_swapped == /\ effect
                        /\ effect' = FALSE
                        /\ appUpdate' = Idle
                        /\ UNCHANGED <<user, backoff, checks, downloads, shown, pollKey, poll,
                                       world, overlap>>

StartInstall == /\ effect
                /\ effect' = FALSE
                /\ installer' = apk
                /\ appUpdate' = Idle
                /\ UNCHANGED <<user, backoff, checks, downloads, shown, pollKey, poll,
                               latest, ours, apk, overlap>>

\* LaunchedEffect(pollEnabled), when pollEnabled has changed since the last
\* composition: the loop of before is cancelled.
RestartPoll ==
  /\ pollKey # pollEnabled
  /\ pollKey' = pollEnabled
  /\ \/ pollEnabled /\ poll' = "delay" /\ checkAppUpdate(TRUE)
     \/ ~ pollEnabled /\ poll' = "off" /\ UNCHANGED <<checks, overlap>>
  /\ UNCHANGED <<appUpdate, user, backoff, downloads, shown, effect, world>>

\* 15 seconds later.
\* Mutant: the loop does not look at pollEnabled again.
Poll_regardless ==
  /\ poll = "delay"
  /\ \/ /\ appUpdate.st \in {"Idle", "Failed"}
        /\ checkAppUpdate(TRUE)
        /\ UNCHANGED poll
     \/ /\ appUpdate.st \notin {"Idle", "Failed"}
        /\ poll' = "off"
        /\ UNCHANGED <<checks, overlap>>
  /\ UNCHANGED <<appUpdate, user, backoff, downloads, shown, effect, pollKey, world>>

Poll ==
  /\ poll = "delay"
  /\ \/ /\ pollEnabled /\ appUpdate.st \in {"Idle", "Failed"}
        /\ checkAppUpdate(TRUE)
        /\ UNCHANGED poll
     \/ /\ ~ (pollEnabled /\ appUpdate.st \in {"Idle", "Failed"})
        /\ poll' = "off"
        /\ UNCHANGED <<checks, overlap>>
  /\ UNCHANGED <<appUpdate, user, backoff, downloads, shown, effect, pollKey, world>>

\* "Download".
downloadAppUpdate ==
  /\ UserActs /\ shown.st = "Available"
  /\ \/ appUpdate.st # "Available" /\ UNCHANGED <<pollEnabled, downloads, overlap>>
     \/ /\ appUpdate.st = "Available"
        /\ pollEnabled' = FALSE
        /\ \E d \in DownloadJob :
             /\ FirstIdle(downloads, d)
             /\ downloads' = [downloads EXCEPT ![d] = [NoDownload EXCEPT !.pc = "start",
                                                       !.tag = appUpdate.tag]]
        /\ overlap' = (overlap \/ InFlight)
  /\ UNCHANGED <<appUpdate, knownTag, declined, backoff, checks, ui, world>>

\* "Later", and a tap beside the dialog.
\* Mutant: known_tag is not written.
dismissUpdate_forgets ==
  /\ UserActs /\ Dialog /\ shown.st # "Downloading"
  /\ declined' = IF appUpdate.st = "Available" THEN appUpdate.tag ELSE declined
  /\ pollEnabled' = FALSE
  /\ appUpdate' = Idle
  /\ overlap' = (overlap \/ InFlight)
  /\ UNCHANGED <<knownTag, backoff, checks, downloads, ui, world>>

dismissUpdate ==
  /\ UserActs /\ Dialog /\ shown.st # "Downloading"
  /\ knownTag' = IF appUpdate.st = "Available" THEN appUpdate.tag ELSE knownTag
  /\ declined' = IF appUpdate.st = "Available" THEN appUpdate.tag ELSE declined
  /\ pollEnabled' = FALSE
  /\ appUpdate' = Idle
  /\ overlap' = (overlap \/ InFlight)
  /\ UNCHANGED <<backoff, checks, downloads, ui, world>>

\* "Retry", on the dialog of a failure.
Retry == /\ UserActs /\ shown.st = "Failed"
         /\ checkAppUpdate(FALSE)
         /\ UNCHANGED <<appUpdate, user, backoff, downloads, ui, world>>

\* "Update check", in the menu.
UpdateCheck == /\ UserActs /\ ~ Dialog
               /\ checkAppUpdate(FALSE)
               /\ UNCHANGED <<appUpdate, user, backoff, downloads, ui, world>>

\* "Show dismissed update", in the menu.
showDismissedUpdate ==
  /\ UserActs /\ ~ Dialog
  /\ knownTag' = 0
  /\ pollEnabled' = TRUE
  /\ declined' = 0
  /\ checkAppUpdate(FALSE)
  /\ UNCHANGED <<appUpdate, backoff, downloads, ui, world>>
-----------------------------------------------------------------------------
(***************************************************************************)
(* The world: time, releases, the package installer, and Android, which    *)
(* recreates the activity and kills the process.                           *)
(***************************************************************************)
BackoffEnds == /\ backoff /\ backoff' = FALSE
               /\ UNCHANGED <<appUpdate, user, checks, downloads, ui, world, overlap>>

Publish == /\ latest < MaxTag /\ latest' = latest + 1
           /\ UNCHANGED <<appUpdate, user, backoff, checks, downloads, ui, ours, apk,
                          installer, overlap>>

\* The user cancels, or the installer cannot parse the file.
InstallerCloses ==
  /\ installer # NoFile /\ installer' = NoFile
  /\ UNCHANGED <<appUpdate, user, backoff, checks, downloads, ui, latest, ours, apk, overlap>>

\* The activity is composed anew; the view model and its jobs stay.
Recreate == /\ pollKey' = FALSE /\ poll' = "off"
            /\ shown' = appUpdate /\ effect' = (appUpdate.st = "Downloaded")
            /\ UNCHANGED <<appUpdate, user, backoff, checks, downloads, world, overlap>>

NewProcess ==
  /\ appUpdate' = Idle /\ pollEnabled' = TRUE /\ backoff' = FALSE
  /\ checks' = [j \in CheckJob |-> NoCheck]
  /\ downloads' = [d \in DownloadJob |-> NoDownload]
  /\ shown' = Idle /\ effect' = FALSE /\ pollKey' = FALSE /\ poll' = "off"
  /\ installer' = NoFile

Killed == NewProcess /\ UNCHANGED <<knownTag, declined, latest, ours, apk, overlap>>

Installed(t) == /\ Whole(installer, t)
                /\ ours' = t
                /\ NewProcess
                /\ UNCHANGED <<knownTag, declined, latest, apk, overlap>>

Init == /\ appUpdate = Idle /\ pollEnabled = TRUE /\ knownTag = 0 /\ backoff = FALSE
        /\ checks = [j \in CheckJob |-> NoCheck]
        /\ downloads = [d \in DownloadJob |-> NoDownload]
        /\ shown = Idle /\ effect = FALSE /\ pollKey = FALSE /\ poll = "off"
        /\ \E v \in FirstVersions : ours = v[1] /\ latest = v[2]
        /\ apk = NoFile /\ installer = NoFile
        /\ overlap = FALSE /\ declined = 0

CheckStep(j) == CheckStarts(j) \/ CheckFails(j) \/ TagArrives(j) \/ NotesArrive(j)

DownloadStep(d) == Deletes(d) \/ Opens(d) \/ Reads(d) \/ Completes(d) \/ DownloadFails(d)

Next == \/ \E j \in CheckJob : CheckStep(j)
        \/ \E d \in DownloadJob : DownloadStep(d)
        \/ Recompose \/ StartInstall \/ RestartPoll \/ Poll
        \/ downloadAppUpdate \/ dismissUpdate
        \/ Retry \/ UpdateCheck \/ showDismissedUpdate
        \/ BackoffEnds \/ Publish \/ InstallerCloses \/ Recreate \/ Killed
        \/ \E t \in Tag : Installed(t)

(***************************************************************************)
(* The IO threads run; the network answers or times out (the clients of    *)
(* ReleaseRepository have connect and read timeouts); the main thread      *)
(* composes what has changed and runs its effects.                         *)
(***************************************************************************)
Fairness == /\ \A j \in CheckJob : WF_vars(CheckStep(j))
            /\ \A d \in DownloadJob : WF_vars(DownloadStep(d))
            /\ WF_vars(Recompose) /\ WF_vars(StartInstall)

Spec == Init /\ [][Next]_vars /\ Fairness
-----------------------------------------------------------------------------
TypeOK == /\ appUpdate \in AppUpdate /\ shown \in AppUpdate
          /\ {pollEnabled, backoff, effect, pollKey, overlap} \subseteq BOOLEAN
          /\ {knownTag, latest, ours, declined} \subseteq Tag
          /\ checks \in [CheckJob -> Check] /\ downloads \in [DownloadJob -> Download]
          /\ poll \in {"off", "delay"}
          /\ {apk, installer} \subseteq Content \cup {NoFile}

(***************************************************************************)
(* What the package installer is handed is the whole APK of one release,   *)
(* and not of the one installed.  This needs jobs that do not overlap: two *)
(* taps on Download before the first byte give two downloads into the one  *)
(* update.apk, and the first to end hands over the other's half.           *)
(***************************************************************************)
InstallsWhole == installer # NoFile /\ ~ overlap => \E t \in Tag : Whole(installer, t) /\ t # ours

(***************************************************************************)
(* MainActivity.kt: "Install starts automatically when the download        *)
(* finishes."  A download that has finished is left only by handing it to  *)
(* the installer, unless Android kills the process or the user says Later  *)
(* on what is still shown.  An overlapping check may overwrite it before   *)
(* the next composition, and then nothing installs.                        *)
(***************************************************************************)
DownloadedIsInstalled ==
  [][appUpdate.st = "Downloaded" /\ appUpdate'.st # "Downloaded" /\ ~ overlap
       => installer' # NoFile \/ dismissUpdate \/ Killed]_vars

(***************************************************************************)
(* A release the user said Later to is not offered again by silent checks, *)
(* of this process or the next, until he has dismissed ones shown again:   *)
(* "Update check" and "Retry" offer it once more and leave it declined.    *)
(* Unless a check was in flight when he answered, which may have read      *)
(* known_tag before (the poll starts one beside the open dialog when the   *)
(* activity is recreated), or another job that writes the tag of an older  *)
(* release over it.                                                        *)
(***************************************************************************)
Offers(j) == checks[j].pc = "notes" /\ checks'[j].pc = "none" /\ appUpdate'.st = "Available"

DismissedStays ==
  [][\A j \in CheckJob : Offers(j) /\ checks[j].silent /\ ~ overlap
                           => appUpdate'.tag # declined]_vars

(***************************************************************************)
(* And the user's own check ends in an answer, whatever he has declined or *)
(* installed before: an offer, a failure, or that he is up to date, which  *)
(* before the notes are asked for means that he has the latest release.    *)
(***************************************************************************)
AskedIsAnswered ==
  [][\A j \in CheckJob : ~ checks[j].silent /\ checks[j].pc # "none" /\ checks'[j].pc = "none"
       => \/ appUpdate'.st \in {"Available", "Failed"}
          \/ appUpdate'.st = "UpToDate" /\ (checks[j].pc = "notes" \/ appUpdate'.tag = ours)
          \/ NewProcess]_vars

(***************************************************************************)
(* MainActivity.kt: polling "Stops as soon as the popup shows or the user  *)
(* interacts with it (dismiss/download)": no check starts by itself until  *)
(* the user asks for one or the process restarts.                          *)
(***************************************************************************)
QuietAfterAnswer ==
  [][~ pollEnabled => \A j \in CheckJob : checks[j].pc = "none" /\ checks'[j].pc # "none"
                                            => ~ checks'[j].silent]_vars

(***************************************************************************)
(* The updater never sticks: in Checking, Downloading and Downloaded it    *)
(* refuses every further check, silent or not, so each is left again.      *)
(* Downloaded is left by the composition that sees it change: two          *)
(* downloads that end around one composition may leave it behind.          *)
(***************************************************************************)
NeverSticks == /\ []<>(appUpdate.st \notin {"Checking", "Downloading"})
               /\ []<>(appUpdate.st # "Downloaded") \/ <>[]overlap
=============================================================================
