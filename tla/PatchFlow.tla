----------------------------- MODULE PatchFlow -----------------------------
(***************************************************************************)
(* The patcher's Patch screen (PatcherViewModel.kt): picking a source APK, *)
(* choosing an ABI, fetching the mod bundle, patching and installing.      *)
(* Picks, fetches and patches are coroutines on the IO threads.  None is   *)
(* ever cancelled or waited for; they share the fields of the view model   *)
(* and the files amxx-bundle.zip, patched.apk and patched.apk.tmp, and a   *)
(* source is copied to a file of its own display name.                     *)
(*                                                                         *)
(* A file is written in Chunks pieces, each at its place: two writers of   *)
(* one file may leave a mixture, which does not parse.  Compositions are   *)
(* left out, the user acts on the current state.  Every bundle names its   *)
(* ABI; the patched libraries' contents, the keystore and the addons are   *)
(* left out.                                                               *)
(***************************************************************************)
EXTENDS Naturals, FiniteSets

CONSTANTS
  Apks,         \* the APKs the user may pick
  abis,         \* SourceInfo::abis of each: the supported ones it contains
  name,         \* the display name of each
  SupportedAbis,
  NULL,
  Chunks,       \* the pieces a file is copied or downloaded in
  MaxPicks, MaxFetches, MaxPatches  \* bounds on the jobs at one time

ASSUME ApksAssumption == /\ abis \in [Apks -> SUBSET SupportedAbis]
                         /\ DOMAIN name = Apks
                         /\ NULL \notin Apks \cup SupportedAbis
ASSUME SizesAssumption == /\ Chunks \in Nat \ {0} /\ MaxPicks \in Nat
                          /\ MaxFetches \in Nat /\ MaxPatches \in Nat

Name == {name[a] : a \in Apks}

VARIABLES
  abi,          \* _abi
  loaded,       \* loadedBundle: the ABI of its manifest
  bundle,       \* _bundle
  source,       \* _source: the APK it describes
  received,     \* _receivedSource: a name
  patch,        \* _patch
  lastReport,   \* what the last successful patch was made of
  picked,       \* the copies in workDir, by name
  cached,       \* amxx-bundle.zip
  output,       \* patched.apk
  tmp,          \* patched.apk.tmp
  picks, fetches, patches,  \* the jobs
  raced         \* history: whether a pick or a patch was ever started while
                \* another pick or patch was in flight

choice == <<abi, loaded, bundle>>
chosen == <<source, received>>
result == <<lastReport, output, tmp>>
jobs   == <<picks, fetches, patches>>
vars   == <<choice, chosen, patch, result, picked, cached, jobs, raced>>

Place       == 1 .. Chunks
Empty       == [c \in Place |-> NULL]
Whole(x)    == [c \in Place |-> x]
IsWhole(f)  == \E x \in Apks \cup SupportedAbis : f = Whole(x)
Data(f)     == f[1]

\* An output names the APK, the bundle and the ABI it was made of.  signed says
\* that sign() ran over it, whether or not the signature was found good after.
Made   == [apk : Apks, bundle : SupportedAbis, abi : SupportedAbis]
Output == {NULL} \cup [made : Made \cup {NULL}, signed : BOOLEAN]
Torn   == [made |-> NULL, signed |-> FALSE]

Pick  == [pc : {"none", "copy", "analyze", "source", "received"}, apk : Apks \cup {NULL},
          done : 0 .. Chunks]
Fetch == [pc : {"none", "release", "body", "apply", "ready"},
          want : SupportedAbis \cup {NULL}, done : 0 .. Chunks]
Patch == [pc : {"none", "start", "analyze", "inject", "repacked", "signed", "deleted", "renamed"},
          src : Name \cup {NULL}, bundle : SupportedAbis \cup {NULL},
          abi : SupportedAbis \cup {NULL}, apk : Apks \cup {NULL}]

NoPick  == [pc |-> "none", apk |-> NULL, done |-> 0]
NoFetch == [pc |-> "none", want |-> NULL, done |-> 0]
NoPatch == [pc |-> "none", src |-> NULL, bundle |-> NULL, abi |-> NULL, apk |-> NULL]

PickJob == 1 .. MaxPicks
FetchJob == 1 .. MaxFetches
PatchJob == 1 .. MaxPatches

Busy(js)  == \E j \in DOMAIN js : js[j].pc # "none"
Starts(js, job) == \E j \in DOMAIN js :
                     /\ js[j].pc = "none"
                     /\ \A i \in DOMAIN js : js[i].pc = "none" => j <= i
                     /\ js' = [js EXCEPT ![j] = job]
-----------------------------------------------------------------------------
(***************************************************************************)
(* The ABI.  A bundle for another one is dropped.                          *)
(***************************************************************************)
SetAbi(a) ==
  /\ abi' = a
  /\ IF loaded # NULL /\ loaded # a THEN loaded' = NULL /\ bundle' = "None"
     ELSE UNCHANGED <<loaded, bundle>>

sourceAbis == IF source = NULL THEN {} ELSE abis[source]

setAbi(a) == /\ sourceAbis = {} \/ a \in sourceAbis
             /\ SetAbi(a)
             /\ UNCHANGED <<chosen, patch, result, picked, cached, jobs, raced>>
-----------------------------------------------------------------------------
(***************************************************************************)
(* Picking a source: copy, analyze, and three fields one after the other.  *)
(***************************************************************************)
pickSource(a) ==
  /\ Starts(picks, [NoPick EXCEPT !.pc = "copy", !.apk = a])
  /\ picked' = [picked EXCEPT ![name[a]] = Empty]
  /\ raced' = (raced \/ Busy(picks) \/ Busy(patches))
  /\ UNCHANGED <<choice, chosen, patch, result, cached, fetches, patches>>

PickCopies(j) ==
  /\ picks[j].pc = "copy"
  /\ picked' = [picked EXCEPT ![name[picks[j].apk]][picks[j].done + 1] = picks[j].apk]
  /\ picks' = [picks EXCEPT ![j].done = @ + 1,
                            ![j].pc = IF picks[j].done + 1 = Chunks THEN "analyze" ELSE @]
  /\ UNCHANGED <<choice, chosen, patch, result, cached, fetches, patches, raced>>

Analysed(j) == picked[name[picks[j].apk]]

\* The copy throws, or the analysis, of a file that does not parse.
PickFails(j) ==
  /\ \/ picks[j].pc = "copy"
     \/ picks[j].pc = "analyze" /\ ~ IsWhole(Analysed(j))
  /\ patch' = "Failed"
  /\ picks' = [picks EXCEPT ![j] = NoPick]
  /\ UNCHANGED <<choice, chosen, result, picked, cached, fetches, patches, raced>>

PickUnsupported(j) ==
  /\ picks[j].pc = "analyze" /\ IsWhole(Analysed(j)) /\ abis[Data(Analysed(j))] = {}
  /\ patch' = "Failed"
  /\ received' = NULL
  /\ picks' = [picks EXCEPT ![j] = NoPick]
  /\ UNCHANGED <<choice, source, result, picked, cached, fetches, patches, raced>>

PickAnalyses(j) ==
  LET a == Data(Analysed(j))
  IN  /\ picks[j].pc = "analyze" /\ IsWhole(Analysed(j)) /\ abis[a] # {}
      /\ IF abi \in abis[a] THEN UNCHANGED choice ELSE SetAbi(CHOOSE x \in abis[a] : TRUE)
      /\ picks' = [picks EXCEPT ![j].pc = "source", ![j].apk = a]
      /\ UNCHANGED <<chosen, patch, result, picked, cached, fetches, patches, raced>>

PickSetsSource(j) ==
  /\ picks[j].pc = "source"
  /\ source' = picks[j].apk
  /\ picks' = [picks EXCEPT ![j].pc = "received"]
  /\ UNCHANGED <<choice, received, patch, result, picked, cached, fetches, patches, raced>>

PickSetsReceived(j) ==
  /\ picks[j].pc = "received"
  /\ received' = name[picks[j].apk]
  /\ picks' = [picks EXCEPT ![j] = NoPick]
  /\ UNCHANGED <<choice, source, patch, result, picked, cached, fetches, patches, raced>>
-----------------------------------------------------------------------------
(***************************************************************************)
(* The bundle.  Its asset is chosen by the ABI as it is when the release   *)
(* is known; it is applied whatever the ABI has become since.              *)
(***************************************************************************)
fetchAndDownloadBundle ==
  /\ Starts(fetches, [NoFetch EXCEPT !.pc = "release"])
  /\ bundle' = "Downloading"
  /\ UNCHANGED <<abi, loaded, chosen, patch, result, picked, cached, picks, patches, raced>>

FetchOpens(j) ==
  /\ fetches[j].pc = "release"
  /\ fetches' = [fetches EXCEPT ![j].pc = "body", ![j].want = abi]
  /\ cached' = Empty
  /\ bundle' = "Downloading"
  /\ UNCHANGED <<abi, loaded, chosen, patch, result, picked, picks, patches, raced>>

\* Mutant: one piece too many.
FetchReads_beyond(j) ==
  /\ fetches[j].pc = "body"
  /\ cached' = [cached EXCEPT ![fetches[j].done + 1] = fetches[j].want]
  /\ bundle' = "Downloading"
  /\ fetches' = [fetches EXCEPT ![j].done = @ + 1,
                                ![j].pc = IF fetches[j].done = Chunks THEN "apply" ELSE @]
  /\ UNCHANGED <<abi, loaded, chosen, patch, result, picked, picks, patches, raced>>

FetchReads(j) ==
  /\ fetches[j].pc = "body"
  /\ cached' = [cached EXCEPT ![fetches[j].done + 1] = fetches[j].want]
  /\ bundle' = "Downloading"
  /\ fetches' = [fetches EXCEPT ![j].done = @ + 1,
                                ![j].pc = IF fetches[j].done + 1 = Chunks THEN "apply" ELSE @]
  /\ UNCHANGED <<abi, loaded, chosen, patch, result, picked, picks, patches, raced>>

\* Mutant: the card is left as it is.
FetchFails_silently(j) ==
  /\ fetches[j].pc \in {"release", "body", "apply"}
  /\ fetches' = [fetches EXCEPT ![j] = NoFetch]
  /\ UNCHANGED <<choice, chosen, patch, result, picked, cached, picks, patches, raced>>

FetchFails(j) ==
  /\ fetches[j].pc \in {"release", "body", "apply"}
  /\ bundle' = "DownloadError"
  /\ fetches' = [fetches EXCEPT ![j] = NoFetch]
  /\ UNCHANGED <<abi, loaded, chosen, patch, result, picked, cached, picks, patches, raced>>

\* Bundle.fromZip() of what is in the file, and applyBundle().
FetchApplies(j) ==
  /\ fetches[j].pc = "apply" /\ IsWhole(cached)
  /\ loaded' = Data(cached)
  /\ fetches' = [fetches EXCEPT ![j].pc = "ready"]
  /\ UNCHANGED <<abi, bundle, chosen, patch, result, picked, cached, picks, patches, raced>>

FetchReady(j) ==
  /\ fetches[j].pc = "ready"
  /\ bundle' = "Ready"
  /\ fetches' = [fetches EXCEPT ![j] = NoFetch]
  /\ UNCHANGED <<abi, loaded, chosen, patch, result, picked, cached, picks, patches, raced>>

useCachedBundle ==
  /\ IsWhole(cached)
  /\ loaded' = Data(cached) /\ bundle' = "Ready"
  /\ UNCHANGED <<abi, chosen, patch, result, picked, cached, jobs, raced>>
-----------------------------------------------------------------------------
(***************************************************************************)
(* Patching.                                                               *)
(***************************************************************************)
canPatch == source # NULL /\ bundle = "Ready"

\* "Patch & Sign APK" is there when the card is idle.
Launches == /\ Starts(patches, [NoPatch EXCEPT !.pc = "start", !.src = received,
                                               !.bundle = loaded, !.abi = abi])
            /\ raced' = (raced \/ Busy(picks) \/ Busy(patches))
            /\ UNCHANGED patch

Refuses == patch' = "Failed" /\ UNCHANGED <<patches, raced>>

\* Mutant: the ABI of the bundle and the source is not looked at.
Compatible_any == TRUE
Compatible == loaded = abi /\ abi \in sourceAbis

startPatch ==
  /\ patch = "Idle" /\ canPatch
  /\ received # NULL /\ loaded # NULL
  /\ \/ Compatible /\ Launches
     \/ ~ Compatible /\ Refuses
  /\ UNCHANGED <<choice, chosen, result, picked, cached, picks, fetches>>

Step(j, from, to) == /\ patches[j].pc = from
                     /\ patches' = [patches EXCEPT ![j].pc = to]
                     /\ patch' = "Running"
                     /\ UNCHANGED <<choice, chosen, lastReport, picked, cached, picks, fetches,
                                    raced>>

PatchStarts(j) == Step(j, "start", "analyze") /\ UNCHANGED <<output, tmp>>

\* ZipRaw.open() of the source; repack() truncates the output.
PatchAnalyses(j) ==
  /\ patches[j].pc = "analyze" /\ IsWhole(picked[patches[j].src])
  /\ patches' = [patches EXCEPT ![j].pc = "inject", ![j].apk = Data(picked[patches[j].src])]
  /\ output' = Torn
  /\ patch' = "Running"
  /\ UNCHANGED <<choice, chosen, lastReport, tmp, picked, cached, picks, fetches, raced>>

\* repack() has read the source to its end, and the output parses.
PatchInjects(j) ==
  /\ Step(j, "inject", "repacked")
  /\ picked[patches[j].src] = Whole(patches[j].apk)
  /\ output' = [made |-> [apk |-> patches[j].apk, bundle |-> patches[j].bundle,
                          abi |-> patches[j].abi], signed |-> FALSE]
  /\ UNCHANGED tmp

PatchSigns(j) == /\ Step(j, "repacked", "signed")
                 /\ output # NULL /\ output.made # NULL
                 /\ tmp' = [output EXCEPT !.signed = TRUE]
                 /\ UNCHANGED output

PatchDeletes(j) == Step(j, "signed", "deleted") /\ output' = NULL /\ UNCHANGED tmp

PatchRenames(j) == /\ Step(j, "deleted", "renamed")
                   /\ tmp # NULL
                   /\ output' = tmp /\ tmp' = NULL

\* Also when the report says success = false or verified = false: the state is
\* Done and "Install" is offered all the same.
PatchReports(j) ==
  /\ patches[j].pc = "renamed"
  /\ lastReport' = [apk |-> patches[j].apk, bundle |-> patches[j].bundle,
                    abi |-> patches[j].abi]
  /\ patch' = "Done"
  /\ patches' = [patches EXCEPT ![j] = NoPatch]
  /\ UNCHANGED <<choice, chosen, output, tmp, picked, cached, picks, fetches, raced>>

\* Any step may throw, and a source or an output that does not parse makes it.
PatchFails(j) ==
  /\ patches[j].pc \notin {"none", "renamed"}
  /\ patch' = "Failed"
  /\ patches' = [patches EXCEPT ![j] = NoPatch]
  /\ UNCHANGED <<choice, chosen, result, picked, cached, picks, fetches, raced>>

\* "Try Again", when the card shows a failure.
reset == /\ patch = "Failed"
         /\ patch' = "Idle" /\ lastReport' = NULL
         /\ UNCHANGED <<choice, chosen, output, tmp, picked, cached, jobs, raced>>
-----------------------------------------------------------------------------
Init == /\ abi \in SupportedAbis /\ loaded = NULL /\ bundle = "None"
        /\ source = NULL /\ received = NULL
        /\ patch = "Idle" /\ lastReport = NULL
        /\ picked = [n \in Name |-> Empty] /\ cached = Empty
        /\ output = NULL /\ tmp = NULL
        /\ picks = [j \in PickJob |-> NoPick]
        /\ fetches = [j \in FetchJob |-> NoFetch]
        /\ patches = [j \in PatchJob |-> NoPatch]
        /\ raced = FALSE

PickStep(j)  == \/ PickCopies(j) \/ PickFails(j) \/ PickUnsupported(j) \/ PickAnalyses(j)
                \/ PickSetsSource(j) \/ PickSetsReceived(j)
FetchStep(j) == \/ FetchOpens(j) \/ FetchReads(j) \/ FetchFails(j) \/ FetchApplies(j)
                \/ FetchReady(j)
PatchStep(j) == \/ PatchStarts(j) \/ PatchAnalyses(j) \/ PatchInjects(j) \/ PatchSigns(j)
                \/ PatchDeletes(j) \/ PatchRenames(j) \/ PatchReports(j) \/ PatchFails(j)

Next == \/ \E a \in SupportedAbis : setAbi(a)
        \/ \E a \in Apks : pickSource(a)
        \/ fetchAndDownloadBundle \/ useCachedBundle \/ startPatch \/ reset
        \/ \E j \in PickJob : PickStep(j)
        \/ \E j \in FetchJob : FetchStep(j)
        \/ \E j \in PatchJob : PatchStep(j)

\* The IO threads run, and the network answers or times out.
Fairness == /\ \A j \in PickJob : WF_vars(PickStep(j))
            /\ \A j \in FetchJob : WF_vars(FetchStep(j))
            /\ \A j \in PatchJob : WF_vars(PatchStep(j))

Spec == Init /\ [][Next]_vars /\ Fairness
-----------------------------------------------------------------------------
TypeOK == /\ abi \in SupportedAbis /\ loaded \in SupportedAbis \cup {NULL}
          /\ bundle \in {"None", "Downloading", "DownloadError", "Ready"}
          /\ source \in Apks \cup {NULL} /\ received \in Name \cup {NULL}
          /\ patch \in {"Idle", "Running", "Done", "Failed"}
          /\ lastReport \in Made \cup {NULL}
          /\ picked \in [Name -> [Place -> Apks \cup {NULL}]]
          /\ cached \in [Place -> SupportedAbis \cup {NULL}]
          /\ {output, tmp} \subseteq Output
          /\ picks \in [PickJob -> Pick] /\ fetches \in [FetchJob -> Fetch]
          /\ patches \in [PatchJob -> Patch]

(***************************************************************************)
(* "Install" hands over a whole APK that was signed (verified or not, see  *)
(* PatchReports): the one the last report is about, made with a bundle of  *)
(* its own ABI from a source that contains this ABI, whatever fetches,     *)
(* changes of the ABI and failed picks came between.  It takes picks and   *)
(* patches that do not run beside one another; the screen allows them to   *)
(* ("Change" while a patch runs; "Try Again" after a failed pick while a   *)
(* patch runs).                                                            *)
(***************************************************************************)
InstallOffered == patch = "Done"

OfferedIsPatched ==
  InstallOffered /\ ~ raced =>
    /\ output = [made |-> lastReport, signed |-> TRUE]
    /\ lastReport.bundle = lastReport.abi
    /\ lastReport.abi \in abis[lastReport.apk]

(***************************************************************************)
(* The cards never stay at Running or Downloading for good, which offer    *)
(* nothing to tap, whatever jobs overlap, fail or overwrite one another's  *)
(* states and files.                                                       *)
(***************************************************************************)
CardsAreLeft == []<>(patch # "Running") /\ []<>(bundle # "Downloading")
=============================================================================
