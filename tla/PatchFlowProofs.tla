--------------------------- MODULE PatchFlowProofs ---------------------------
(***************************************************************************)
(* Proofs about the Patch screen, for any APKs, names and ABIs, any number *)
(* of picks, fetches and patches at a time, and files of any length.       *)
(***************************************************************************)
EXTENDS PatchFlow, TLAPS

(***************************************************************************)
(* The inductive invariant.  What the jobs know of themselves holds        *)
(* whatever overlaps.                                                      *)
(***************************************************************************)
\* What the jobs of each kind know while they run.
PicksKnown ==
  \A j \in PickJob :
    /\ picks[j].pc # "none" => picks[j].apk \in Apks
    /\ picks[j].pc = "copy" => picks[j].done < Chunks

FetchesKnown ==
  \A j \in FetchJob : fetches[j].pc \in {"release", "body"} => fetches[j].done < Chunks

Begun == {"start", "analyze"}

PatchesKnown ==
  \A j \in PatchJob :
    patches[j].pc # "none" =>
      /\ patches[j].src \in Name /\ patches[j].abi \in SupportedAbis
      /\ patches[j].bundle = patches[j].abi
      /\ patches[j].pc \notin Begun => patches[j].apk \in Apks

\* A source that was received has been described.
SourceKnown == /\ received # NULL => source \in Apks
               /\ \A j \in PickJob : picks[j].pc = "received" => source \in Apks

(***************************************************************************)
(* As long as nothing raced, picks and patches come one after the other.   *)
(* The copy of a name is then exactly what its last pick wrote, so that    *)
(* what is received is what is described; a patch is of that source, and   *)
(* each of its files is what its last step made.                           *)
(***************************************************************************)
OneAtATime ==
  /\ \A i, j \in PickJob : picks[i].pc # "none" /\ picks[j].pc # "none" => i = j
  /\ \A i, j \in PatchJob : patches[i].pc # "none" /\ patches[j].pc # "none" => i = j
  /\ \A i \in PickJob, j \in PatchJob : picks[i].pc = "none" \/ patches[j].pc = "none"

\* The copy holds what the pick has written and nothing else.
CopyOf(j) ==
  LET copy == picked[name[picks[j].apk]]
  IN  /\ picks[j].pc = "copy" =>
           \A c \in Place : copy[c] = IF c <= picks[j].done THEN picks[j].apk ELSE NULL
      /\ picks[j].pc \in {"analyze", "source", "received"} => copy = Whole(picks[j].apk)
      /\ picks[j].pc = "received" => source = picks[j].apk

CopyIsExact == \A j \in PickJob : CopyOf(j)

\* No pick is about to replace what _source describes.
Settled == \A j \in PickJob : \/ picks[j].pc \in {"none", "copy"}
                              \/ picks[j].pc = "analyze" /\ name[picks[j].apk] # received

\* A copy of the received name that parses is of the APK described.
ReceivedIsSource ==
  Settled /\ received # NULL /\ IsWhole(picked[received]) => picked[received][1] = source

\* A patch is of the source described, for an ABI this source has.
PatchIsOfSource ==
  \A j \in PatchJob :
    /\ patches[j].pc \in Begun => /\ received # NULL /\ patches[j].src = received
                                  /\ patches[j].abi \in abis[source]
    /\ patches[j].pc \notin Begun \cup {"none"} => patches[j].abi \in abis[patches[j].apk]

\* patched.apk and patched.apk.tmp hold what the patch has made so far.
Of(p) == [apk |-> p.apk, bundle |-> p.bundle, abi |-> p.abi]

FilesOf(j) ==
  /\ patches[j].pc = "repacked" => output = [made |-> Of(patches[j]), signed |-> FALSE]
  /\ patches[j].pc \in {"signed", "deleted"} => tmp = [made |-> Of(patches[j]), signed |-> TRUE]
  /\ patches[j].pc = "renamed" => output = [made |-> Of(patches[j]), signed |-> TRUE]

FilesFollow == \A j \in PatchJob : FilesOf(j)

\* The card shows a result only while no patch runs.
DoneIsIdle == patch = "Done" => \A j \in PatchJob : patches[j].pc = "none"

Unraced == /\ OneAtATime /\ CopyIsExact /\ ReceivedIsSource
           /\ PatchIsOfSource /\ FilesFollow /\ DoneIsIdle

Known == PicksKnown /\ FetchesKnown /\ PatchesKnown /\ SourceKnown

IInv == TypeOK /\ Known /\ (~ raced => Unraced) /\ OfferedIsPatched
-----------------------------------------------------------------------------
(***************************************************************************)
(* Files.                                                                  *)
(***************************************************************************)
LEMMA FirstPlace == 1 \in Place /\ Place \subseteq Nat
BY SizesAssumption DEF Place

LEMMA WholeFile ==
  ASSUME NEW f, IsWhole(f)
  PROVE  f[1] \in Apks \cup SupportedAbis /\ f[1] # NULL /\ f = Whole(f[1])
<1>1. PICK x \in Apks \cup SupportedAbis : f = Whole(x)
  BY DEF IsWhole
<1>2. f[1] = x
  BY <1>1, FirstPlace DEF Whole
<1>. QED  BY <1>1, <1>2, ApksAssumption

LEMMA TornFile ==
  ASSUME NEW f, NEW c \in Place, f[c] = NULL
  PROVE  ~ IsWhole(f)
BY ApksAssumption DEF IsWhole, Whole

-----------------------------------------------------------------------------
(***************************************************************************)
(* Types.                                                                  *)
(***************************************************************************)
JobsTyped == /\ picks \in [PickJob -> Pick] /\ fetches \in [FetchJob -> Fetch]
             /\ patches \in [PatchJob -> Patch]

FilesTyped == /\ picked \in [Name -> [Place -> Apks \cup {NULL}]]
              /\ cached \in [Place -> SupportedAbis \cup {NULL}]
              /\ output \in Output /\ tmp \in Output

FieldsTyped == /\ abi \in SupportedAbis /\ loaded \in SupportedAbis \cup {NULL}
               /\ bundle \in {"None", "Downloading", "DownloadError", "Ready"}
               /\ source \in Apks \cup {NULL} /\ received \in Name \cup {NULL}
               /\ patch \in {"Idle", "Running", "Done", "Failed"}
               /\ lastReport \in Made \cup {NULL}

LEMMA TypeParts == TypeOK <=> JobsTyped /\ FilesTyped /\ FieldsTyped
BY DEF TypeOK, JobsTyped, FilesTyped, FieldsTyped

LEMMA NoJobs == NoPick \in Pick /\ NoFetch \in Fetch /\ NoPatch \in Patch
BY SizesAssumption DEF NoPick, NoFetch, NoPatch, Pick, Fetch, Patch

\* The copy a pick is about to analyse is one of an APK.
LEMMA AnalysedApk ==
  ASSUME TypeOK, PicksKnown, NEW j \in PickJob, picks[j].pc # "none", IsWhole(Analysed(j))
  PROVE  /\ Data(Analysed(j)) \in Apks
         /\ Analysed(j) = Whole(Data(Analysed(j)))
         /\ abis[Data(Analysed(j))] \in SUBSET SupportedAbis
<1>1. Analysed(j) \in [Place -> Apks \cup {NULL}]
  BY DEF TypeOK, PicksKnown, Analysed, Name
<1>2. Data(Analysed(j)) \in Apks
  BY <1>1, WholeFile, FirstPlace DEF Data
<1>. QED  BY <1>2, WholeFile, ApksAssumption DEF Data
-----------------------------------------------------------------------------
(***************************************************************************)
(* What the actions that change several fields of a job do to it.          *)
(***************************************************************************)
LEMMA OneReplaced ==
  ASSUME NEW D, NEW T, NEW js \in [D -> T], NEW j \in D, NEW job \in T
  PROVE  /\ [js EXCEPT ![j] = job] \in [D -> T]
         /\ [js EXCEPT ![j] = job][j] = job
         /\ \A i \in D : i # j => [js EXCEPT ![j] = job][i] = js[i]
OBVIOUS

LEMMA PickBegins ==
  ASSUME TypeOK, NEW a \in Apks, pickSource(a)
  PROVE  /\ picks' \in [PickJob -> Pick]
         /\ \E j \in PickJob :
              /\ picks[j].pc = "none"
              /\ picks'[j].pc = "copy" /\ picks'[j].apk = a /\ picks'[j].done = 0
              /\ \A i \in PickJob : i # j => picks'[i] = picks[i]
<1> DEFINE job == [NoPick EXCEPT !.pc = "copy", !.apk = a]
<1>1. job.pc = "copy" /\ job.apk = a /\ job.done = 0
  BY DEF NoPick
<1>2. job \in Pick
  <2>1. NoPick \in Pick
    BY SizesAssumption DEF NoPick, Pick
  <2>. QED  BY <2>1 DEF Pick
<1>3. DOMAIN picks = PickJob
  BY DEF TypeOK
<1>4. PICK j \in PickJob : picks[j].pc = "none" /\ picks' = [picks EXCEPT ![j] = job]
  BY <1>3, Zenon DEF pickSource, Starts
<1>. HIDE DEF job
<1>. QED  BY <1>1, <1>2, <1>4, OneReplaced DEF TypeOK

LEMMA CopyGrows ==
  ASSUME TypeOK, PicksKnown, NEW j \in PickJob, PickCopies(j)
  PROVE  /\ picks[j].done + 1 \in Place
         /\ picks' \in [PickJob -> Pick]
         /\ picks'[j].done = picks[j].done + 1 /\ picks'[j].apk = picks[j].apk
         /\ picks'[j].pc = IF picks[j].done + 1 = Chunks THEN "analyze" ELSE "copy"
         /\ \A i \in PickJob : i # j => picks'[i] = picks[i]
<1> DEFINE job == [picks[j] EXCEPT !.done = @ + 1,
                     !.pc = IF picks[j].done + 1 = Chunks THEN "analyze" ELSE @]
<1>1. picks[j] \in Pick /\ picks[j].pc = "copy"
  BY DEF TypeOK, PickCopies
<1>2. picks[j].done + 1 \in Place
  BY <1>1, SizesAssumption DEF PicksKnown, Pick, Place
<1>3. /\ job.done = picks[j].done + 1 /\ job.apk = picks[j].apk
      /\ job.pc = IF picks[j].done + 1 = Chunks THEN "analyze" ELSE "copy"
  BY <1>1 DEF Pick
<1>4. job \in Pick
  <2>1. picks[j].done + 1 \in 0 .. Chunks
    BY <1>2, SizesAssumption DEF Place
  <2>. QED  BY <1>1, <2>1 DEF Pick
<1>5. picks' = [picks EXCEPT ![j] = job]
  BY DEF PickCopies, TypeOK
<1>. HIDE DEF job
<1>. QED  BY <1>2, <1>3, <1>4, <1>5, OneReplaced DEF TypeOK

LEMMA PickKnowsApk ==
  ASSUME TypeOK, PicksKnown, NEW j \in PickJob, PickAnalyses(j)
  PROVE  /\ picks' \in [PickJob -> Pick]
         /\ picks'[j].pc = "source" /\ picks'[j].apk = Data(Analysed(j))
         /\ picks'[j].apk \in Apks
         /\ \A i \in PickJob : i # j => picks'[i] = picks[i]
<1> DEFINE a == Data(Analysed(j))
<1> DEFINE job == [picks[j] EXCEPT !.pc = "source", !.apk = a]
<1>1. picks[j] \in Pick /\ picks[j].pc # "none" /\ IsWhole(Analysed(j))
  BY DEF TypeOK, PickAnalyses
<1>2. a \in Apks
  BY <1>1, AnalysedApk
<1>3. picks' = [picks EXCEPT ![j] = job]
  BY DEF PickAnalyses, TypeOK
<1>. HIDE DEF a
<1>4. job.pc = "source" /\ job.apk = a
  BY <1>1 DEF Pick
<1>5. job \in Pick
  BY <1>1, <1>2 DEF Pick
<1>. HIDE DEF job
<1>6. /\ picks' \in [PickJob -> Pick] /\ picks'[j] = job
      /\ \A i \in PickJob : i # j => picks'[i] = picks[i]
  BY <1>3, <1>5, OneReplaced DEF TypeOK
<1>7. picks'[j].apk = Data(Analysed(j))
  BY <1>4, <1>6 DEF a
<1>. QED  BY <1>2, <1>4, <1>6, <1>7

LEMMA FetchBegins ==
  ASSUME TypeOK, fetchAndDownloadBundle
  PROVE  /\ fetches' \in [FetchJob -> Fetch]
         /\ \E j \in FetchJob : /\ fetches'[j].pc = "release" /\ fetches'[j].done = 0
                                /\ \A i \in FetchJob : i # j => fetches'[i] = fetches[i]
<1> DEFINE job == [NoFetch EXCEPT !.pc = "release"]
<1>1. job.pc = "release" /\ job.done = 0
  BY DEF NoFetch
<1>2. job \in Fetch
  BY SizesAssumption DEF NoFetch, Fetch
<1>3. DOMAIN fetches = FetchJob
  BY DEF TypeOK
<1>4. PICK j \in FetchJob : fetches' = [fetches EXCEPT ![j] = job]
  BY <1>3, Zenon DEF fetchAndDownloadBundle, Starts
<1>. HIDE DEF job
<1>. QED  BY <1>1, <1>2, <1>4, OneReplaced DEF TypeOK

LEMMA FetchWants ==
  ASSUME TypeOK, FetchesKnown, NEW j \in FetchJob, FetchOpens(j)
  PROVE  /\ fetches' \in [FetchJob -> Fetch]
         /\ fetches'[j].done < Chunks
         /\ \A i \in FetchJob : i # j => fetches'[i] = fetches[i]
<1> DEFINE job == [fetches[j] EXCEPT !.pc = "body", !.want = abi]
<1>1. fetches[j] \in Fetch /\ fetches[j].pc = "release"
  BY DEF TypeOK, FetchOpens
<1>2. job.done = fetches[j].done
  BY <1>1 DEF Fetch
<1>3. job \in Fetch
  BY <1>1 DEF TypeOK, Fetch
<1>4. fetches' = [fetches EXCEPT ![j] = job]
  BY DEF FetchOpens, TypeOK
<1>. HIDE DEF job
<1>. QED  BY <1>1, <1>2, <1>3, <1>4, OneReplaced DEF TypeOK, FetchesKnown

LEMMA BodyGrows ==
  ASSUME TypeOK, FetchesKnown, NEW j \in FetchJob, FetchReads(j)
  PROVE  /\ fetches[j].done + 1 \in Place
         /\ fetches' \in [FetchJob -> Fetch]
         /\ fetches'[j].pc \in {"release", "body"} => fetches'[j].done < Chunks
         /\ \A i \in FetchJob : i # j => fetches'[i] = fetches[i]
<1> DEFINE job == [fetches[j] EXCEPT !.done = @ + 1,
                     !.pc = IF fetches[j].done + 1 = Chunks THEN "apply" ELSE @]
<1>1. fetches[j] \in Fetch /\ fetches[j].pc = "body"
  BY DEF TypeOK, FetchReads
<1>2. fetches[j].done + 1 \in Place
  BY <1>1, SizesAssumption DEF FetchesKnown, Fetch, Place
<1>3. job.done = fetches[j].done + 1 /\ (job.pc = "apply" \/ job.done # Chunks)
      /\ job.pc \in {"body", "apply"}
  BY <1>1 DEF Fetch
<1>4. job \in Fetch
  <2>1. fetches[j].done + 1 \in 0 .. Chunks
    BY <1>2, SizesAssumption DEF Place
  <2>. QED  BY <1>1, <2>1 DEF Fetch
<1>5. fetches' = [fetches EXCEPT ![j] = job]
  BY DEF FetchReads, TypeOK
<1>. HIDE DEF job
<1>6. job.pc \in {"release", "body"} => job.done < Chunks
  BY <1>2, <1>3, SizesAssumption DEF Place
<1>. QED  BY <1>2, <1>4, <1>5, <1>6, OneReplaced DEF TypeOK

LEMMA PatchBegins ==
  ASSUME TypeOK, startPatch
  PROVE  /\ patches' \in [PatchJob -> Patch]
         /\ \/ UNCHANGED <<patches, raced>> /\ patch' = "Failed"
            \/ /\ received # NULL /\ loaded # NULL /\ Compatible /\ source # NULL
               /\ patch = "Idle" /\ patch' = patch
               /\ raced' = (raced \/ Busy(picks) \/ Busy(patches))
               /\ \E j \in PatchJob :
                    /\ patches[j].pc = "none" /\ patches'[j].pc = "start"
                    /\ patches'[j].src = received
                    /\ patches'[j].bundle = loaded /\ patches'[j].abi = abi
                    /\ \A i \in PatchJob : i # j => patches'[i] = patches[i]
<1> DEFINE job == [NoPatch EXCEPT !.pc = "start", !.src = received, !.bundle = loaded,
                                  !.abi = abi]
<1>1. CASE ~ Launches
  BY <1>1 DEF startPatch, Refuses, TypeOK
<1>2. CASE Launches
  <2>1. /\ job.pc = "start" /\ job.src = received /\ job.bundle = loaded
        /\ job.abi = abi
    BY DEF NoPatch
  <2>2. job \in Patch
    BY DEF TypeOK, NoPatch, Patch
  <2>3. DOMAIN patches = PatchJob
    BY DEF TypeOK
  <2>4. PICK j \in PatchJob : patches[j].pc = "none" /\ patches' = [patches EXCEPT ![j] = job]
    BY <1>2, <2>3, Zenon DEF Launches, Starts
  <2>5. /\ received # NULL /\ loaded # NULL /\ source # NULL
        /\ patch = "Idle" /\ patch' = patch
    BY <1>2 DEF startPatch, canPatch, Launches
  <2>6. raced' = (raced \/ Busy(picks) \/ Busy(patches))
    BY <1>2, Zenon DEF Launches
  <2>7. CASE ~ Compatible
    BY <1>2, <2>7 DEF startPatch, Refuses, Launches
  <2>8. CASE Compatible
    <3>. HIDE DEF job
    <3>1. /\ patches' \in [PatchJob -> Patch] /\ patches'[j] = job
          /\ \A i \in PatchJob : i # j => patches'[i] = patches[i]
      BY <2>2, <2>4, OneReplaced DEF TypeOK
    <3>2. /\ patches'[j].pc = "start" /\ patches'[j].src = received
          /\ patches'[j].bundle = loaded /\ patches'[j].abi = abi
      BY <2>1, <3>1
    <3>. QED  BY <2>4, <2>5, <2>6, <2>8, <3>1, <3>2
  <2>. QED  BY <2>7, <2>8
<1>. QED  BY <1>1, <1>2

LEMMA PatchKnowsApk ==
  ASSUME TypeOK, PatchesKnown, NEW j \in PatchJob, PatchAnalyses(j)
  PROVE  /\ patches' \in [PatchJob -> Patch]
         /\ patches'[j].pc = "inject" /\ patches'[j].apk \in Apks
         /\ patches'[j].apk = picked[patches[j].src][1]
         /\ patches'[j].src = patches[j].src /\ patches'[j].bundle = patches[j].bundle
         /\ patches'[j].abi = patches[j].abi
         /\ \A i \in PatchJob : i # j => patches'[i] = patches[i]
<1> DEFINE a == Data(picked[patches[j].src])
<1> DEFINE job == [patches[j] EXCEPT !.pc = "inject", !.apk = a]
<1>1. /\ patches[j] \in Patch /\ patches[j].src \in Name
      /\ IsWhole(picked[patches[j].src])
  BY DEF TypeOK, PatchAnalyses, PatchesKnown
<1>2. picked[patches[j].src] \in [Place -> Apks \cup {NULL}]
  BY <1>1 DEF TypeOK
<1>3. a \in Apks /\ a = picked[patches[j].src][1]
  BY <1>1, <1>2, WholeFile, FirstPlace DEF Data
<1>4. patches' = [patches EXCEPT ![j] = job]
  BY DEF PatchAnalyses, TypeOK
<1>. HIDE DEF a
<1>5. /\ job.pc = "inject" /\ job.apk = a /\ job.src = patches[j].src
      /\ job.bundle = patches[j].bundle /\ job.abi = patches[j].abi
  BY <1>1 DEF Patch
<1>6. job \in Patch
  BY <1>1, <1>3 DEF Patch
<1>. HIDE DEF job
<1>7. /\ patches' \in [PatchJob -> Patch] /\ patches'[j] = job
      /\ \A i \in PatchJob : i # j => patches'[i] = patches[i]
  BY <1>4, <1>6, OneReplaced DEF TypeOK
<1>. QED  BY <1>3, <1>5, <1>7

\* Of a step that changes nothing but where the patch is.
PatchAt == {"none", "start", "analyze", "inject", "repacked", "signed", "deleted", "renamed"}

LEMMA PatchSteps ==
  ASSUME TypeOK, NEW j \in PatchJob, NEW was \in PatchAt, NEW to \in PatchAt, Step(j, was, to)
  PROVE  /\ patches' \in [PatchJob -> Patch]
         /\ patches[j].pc = was /\ patches'[j].pc = to
         /\ patches'[j].src = patches[j].src /\ patches'[j].bundle = patches[j].bundle
         /\ patches'[j].abi = patches[j].abi /\ patches'[j].apk = patches[j].apk
         /\ \A i \in PatchJob : i # j => patches'[i] = patches[i]
         /\ UNCHANGED <<picks, fetches, picked, cached, raced, lastReport>>
         /\ UNCHANGED <<abi, loaded, bundle, source, received>>
         /\ patch' = "Running"
<1> DEFINE job == [patches[j] EXCEPT !.pc = to]
<1>1. patches[j] \in Patch
  BY DEF TypeOK
<1>2. /\ job \in Patch /\ job.pc = to
      /\ job.src = patches[j].src /\ job.bundle = patches[j].bundle
      /\ job.abi = patches[j].abi /\ job.apk = patches[j].apk
  BY <1>1 DEF Patch, PatchAt
<1>3. patches' = [patches EXCEPT ![j] = job]
  BY DEF Step, TypeOK
<1>4. /\ patches[j].pc = was /\ patch' = "Running"
      /\ UNCHANGED <<picks, fetches, picked, cached, raced, lastReport>>
      /\ UNCHANGED <<abi, loaded, bundle, source, received>>
  BY DEF Step, choice, chosen
<1>. HIDE DEF job
<1>5. /\ patches' \in [PatchJob -> Patch] /\ patches'[j] = job
      /\ \A i \in PatchJob : i # j => patches'[i] = patches[i]
  BY <1>2, <1>3, OneReplaced DEF TypeOK
<1>. QED  BY <1>2, <1>4, <1>5

\* No step takes a job out of its type.
LEMMA JobsStayTyped ==
  ASSUME TypeOK, Known, [Next]_vars
  PROVE  JobsTyped'
<1>1. ASSUME NEW a \in SupportedAbis, setAbi(a) PROVE JobsTyped'
  BY <1>1, TypeParts, NoJobs
     DEF setAbi, SetAbi, jobs, chosen, result, JobsTyped, Pick, Fetch, Patch
<1>2. ASSUME NEW a \in Apks, pickSource(a) PROVE JobsTyped'
  <2>1. UNCHANGED <<fetches, patches>>
    BY <1>2 DEF pickSource
  <2>. QED
    BY <2>1, <1>2, PickBegins, TypeParts DEF JobsTyped, Known
<1>3. ASSUME NEW j \in PickJob, PickCopies(j) PROVE JobsTyped'
  <2>1. UNCHANGED <<fetches, patches>>
    BY <1>3 DEF PickCopies
  <2>. QED
    BY <2>1, <1>3, CopyGrows, TypeParts DEF JobsTyped, Known
<1>4. ASSUME NEW j \in PickJob, PickFails(j) PROVE JobsTyped'
  BY <1>4, TypeParts, NoJobs
     DEF PickFails, choice, chosen, result, JobsTyped, jobs, Pick, Fetch, Patch
<1>5. ASSUME NEW j \in PickJob, PickUnsupported(j) PROVE JobsTyped'
  BY <1>5, TypeParts, NoJobs
     DEF PickUnsupported, choice, result, JobsTyped, jobs, Pick, Fetch, Patch
<1>6. ASSUME NEW j \in PickJob, PickAnalyses(j) PROVE JobsTyped'
  <2>1. UNCHANGED <<fetches, patches>>
    BY <1>6 DEF PickAnalyses
  <2>. QED
    BY <2>1, <1>6, PickKnowsApk, TypeParts DEF JobsTyped, Known
<1>7. ASSUME NEW j \in PickJob, PickSetsSource(j) PROVE JobsTyped'
  BY <1>7, TypeParts, NoJobs
     DEF PickSetsSource, choice, result, JobsTyped, jobs, Pick, Fetch, Patch
<1>8. ASSUME NEW j \in PickJob, PickSetsReceived(j) PROVE JobsTyped'
  BY <1>8, TypeParts, NoJobs
     DEF PickSetsReceived, choice, result, JobsTyped, jobs, Pick, Fetch, Patch
<1>9. CASE fetchAndDownloadBundle
  <2>1. UNCHANGED <<picks, patches>>
    BY <1>9 DEF fetchAndDownloadBundle
  <2>. QED
    BY <2>1, <1>9, FetchBegins, TypeParts DEF JobsTyped, Known
<1>10. ASSUME NEW j \in FetchJob, FetchOpens(j) PROVE JobsTyped'
  <2>1. UNCHANGED <<picks, patches>>
    BY <1>10 DEF FetchOpens
  <2>. QED
    BY <2>1, <1>10, FetchWants, TypeParts DEF JobsTyped, Known
<1>11. ASSUME NEW j \in FetchJob, FetchReads(j) PROVE JobsTyped'
  <2>1. UNCHANGED <<picks, patches>>
    BY <1>11 DEF FetchReads
  <2>. QED
    BY <2>1, <1>11, BodyGrows, TypeParts DEF JobsTyped, Known
<1>12. ASSUME NEW j \in FetchJob, FetchFails(j) PROVE JobsTyped'
  BY <1>12, TypeParts, NoJobs
     DEF FetchFails, chosen, result, JobsTyped, jobs, Pick, Fetch, Patch
<1>13. ASSUME NEW j \in FetchJob, FetchApplies(j) PROVE JobsTyped'
  BY <1>13, TypeParts, NoJobs
     DEF FetchApplies, chosen, result, JobsTyped, jobs, Pick, Fetch, Patch
<1>14. ASSUME NEW j \in FetchJob, FetchReady(j) PROVE JobsTyped'
  BY <1>14, TypeParts, NoJobs
     DEF FetchReady, chosen, result, JobsTyped, jobs, Pick, Fetch, Patch
<1>15. CASE useCachedBundle
  BY <1>15, TypeParts, NoJobs
     DEF useCachedBundle, chosen, result, jobs, JobsTyped, Pick, Fetch, Patch
<1>16. CASE startPatch
  <2>1. UNCHANGED <<picks, fetches>>
    BY <1>16 DEF startPatch
  <2>. QED
    BY <2>1, <1>16, PatchBegins, TypeParts DEF JobsTyped, Known
<1>17. ASSUME NEW j \in PatchJob, PatchStarts(j) PROVE JobsTyped'
  <2>1. Step(j, "start", "analyze")
    BY <1>17 DEF PatchStarts
  <2>. QED
    BY <2>1, PatchSteps, TypeParts DEF PatchAt, JobsTyped, Known
<1>18. ASSUME NEW j \in PatchJob, PatchAnalyses(j) PROVE JobsTyped'
  <2>1. UNCHANGED <<picks, fetches>>
    BY <1>18 DEF PatchAnalyses
  <2>. QED
    BY <2>1, <1>18, PatchKnowsApk, TypeParts DEF JobsTyped, Known
<1>19. ASSUME NEW j \in PatchJob, PatchInjects(j) PROVE JobsTyped'
  <2>1. Step(j, "inject", "repacked")
    BY <1>19 DEF PatchInjects
  <2>. QED
    BY <2>1, PatchSteps, TypeParts DEF PatchAt, JobsTyped, Known
<1>20. ASSUME NEW j \in PatchJob, PatchSigns(j) PROVE JobsTyped'
  <2>1. Step(j, "repacked", "signed")
    BY <1>20 DEF PatchSigns
  <2>. QED
    BY <2>1, PatchSteps, TypeParts DEF PatchAt, JobsTyped, Known
<1>21. ASSUME NEW j \in PatchJob, PatchDeletes(j) PROVE JobsTyped'
  <2>1. Step(j, "signed", "deleted")
    BY <1>21 DEF PatchDeletes
  <2>. QED
    BY <2>1, PatchSteps, TypeParts DEF PatchAt, JobsTyped, Known
<1>22. ASSUME NEW j \in PatchJob, PatchRenames(j) PROVE JobsTyped'
  <2>1. Step(j, "deleted", "renamed")
    BY <1>22 DEF PatchRenames
  <2>. QED
    BY <2>1, PatchSteps, TypeParts DEF PatchAt, JobsTyped, Known
<1>23. ASSUME NEW j \in PatchJob, PatchReports(j) PROVE JobsTyped'
  BY <1>23, TypeParts, NoJobs
     DEF PatchReports, choice, chosen, JobsTyped, jobs, Pick, Fetch, Patch
<1>24. ASSUME NEW j \in PatchJob, PatchFails(j) PROVE JobsTyped'
  BY <1>24, TypeParts, NoJobs
     DEF PatchFails, choice, chosen, result, JobsTyped, jobs, Pick, Fetch, Patch
<1>25. CASE reset
  BY <1>25, TypeParts, NoJobs
     DEF reset, choice, chosen, jobs, JobsTyped, Pick, Fetch, Patch
<1>26. CASE UNCHANGED vars
  BY <1>26, TypeParts, NoJobs DEF vars, choice, chosen, result, jobs, JobsTyped, Pick,
       Fetch, Patch
<1>. QED  BY <1>1, <1>2, <1>3, <1>4, <1>5, <1>6, <1>7, <1>8, <1>9, <1>10, <1>11, <1>12,
          <1>13, <1>14, <1>15, <1>16, <1>17, <1>18, <1>19, <1>20, <1>21, <1>22, <1>23,
          <1>24, <1>25, <1>26 DEF Next, PickStep, FetchStep, PatchStep

\* Or makes it forget what it runs on.
LEMMA JobsStayKnown ==
  ASSUME TypeOK, Known, [Next]_vars
  PROVE  (PicksKnown /\ FetchesKnown /\ PatchesKnown)'
<1>1. ASSUME NEW a \in SupportedAbis, setAbi(a) PROVE (PicksKnown /\ FetchesKnown /\
     PatchesKnown)'
  BY <1>1, TypeParts
     DEF setAbi, SetAbi, jobs, chosen, result, JobsTyped, Known, PicksKnown,
          FetchesKnown, PatchesKnown, NoPick, NoFetch, NoPatch, Pick, Fetch, Patch,
          Begun
<1>2. ASSUME NEW a \in Apks, pickSource(a) PROVE (PicksKnown /\ FetchesKnown /\
     PatchesKnown)'
  <2>1. UNCHANGED <<fetches, patches>>
    BY <1>2 DEF pickSource
  <2>2. FetchesKnown' /\ PatchesKnown'
    BY <2>1 DEF Known, FetchesKnown, PatchesKnown
  <2>3. PicksKnown'
    BY <1>2, PickBegins, SizesAssumption DEF Known, PicksKnown
  <2>. QED  BY <2>2, <2>3
<1>3. ASSUME NEW j \in PickJob, PickCopies(j) PROVE (PicksKnown /\ FetchesKnown /\
     PatchesKnown)'
  <2>1. UNCHANGED <<fetches, patches>>
    BY <1>3 DEF PickCopies
  <2>2. FetchesKnown' /\ PatchesKnown'
    BY <2>1 DEF Known, FetchesKnown, PatchesKnown
  <2>3. PicksKnown'
    <3>1. PicksKnown /\ picks[j].apk \in Apks
      BY <1>3 DEF Known, PicksKnown, PickCopies
    <3>. QED  BY <1>3, <3>1, CopyGrows, SizesAssumption DEF PicksKnown, Place
  <2>. QED  BY <2>2, <2>3
<1>4. ASSUME NEW j \in PickJob, PickFails(j) PROVE (PicksKnown /\ FetchesKnown /\
     PatchesKnown)'
  BY <1>4, TypeParts
     DEF PickFails, choice, chosen, result, JobsTyped, jobs, Known, PicksKnown,
          FetchesKnown, PatchesKnown, NoPick, NoFetch, NoPatch, Pick, Fetch, Patch,
          Begun
<1>5. ASSUME NEW j \in PickJob, PickUnsupported(j) PROVE (PicksKnown /\ FetchesKnown /\
     PatchesKnown)'
  BY <1>5, TypeParts
     DEF PickUnsupported, choice, result, JobsTyped, jobs, Known, PicksKnown,
          FetchesKnown, PatchesKnown, NoPick, NoFetch, NoPatch, Pick, Fetch, Patch,
          Begun
<1>6. ASSUME NEW j \in PickJob, PickAnalyses(j) PROVE (PicksKnown /\ FetchesKnown /\
     PatchesKnown)'
  <2>1. UNCHANGED <<fetches, patches>>
    BY <1>6 DEF PickAnalyses
  <2>. QED
    BY <2>1, <1>6, PickKnowsApk, TypeParts DEF PicksKnown, FetchesKnown, PatchesKnown,
         Known, JobsTyped, FieldsTyped, Begun, Compatible
<1>7. ASSUME NEW j \in PickJob, PickSetsSource(j) PROVE (PicksKnown /\ FetchesKnown /\
     PatchesKnown)'
  BY <1>7, TypeParts
     DEF PickSetsSource, choice, result, JobsTyped, jobs, Known, PicksKnown,
          FetchesKnown, PatchesKnown, NoPick, NoFetch, NoPatch, Pick, Fetch, Patch,
          Begun
<1>8. ASSUME NEW j \in PickJob, PickSetsReceived(j) PROVE (PicksKnown /\ FetchesKnown /\
     PatchesKnown)'
  BY <1>8, TypeParts
     DEF PickSetsReceived, choice, result, JobsTyped, jobs, Known, PicksKnown,
          FetchesKnown, PatchesKnown, NoPick, NoFetch, NoPatch, Pick, Fetch, Patch,
          Begun
<1>9. CASE fetchAndDownloadBundle
  <2>1. UNCHANGED <<picks, patches>>
    BY <1>9 DEF fetchAndDownloadBundle
  <2>2. PicksKnown' /\ PatchesKnown'
    BY <2>1 DEF Known, PicksKnown, PatchesKnown
  <2>3. FetchesKnown'
    BY <1>9, FetchBegins, SizesAssumption DEF Known, FetchesKnown
  <2>. QED  BY <2>2, <2>3
<1>10. ASSUME NEW j \in FetchJob, FetchOpens(j) PROVE (PicksKnown /\ FetchesKnown /\
     PatchesKnown)'
  <2>1. UNCHANGED <<picks, patches>>
    BY <1>10 DEF FetchOpens
  <2>. QED
    BY <2>1, <1>10, FetchWants, TypeParts DEF PicksKnown, FetchesKnown, PatchesKnown,
         Known, JobsTyped, FieldsTyped, Begun, Compatible
<1>11. ASSUME NEW j \in FetchJob, FetchReads(j) PROVE (PicksKnown /\ FetchesKnown /\
     PatchesKnown)'
  <2>1. UNCHANGED <<picks, patches>>
    BY <1>11 DEF FetchReads
  <2>. QED
    BY <2>1, <1>11, BodyGrows, TypeParts DEF PicksKnown, FetchesKnown, PatchesKnown, Known,
         JobsTyped, FieldsTyped, Begun, Compatible
<1>12. ASSUME NEW j \in FetchJob, FetchFails(j) PROVE (PicksKnown /\ FetchesKnown /\
     PatchesKnown)'
  BY <1>12, TypeParts
     DEF FetchFails, chosen, result, JobsTyped, jobs, Known, PicksKnown, FetchesKnown,
          PatchesKnown, NoPick, NoFetch, NoPatch, Pick, Fetch, Patch, Begun
<1>13. ASSUME NEW j \in FetchJob, FetchApplies(j) PROVE (PicksKnown /\ FetchesKnown /\
     PatchesKnown)'
  BY <1>13, TypeParts
     DEF FetchApplies, chosen, result, JobsTyped, jobs, Known, PicksKnown, FetchesKnown,
          PatchesKnown, NoPick, NoFetch, NoPatch, Pick, Fetch, Patch, Begun
<1>14. ASSUME NEW j \in FetchJob, FetchReady(j) PROVE (PicksKnown /\ FetchesKnown /\
     PatchesKnown)'
  BY <1>14, TypeParts
     DEF FetchReady, chosen, result, JobsTyped, jobs, Known, PicksKnown, FetchesKnown,
          PatchesKnown, NoPick, NoFetch, NoPatch, Pick, Fetch, Patch, Begun
<1>15. CASE useCachedBundle
  BY <1>15, TypeParts
     DEF useCachedBundle, chosen, result, jobs, JobsTyped, Known, PicksKnown,
          FetchesKnown, PatchesKnown, NoPick, NoFetch, NoPatch, Pick, Fetch, Patch,
          Begun
<1>16. CASE startPatch
  <2>1. UNCHANGED <<picks, fetches>>
    BY <1>16 DEF startPatch
  <2>. QED
    BY <2>1, <1>16, PatchBegins, TypeParts DEF PicksKnown, FetchesKnown, PatchesKnown,
         Known, JobsTyped, FieldsTyped, Begun, Compatible
<1>17. ASSUME NEW j \in PatchJob, PatchStarts(j) PROVE (PicksKnown /\ FetchesKnown /\
     PatchesKnown)'
  <2>1. Step(j, "start", "analyze")
    BY <1>17 DEF PatchStarts
  <2>. QED
    BY <2>1, PatchSteps, TypeParts DEF PatchAt, PicksKnown, FetchesKnown, PatchesKnown,
         Known, JobsTyped, FieldsTyped, Begun, Compatible
<1>18. ASSUME NEW j \in PatchJob, PatchAnalyses(j) PROVE (PicksKnown /\ FetchesKnown /\
     PatchesKnown)'
  <2>1. UNCHANGED <<picks, fetches>>
    BY <1>18 DEF PatchAnalyses
  <2>2. PicksKnown' /\ FetchesKnown'
    BY <2>1 DEF Known, PicksKnown, FetchesKnown
  <2>3. PatchesKnown'
    <3>1. PatchesKnown /\ patches[j].pc = "analyze"
      BY <1>18 DEF Known, PatchAnalyses
    <3>. QED  BY <1>18, <3>1, PatchKnowsApk DEF PatchesKnown
  <2>. QED  BY <2>2, <2>3
<1>19. ASSUME NEW j \in PatchJob, PatchInjects(j) PROVE (PicksKnown /\ FetchesKnown /\
     PatchesKnown)'
  <2>1. Step(j, "inject", "repacked")
    BY <1>19 DEF PatchInjects
  <2>. QED
    BY <2>1, PatchSteps, TypeParts DEF PatchAt, PicksKnown, FetchesKnown, PatchesKnown,
         Known, JobsTyped, FieldsTyped, Begun, Compatible
<1>20. ASSUME NEW j \in PatchJob, PatchSigns(j) PROVE (PicksKnown /\ FetchesKnown /\
     PatchesKnown)'
  <2>1. Step(j, "repacked", "signed")
    BY <1>20 DEF PatchSigns
  <2>. QED
    BY <2>1, PatchSteps, TypeParts DEF PatchAt, PicksKnown, FetchesKnown, PatchesKnown,
         Known, JobsTyped, FieldsTyped, Begun, Compatible
<1>21. ASSUME NEW j \in PatchJob, PatchDeletes(j) PROVE (PicksKnown /\ FetchesKnown /\
     PatchesKnown)'
  <2>1. Step(j, "signed", "deleted")
    BY <1>21 DEF PatchDeletes
  <2>. QED
    BY <2>1, PatchSteps, TypeParts DEF PatchAt, PicksKnown, FetchesKnown, PatchesKnown,
         Known, JobsTyped, FieldsTyped, Begun, Compatible
<1>22. ASSUME NEW j \in PatchJob, PatchRenames(j) PROVE (PicksKnown /\ FetchesKnown /\
     PatchesKnown)'
  <2>1. Step(j, "deleted", "renamed")
    BY <1>22 DEF PatchRenames
  <2>. QED
    BY <2>1, PatchSteps, TypeParts DEF PatchAt, PicksKnown, FetchesKnown, PatchesKnown,
         Known, JobsTyped, FieldsTyped, Begun, Compatible
<1>23. ASSUME NEW j \in PatchJob, PatchReports(j) PROVE (PicksKnown /\ FetchesKnown /\
     PatchesKnown)'
  BY <1>23, TypeParts
     DEF PatchReports, choice, chosen, JobsTyped, jobs, Known, PicksKnown, FetchesKnown,
          PatchesKnown, NoPick, NoFetch, NoPatch, Pick, Fetch, Patch, Begun
<1>24. ASSUME NEW j \in PatchJob, PatchFails(j) PROVE (PicksKnown /\ FetchesKnown /\
     PatchesKnown)'
  BY <1>24, TypeParts
     DEF PatchFails, choice, chosen, result, JobsTyped, jobs, Known, PicksKnown,
          FetchesKnown, PatchesKnown, NoPick, NoFetch, NoPatch, Pick, Fetch, Patch,
          Begun
<1>25. CASE reset
  BY <1>25, TypeParts
     DEF reset, choice, chosen, jobs, JobsTyped, Known, PicksKnown, FetchesKnown,
          PatchesKnown, NoPick, NoFetch, NoPatch, Pick, Fetch, Patch, Begun
<1>26. CASE UNCHANGED vars
  BY <1>26, TypeParts DEF vars, choice, chosen, result, jobs, JobsTyped, Known,
       PicksKnown, FetchesKnown, PatchesKnown, NoPick, NoFetch, NoPatch, Pick, Fetch,
       Patch, Begun
<1>. QED  BY <1>1, <1>2, <1>3, <1>4, <1>5, <1>6, <1>7, <1>8, <1>9, <1>10, <1>11, <1>12,
          <1>13, <1>14, <1>15, <1>16, <1>17, <1>18, <1>19, <1>20, <1>21, <1>22, <1>23,
          <1>24, <1>25, <1>26 DEF Next, PickStep, FetchStep, PatchStep

\* Nor does one take a field or a file out of its type.
LEMMA FieldsStayTyped ==
  ASSUME TypeOK, Known, [Next]_vars
  PROVE  FieldsTyped'
<1>1. ASSUME NEW a \in SupportedAbis, setAbi(a) PROVE FieldsTyped'
  BY <1>1, TypeParts
     DEF setAbi, SetAbi, jobs, chosen, result, FieldsTyped
<1>2. ASSUME NEW a \in Apks, pickSource(a) PROVE FieldsTyped'
  BY <1>2, TypeParts
     DEF pickSource, choice, chosen, result, FieldsTyped
<1>3. ASSUME NEW j \in PickJob, PickCopies(j) PROVE FieldsTyped'
  BY <1>3, TypeParts
     DEF PickCopies, choice, chosen, result, FieldsTyped
<1>4. ASSUME NEW j \in PickJob, PickFails(j) PROVE FieldsTyped'
  BY <1>4, TypeParts
     DEF PickFails, choice, chosen, result, FieldsTyped
<1>5. ASSUME NEW j \in PickJob, PickUnsupported(j) PROVE FieldsTyped'
  BY <1>5, TypeParts
     DEF PickUnsupported, choice, result, FieldsTyped
<1>6. ASSUME NEW j \in PickJob, PickAnalyses(j) PROVE FieldsTyped'
  <2>1. Data(Analysed(j)) \in Apks /\ abis[Data(Analysed(j))] \in SUBSET SupportedAbis
    BY <1>6, AnalysedApk DEF PickAnalyses, Known
  <2>2. (CHOOSE x \in abis[Data(Analysed(j))] : TRUE) \in SupportedAbis
    BY <1>6, <2>1 DEF PickAnalyses
  <2>. QED  BY <1>6, <2>2, TypeParts DEF PickAnalyses, SetAbi, choice, chosen, result, FieldsTyped
<1>7. ASSUME NEW j \in PickJob, PickSetsSource(j) PROVE FieldsTyped'
  <2>1. picks[j].apk \in Apks
    BY <1>7 DEF PickSetsSource, Known, PicksKnown
  <2>. QED  BY <1>7, <2>1, TypeParts DEF PickSetsSource, choice, result, FieldsTyped
<1>8. ASSUME NEW j \in PickJob, PickSetsReceived(j) PROVE FieldsTyped'
  <2>1. name[picks[j].apk] \in Name
    BY <1>8 DEF PickSetsReceived, Known, PicksKnown, Name
  <2>. QED  BY <1>8, <2>1, TypeParts DEF PickSetsReceived, choice, result, FieldsTyped
<1>9. CASE fetchAndDownloadBundle
  BY <1>9, TypeParts
     DEF fetchAndDownloadBundle, chosen, result, FieldsTyped
<1>10. ASSUME NEW j \in FetchJob, FetchOpens(j) PROVE FieldsTyped'
  BY <1>10, TypeParts
     DEF FetchOpens, chosen, result, FieldsTyped
<1>11. ASSUME NEW j \in FetchJob, FetchReads(j) PROVE FieldsTyped'
  BY <1>11, TypeParts
     DEF FetchReads, chosen, result, FieldsTyped
<1>12. ASSUME NEW j \in FetchJob, FetchFails(j) PROVE FieldsTyped'
  BY <1>12, TypeParts
     DEF FetchFails, chosen, result, FieldsTyped
<1>13. ASSUME NEW j \in FetchJob, FetchApplies(j) PROVE FieldsTyped'
  <2>1. Data(cached) \in SupportedAbis \cup {NULL}
    BY FirstPlace DEF TypeOK, Data
  <2>. QED  BY <1>13, <2>1, TypeParts DEF FetchApplies, chosen, result, FieldsTyped
<1>14. ASSUME NEW j \in FetchJob, FetchReady(j) PROVE FieldsTyped'
  BY <1>14, TypeParts
     DEF FetchReady, chosen, result, FieldsTyped
<1>15. CASE useCachedBundle
  <2>1. Data(cached) \in SupportedAbis \cup {NULL}
    BY FirstPlace DEF TypeOK, Data
  <2>. QED  BY <1>15, <2>1, TypeParts DEF useCachedBundle, chosen, result, FieldsTyped
<1>16. CASE startPatch
  <2>1. patch' \in {"Idle", "Failed"}
    BY <1>16, PatchBegins
  <2>2. UNCHANGED <<choice, chosen, result>>
    BY <1>16 DEF startPatch
  <2>. QED  BY <2>1, <2>2, TypeParts DEF choice, chosen, result, FieldsTyped
<1>17. ASSUME NEW j \in PatchJob, PatchStarts(j) PROVE FieldsTyped'
  BY <1>17, TypeParts
     DEF PatchStarts, Step, choice, chosen, FieldsTyped
<1>18. ASSUME NEW j \in PatchJob, PatchAnalyses(j) PROVE FieldsTyped'
  BY <1>18, TypeParts
     DEF PatchAnalyses, choice, chosen, FieldsTyped
<1>19. ASSUME NEW j \in PatchJob, PatchInjects(j) PROVE FieldsTyped'
  BY <1>19, TypeParts
     DEF PatchInjects, Step, choice, chosen, FieldsTyped
<1>20. ASSUME NEW j \in PatchJob, PatchSigns(j) PROVE FieldsTyped'
  BY <1>20, TypeParts
     DEF PatchSigns, Step, choice, chosen, FieldsTyped
<1>21. ASSUME NEW j \in PatchJob, PatchDeletes(j) PROVE FieldsTyped'
  BY <1>21, TypeParts
     DEF PatchDeletes, Step, choice, chosen, FieldsTyped
<1>22. ASSUME NEW j \in PatchJob, PatchRenames(j) PROVE FieldsTyped'
  BY <1>22, TypeParts
     DEF PatchRenames, Step, choice, chosen, FieldsTyped
<1>23. ASSUME NEW j \in PatchJob, PatchReports(j) PROVE FieldsTyped'
  <2>1. /\ patches[j].apk \in Apks /\ patches[j].bundle \in SupportedAbis
        /\ patches[j].abi \in SupportedAbis
    BY <1>23 DEF PatchReports, Known, PatchesKnown, Begun
  <2>2. lastReport' \in Made
    BY <1>23, <2>1 DEF PatchReports, Made
  <2>. QED  BY <1>23, <2>2, TypeParts DEF PatchReports, choice, chosen, FieldsTyped
<1>24. ASSUME NEW j \in PatchJob, PatchFails(j) PROVE FieldsTyped'
  BY <1>24, TypeParts
     DEF PatchFails, choice, chosen, result, FieldsTyped
<1>25. CASE reset
  BY <1>25, TypeParts
     DEF reset, choice, chosen, jobs, FieldsTyped
<1>26. CASE UNCHANGED vars
  BY <1>26, TypeParts DEF vars, choice, chosen, result, jobs, FieldsTyped
<1>. QED  BY <1>1, <1>2, <1>3, <1>4, <1>5, <1>6, <1>7, <1>8, <1>9, <1>10, <1>11, <1>12,
          <1>13, <1>14, <1>15, <1>16, <1>17, <1>18, <1>19, <1>20, <1>21, <1>22, <1>23,
          <1>24, <1>25, <1>26 DEF Next, PickStep, FetchStep, PatchStep

LEMMA FilesStayTyped ==
  ASSUME TypeOK, Known, [Next]_vars
  PROVE  FilesTyped'
<1>1. ASSUME NEW a \in SupportedAbis, setAbi(a) PROVE FilesTyped'
  BY <1>1, TypeParts
     DEF setAbi, SetAbi, jobs, chosen, result, FilesTyped
<1>2. ASSUME NEW a \in Apks, pickSource(a) PROVE FilesTyped'
  <2>1. picked' \in [Name -> [Place -> Apks \cup {NULL}]]
    <3>1. Empty \in [Place -> Apks \cup {NULL}]
      BY DEF Empty
    <3>. QED  BY <1>2, <3>1 DEF pickSource, TypeOK
  <2>. QED  BY <1>2, <2>1, TypeParts DEF pickSource, result, FilesTyped
<1>3. ASSUME NEW j \in PickJob, PickCopies(j) PROVE FilesTyped'
  <2>1. picked' \in [Name -> [Place -> Apks \cup {NULL}]]
    <3>1. name[picks[j].apk] \in Name /\ picks[j].apk \in Apks
      BY <1>3 DEF PickCopies, Known, PicksKnown, Name
    <3>. DEFINE n == name[picks[j].apk]
    <3>. DEFINE copy == [picked[n] EXCEPT ![picks[j].done + 1] = picks[j].apk]
    <3>2. copy \in [Place -> Apks \cup {NULL}]
      BY <3>1 DEF TypeOK
    <3>3. picked' = [picked EXCEPT ![n] = copy]
      BY <1>3 DEF PickCopies
    <3>. QED  BY <3>2, <3>3 DEF TypeOK
  <2>. QED  BY <1>3, <2>1, TypeParts DEF PickCopies, result, FilesTyped
<1>4. ASSUME NEW j \in PickJob, PickFails(j) PROVE FilesTyped'
  BY <1>4, TypeParts
     DEF PickFails, choice, chosen, result, FilesTyped, jobs
<1>5. ASSUME NEW j \in PickJob, PickUnsupported(j) PROVE FilesTyped'
  BY <1>5, TypeParts
     DEF PickUnsupported, choice, result, FilesTyped, jobs
<1>6. ASSUME NEW j \in PickJob, PickAnalyses(j) PROVE FilesTyped'
  BY <1>6, TypeParts
     DEF PickAnalyses, chosen, result, FilesTyped, jobs
<1>7. ASSUME NEW j \in PickJob, PickSetsSource(j) PROVE FilesTyped'
  BY <1>7, TypeParts
     DEF PickSetsSource, choice, result, FilesTyped, jobs
<1>8. ASSUME NEW j \in PickJob, PickSetsReceived(j) PROVE FilesTyped'
  BY <1>8, TypeParts
     DEF PickSetsReceived, choice, result, FilesTyped, jobs
<1>9. CASE fetchAndDownloadBundle
  BY <1>9, TypeParts
     DEF fetchAndDownloadBundle, chosen, result, FilesTyped, jobs
<1>10. ASSUME NEW j \in FetchJob, FetchOpens(j) PROVE FilesTyped'
  <2>1. cached' \in [Place -> SupportedAbis \cup {NULL}]
    BY <1>10 DEF FetchOpens, Empty
  <2>. QED  BY <1>10, <2>1, TypeParts DEF FetchOpens, result, FilesTyped
<1>11. ASSUME NEW j \in FetchJob, FetchReads(j) PROVE FilesTyped'
  <2>1. fetches[j].want \in SupportedAbis \cup {NULL}
    BY DEF TypeOK, Fetch
  <2>2. cached' \in [Place -> SupportedAbis \cup {NULL}]
    BY <1>11, <2>1 DEF FetchReads, TypeOK
  <2>. QED  BY <1>11, <2>2, TypeParts DEF FetchReads, result, FilesTyped
<1>12. ASSUME NEW j \in FetchJob, FetchFails(j) PROVE FilesTyped'
  BY <1>12, TypeParts
     DEF FetchFails, chosen, result, FilesTyped, jobs
<1>13. ASSUME NEW j \in FetchJob, FetchApplies(j) PROVE FilesTyped'
  BY <1>13, TypeParts
     DEF FetchApplies, chosen, result, FilesTyped, jobs
<1>14. ASSUME NEW j \in FetchJob, FetchReady(j) PROVE FilesTyped'
  BY <1>14, TypeParts
     DEF FetchReady, chosen, result, FilesTyped, jobs
<1>15. CASE useCachedBundle
  BY <1>15, TypeParts
     DEF useCachedBundle, chosen, result, jobs, FilesTyped
<1>16. CASE startPatch
  BY <1>16, TypeParts
     DEF startPatch, choice, chosen, result, FilesTyped, jobs
<1>17. ASSUME NEW j \in PatchJob, PatchStarts(j) PROVE FilesTyped'
  BY <1>17, TypeParts
     DEF PatchStarts, Step, choice, chosen, FilesTyped, jobs
<1>18. ASSUME NEW j \in PatchJob, PatchAnalyses(j) PROVE FilesTyped'
  <2>1. output' \in Output
    BY <1>18 DEF PatchAnalyses, Torn, Output
  <2>. QED  BY <1>18, <2>1, TypeParts DEF PatchAnalyses, FilesTyped
<1>19. ASSUME NEW j \in PatchJob, PatchInjects(j) PROVE FilesTyped'
  <2>1. /\ patches[j].apk \in Apks /\ patches[j].bundle \in SupportedAbis
        /\ patches[j].abi \in SupportedAbis
    BY <1>19 DEF PatchInjects, Step, Known, PatchesKnown, Begun
  <2>2. output' \in Output
    BY <1>19, <2>1 DEF PatchInjects, Made, Output
  <2>. QED  BY <1>19, <2>2, TypeParts DEF PatchInjects, Step, FilesTyped
<1>20. ASSUME NEW j \in PatchJob, PatchSigns(j) PROVE FilesTyped'
  <2>1. tmp' \in Output
    BY <1>20 DEF PatchSigns, TypeOK, Output
  <2>. QED  BY <1>20, <2>1, TypeParts DEF PatchSigns, Step, FilesTyped
<1>21. ASSUME NEW j \in PatchJob, PatchDeletes(j) PROVE FilesTyped'
  <2>1. output' \in Output
    BY <1>21 DEF PatchDeletes, Output
  <2>. QED  BY <1>21, <2>1, TypeParts DEF PatchDeletes, Step, FilesTyped
<1>22. ASSUME NEW j \in PatchJob, PatchRenames(j) PROVE FilesTyped'
  <2>1. tmp' \in Output /\ output' \in Output
    BY <1>22 DEF PatchRenames, Output, TypeOK
  <2>. QED  BY <1>22, <2>1, TypeParts DEF PatchRenames, Step, FilesTyped
<1>23. ASSUME NEW j \in PatchJob, PatchReports(j) PROVE FilesTyped'
  BY <1>23, TypeParts
     DEF PatchReports, choice, chosen, FilesTyped, jobs
<1>24. ASSUME NEW j \in PatchJob, PatchFails(j) PROVE FilesTyped'
  BY <1>24, TypeParts
     DEF PatchFails, choice, chosen, result, FilesTyped, jobs
<1>25. CASE reset
  BY <1>25, TypeParts
     DEF reset, choice, chosen, jobs, FilesTyped
<1>26. CASE UNCHANGED vars
  BY <1>26, TypeParts DEF vars, choice, chosen, result, jobs, FilesTyped
<1>. QED  BY <1>1, <1>2, <1>3, <1>4, <1>5, <1>6, <1>7, <1>8, <1>9, <1>10, <1>11, <1>12,
          <1>13, <1>14, <1>15, <1>16, <1>17, <1>18, <1>19, <1>20, <1>21, <1>22, <1>23,
          <1>24, <1>25, <1>26 DEF Next, PickStep, FetchStep, PatchStep

\* _source is never emptied again.
LEMMA SourceStaysKnown ==
  ASSUME TypeOK, Known, [Next]_vars
  PROVE  SourceKnown'
<1>1. ASSUME NEW a \in SupportedAbis, setAbi(a) PROVE SourceKnown'
  BY <1>1, TypeParts
     DEF setAbi, SetAbi, jobs, chosen, result, SourceKnown, Known, JobsTyped, NoPick
<1>2. ASSUME NEW a \in Apks, pickSource(a) PROVE SourceKnown'
  <2>1. UNCHANGED <<source, received>>
    BY <1>2 DEF pickSource, chosen
  <2>. QED  BY <1>2, <2>1, PickBegins DEF SourceKnown, Known
<1>3. ASSUME NEW j \in PickJob, PickCopies(j) PROVE SourceKnown'
  <2>1. UNCHANGED <<source, received>>
    BY <1>3 DEF PickCopies, chosen
  <2>. QED  BY <1>3, <2>1, CopyGrows DEF SourceKnown, Known
<1>4. ASSUME NEW j \in PickJob, PickFails(j) PROVE SourceKnown'
  BY <1>4, TypeParts
     DEF PickFails, choice, chosen, result, SourceKnown, Known, jobs, JobsTyped, NoPick
<1>5. ASSUME NEW j \in PickJob, PickUnsupported(j) PROVE SourceKnown'
  BY <1>5, TypeParts
     DEF PickUnsupported, choice, result, SourceKnown, Known, jobs, JobsTyped, NoPick
<1>6. ASSUME NEW j \in PickJob, PickAnalyses(j) PROVE SourceKnown'
  <2>1. UNCHANGED <<source, received>>
    BY <1>6 DEF PickAnalyses, chosen
  <2>. QED  BY <1>6, <2>1, PickKnowsApk DEF SourceKnown, Known
<1>7. ASSUME NEW j \in PickJob, PickSetsSource(j) PROVE SourceKnown'
  <2>1. picks[j].apk \in Apks
    BY <1>7 DEF PickSetsSource, Known, PicksKnown
  <2>. QED  BY <1>7, <2>1 DEF PickSetsSource, SourceKnown
<1>8. ASSUME NEW j \in PickJob, PickSetsReceived(j) PROVE SourceKnown'
  BY <1>8, TypeParts
     DEF PickSetsReceived, choice, result, SourceKnown, Known, jobs, JobsTyped, NoPick
<1>9. CASE fetchAndDownloadBundle
  BY <1>9, TypeParts
     DEF fetchAndDownloadBundle, chosen, result, SourceKnown, Known, jobs, JobsTyped,
          NoPick
<1>10. ASSUME NEW j \in FetchJob, FetchOpens(j) PROVE SourceKnown'
  BY <1>10, TypeParts
     DEF FetchOpens, chosen, result, SourceKnown, Known, jobs, JobsTyped, NoPick
<1>11. ASSUME NEW j \in FetchJob, FetchReads(j) PROVE SourceKnown'
  BY <1>11, TypeParts
     DEF FetchReads, chosen, result, SourceKnown, Known, jobs, JobsTyped, NoPick
<1>12. ASSUME NEW j \in FetchJob, FetchFails(j) PROVE SourceKnown'
  BY <1>12, TypeParts
     DEF FetchFails, chosen, result, SourceKnown, Known, jobs, JobsTyped, NoPick
<1>13. ASSUME NEW j \in FetchJob, FetchApplies(j) PROVE SourceKnown'
  BY <1>13, TypeParts
     DEF FetchApplies, chosen, result, SourceKnown, Known, jobs, JobsTyped, NoPick
<1>14. ASSUME NEW j \in FetchJob, FetchReady(j) PROVE SourceKnown'
  BY <1>14, TypeParts
     DEF FetchReady, chosen, result, SourceKnown, Known, jobs, JobsTyped, NoPick
<1>15. CASE useCachedBundle
  BY <1>15, TypeParts
     DEF useCachedBundle, chosen, result, jobs, SourceKnown, Known, JobsTyped, NoPick
<1>16. CASE startPatch
  BY <1>16, TypeParts
     DEF startPatch, choice, chosen, result, SourceKnown, Known, jobs, JobsTyped, NoPick
<1>17. ASSUME NEW j \in PatchJob, PatchStarts(j) PROVE SourceKnown'
  BY <1>17, TypeParts
     DEF PatchStarts, Step, choice, chosen, SourceKnown, Known, jobs, JobsTyped, NoPick
<1>18. ASSUME NEW j \in PatchJob, PatchAnalyses(j) PROVE SourceKnown'
  BY <1>18, TypeParts
     DEF PatchAnalyses, choice, chosen, SourceKnown, Known, jobs, JobsTyped, NoPick
<1>19. ASSUME NEW j \in PatchJob, PatchInjects(j) PROVE SourceKnown'
  BY <1>19, TypeParts
     DEF PatchInjects, Step, choice, chosen, SourceKnown, Known, jobs, JobsTyped, NoPick
<1>20. ASSUME NEW j \in PatchJob, PatchSigns(j) PROVE SourceKnown'
  BY <1>20, TypeParts
     DEF PatchSigns, Step, choice, chosen, SourceKnown, Known, jobs, JobsTyped, NoPick
<1>21. ASSUME NEW j \in PatchJob, PatchDeletes(j) PROVE SourceKnown'
  BY <1>21, TypeParts
     DEF PatchDeletes, Step, choice, chosen, SourceKnown, Known, jobs, JobsTyped, NoPick
<1>22. ASSUME NEW j \in PatchJob, PatchRenames(j) PROVE SourceKnown'
  BY <1>22, TypeParts
     DEF PatchRenames, Step, choice, chosen, SourceKnown, Known, jobs, JobsTyped, NoPick
<1>23. ASSUME NEW j \in PatchJob, PatchReports(j) PROVE SourceKnown'
  BY <1>23, TypeParts
     DEF PatchReports, choice, chosen, SourceKnown, Known, jobs, JobsTyped, NoPick
<1>24. ASSUME NEW j \in PatchJob, PatchFails(j) PROVE SourceKnown'
  BY <1>24, TypeParts
     DEF PatchFails, choice, chosen, result, SourceKnown, Known, jobs, JobsTyped, NoPick
<1>25. CASE reset
  BY <1>25, TypeParts
     DEF reset, choice, chosen, jobs, SourceKnown, Known, JobsTyped, NoPick
<1>26. CASE UNCHANGED vars
  BY <1>26, TypeParts DEF vars, choice, chosen, result, jobs, SourceKnown, Known,
       JobsTyped, NoPick
<1>. QED  BY <1>1, <1>2, <1>3, <1>4, <1>5, <1>6, <1>7, <1>8, <1>9, <1>10, <1>11, <1>12,
          <1>13, <1>14, <1>15, <1>16, <1>17, <1>18, <1>19, <1>20, <1>21, <1>22, <1>23,
          <1>24, <1>25, <1>26 DEF Next, PickStep, FetchStep, PatchStep
-----------------------------------------------------------------------------
(***************************************************************************)
(* Steps by what they touch: a job that is alone has the files and the     *)
(* fields it works on to itself.                                           *)
(***************************************************************************)
Aside == UNCHANGED <<picks, patches, picked, chosen, patch, result, raced>>

PickFrame  == UNCHANGED <<patches, result, raced>>
PatchFrame == UNCHANGED <<picks, picked, chosen, raced>>

LEMMA StepKinds ==
  ASSUME [Next]_vars
  PROVE  \/ Aside \/ startPatch \/ reset
         \/ \E a \in Apks : pickSource(a)
         \/ \E j \in PickJob : PickStep(j)
         \/ \E j \in PatchJob : PatchStep(j)
<1>1. ASSUME NEW a \in SupportedAbis, setAbi(a) PROVE Aside
  BY <1>1 DEF setAbi, jobs, Aside
<1>2. CASE fetchAndDownloadBundle
  BY <1>2 DEF fetchAndDownloadBundle, Aside
<1>3. CASE useCachedBundle
  BY <1>3 DEF useCachedBundle, jobs, Aside
<1>4. ASSUME NEW j \in FetchJob, FetchStep(j) PROVE Aside
  BY <1>4 DEF FetchStep, FetchOpens, FetchReads, FetchFails, FetchApplies, FetchReady, Aside
<1>5. CASE UNCHANGED vars
  BY <1>5 DEF vars, jobs, Aside
<1>. QED  BY <1>1, <1>2, <1>3, <1>4, <1>5 DEF Next

LEMMA RacedStays == ASSUME [Next]_vars, raced PROVE raced'
<1>1. ASSUME NEW a \in Apks, pickSource(a) PROVE raced'
  BY <1>1, Zenon DEF pickSource
<1>2. CASE startPatch
  BY <1>2, Zenon DEF startPatch, Launches, Refuses
<1>3. CASE reset
  BY <1>3 DEF reset
<1>4. ASSUME NEW j \in PickJob, PickStep(j) PROVE raced' = raced
  BY <1>4 DEF PickStep, PickCopies, PickFails, PickUnsupported, PickAnalyses,
     PickSetsSource, PickSetsReceived
<1>5. ASSUME NEW j \in PatchJob, PatchStep(j) PROVE raced' = raced
  BY <1>5 DEF PatchStep, PatchStarts, PatchAnalyses, PatchInjects, PatchSigns,
     PatchDeletes, PatchRenames, PatchReports, PatchFails, Step
<1>6. CASE Aside
  BY <1>6 DEF Aside
<1>. QED  BY <1>1, <1>2, <1>3, <1>4, <1>5, <1>6, StepKinds

\* A pick or a patch that starts unraced finds no other.
LEMMA NoneBusy ==
  ASSUME TypeOK, ~ Busy(picks), ~ Busy(patches)
  PROVE  /\ \A i \in PickJob : picks[i].pc = "none"
         /\ \A i \in PatchJob : patches[i].pc = "none"
BY DEF TypeOK, Busy

LEMMA PickStartsAlone ==
  ASSUME TypeOK, NEW a \in Apks, pickSource(a), ~ raced'
  PROVE  /\ \A i \in PickJob : picks[i].pc = "none"
         /\ \A i \in PatchJob : patches[i].pc = "none"
<1>1. ~ Busy(picks) /\ ~ Busy(patches)
  BY Zenon DEF pickSource
<1>. QED  BY <1>1, NoneBusy

LEMMA PatchStartsAlone ==
  ASSUME TypeOK, startPatch, ~ raced', patches' # patches
  PROVE  /\ \A i \in PickJob : picks[i].pc = "none"
         /\ \A i \in PatchJob : patches[i].pc = "none"
<1>1. raced' = (raced \/ Busy(picks) \/ Busy(patches))
  BY PatchBegins
<1>2. ~ Busy(picks) /\ ~ Busy(patches)
  BY <1>1, Zenon
<1>. QED  BY <1>2, NoneBusy

LEMMA PickAlone ==
  ASSUME OneAtATime, NEW j \in PickJob, picks[j].pc # "none"
  PROVE  /\ \A i \in PickJob : i # j => picks[i].pc = "none"
         /\ \A i \in PatchJob : patches[i].pc = "none"
BY DEF OneAtATime

LEMMA PatchAlone ==
  ASSUME OneAtATime, NEW j \in PatchJob, patches[j].pc # "none"
  PROVE  /\ \A i \in PickJob : picks[i].pc = "none"
         /\ \A i \in PatchJob : i # j => patches[i].pc = "none"
BY DEF OneAtATime

\* One step of a pick.
LEMMA PickEffect ==
  ASSUME TypeOK, PicksKnown, NEW j \in PickJob, PickStep(j)
  PROVE  /\ picks[j].pc # "none" /\ PickFrame
         /\ \A i \in PickJob : i # j => picks'[i] = picks[i]
         /\ patch' = patch \/ patch' = "Failed"
<1>1. /\ picks[j].pc # "none" /\ PickFrame
      /\ patch' = patch \/ patch' = "Failed"
  BY DEF PickStep, PickCopies, PickFails, PickUnsupported, PickAnalyses,
     PickSetsSource, PickSetsReceived, PickFrame
<1>2. CASE PickCopies(j)
  BY <1>1, <1>2, CopyGrows
<1>3. CASE PickAnalyses(j)
  BY <1>1, <1>3, PickKnowsApk
<1>4. CASE PickFails(j) \/ PickUnsupported(j)
  BY <1>1, <1>4 DEF PickFails, PickUnsupported, TypeOK
<1>5. CASE PickSetsSource(j) \/ PickSetsReceived(j)
  BY <1>1, <1>5 DEF PickSetsSource, PickSetsReceived, TypeOK
<1>. QED  BY <1>2, <1>3, <1>4, <1>5 DEF PickStep

\* And of a patch.
LEMMA PatchEffect ==
  ASSUME TypeOK, PatchesKnown, NEW j \in PatchJob, PatchStep(j)
  PROVE  /\ patches[j].pc # "none" /\ PatchFrame
         /\ \A i \in PatchJob : i # j => patches'[i] = patches[i]
         /\ \/ patch' \in {"Running", "Failed"}
            \/ patch' = "Done" /\ patches'[j].pc = "none"
<1>1. patches[j].pc # "none" /\ PatchFrame
  BY DEF PatchStep, PatchStarts, PatchAnalyses, PatchInjects, PatchSigns,
     PatchDeletes, PatchRenames, PatchReports, PatchFails, Step, PatchFrame
<1>2. CASE PatchAnalyses(j)
  BY <1>1, <1>2, PatchKnowsApk DEF PatchAnalyses
<1>3. CASE PatchReports(j) \/ PatchFails(j)
  BY <1>1, <1>3 DEF PatchReports, PatchFails, TypeOK, NoPatch
<1>4. ASSUME NEW was \in PatchAt, NEW to \in PatchAt, Step(j, was, to)
      PROVE  /\ \A i \in PatchJob : i # j => patches'[i] = patches[i]
             /\ patch' \in {"Running", "Failed"}
  BY <1>4, PatchSteps
<1>5. CASE \/ PatchStarts(j) \/ PatchInjects(j) \/ PatchSigns(j)
           \/ PatchDeletes(j) \/ PatchRenames(j)
  BY <1>1, <1>4, <1>5, Zenon
     DEF PatchStarts, PatchInjects, PatchSigns, PatchDeletes, PatchRenames, PatchAt
<1>. QED  BY <1>2, <1>3, <1>5 DEF PatchStep
-----------------------------------------------------------------------------
(***************************************************************************)
(* One at a time, and what a card that shows a result says of patches.     *)
(***************************************************************************)
LEMMA OneAtATimeKept ==
  ASSUME TypeOK, Known, OneAtATime, [Next]_vars, ~ raced'
  PROVE  OneAtATime'
<1>1. CASE Aside \/ reset
  BY <1>1 DEF Aside, reset, jobs, OneAtATime
<1>2. ASSUME NEW a \in Apks, pickSource(a) PROVE OneAtATime'
  <2>1. UNCHANGED patches
    BY <1>2 DEF pickSource
  <2>. QED  BY <1>2, <2>1, PickStartsAlone, PickBegins DEF OneAtATime
<1>3. ASSUME NEW j \in PickJob, PickStep(j) PROVE OneAtATime'
  <2>1. /\ \A i \in PickJob : i # j => picks'[i].pc = "none"
        /\ \A i \in PatchJob : patches'[i].pc = "none"
    BY <1>3, PickEffect, PickAlone DEF Known, PickFrame
  <2>. QED  BY <2>1 DEF OneAtATime
<1>4. CASE startPatch
  <2>1. UNCHANGED picks
    BY <1>4 DEF startPatch
  <2>2. CASE patches' = patches
    BY <2>1, <2>2 DEF OneAtATime
  <2>3. CASE patches' # patches
    BY <1>4, <2>1, <2>3, PatchStartsAlone, PatchBegins DEF OneAtATime
  <2>. QED  BY <2>2, <2>3
<1>5. ASSUME NEW j \in PatchJob, PatchStep(j) PROVE OneAtATime'
  <2>1. /\ \A i \in PickJob : picks'[i].pc = "none"
        /\ \A i \in PatchJob : i # j => patches'[i].pc = "none"
    BY <1>5, PatchEffect, PatchAlone DEF Known, PatchFrame
  <2>. QED  BY <2>1 DEF OneAtATime
<1>. QED  BY <1>1, <1>2, <1>3, <1>4, <1>5, StepKinds

LEMMA DoneIsIdleKept ==
  ASSUME TypeOK, Known, OneAtATime, DoneIsIdle, [Next]_vars, ~ raced'
  PROVE  DoneIsIdle'
<1>1. CASE Aside
  BY <1>1 DEF Aside, DoneIsIdle
<1>2. CASE reset
  BY <1>2 DEF reset, DoneIsIdle
<1>3. ASSUME NEW a \in Apks, pickSource(a) PROVE DoneIsIdle'
  BY <1>3, PickStartsAlone DEF pickSource, DoneIsIdle
<1>4. ASSUME NEW j \in PickJob, PickStep(j) PROVE DoneIsIdle'
  BY <1>4, PickEffect, PickAlone DEF Known, PickFrame, DoneIsIdle
<1>5. CASE startPatch
  BY <1>5, PatchBegins DEF DoneIsIdle
<1>6. ASSUME NEW j \in PatchJob, PatchStep(j) PROVE DoneIsIdle'
  <2>1. /\ patch' = "Done" => patches'[j].pc = "none"
        /\ \A i \in PatchJob : i # j => patches'[i].pc = "none"
    BY <1>6, PatchEffect, PatchAlone DEF Known
  <2>. QED  BY <2>1 DEF DoneIsIdle
<1>. QED  BY <1>1, <1>2, <1>3, <1>4, <1>5, <1>6, StepKinds
-----------------------------------------------------------------------------
(***************************************************************************)
(* The copy of the source.                                                 *)
(***************************************************************************)
LEMMA ExactIsApk ==
  ASSUME TypeOK, PicksKnown, CopyIsExact, NEW j \in PickJob,
         picks[j].pc \in {"analyze", "source", "received"}
  PROVE  /\ IsWhole(Analysed(j)) /\ Data(Analysed(j)) = picks[j].apk
         /\ Analysed(j)[1] = picks[j].apk
<1>1. picks[j].apk \in Apks /\ Analysed(j) = Whole(picks[j].apk)
  BY DEF PicksKnown, CopyIsExact, CopyOf, Analysed
<1>2. Whole(picks[j].apk)[1] = picks[j].apk
  BY FirstPlace DEF Whole
<1>. QED  BY <1>1, <1>2 DEF IsWhole, Data

\* A piece was written at its place, and no other copy was touched.
LEMMA PieceWritten ==
  ASSUME TypeOK, PicksKnown, NEW j \in PickJob, PickCopies(j)
  PROVE  /\ \A c \in Place : picked'[name[picks[j].apk]][c]
                               = IF c = picks[j].done + 1 THEN picks[j].apk
                                 ELSE picked[name[picks[j].apk]][c]
         /\ picked'[name[picks[j].apk]] \in [Place -> Apks \cup {NULL}]
         /\ \A n \in Name : n # name[picks[j].apk] => picked'[n] = picked[n]
<1> DEFINE n == name[picks[j].apk]
<1>1. n \in Name /\ picks[j].apk \in Apks
  BY DEF PickCopies, PicksKnown, Name
<1>2. picked[n] \in [Place -> Apks \cup {NULL}] /\ DOMAIN picked = Name
  BY <1>1 DEF TypeOK
<1>. DEFINE copy == [picked[n] EXCEPT ![picks[j].done + 1] = picks[j].apk]
<1>3. /\ copy \in [Place -> Apks \cup {NULL}]
      /\ \A c \in Place : copy[c] = IF c = picks[j].done + 1 THEN picks[j].apk ELSE picked[n][c]
  BY <1>1, <1>2
<1>4. picked' = [picked EXCEPT ![n] = copy]
  BY DEF PickCopies
<1>. HIDE DEF copy
<1>5. picked'[n] = copy /\ \A m \in Name : m # n => picked'[m] = picked[m]
  BY <1>1, <1>2, <1>4
<1>. QED  BY <1>3, <1>5

LEMMA CopyIsExactKept ==
  ASSUME TypeOK, Known, OneAtATime, CopyIsExact, [Next]_vars, ~ raced'
  PROVE  CopyIsExact'
<1>1. CASE Aside \/ reset \/ startPatch
  BY <1>1 DEF Aside, reset, startPatch, jobs, chosen, CopyIsExact, CopyOf
<1>2. ASSUME NEW a \in Apks, pickSource(a) PROVE CopyIsExact'
  <2>1. PICK j \in PickJob :
          /\ picks'[j].pc = "copy" /\ picks'[j].apk = a /\ picks'[j].done = 0
          /\ \A i \in PickJob : i # j => picks'[i] = picks[i]
    BY <1>2, PickBegins
  <2>2. \A i \in PickJob : i # j => picks'[i].pc = "none"
    BY <1>2, <2>1, PickStartsAlone
  <2>3. picked'[name[a]] = Empty
    BY <1>2 DEF pickSource, TypeOK, Name
  <2>4. CopyOf(j)'
    BY <2>1, <2>3, FirstPlace DEF CopyOf, Empty, Place
  <2>5. \A i \in PickJob : i # j => CopyOf(i)'
    BY <2>2 DEF CopyOf
  <2>. QED  BY <2>4, <2>5, Zenon DEF CopyIsExact
<1>3. ASSUME NEW j \in PickJob, PickStep(j) PROVE CopyIsExact'
  <2>1. \A i \in PickJob : i # j => picks'[i].pc = "none"
    BY <1>3, PickEffect, PickAlone DEF Known
  <2>2. CopyOf(j)'
    <3>1. CASE PickCopies(j)
      <4>. DEFINE n == name[picks[j].apk]
      <4>1. /\ picks'[j].apk = picks[j].apk /\ picks'[j].done = picks[j].done + 1
            /\ picks'[j].pc = IF picks[j].done + 1 = Chunks THEN "analyze" ELSE "copy"
            /\ picks[j].done \in 0 .. Chunks /\ picks[j].pc = "copy"
        BY <3>1, CopyGrows DEF Known, TypeOK, Pick, PickCopies
      <4>2. \A c \in Place : picked[n][c] = IF c <= picks[j].done THEN picks[j].apk ELSE NULL
        BY <4>1 DEF CopyIsExact, CopyOf
      <4>3. \A c \in Place : picked'[n][c] = IF c <= picks[j].done + 1 THEN picks[j].apk
                                             ELSE NULL
        BY <3>1, <4>1, <4>2, PieceWritten, FirstPlace DEF Known
      <4>4. picked'[n] \in [Place -> Apks \cup {NULL}]
        BY <3>1, PieceWritten DEF Known
      <4>5. CASE picks[j].done + 1 = Chunks
        <5>1. \A c \in Place : picked'[n][c] = picks[j].apk
          BY <4>3, <4>5 DEF Place
        <5>2. picked'[n] = Whole(picks[j].apk)
          BY <4>4, <5>1 DEF Whole
        <5>. QED  BY <4>1, <4>5, <5>2 DEF CopyOf
      <4>6. CASE picks[j].done + 1 # Chunks
        BY <4>1, <4>3, <4>6 DEF CopyOf
      <4>. QED  BY <4>5, <4>6
    <3>2. CASE PickFails(j) \/ PickUnsupported(j) \/ PickSetsReceived(j)
      <4>1. picks'[j].pc = "none"
        BY <3>2 DEF PickFails, PickUnsupported, PickSetsReceived, TypeOK, NoPick
      <4>. QED  BY <4>1 DEF CopyOf
    <3>3. CASE PickAnalyses(j)
      <4>1. picks'[j].pc = "source" /\ picks'[j].apk = picks[j].apk /\ picked' = picked
        BY <3>3, PickKnowsApk, ExactIsApk DEF Known, PickAnalyses
      <4>2. picked[name[picks[j].apk]] = Whole(picks[j].apk)
        BY <3>3 DEF CopyIsExact, CopyOf, PickAnalyses
      <4>. QED  BY <4>1, <4>2 DEF CopyOf
    <3>4. CASE PickSetsSource(j)
      <4>1. /\ picks'[j].pc = "received" /\ picks'[j].apk = picks[j].apk
            /\ picked' = picked /\ source' = picks[j].apk
        BY <3>4 DEF PickSetsSource, TypeOK, Pick
      <4>2. picked[name[picks[j].apk]] = Whole(picks[j].apk)
        BY <3>4 DEF CopyIsExact, CopyOf, PickSetsSource
      <4>. QED  BY <4>1, <4>2 DEF CopyOf
    <3>. QED  BY <1>3, <3>1, <3>2, <3>3, <3>4 DEF PickStep
  <2>3. \A i \in PickJob : i # j => CopyOf(i)'
    BY <2>1 DEF CopyOf
  <2>. QED  BY <2>2, <2>3, Zenon DEF CopyIsExact
<1>4. ASSUME NEW j \in PatchJob, PatchStep(j) PROVE CopyIsExact'
  BY <1>4, PatchEffect DEF Known, PatchFrame, chosen, CopyIsExact, CopyOf
<1>. QED  BY <1>1, <1>2, <1>3, <1>4, StepKinds

(***************************************************************************)
(* What is received is what is described.                                  *)
(***************************************************************************)
LEMMA ReceivedIsSourceKept ==
  ASSUME TypeOK, Known, OneAtATime, CopyIsExact, CopyIsExact', ReceivedIsSource,
         [Next]_vars, ~ raced'
  PROVE  ReceivedIsSource'
<1>1. CASE Aside \/ reset \/ startPatch
  <2>1. UNCHANGED <<picks, picked, source, received>>
    BY <1>1 DEF Aside, reset, startPatch, jobs, chosen
  <2>. QED  BY <2>1 DEF ReceivedIsSource, Settled, IsWhole
<1>2. ASSUME NEW a \in Apks, pickSource(a) PROVE ReceivedIsSource'
  <2>1. UNCHANGED <<source, received>> /\ Settled
    BY <1>2, PickStartsAlone DEF pickSource, chosen, Settled
  <2>2. CASE received = name[a]
    <3>1. picked'[received] = Empty
      BY <1>2, <2>2 DEF pickSource, TypeOK, Name
    <3>2. ~ IsWhole(picked'[received'])
      BY <2>1, <3>1, FirstPlace, TornFile DEF Empty
    <3>. QED  BY <3>2 DEF ReceivedIsSource, IsWhole
  <2>3. CASE received # name[a]
    <3>1. picked'[received] = picked[received] \/ received = NULL
      BY <1>2, <2>3 DEF pickSource, TypeOK
    <3>. QED  BY <2>1, <3>1 DEF ReceivedIsSource, IsWhole
  <2>. QED  BY <2>2, <2>3
<1>3. ASSUME NEW j \in PickJob, PickStep(j) PROVE ReceivedIsSource'
  <2>0. picks[j].pc # "none" /\ \A i \in PickJob : i # j => picks[i].pc = "none"
    BY <1>3, PickEffect, PickAlone DEF Known
  <2>1. CASE PickCopies(j)
    <3>1. UNCHANGED <<source, received>> /\ Settled
      BY <2>0, <2>1 DEF PickCopies, chosen, Settled
    <3>2. /\ picks'[j].apk = picks[j].apk /\ picks'[j].done = picks[j].done + 1
          /\ picks'[j].pc = IF picks[j].done + 1 = Chunks THEN "analyze" ELSE "copy"
          /\ picks[j].done + 1 \in Place
      BY <2>1, CopyGrows DEF Known
    <3>3. CASE received # name[picks[j].apk]
      <4>1. picked'[received] = picked[received] \/ received = NULL
        BY <2>1, <3>3, PieceWritten DEF Known, TypeOK
      <4>. QED  BY <3>1, <4>1 DEF ReceivedIsSource, IsWhole
    <3>4. CASE received = name[picks[j].apk] /\ picks[j].done + 1 = Chunks
      <4>1. ~ Settled'
        BY <3>1, <3>2, <3>4 DEF Settled
      <4>. QED  BY <4>1 DEF ReceivedIsSource
    <3>5. CASE received = name[picks[j].apk] /\ picks[j].done + 1 # Chunks
      <4>0. picks[j].done \in Nat
        BY DEF TypeOK, Pick
      <4>1. picks[j].done + 2 \in Place
        BY <3>2, <3>5, <4>0, SizesAssumption DEF Place
      <4>2. picked'[received][picks[j].done + 2] = NULL
        <5>1. picks'[j].pc = "copy" /\ ~ picks[j].done + 2 <= picks[j].done + 1
          BY <3>2, <3>5, <4>0
        <5>2. CopyOf(j)'
          BY DEF CopyIsExact
        <5>. QED  BY <3>1, <3>2, <3>5, <4>1, <5>1, <5>2 DEF CopyOf
      <4>3. ~ IsWhole(picked'[received'])
        BY <3>1, <4>1, <4>2, TornFile
      <4>. QED  BY <4>3 DEF ReceivedIsSource, IsWhole
    <3>. QED  BY <3>3, <3>4, <3>5
  <2>2. CASE PickFails(j)
    <3>1. UNCHANGED <<source, received, picked>> /\ picks[j].pc \in {"copy", "analyze"}
      BY <2>2 DEF PickFails, chosen
    <3>2. picks[j].pc # "analyze"
      BY <2>2, ExactIsApk DEF PickFails, Known
    <3>3. Settled
      BY <2>0, <3>1, <3>2 DEF Settled
    <3>. QED  BY <3>1, <3>3 DEF ReceivedIsSource, IsWhole
  <2>3. CASE PickUnsupported(j)
    BY <2>3 DEF PickUnsupported, ReceivedIsSource
  <2>4. CASE PickAnalyses(j)
    <3>1. ~ Settled'
      BY <2>4, PickKnowsApk DEF Known, Settled
    <3>. QED  BY <3>1 DEF ReceivedIsSource
  <2>5. CASE PickSetsSource(j)
    <3>1. ~ Settled'
      BY <2>5 DEF PickSetsSource, Settled, TypeOK, Pick
    <3>. QED  BY <3>1 DEF ReceivedIsSource
  <2>6. CASE PickSetsReceived(j)
    <3>1. /\ picks[j].pc = "received" /\ UNCHANGED <<source, picked>>
          /\ received' = name[picks[j].apk]
      BY <2>6 DEF PickSetsReceived
    <3>2. picked[name[picks[j].apk]][1] = picks[j].apk /\ source = picks[j].apk
      BY <3>1, ExactIsApk DEF Known, Analysed, CopyIsExact, CopyOf
    <3>. QED  BY <3>1, <3>2 DEF ReceivedIsSource
  <2>. QED  BY <1>3, <2>1, <2>2, <2>3, <2>4, <2>5, <2>6 DEF PickStep
<1>4. ASSUME NEW j \in PatchJob, PatchStep(j) PROVE ReceivedIsSource'
  <2>1. UNCHANGED <<picks, picked, source, received>>
    BY <1>4, PatchEffect DEF Known, PatchFrame, chosen
  <2>. QED  BY <2>1 DEF ReceivedIsSource, Settled, IsWhole
<1>. QED  BY <1>1, <1>2, <1>3, <1>4, StepKinds
-----------------------------------------------------------------------------
(***************************************************************************)
(* The patch and its files.                                                *)
(***************************************************************************)
LEMMA NoPatchRuns ==
  ASSUME \A i \in PatchJob : patches[i].pc = "none"
  PROVE  PatchIsOfSource /\ FilesFollow
BY DEF PatchIsOfSource, FilesFollow, FilesOf, Begun

LEMMA PatchIsOfSourceKept ==
  ASSUME TypeOK, Known, OneAtATime, ReceivedIsSource, PatchIsOfSource, [Next]_vars, ~ raced'
  PROVE  PatchIsOfSource'
<1>1. CASE Aside \/ reset
  BY <1>1 DEF Aside, reset, chosen, jobs, PatchIsOfSource
<1>2. ASSUME NEW a \in Apks, pickSource(a) PROVE PatchIsOfSource'
  BY <1>2, PickStartsAlone DEF pickSource, PatchIsOfSource, Begun
<1>3. ASSUME NEW j \in PickJob, PickStep(j) PROVE PatchIsOfSource'
  BY <1>3, PickEffect, PickAlone DEF Known, PickFrame, PatchIsOfSource, Begun
<1>4. CASE startPatch
  <2>1. UNCHANGED <<source, received>>
    BY <1>4 DEF startPatch, chosen
  <2>2. CASE patches' = patches
    BY <2>1, <2>2 DEF PatchIsOfSource
  <2>3. CASE patches' # patches
    <3>1. \A i \in PatchJob : patches[i].pc = "none"
      BY <1>4, <2>3, PatchStartsAlone
    <3>2. PICK j \in PatchJob :
            /\ patches'[j].pc = "start" /\ patches'[j].src = received
            /\ patches'[j].abi = abi /\ abi \in sourceAbis
            /\ received # NULL /\ source # NULL
            /\ \A i \in PatchJob : i # j => patches'[i] = patches[i]
      BY <1>4, <2>3, PatchBegins DEF Compatible
    <3>3. abi \in abis[source]
      BY <3>2 DEF sourceAbis
    <3>. QED  BY <2>1, <3>1, <3>2, <3>3 DEF PatchIsOfSource, Begun
  <2>. QED  BY <2>2, <2>3
<1>5. ASSUME NEW j \in PatchJob, PatchStep(j) PROVE PatchIsOfSource'
  <2>1. /\ UNCHANGED <<source, received>> /\ patches[j].pc # "none"
        /\ \A i \in PickJob : picks[i].pc = "none"
        /\ \A i \in PatchJob : i # j => patches'[i].pc = "none"
    BY <1>5, PatchEffect, PatchAlone DEF Known, PatchFrame, chosen
  <2>2. CASE PatchAnalyses(j)
    <3>1. /\ patches'[j].pc = "inject" /\ patches'[j].apk = picked[patches[j].src][1]
          /\ patches'[j].abi = patches[j].abi
      BY <2>2, PatchKnowsApk DEF Known
    <3>2. /\ patches[j].src = received /\ patches[j].abi \in abis[source]
          /\ received # NULL /\ IsWhole(picked[received])
      BY <2>2 DEF PatchAnalyses, PatchIsOfSource, Begun
    <3>3. picked[received][1] = source
      BY <2>1, <3>2 DEF ReceivedIsSource, Settled
    <3>. QED  BY <2>1, <3>1, <3>2, <3>3 DEF PatchIsOfSource, Begun
  <2>3. CASE PatchReports(j) \/ PatchFails(j)
    <3>1. patches'[j].pc = "none"
      BY <2>3 DEF PatchReports, PatchFails, TypeOK, NoPatch
    <3>. QED  BY <2>1, <3>1 DEF PatchIsOfSource, Begun
  <2>4. ASSUME NEW was \in PatchAt, NEW to \in PatchAt, Step(j, was, to),
               was # "none", to \in Begun <=> was \in Begun
        PROVE  PatchIsOfSource'
    <3>1. /\ patches[j].pc = was /\ patches'[j].pc = to
          /\ patches'[j].src = patches[j].src /\ patches'[j].abi = patches[j].abi
          /\ patches'[j].apk = patches[j].apk
      BY <2>4, PatchSteps
    <3>2. \A i \in PatchJob : i # j => patches'[i].pc = "none"
      BY <2>1
    <3>3. CASE was \in Begun
      BY <2>1, <2>4, <3>1, <3>2, <3>3 DEF PatchIsOfSource, Begun
    <3>4. CASE was \notin Begun
      BY <2>1, <2>4, <3>1, <3>2, <3>4 DEF PatchIsOfSource, Begun
    <3>. QED  BY <3>3, <3>4
  <2>5. CASE \/ PatchStarts(j) \/ PatchInjects(j) \/ PatchSigns(j)
             \/ PatchDeletes(j) \/ PatchRenames(j)
    BY <2>4, <2>5
       DEF PatchStarts, PatchInjects, PatchSigns, PatchDeletes, PatchRenames, PatchAt, Begun
  <2>. QED  BY <1>5, <2>2, <2>3, <2>5 DEF PatchStep
<1>. QED  BY <1>1, <1>2, <1>3, <1>4, <1>5, StepKinds

LEMMA SameMade ==
  ASSUME TypeOK, NEW j \in PatchJob, NEW was \in PatchAt, NEW to \in PatchAt, Step(j, was, to)
  PROVE  Of(patches'[j]) = Of(patches[j])
BY PatchSteps DEF Of

LEMMA FilesFollowKept ==
  ASSUME TypeOK, Known, OneAtATime, FilesFollow, [Next]_vars, ~ raced'
  PROVE  FilesFollow'
<1>1. CASE Aside
  BY <1>1 DEF Aside, result, FilesFollow, FilesOf
<1>2. CASE reset
  BY <1>2 DEF reset, jobs, FilesFollow, FilesOf
<1>3. ASSUME NEW a \in Apks, pickSource(a) PROVE FilesFollow'
  BY <1>3, PickStartsAlone DEF pickSource, FilesFollow, FilesOf
<1>4. ASSUME NEW j \in PickJob, PickStep(j) PROVE FilesFollow'
  BY <1>4, PickEffect, PickAlone DEF Known, PickFrame, FilesFollow, FilesOf
<1>5. CASE startPatch
  <2>1. UNCHANGED <<output, tmp>>
    BY <1>5 DEF startPatch, result
  <2>2. CASE patches' = patches
    BY <2>1, <2>2 DEF FilesFollow, FilesOf
  <2>3. CASE patches' # patches
    <3>1. \A i \in PatchJob : patches'[i].pc \in {"none", "start"}
      BY <1>5, <2>3, PatchBegins, PatchStartsAlone
    <3>. QED  BY <3>1 DEF FilesFollow, FilesOf
  <2>. QED  BY <2>2, <2>3
<1>6. ASSUME NEW j \in PatchJob, PatchStep(j) PROVE FilesFollow'
  <2>1. \A i \in PatchJob : i # j => patches'[i].pc = "none"
    BY <1>6, PatchEffect, PatchAlone DEF Known
  <2>2. \A i \in PatchJob : i # j => FilesOf(i)'
    BY <2>1 DEF FilesOf
  <2>3. FilesOf(j)'
    <3>1. CASE PatchAnalyses(j)
      <4>1. patches'[j].pc = "inject"
        BY <3>1, PatchKnowsApk DEF Known
      <4>. QED  BY <4>1 DEF FilesOf
    <3>2. CASE PatchReports(j) \/ PatchFails(j)
      <4>1. patches'[j].pc = "none"
        BY <3>2 DEF PatchReports, PatchFails, TypeOK, NoPatch
      <4>. QED  BY <4>1 DEF FilesOf
    <3>3. CASE PatchStarts(j)
      <4>1. patches'[j].pc = "analyze"
        BY <3>3, PatchSteps DEF PatchStarts, PatchAt
      <4>. QED  BY <4>1 DEF FilesOf
    <3>4. CASE PatchInjects(j)
      <4>1. Step(j, "inject", "repacked")
            /\ output' = [made |-> Of(patches[j]), signed |-> FALSE]
        BY <3>4 DEF PatchInjects, Of
      <4>2. patches'[j].pc = "repacked" /\ Of(patches'[j]) = Of(patches[j])
        BY <4>1, PatchSteps, SameMade DEF PatchAt
      <4>. QED  BY <4>1, <4>2 DEF FilesOf
    <3>5. CASE PatchSigns(j)
      <4>1. Step(j, "repacked", "signed") /\ tmp' = [output EXCEPT !.signed = TRUE]
        BY <3>5 DEF PatchSigns
      <4>2. output = [made |-> Of(patches[j]), signed |-> FALSE]
        BY <4>1 DEF Step, FilesFollow, FilesOf
      <4>3. tmp' = [made |-> Of(patches[j]), signed |-> TRUE]
        BY <4>1, <4>2
      <4>4. patches'[j].pc = "signed" /\ Of(patches'[j]) = Of(patches[j])
        BY <4>1, PatchSteps, SameMade DEF PatchAt
      <4>. QED  BY <4>3, <4>4 DEF FilesOf
    <3>6. CASE PatchDeletes(j)
      <4>1. Step(j, "signed", "deleted") /\ UNCHANGED tmp
        BY <3>6 DEF PatchDeletes
      <4>2. tmp = [made |-> Of(patches[j]), signed |-> TRUE]
        BY <4>1 DEF Step, FilesFollow, FilesOf
      <4>3. patches'[j].pc = "deleted" /\ Of(patches'[j]) = Of(patches[j])
        BY <4>1, PatchSteps, SameMade DEF PatchAt
      <4>. QED  BY <4>1, <4>2, <4>3 DEF FilesOf
    <3>7. CASE PatchRenames(j)
      <4>1. Step(j, "deleted", "renamed") /\ output' = tmp
        BY <3>7 DEF PatchRenames
      <4>2. tmp = [made |-> Of(patches[j]), signed |-> TRUE]
        BY <4>1 DEF Step, FilesFollow, FilesOf
      <4>3. patches'[j].pc = "renamed" /\ Of(patches'[j]) = Of(patches[j])
        BY <4>1, PatchSteps, SameMade DEF PatchAt
      <4>. QED  BY <4>1, <4>2, <4>3 DEF FilesOf
    <3>. QED  BY <1>6, <3>1, <3>2, <3>3, <3>4, <3>5, <3>6, <3>7 DEF PatchStep
  <2>. QED  BY <2>2, <2>3, Zenon DEF FilesFollow
<1>. QED  BY <1>1, <1>2, <1>3, <1>4, <1>5, <1>6, StepKinds

\* Only a report makes the card show a result.
LEMMA OfferedIsPatchedKept ==
  ASSUME TypeOK, Known, PatchIsOfSource, FilesFollow, OfferedIsPatched, [Next]_vars, ~ raced'
  PROVE  OfferedIsPatched'
<1>0. ~ raced
  BY RacedStays
<1>1. CASE Aside
  BY <1>1 DEF Aside, result, OfferedIsPatched, InstallOffered
<1>2. CASE reset
  BY <1>2 DEF reset, OfferedIsPatched, InstallOffered
<1>3. ASSUME NEW a \in Apks, pickSource(a) PROVE OfferedIsPatched'
  BY <1>0, <1>3 DEF pickSource, result, OfferedIsPatched, InstallOffered
<1>4. ASSUME NEW j \in PickJob, PickStep(j) PROVE OfferedIsPatched'
  BY <1>4, PickEffect DEF Known, PickFrame, result, OfferedIsPatched, InstallOffered
<1>5. CASE startPatch
  BY <1>5, PatchBegins DEF OfferedIsPatched, InstallOffered
<1>6. ASSUME NEW j \in PatchJob, PatchStep(j) PROVE OfferedIsPatched'
  <2>1. CASE PatchReports(j)
    <3>1. /\ patches[j].pc = "renamed" /\ lastReport' = Of(patches[j])
          /\ UNCHANGED output
      BY <2>1 DEF PatchReports, Of
    <3>2. /\ output = [made |-> Of(patches[j]), signed |-> TRUE]
          /\ patches[j].bundle = patches[j].abi
          /\ patches[j].abi \in abis[patches[j].apk]
      BY <3>1 DEF FilesFollow, FilesOf, Known, PatchesKnown, PatchIsOfSource, Begun
    <3>3. /\ lastReport'.bundle = patches[j].bundle /\ lastReport'.abi = patches[j].abi
          /\ lastReport'.apk = patches[j].apk
      BY <3>1 DEF Of
    <3>. QED  BY <3>1, <3>2, <3>3 DEF OfferedIsPatched
  <2>2. CASE ~ PatchReports(j)
    <3>1. patch' \in {"Running", "Failed"}
      BY <1>6, <2>2 DEF PatchStep, PatchStarts, PatchAnalyses, PatchInjects, PatchSigns,
         PatchDeletes, PatchRenames, PatchFails, Step
    <3>. QED  BY <3>1 DEF OfferedIsPatched, InstallOffered
  <2>. QED  BY <2>1, <2>2
<1>. QED  BY <1>1, <1>2, <1>3, <1>4, <1>5, <1>6, StepKinds
-----------------------------------------------------------------------------
(***************************************************************************)
(* The inductive invariant, and what follows from it.                      *)
(***************************************************************************)
LEMMA InitIInv == Init => IInv
<1>. SUFFICES ASSUME Init PROVE IInv
  OBVIOUS
<1>1. TypeOK
  <2>1. JobsTyped
    BY NoJobs DEF Init, JobsTyped
  <2>2. FilesTyped
    BY DEF Init, FilesTyped, Empty, Output
  <2>3. FieldsTyped
    BY DEF Init, FieldsTyped
  <2>. QED  BY <2>1, <2>2, <2>3, TypeParts
<1>2. /\ \A i \in PickJob : picks[i].pc = "none"
      /\ \A i \in FetchJob : fetches[i].pc = "none"
      /\ \A i \in PatchJob : patches[i].pc = "none"
      /\ received = NULL /\ patch = "Idle"
  BY DEF Init, NoPick, NoFetch, NoPatch
<1>3. Known
  BY <1>2 DEF Known, PicksKnown, FetchesKnown, PatchesKnown, SourceKnown
<1>4. OneAtATime /\ CopyIsExact /\ ReceivedIsSource /\ DoneIsIdle
  BY <1>2 DEF OneAtATime, CopyIsExact, CopyOf, ReceivedIsSource, DoneIsIdle
<1>5. PatchIsOfSource /\ FilesFollow
  BY <1>2, NoPatchRuns
<1>6. OfferedIsPatched
  BY <1>2 DEF OfferedIsPatched, InstallOffered
<1>. QED  BY <1>1, <1>3, <1>4, <1>5, <1>6 DEF IInv, Unraced

LEMMA NextIInv == IInv /\ [Next]_vars => IInv'
<1>. SUFFICES ASSUME IInv, [Next]_vars PROVE IInv'
  OBVIOUS
<1>1. TypeOK /\ Known
  BY DEF IInv
<1>2. (JobsTyped /\ FilesTyped /\ FieldsTyped)'
  BY <1>1, JobsStayTyped, FilesStayTyped, FieldsStayTyped
<1>3. TypeOK'
  BY <1>2 DEF TypeOK, JobsTyped, FilesTyped, FieldsTyped
<1>4. Known'
  BY <1>1, JobsStayKnown, SourceStaysKnown DEF Known
<1>5. CASE raced'
  BY <1>3, <1>4, <1>5 DEF IInv, OfferedIsPatched
<1>6. CASE ~ raced'
  <2>1. Unraced /\ OfferedIsPatched
    BY <1>6, RacedStays DEF IInv
  <2>2. OneAtATime' /\ CopyIsExact' /\ DoneIsIdle'
    BY <1>1, <1>6, <2>1, OneAtATimeKept, CopyIsExactKept, DoneIsIdleKept DEF Unraced
  <2>3. ReceivedIsSource'
    BY <1>1, <1>6, <2>1, <2>2, ReceivedIsSourceKept DEF Unraced
  <2>4. PatchIsOfSource' /\ FilesFollow' /\ OfferedIsPatched'
    BY <1>1, <1>6, <2>1, PatchIsOfSourceKept, FilesFollowKept, OfferedIsPatchedKept
       DEF Unraced
  <2>. QED  BY <1>3, <1>4, <2>2, <2>3, <2>4 DEF IInv, Unraced
<1>. QED  BY <1>5, <1>6

LEMMA AlwaysIInv == Spec => []IInv
BY InitIInv, NextIInv, PTL DEF Spec

(***************************************************************************)
(* Every field, file and job of the screen is of its type: no copy or      *)
(* download writes past its last piece, no pick analyses a copy of a name  *)
(* it does not have, no patch starts without a source, a bundle and an ABI.*)
(***************************************************************************)
THEOREM TypeCorrect == Spec => []TypeOK
<1>1. IInv => TypeOK
  BY DEF IInv
<1>. QED  BY <1>1, AlwaysIInv, PTL

(***************************************************************************)
(* Unless a pick or a patch was started beside another, what "Install"     *)
(* hands over is the signed APK of the last report, made with a bundle of  *)
(* its own ABI, from a source that has this ABI: startPatch()'s checks are *)
(* of _source, and the file it patches, received by name, is its copy.     *)
(***************************************************************************)
THEOREM AlwaysOfferedIsPatched == Spec => []OfferedIsPatched
<1>1. IInv => OfferedIsPatched
  BY DEF IInv
<1>. QED  BY <1>1, AlwaysIInv, PTL
=============================================================================
