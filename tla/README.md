# Verification of the CS16 Meta Patcher

TLA+ models of the program in `src/`, checked with TLC and, where a result
should hold for every size, proved with TLAPS.  `PROJECT.json` maps every
definition to the lines it stands for.  Paths below are relative to
`src/android/mm-p/metamod/` unless they say otherwise.

## The system

The repository rebuilds the CS16Client APK (a Counter-Strike 1.6 client and
server on the Xash3D engine) with AMX Mod X in it.  Its parts:

| part | state it keeps | operations | what is hard about it |
|---|---|---|---|
| hook dispatcher (`api_hook.cpp`) | the active calls with their cached hook lists, `hook_list_tables_updated`, `PublicMetaGlobals`, `reentry_index` | one API call: pre plugins, real routine, post plugins | plugins change the lists it is walking, and call it again, at any depth |
| plugin list and plugins (`mlist.cpp`, `mplugin.cpp`) | `plist`, `endlist`, the hook lists; per plugin a status, one pending action, handle, info, times, loader | startup, refresh, load, unload, reload, retry, clear, pause, unpause | delayed actions, refused callbacks, slots that are reused, four sources of requests |
| console commands, plugin requests (`commands_meta.cpp`, `mutil.cpp`) | none | forward to the plugin list | when they arrive |
| registrations (`mreg.cpp`, `reg_support.cpp`) | commands and cvars registered by plugins, by slot | register, call, disable | they outlive the plugin; the list moves when it grows |
| player queries (`mplayer.cpp`) | which cvar a client is being asked for | mark, clear, test | overlapping queries |
| API tables (`engine_api.cpp`, `dllapi.cpp`) | none | one wrapper per API function | none: they pack arguments and call the dispatcher |
| startup (`metamod.cpp`, `game_support.cpp`, `conf_meta.cpp`, `osdep*.cpp`) | configuration, game DLL | a sequence run once | file and symbol lookup |
| patcher application (`src/android/app`) | source APK, ABI, bundle, patch job, update state, plugin files | pick, download, patch, install, check and download updates | coroutines on many threads share the state flows and the files |
| patching library (`src/android/patcherlib`) | the files of one job | analyse, repack, align, sign, verify | a step that fails leaves files behind |
| game client (`src/vcs16`) | the weapons' state of the last acknowledged command and of each predicted one; statics of the weapon objects; much that is only drawn | predict a command, draw a frame, handle a message | a command is predicted again and again, from a state that only partly goes with it |
| patches, CI, AMXX data, HLSDK, assets | none | build time only | none |

How they interact.  The engine and the game DLL call through the API tables
into the dispatcher; the dispatcher walks the hook lists that the plugin list
builds, and calls the plugins; a plugin calls the engine, which may be another
API call into the dispatcher, or asks the plugin list to load and unload other
plugins, which rebuilds the hook lists.  The console commands and the
changelevel (`mm_ServerDeactivate`) work on the plugin list directly.  All of
it runs on the one thread of the game, so interleaving here is nesting.  The
patcher application is separate: it prepares the APK, and its concurrency is
real: coroutines on the IO threads beside the main thread, sharing state flows and
files without locks.  The game client runs on its own machine and guesses the
server's answers with the same weapon code.

## Modules

| module | models | abstracted |
|---|---|---|
| `HookDispatch` | `main_hook_function_void_t`, and of the typed variant the control; `rebuild_hook_lists`, `find_plugin_after_rebuild`; load, unload, pause, unpause as far as they change the lists | arguments, which routine of the table |
| `OrderedDispatch` | the abstract promise of the dispatcher: slot order, none skipped, none twice | lists, caches and flags |
| `HookReturn` | result codes and return values of `main_hook_function_t` | which plugins are called |
| `PluginList` | `MPluginList` and `MPlugin` under every command, request, refresh and startup | names and paths are model values; a callback is its outcome |
| `PluginCallbacks` | loading, unloading and registered commands with every call into a plugin as a frame on the stack of the one thread: what plugins do to each other from inside those calls | `plugins.ini`, reloading, pausing, what a refresh does for a plugin that waits (in `PluginList`) |
| `AppUpdate` | the patcher's updater: checks, download, poll loop, dialog, installer, preferences | release notes, the bundle notification |
| `PatchFlow` | the Patch screen: picking, bundle download, ABI, patch jobs, and the files they share | contents of libraries, keystore, compositions |
| `Weapons` | prediction of firing, reloading and switching | spread, recoil, sounds, animations; `m_bCanShoot`, taken to be true; the UMP45 |
| `MC...` | instances for TLC | |
| `HookDispatchProofs`, `OrderedDispatchProofs`, `HookReturnProofs`, `PluginListProofs`, `PluginCallbacksProofs`, `AppUpdateProofs`, `PatchFlowProofs`, `WeaponsProofs` | theorems about the module each is named for | |

**HookDispatch.**  `stack` holds one frame per active call, its fields named
for the locals: `plugs` is the cached list (pointer and count, seen as the
entries it gave when it was read), `block` the allocation it points into, `i`
the entries the loop is past, `rebuild_happened` and `saved_meta_globals` as in
the code.  `pc` says what the frame waits for.  A step of the dispatcher is one
action between two calls out of it (`SkipPlugin`, `CallPlugin`,
`PluginReturns`, `CallRoutine`, `StartPost` in its three cases, `EndCall`);
anything else happens only while control is outside (`Outside`), which is what
one thread means.  The void and the typed variant differ in one thing here: the
first clears the flag when it has read it (`BeginCall`'s `clears`).
`reentry_index` is `Len(stack) - 1`.  A reallocation picks any block of
`Blocks`, the same one or another one, and may fail where `AllocMayFail`.  When no
plugin hooks anything the block is given back and there is none (`mlist.cpp:204-207`).

**OrderedDispatch** keeps only the position of each call.  `HookDispatch`
implements it with the frame's `plug` as position (`ImplementsOrderedDispatch`).

**HookReturn** follows one typed call: `rv`, `backup_rv` and `status` are the
locals, `answers` is what the plugins returned.  A plugin in control may write
anything into `rv` (it has pointers to it), which the backup undoes.

**PluginList.**  An operation of the code is an operator on the list state,
named like the function; an action applies one operation and says when it can
happen.  `fresh` stands for "the file is not newer than time_loaded", `refs` for
the loader's count of `dlopen`s, `hooked` for the plugins in the hook lists, which is
`NULL` after a reallocation that failed (`mlist.cpp:196-203`): the lists are empty until
the next rebuild although plugins run.  `ini` is `NULL` when `plugins.ini` cannot be
opened: the startup then takes no plugin from it (`mlist.cpp:454-464`), and a refresh
returns at once and leaves every pending action undone (`mlist.cpp:527-532`, `806-810`).
A running plugin is taken to hook something.
The outcome of a callback is chosen from `Outcomes`: `nofile`, `noquery`,
`noattach`, `nodetach` or `ok`.  One thing is let happen more often than in the code:
when the file is missing or empty at startup its relative name is not completed
(`mlist.cpp:454-458`), so that later refreshes look for it in the working directory; in
the model it may become readable at any time.

**PluginCallbacks** opens up what `PluginList` takes in one step.  `stack` is the call
stack of the game thread: a frame is the query (`Meta_Init`, `GiveFnptrsToDll` and
`Meta_Query`, one frame), a `Meta_Attach`, a `GameInit`, a hook, a
registered command or a `Meta_Detach` with the plugin that asked for it.  The plugin
on top may do anything the utility functions offer, or return; an operation is split
at its calls, so `load` ends with the call of the query and `QueryReturns` or
`QueryFails` is the rest of it, `unload` with that of `Meta_Detach` and `DetachReturns`.
A plugin names the time a request is for, the console's is for now (`Times`).  A return
into a library that is gone is a crash, where the model
stops (`Crashed`).  A command's function pointer is the library it points into.
The console commands ("meta load", "unload", "clear" and registered ones) run when no
plugin is active (`AtRest`): the engine works its command buffer off between frames,
and a plugin that has it do so from inside a call (`ServerExecute`) is left out.
A failed query has three outcomes, since a request the plugin itself made in
`Meta_Query` may have left its error in `meta_errno` (`mplugin.cpp:718-765`); the last
two are allowed there after any nested call, which is more than the code can do.

**AppUpdate.**  `appUpdate`, `pollEnabled`, `knownTag` and `backoff` are the fields;
`checks` and `downloads` hold the coroutines, split at their suspensions and at every
write another thread can see; `shown`, `pollKey`, `effect` and `poll` are what the
composition has seen and the effects it has running.  `update.apk` is the sequence of
its pieces, so that two writers leave a mixture, and a writer whose file was deleted
writes into nothing.  `overlap` and `declined` are history.  Release tags are 1, 2 and
so on; 0 is the version of a local build, which equals no tag
(`PatcherViewModel.kt:493`), and a `known_tag` that is not there.  The user asks for a
check in three ways: "Update check" in the menu and "Retry" leave `known_tag` as it is
and overrule it, "Show dismissed update" forgets it and starts the poll again.

**PatchFlow.**  One variable per field of the view model and per file; `picks`,
`fetches` and `patches` hold the coroutines, with one action per write of a field or
file.  A file that is not of one piece does not parse.  An output names the APK, the
bundle and the ABI it was made of.  `signed` says that `sign()` ran over it: a report
with `verified = false` or `success = false` is `Done` as well and "Install" is offered
(`ApkPatcher.kt:122-130`, `PatcherViewModel.kt:396-397`); the line that would say
"NOT VERIFIED" is part of the `else` before it and is shown only when no library was
patched (`PatchScreen.kt:358-359`).  `raced` is history.

**Weapons.**  `acked` is the last state of the server, `cmds` the commands since and
`server` the states the server is in after each; `from` is the client's state after
`at` of them and `statics` what the weapon objects keep outside `local_state_t`.
`HUD_WeaponsPostThink` is one operator with the weapon code beneath it; the server
runs the same operators on its own copy.  A command is one tick.  The player may shoot
all the time (`m_bCanShoot`, `cs_weapons.cpp:620`, is false in a round's freeze time).
The server's `m_fFireOnEmpty` starts at `FALSE` for each command; the code sets it just
before its only use.  The UMP45 is not one of the weapons: `HasSecondaryAttack()` does
not name it, so its empty secondary attack goes before the primary one.

## Runs

| run | instance | shows |
|---|---|---|
| `dispatch_order` | 3 slots, 2 nested calls, plugins that supercede | refinement of `OrderedDispatch`; a plugin reads the running status of its own call |
| `dispatch_nested` | 2 slots, 3 nested calls, 2 blocks (symmetric) | no call resumes on a stale list |
| `dispatch_ends` | 2 slots, 2 nested calls, reallocation may fail, fairness | no read from a freed block, also when the block was given back because nothing hooks; every call ends |
| `hook_return` | 3 values, 3 answers | the routine is skipped exactly when superceded; which value is returned |
| `hook_return_last` | same | **violated**: "the value of the last plugin that overrides or supercedes is returned" |
| `plugin_commands` | 2 slots, 2 files, every command, plugins that load and unload each other, refused callbacks, edits of `plugins.ini`, which may be gone, new files, a reallocation that fails | libraries, hook lists and list agree; a loader that is named is there; what a changelevel loads and unloads; a plugin's request leaves nothing pending |
| `plugin_variants` | 3 slots, 3 files of which two are variants, five `plugins.ini`, or none | one variant listed, the best one at startup |
| `plugin_new_in_ini` | same files, 2 slots | **violated**: "a changelevel loads the plugins that wait for one" |
| `plugin_callbacks` | 3 slots, 3 files (symmetric), 1 command name, 4 calls deep | who may unload whom during whose call; a running plugin is mapped; the commands of an unloaded one are out of use, which leaves those of a load that ended in the query and of "meta clear" |
| `app_update` | 2 checks and 1 download at a time, 2 pieces, fairness; the first release installed and a second to come, or a local build and the second release there | what the installer gets, what "Later" and "Download" keep quiet, that the user's own check is answered, that the updater never sticks |
| `patch_flow` | 1 pick, 1 fetch, 1 patch at a time, 2 APKs of one name, 2 ABIs, fairness | what "Install" offers; no card stays busy |
| `weapons` | an M4A1 alone or a USP with a shotgun, 2 unacknowledged commands | prediction agrees with the server; rounds are conserved; a weapon left alone ends ready |

Bounds.  A stale list needs a call suspended in a plugin while another call, or
that plugin, changes the lists; three levels let the middle one consume the flag
between a change above it and a stale list below it.  Losing one's place in a
list needs an entry before, at and after the current one: three slots.  With two
blocks the lists stay or move.  `SetMetaResult` is left out where the result is
not what the property is about (`Results = {}`); `Supercede` is the value that
changes control.  In `HookReturn` three answers let a superceder, an overrider and
a lower result meet in any order over both loops, and three values let the
start value, the routine's and a plugin's differ; the proofs hold for any
number.  In `PluginList` two plugins with different `loadable` and `unloadable`
times compete for two slots, so that slots are reused and run out; variants
need a third.  The view of `plugin_commands` (`WithoutLast`) leaves out `last`, which
names the step just taken for the action properties and has no say in the next; TLC
evaluates those of every step.  In `PluginCallbacks` the shortest harmful chain has a requester, a plugin that
is unloaded and a third that its `Meta_Detach` asks for, below a call that started it:
three plugins, four frames; the third may come and go between maps only, so that
loads and unloads are refused and delayed as well.  Its view (`WithoutUnread`) leaves out
what no step and no property reads: the file of an empty entry, the pointer of a command
that is not valid, and which of three calls a plugin just returns from.  In `AppUpdate` a second check overlaps a first, and one
new release is enough for an offer, a dismissal, a check that overrules it and an
installation
(two downloads at a time always count as `overlap`, so they touch none of the
properties that exclude it).  In `PatchFlow` one job of each kind overlaps the other kinds;
the APK without libraries makes a pick fail late, the two share a file name, and two
pieces give a file that is half there.  In `Weapons` two commands are enough for a
state to be predicted past and predicted again; clips of one or two rounds run empty
and fill shell by shell, the reserves run out.  `Settling` is 15, the least that
`SettlingAssumption` allows for the delays of the instance.  `MaxRefs` bounds how often a library is opened (2: enough to see
it opened twice), `MaxDepth` the nesting, `MaxAnswers` the answers: bounds of
the model, not of the code.  Pieces of the instances are explored without the
deadlock check where the model stops by itself: after the one call of
`HookReturn`, at `MaxRefs` in `PluginList`, and after a crash in `PluginCallbacks`.

Fairness.  In `dispatch_ends` the dispatcher's own steps are
straight-line code of the one thread (weak fairness of `Dispatch`).  A plugin or a
routine that was called returns (strong fairness of `ReturnAt(d)`, for each depth,
since a nested call disables the return of the outer one and enables it again):
the code relies on that, it has no timeout.  Nothing is assumed of how often
plugins change lists, nor that calls begin.  In `AppUpdate` and `PatchFlow` each coroutine
has weak fairness: the IO threads run, and every request ends, since the HTTP clients
of `ReleaseRepository.kt` have timeouts; the main thread composes and runs its effects.
The user, time, releases and Android are under no fairness.

## Proofs

TLAPS checks these for every value of the constants.

* `HookDispatchProofs`: `TypeCorrect`, `StaleSignalled`, `CurrentListRead`
  (the last two assume `~ AllocMayFail`), `OwnStatusRead`, `FreedNeverRead`.  The invariant `IInv`
  says that the lists are what the plugins' states say (`ListsExact`), that only
  the innermost call is at a loop head and its cache is current, that a suspended
  call with a stale cache will be told, and that a position splits its sorted cached
  list at the plugin it took up last (`Placed`).  `StaleIsSignalled` alone is
  not inductive: when a call ends, it is `rebuild_happened` of the frame that goes that
  has to reach the flag, and whether the resumed call finds its place in the new list
  depends on the order of both lists.  `OwnStatusRead` and `FreedNeverRead` have
  invariants of their own that hold also when an allocation fails: the globals a call
  saved are those of the call that made it (`StatusKept`), and a call that is about to
  read its cached list has the block it points into (`BlockKept`): also across a rebuild
  that gives the block back, since that raises the flag.
* `OrderedDispatchProofs`: `DispatchesInOrder`, that `HookDispatch` implements
  `OrderedDispatch`, without failing allocations.  It uses `IInv`: each step of the
  dispatcher maps to a step of the abstract call or to a stutter, one lemma per action,
  and that no plugin is skipped and none taken twice is `Placed` at that step.
* `HookReturnProofs`: `Invariance`, `Skipped`, `Returned`.  The invariant says that
  what counts of `rv` is the backup while a plugin has control, and relates `status`
  and `override_ret` to the answers so far: in the pre loop to the last superceder, in
  the post loop to the last overrider.  `LastExists`, `WithAppend` and `LastAppend` are
  the facts about sequences it needs.
* `PluginListProofs`: `TypeCorrect`, `HookedAreRunning`, `InfoStaysMapped`,
  `PathnamesStayUnique`, `LoadersStay`, `WaitingAreLoaded`, `IniIsFollowed`,
  `NothingAskedForWaits`, `BestAreTaken`, `OneVariantStays`, for any number of slots and
  files, any `plugins.ini`, any loadable and unloadable times and any outcome of the
  callbacks.
  The invariant `ListInv` is one predicate on the list state: pathnames are `Unique`; a
  library is opened at least once for each entry with its handle (`Counted`); a loader
  that is named lies within `endlist` and has run (`Loaders`); each entry is in order
  (`EntryOk`: opened means opened from its own file, info is kept only along with the
  handle, what waits to be loaded does not run); and the hook lists are the running
  entries, unless the last reallocation failed (`Hooked`).  None of the five state properties is inductive alone.  That closing a library leaves
  nobody's info dangling takes `Counted`.  `LoaderIsThere` says only that the loader is a
  valid entry, which a failed loader that is cleared or overwritten would be too; `Loaders` says that it
  has run, and only entries that have not are cleared or reset.  Before the startup
  nothing is opened (`Unopened`), and `ini_startup()` may reset what it read.  There is
  one lemma per operation of the code, that it takes lists in order to lists in order,
  and then one step per action.  In the middle of a reload or an unload `EntryOk` does
  not hold of the entry at hand, so those lemmas are about all other entries and what
  `query()` or `clear()` makes of that one.  The loops over slots and lines are recursive
  functions; each is unfolded by a lemma (`StartupSteps` to `UnpauseSteps`) and closed by
  `Upwards`, an induction up to a bound that is stated with a set in place of the
  library's operator parameter.
  The three action properties need more than an invariant: what an operation *does*.
  `Touches(L, M, t)` says that an operation on entry `t` leaves every other entry its
  file, status, action and source, and in the list or out of it (`Spares`); each
  operation has a second lemma that it touches no other entry and, for its own, in which
  states it ends.  In the loops of a changelevel a plugin therefore comes to its turn as
  it was and stays as its turn leaves it (`AroundTheTurn`), so that what a whole
  changelevel does to it is what `refresh_one` does (`ChangeLevelReaches`), and then
  `unpause`.  A plugin that waits and is in `plugins.ini` comes to its turn as it was or
  marked to be reloaded (`Due`); a line leaves it so unless it is fresh or the line names
  a variant that is preferred to it, which is where the two exceptions of
  `ChangelevelLoadsWaiting` come from.  When `plugins.ini` cannot be opened (`Unread`)
  nothing is refreshed and only `unpause` is left (`ChangeLevelUnread`).
  Variants.  `OneVariantStays` is about `IniSpec`, the server whose plugins only come
  from `plugins.ini` (the console may unload them): `cmd_addload()` and
  `plugin_addload()` do not look for variants, so it is false of `Spec`.  An operation
  that only `Shrinks` the list, as all but `add` and the startup do, keeps `OneOfEach`;
  a line of a refresh adds a file when no variant of it is listed, or once the one there
  is has been reset (`AddOne`).  For the startup `OneOfEach` is proved together with
  what `BestAreTaken` needs: each line is passed over for a variant as good (`Passed`),
  or listed in the place of the one worse variant there is (`Taken`; that there is one at
  most is `OneOfEach`), and every listed entry has the level of its own file
  (`Levelled`), although the line that was parsed last may have left another past
  `endlist`.  Loading then `Retains` what is listed, whatever the callbacks answer.
* `PluginCallbacksProofs`: `CallsTyped`, `UnloadersStay`, `RunningPluginsAreOpen`,
  `ChainsNeverCrash`, `NoFlagsAtRest`, `UnloadsDisable`, for any number of plugins,
  files, commands and any depth.
  `Shape` (types, empty entries are closed, used ones are named, a request comes from
  the plugin below it on the stack, and a plugin that is being loaded does not run yet and
  had no frame before: `Fresh`) holds always.  Without `Fresh` the end of a load could
  change the mark of an entry that an `unload()` further down goes on with.  `Protected` needs `~ SelfNested`: a
  plugin whose request is under way is marked and mapped, and, of two requests on the
  stack, the later is neither by nor for the earlier one's plugin.  `UnloaderStays`
  alone is not inductive, since it does not say that the mark is up.  `Bound` needs
  `Delayable` (every plugin may be unloaded at a changelevel or any time): what
  `unload()` goes on with after `Meta_Detach` is still marked, and a running plugin is
  mapped.  With both, `TopIsOpen` is invariant as long as the stack is a chain of
  unloads, and no frame of a chain loses its library.  Each action is first reduced to
  its effect (`Loaded`, `Attached`, `Detached`, `Refused`, `Cleared`, `Requests`,
  `Quiet`; lemma `NextEffects`), and each invariant is shown for the effects.
  The last two theorems assume nothing of nesting.  `FlagsAreRequests` says that a
  plugin that is marked has its request on the stack.  For the commands, `Entries` (an
  open library is the entry's own file, an entry that is no plugin is closed, a file is
  listed once) and `CommandsOwned` (a command in use points into the library of the slot
  it is registered for) make disabling by slot reach every command that closing a
  library leaves dangling.
* `AppUpdateProofs`: `TypeCorrect`, `AlwaysInstallsWhole`, `AlwaysDownloadedIsInstalled`,
  `AlwaysDismissedStays`, `AlwaysAskedIsAnswered`, `AlwaysQuietAfterAnswer`, for any
  number of checks, downloads, releases and pieces, and from any version installed first.  `IInv` says that a file that is linked is there, that tags are
  of published releases and that what is offered or downloaded is newer than the
  application (`OthersOffered`), and, unless jobs overlapped, that there is one job at
  most (`OneJob`), that the pieces a download has read are in the file
  (`WrittenIsRead`), that the file of a finished one is whole (`FinishedIsWhole`), and
  that what was declined is not newer than what is known or offered (`DeclinedIsPast`).  `InstallsWhole` alone says nothing of a
  download that has not finished.
* `PatchFlowProofs`: `TypeCorrect`, `AlwaysOfferedIsPatched`.  Unless jobs raced
  (`Unraced`), one job of a kind is under way, a copy is a beginning of the picked APK,
  what the copy gave is the source, a patch job works on the source, and the files come
  after each other; each is needed for the next.
* `WeaponsProofs`: `TypeCorrect`, `AlwaysPredictionAgrees`, `AlwaysClipsFit`,
  `AlwaysNoRoundFromNowhere`, `AlwaysEndsReady`, for any set of weapons, clips and
  reserves and any number of unacknowledged commands.  The states of client and server
  are sound (clip and reserve within limits, a weapon that reloads is in hand), the
  server's states are a run of the server from the acknowledged one (`ServerRuns`), and,
  unless `LowReserve`, the predicted state has the server's weapons and either its
  ammunition is the server's too (`Level`) or the weapon is still being drawn
  (`Drawing`), when the ammunition is not used (`Agrees`).  Each weapon operator has a
  lemma that it takes states that agree to states that agree.
  `AlwaysEndsReady` is an induction over the ticks the player still has to wait.  The
  states the server can be in are `Calm`: only weapons with magazines have `inReload`,
  only shotguns `special`, a shotgun being loaded has a shell in the tube or one to put
  there, and no timer is set for longer than an operation takes.  `Left` counts the ticks
  a weapon goes on once its timers have run out, each untouched tick brings it `Nearer`
  (`TickNearer`), `ReadyBy(c, k)` says that timers and `Left` together fit in `k` ticks,
  and `LeftAtMost` that they do in `Settling`.  Two assumptions are needed.
  `InventoryAssumption`: no two carried weapons share a shotgun's ammunition (the M3 and
  the XM1014 both take "buckshot" and both go in the primary slot, `wpn_m3.cpp:56`,
  `wpn_xm1014.cpp:53`); otherwise a shotgun put away with an empty tube could come back
  to find its shells spent by the other, and be "being loaded" for good.
  `SettlingAssumption` says how long "left alone" has to be: the longest timer (a drawn
  weapon's idle timer is twice the draw) and then the longest reload.

The assumptions of `PluginCallbacksProofs` are what the code needs, not what the proof
wants: for a model without them TLC finds the two behaviours listed below.

Every invariant and action property that the passing runs check is a theorem.  Only
model-checked: the liveness properties `CallsEnd`, `NeverSticks` and `CardsAreLeft`
(liveness is out of the prover's reach, as are `ENABLED` and induction over recursive
data).

## Where code and documents disagree

Shown by a run:

* A pre plugin's `MRES_OVERRIDE` raises the status but its value is dropped
  (`api_hook.cpp:331`), so the caller gets `ret_init` (`hook_return_last`).
* A plugin new in `plugins.ini` that waits for a changelevel is taken for one with a
  newer file, and reloading it is refused (`mlist.cpp:607`, `plugin_new_in_ini`).

Met while modelling, each reproduced once by a run that is not kept:

* "meta unload" of a plugin of `plugins.ini`, delayed to the changelevel, is forgotten
  there (`mlist.cpp:601`; `mplugin.cpp:1044` says it is tried again).
* A plugin that waits for a changelevel gives its place to a better platform variant that
  has been added to `plugins.ini`, while its library is open (`mlist.cpp:566-571`):
  `reset_plugin()` forgets the handle, and the library is never closed.  Found by the proof
  of `ChangelevelLoadsWaiting`, which therefore leaves out the plugins for which
  `plugins.ini` names a better variant (`Overridden`).
* A retried load opens the library once more and unloading closes it once
  (`mplugin.cpp:564`).
* A plugin whose `Meta_Detach` refuses stays `PL_RUNNING` (`mplugin.cpp:1072`;
  `mplugin.h:61` and `metamod.txt:412` say FAILED).
* A plugin inserted in `plugins.ini` is called after those in lower slots
  (`mlist.cpp:401`; `metamod.txt:156` says the order of the file).
* A duplicate last line of `plugins.ini` stays behind past `endlist`, where "meta
  reload" by index runs it (`mlist.cpp:483`; `mlist.h:70`).
* A failed reallocation empties the hook lists without raising the flag
  (`mlist.cpp:196`; `mlist.h:59`), and running plugins stay unhooked until the next
  rebuild.
* A changelevel at which `plugins.ini` cannot be opened loads nothing that waits
  (`mlist.cpp:806-810`), where `dllapi.cpp:187` speaks of "any plugins waiting for a
  changelevel to load".
* A plugin's request to unload one that waits for a changelevel is refused (`ME_ALREADY`)
  but leaves `PA_UNLOAD` in place of the pending `PA_LOAD` (`mplugin.cpp:991-1007`), so
  that the plugin is never loaded.  `RequestsNeverWait` is about what is newly delayed
  and says nothing of it.
* A plugin that is opened and waits may have been loaded before, by a reload whose query
  failed and a "meta retry": when `plugins.ini` lists it with a file that is not newer, the
  refresh keeps it (`PA_KEEP`), and it is never loaded (`IniLets` leaves it out).
* A load that fails in the query, or is refused after it, closes the library without
  disabling the commands the plugin has registered in `Meta_Init` or `Meta_Query`
  (`mplugin.cpp:566-573`, `mlist.cpp:755-758`), as "meta clear" does: they stay valid,
  and calling one is caught and disables it (`mreg.cpp`, `MRegCmd::call`).
  `UnloadDisables` names these as its exceptions.
* A plugin that asks for an unload during its own request loses its one `is_unloader`
  mark when the inner request returns, and can then be unloaded while the outer one is
  under way (`mplugin.h:153`, `mplugin.cpp:994`; excluded by `SelfNested = FALSE`).
* A plugin that may be unloaded at startup only, requested again during its own forced
  `Meta_Detach`, loses the mark `PA_UNLOAD` (`mplugin.cpp:1050`): the outer unload closes
  the library and leaves the entry running.
* Nothing protects a plugin that loads another one, or has a hook active, from being
  unloaded meanwhile (`mlist.cpp:636`, `mutil.cpp:288`); `ChainNeverCrashes` is about
  unloads only.

In the patcher (paths below `src/android/app/.../patcher/`), where the properties say
how far they hold:

* Two taps on "Download" before the first byte start two downloads into the one
  `update.apk`, and the first to end hands over the other's half
  (`PatcherViewModel.kt:543`; `InstallsWhole` without overlap).
* A check that began before a download may overwrite `Downloaded`, and nothing installs
  although `MainActivity.kt` says it starts automatically (`PatcherViewModel.kt:471`).
* When the activity is recreated the poll starts again beside the open dialog, and may
  offer once more what is being dismissed (`MainActivity.kt:117`).
* "Update check" and "Retry" leave `known_tag` as it is, so that a release declined
  before is offered once more and then kept quiet again; only "Show dismissed update"
  forgets it (`PatcherViewModel.kt:492`, `716-720`).
* When the releases API fails after the tag was read, the release is taken for a bundle
  and its tag remembered, so that its APK is not offered again
  (`PatcherViewModel.kt:516-529`).
* Polling stops on an answer, not, as `PatcherViewModel.kt:460` says, "once the popup
  shows" (the loop ends at an offer, but `pollEnabled` stays).
* The patch button tests the source's description but `startPatch()` the file, so after a
  pick without supported ABIs it silently does nothing (`PatcherViewModel.kt:220`,
  `PatchScreen.kt:270`).  A change of ABI between the two writes of `applyBundle()`
  leaves "Ready" without a bundle.
* "Change" during a patch rewrites the source under it when the names are the same, and
  "Try Again" after a failed pick lets a second job write `patched.apk` beside the first
  (`PatcherViewModel.kt:387`; `OfferedIsPatched` without races).

In the game client:

* Firing an M4A1 takes its reserve counter down with the clip (`wpn_m4a1.cpp:206`), so the
  client refuses a reload of the last rounds that the server makes (`LowReserve`).
* After a predicted switch the state still carries the old weapon's ammunition
  (`cs_weapons.cpp:1340-1370`); it does no harm as long as the answer comes before the new
  weapon is drawn (`LagAssumption`).

## Not modelled

* The API tables and the packing of arguments (generated from macros), the startup
  sequence (one pass of file lookups before any plugin), printing and logging.
* `mplayer.cpp`: a mark and a name per player; the queries and answers that could
  overlap are the engine's, which is not here.  The growth of the command list and
  registered cvars of `mreg.cpp`.
* The rest of the view model: the plugin editor (`togglePluginLine`), the script compiler
  and the addon installer, which work on files of their own for one tap at a time.
* In `patcherlib`: byte layout, alignment, signing and the command line.
* In the game client: bursts (which keep their count in statics and are replayed wrongly),
  grenades, knife, C4, shield and zoom; movement (`pm_shared`, floating-point physics);
  messages, menus and everything drawn.
* The HLSDK headers and game code, AMX Mod X data, upstream patches and CI: vendored or
  build time only.  Most of the repository's lines are these and the client's drawing.

What would come next: more of the game client, the grenades and the knife beside the guns.
