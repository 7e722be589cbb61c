----------------------------- MODULE PluginList -----------------------------
(***************************************************************************)
(* Metamod-P's plugin list: what the console commands ("meta load",        *)
(* "unload", "retry", ...), the plugins' own load and unload requests and  *)
(* the refresh at every changelevel do to MPluginList (metamod/mlist.cpp)  *)
(* and its MPlugin entries (metamod/mplugin.cpp).                          *)
(*                                                                         *)
(* Each operation runs to its end on the one game thread, so it is one     *)
(* action; it is written as an operator from the list state `L' it finds   *)
(* to the one it leaves.  How a plugin's file and its entry points behave  *)
(* in the operation (dlopen, Meta_Query, Meta_Attach, Meta_Detach) is an   *)
(* outcome chosen from Outcomes.  What plugins do to the hook lists from   *)
(* inside a hook is the subject of HookDispatch; what they do to the list  *)
(* from inside Meta_Attach or Meta_Detach is not modelled.                 *)
(***************************************************************************)
EXTENDS Naturals, Integers, Sequences, FiniteSets, Functions

CONSTANTS
  MaxPlugins,   \* MAX_PLUGINS, the size of plist
  Files,        \* the plugin files, by pathname
  NULL,         \* no file, and no hook lists
  loadable,     \* plugin_info_t::loadable of each file
  unloadable,   \* plugin_info_t::unloadable of each file
  family,       \* files with the same value are platform variants of a plugin
  level,        \* the platform specific level each file is listed with
  Inis,         \* the contents plugins.ini may have, as sequences of Files;
                \* NULL: it cannot be opened
  Outcomes,     \* the outcomes of plugin callbacks considered
  AllocMayFail, \* whether the realloc of rebuild_hook_lists may fail
  MaxRefs       \* bound on the dlopen count of a library

\* PLUG_STATUS, PLUG_ACTION, PLUG_LOADTIME: the orders are crucial.
PL_EMPTY == 0
PL_VALID == 1
PL_BADFILE == 2
PL_OPENED == 3
PL_FAILED == 4
PL_RUNNING == 5
PL_PAUSED == 6

PA_NULL == 0
PA_NONE == 1
PA_KEEP == 2
PA_LOAD == 3
PA_ATTACH == 4
PA_UNLOAD == 5
PA_RELOAD == 6

PT_NEVER == 0
PT_STARTUP == 1
PT_CHANGELEVEL == 2
PT_ANYTIME == 3
PT_ANYPAUSE == 4

Slot == 1 .. MaxPlugins
Time == PT_NEVER .. PT_ANYPAUSE

\* "nofile": the file cannot be stat'ed or dlopen'ed; "noquery": it is no
\* plugin, or its Meta_Query refuses; the others: an entry point refuses.
AllOutcomes == {"ok", "nofile", "noquery", "noattach", "nodetach"}

ASSUME SizeAssumption    == MaxPlugins \in Nat \ {0} /\ MaxRefs \in Nat
ASSUME NullAssumption    == NULL \notin Files
ASSUME TimesAssumption   == loadable \in [Files -> Time]
                            /\ unloadable \in [Files -> Time]
ASSUME LevelAssumption   == level \in [Files -> {0, 1}]
ASSUME IniAssumption     == \A q \in Inis \ {NULL} : q \in Seq(Files)
                                                   /\ Len(q) <= MaxPlugins
ASSUME OutcomeAssumption == Outcomes \subseteq AllOutcomes
ASSUME AllocAssumption   == AllocMayFail \in BOOLEAN

VARIABLES
  plist,        \* the entries, used or not
  endlist,      \* entries from here on are not looked at
  refs,         \* how often each library is opened
  hooked,       \* the slots in the hook lists; NULL: the last realloc failed,
                \* the lists are empty although plugins run
  ini,          \* what plugins.ini says
  started,      \* whether metamod_startup has run
  last          \* what happened last, and the PLUG_LOADTIME it happened at

listVars == <<plist, endlist, refs, hooked>>
vars == <<plist, endlist, refs, hooked, ini, started, last>>

(***************************************************************************)
(* An MPlugin.  `file' is its pathname, `handle' and `info' name the       *)
(* library they point into, `fresh' is: the file is not newer than         *)
(* time_loaded (a time_loaded of 0 is older than any file).                *)
(***************************************************************************)
Plugin == [file : Files \cup {NULL}, status : PL_EMPTY .. PL_PAUSED,
           action : PA_NULL .. PA_RELOAD, source : {"ini", "cmd", "plugin"},
           source_plugin_index : -1 .. MaxPlugins, pfspecific : {0, 1},
           handle : Files \cup {NULL}, info : Files \cup {NULL},
           fresh : BOOLEAN]

Zeroed == [file |-> NULL, status |-> PL_EMPTY, action |-> PA_NULL,
           source |-> "ini", source_plugin_index |-> 0, pfspecific |-> 0,
           handle |-> NULL, info |-> NULL, fresh |-> FALSE]

\* The list state the operators work on, with the meta_errno they leave and
\* whether they rebuilt the hook lists.
List == [plist |-> plist, endlist |-> endlist, refs |-> refs,
         hooked |-> hooked, rebuilt |-> FALSE, errno |-> "none"]

Fails(L, e) == [L EXCEPT !.errno = e]
Failed(L)   == L.errno # "none"
Least(S)    == CHOOSE s \in S : \A t \in S : s <= t

\* The entries a search may return, and find() by pathname and platform.
Valid(L, s) == L.plist[s].status >= PL_VALID
Listed(L)   == {s \in 1 .. L.endlist : Valid(L, s)}
WithFile(L, f)   == {s \in Listed(L) : L.plist[s].file = f}
WithFamily_opened(L, f) ==
  {s \in Listed(L) : L.plist[s].status >= PL_OPENED
                      /\ family[L.plist[s].file] = family[f]}
WithFamily(L, f) == {s \in Listed(L) : family[L.plist[s].file] = family[f]}

\* The listed variant v is to be preferred to f.
Outranks_lowest(L, v, f) == L.plist[v].pfspecific <= level[f]
Outranks(L, v, f) == L.plist[v].pfspecific >= level[f]
-----------------------------------------------------------------------------
(***************************************************************************)
(* The list.                                                               *)
(***************************************************************************)
\* The running plugins of the list, in the hook lists of their tables.  (For
\* the outcome when the realloc fails see Becomes.)
RunningSlots(L) == {s \in 1 .. L.endlist : L.plist[s].status = PL_RUNNING}

rebuild_hook_lists(L) ==
  [L EXCEPT !.hooked = RunningSlots(L), !.rebuilt = TRUE]

trim_list(L) ==
  LET used == {s \in 1 .. L.endlist : L.plist[s].status # PL_EMPTY}
  IN  [L EXCEPT !.endlist = CHOOSE n \in 0 .. L.endlist :
                              /\ used \subseteq 1 .. n
                              /\ n = 0 \/ n \in used]

reset_plugin(L, s) == [L EXCEPT !.plist[s] = Zeroed]

clear_source_short(L, source) ==
  [L EXCEPT !.plist = [s \in Slot |->
     IF s \in Listed(L) \ {L.endlist} /\ @[s].source_plugin_index = source
     THEN [@[s] EXCEPT !.source_plugin_index = -1] ELSE @[s]]]
clear_source_plugin_index(L, source) ==
  [L EXCEPT !.plist = [s \in Slot |->
     IF s \in Listed(L) /\ @[s].source_plugin_index = source
     THEN [@[s] EXCEPT !.source_plugin_index = -1] ELSE @[s]]]

\* add(): the first empty slot of the list, or the one after it.  Fields not
\* named are what the slot's last user left.
FreeSlot(L) == Least({i \in 1 .. L.endlist : ~ Valid(L, i)}
                     \cup {L.endlist + 1})

add(L, f, source, loader) ==
  LET s == FreeSlot(L)
  IN  IF s > MaxPlugins THEN Fails(L, "maxreached")
      ELSE [L EXCEPT
             !.endlist = IF s > @ THEN s ELSE @,
             !.plist[s] = [@ EXCEPT !.file = f, !.source = source,
                             !.source_plugin_index = loader,
                             !.status = PL_VALID, !.action = PA_LOAD]]
-----------------------------------------------------------------------------
(***************************************************************************)
(* One plugin.                                                             *)
(***************************************************************************)
DLCLOSE_dangling(L, s) ==
  IF L.plist[s].handle = NULL THEN L ELSE [L EXCEPT !.refs[L.plist[s].handle] = @ - 1]
DLCLOSE(L, s) ==
  LET h == L.plist[s].handle
  IN  IF h = NULL THEN L
      ELSE [L EXCEPT !.refs[h] = @ - 1, !.plist[s].handle = NULL]

clear(L, s) ==
  IF L.plist[s].status \notin {PL_FAILED, PL_BADFILE, PL_EMPTY, PL_OPENED}
  THEN Fails(L, "badreq")
  ELSE LET closed == DLCLOSE(L, s)
       IN  trim_list([closed EXCEPT !.plist[s] =
             [@ EXCEPT !.status = PL_EMPTY, !.action = PA_NULL,
                       !.info = NULL, !.fresh = FALSE]])

\* query() and what load() does with its failure.
query_keeps_info(L, s, out) ==
  LET f == L.plist[s].file
  IN  IF out \in {"nofile", "noquery"}
      THEN [L EXCEPT !.errno = "query", !.plist[s] =
             [@ EXCEPT !.handle = NULL, !.status = PL_BADFILE]]
      ELSE [L EXCEPT !.refs[f] = @ + 1, !.plist[s] =
             [@ EXCEPT !.handle = f, !.info = f, !.status = PL_OPENED]]
query(L, s, out) ==
  LET f == L.plist[s].file
  IN  IF out \in {"nofile", "noquery"}
      THEN [L EXCEPT !.errno = "query", !.plist[s] =
             [@ EXCEPT !.handle = NULL, !.info = NULL, !.status = PL_BADFILE]]
      ELSE [L EXCEPT !.refs[f] = @ + 1, !.plist[s] =
             [@ EXCEPT !.handle = f, !.info = f, !.status = PL_OPENED]]

\* attach() and what load() does with its result.
attach(L, s, out) ==
  IF out = "noattach"
  THEN [L EXCEPT !.errno = "attach", !.plist[s].status = PL_FAILED]
  ELSE rebuild_hook_lists([L EXCEPT !.plist[s] =
         [@ EXCEPT !.status = PL_RUNNING, !.action = PA_NONE, !.fresh = TRUE]])

\* The refusal of an operation at time `now': delayed when it may be allowed
\* later, dropped when it was only allowed at startup.
Postpone(L, s, allowed) ==
  IF allowed > PT_STARTUP THEN Fails(L, "delayed")
  ELSE Fails([L EXCEPT !.plist[s].action = PA_NONE], "notallowed")

load(L, s, now, out) ==
  LET p == L.plist[s]
      opened == IF p.status <= PL_OPENED THEN query(L, s, out) ELSE L
      allowed == loadable[opened.plist[s].info]
  IN  CASE p.status < PL_VALID    -> Fails(L, "argument")
        [] p.status >= PL_RUNNING -> Fails(L, "already")
        [] p.status \in PL_VALID .. PL_FAILED ->
             IF p.action \notin {PA_LOAD, PA_ATTACH, PA_RELOAD}
             THEN Fails(L, "badreq")
             ELSE IF Failed(opened) THEN opened
             ELSE IF allowed < now THEN Postpone(opened, s, allowed)
             ELSE attach(opened, s, out)

\* The tail of unload(): orphan the children, close, empty or ready to load.
Detached(L, s) ==
  LET closed == DLCLOSE(clear_source_plugin_index(L, s), s)
  IN  IF L.plist[s].action = PA_UNLOAD
      THEN rebuild_hook_lists(clear([closed EXCEPT !.plist[s].status = PL_EMPTY], s))
      ELSE rebuild_hook_lists([closed EXCEPT !.plist[s] =
             [@ EXCEPT !.status = PL_VALID, !.action = PA_LOAD]])

unload(L, s, now, reason, out) ==
  LET p == L.plist[s]
      forced == reason = "forced"
  IN  IF p.status < PL_VALID THEN Fails(L, "argument")
      ELSE IF p.status < PL_RUNNING /\ reason \notin {"forced", "reload"}
      THEN Fails(L, "already")
      ELSE IF p.action \notin {PA_UNLOAD, PA_RELOAD} THEN Fails(L, "badreq")
      ELSE IF p.info # NULL /\ ~ forced /\ unloadable[p.info] < now
      THEN Postpone(L, s, unloadable[p.info])
      ELSE IF p.handle # NULL /\ out = "nodetach" /\ reason \notin {"forced", "reload"}
      THEN Fails(L, "detach")
      ELSE Detached(L, s)

reload(L, s, now, reason, out) ==
  LET p == L.plist[s]
      why == IF p.status < PL_RUNNING THEN "reload" ELSE reason
      unloaded == unload(L, s, now, why, out)
  IN  IF p.status < PL_VALID THEN Fails(L, "argument")
      ELSE IF p.info # NULL /\ loadable[p.info] < now
      THEN Postpone(L, s, loadable[p.info])
      ELSE IF Failed(unloaded) THEN unloaded
      ELSE load(unloaded, s, now, out)

retry(L, s, now, reason, out) ==
  CASE L.plist[s].action \in {PA_LOAD, PA_ATTACH} -> load(L, s, now, out)
    [] L.plist[s].action = PA_UNLOAD -> unload(L, s, now, reason, out)
    [] L.plist[s].action = PA_RELOAD -> reload(L, s, now, reason, out)
    [] OTHER -> Fails(L, "badreq")

pause_hooked(L, s) ==
  IF L.plist[s].status # PL_RUNNING THEN Fails(L, "badreq")
  ELSE IF unloadable[L.plist[s].info] < PT_ANYPAUSE
  THEN Fails([L EXCEPT !.plist[s].action = PA_NONE], "notallowed")
  ELSE [L EXCEPT !.plist[s].status = PL_PAUSED]
pause(L, s) ==
  IF L.plist[s].status # PL_RUNNING THEN Fails(L, "badreq")
  ELSE IF unloadable[L.plist[s].info] < PT_ANYPAUSE
  THEN Fails([L EXCEPT !.plist[s].action = PA_NONE], "notallowed")
  ELSE rebuild_hook_lists([L EXCEPT !.plist[s].status = PL_PAUSED])

unpause(L, s) ==
  IF L.plist[s].status # PL_PAUSED THEN Fails(L, "badreq")
  ELSE rebuild_hook_lists([L EXCEPT !.plist[s].status = PL_RUNNING])
-----------------------------------------------------------------------------
(***************************************************************************)
(* Operations on the list as a whole.                                      *)
(***************************************************************************)
\* One line of ini_startup(), parsed straight into the entry after the n read
\* so far: kept unless it is a duplicate or has a better platform variant.
ini_startup_line(L, f) ==
  LET n      == L.endlist
      rivals == WithFamily(L, f)
      parsed == [L EXCEPT !.plist[n + 1] =
                  [@ EXCEPT !.file = f, !.pfspecific = level[f],
                            !.source = "ini", !.status = PL_VALID]]
      kept   == IF rivals = {} THEN parsed ELSE reset_plugin(parsed, Least(rivals))
  IN  IF WithFile(L, f) # {} \/ (rivals # {} /\ Outranks(L, Least(rivals), f))
      THEN parsed
      ELSE [kept EXCEPT !.endlist = n + 1, !.plist[n + 1].action = PA_LOAD]

\* The loops, each from the list after the first so many lines or slots to the
\* one after the next.
ini_startup(L, q) ==
  LET read[n \in 0 .. Len(q)] == IF n = 0 THEN L ELSE ini_startup_line(read[n - 1], q[n])
  IN  IF q = NULL THEN Fails(L, "nofile") ELSE read[Len(q)]

\* load(): read the file, if it is there, and load what it lists, at startup.
load_one(L, s, out) == IF s \notin Listed(L) THEN L
                       ELSE load(Fails(L, "none"), s, PT_STARTUP, out)

load_list(L, q, outs) ==
  LET done[s \in 0 .. MaxPlugins] ==
        IF s = 0 THEN ini_startup(L, q) ELSE load_one(done[s - 1], s, outs[s])
  IN  IF q = NULL THEN ini_startup(L, q) ELSE done[MaxPlugins]

\* One line of ini_refresh(): note what refresh() should do about its plugin,
\* or add it.  A file that cannot be stat'ed is left as it is.
ini_refresh_line(L, f, outs) ==
  LET s == Least(WithFile(L, f))
      p == L.plist[s]
      v == Least(WithFamily(L, f))
  IN  IF WithFile(L, f) # {}
      THEN CASE outs[s] = "nofile"  -> L
             [] outs[s] # "nofile" /\ p.fresh ->
                  [L EXCEPT !.plist[s].action = PA_KEEP]
             [] outs[s] # "nofile" /\ ~ p.fresh /\ p.status >= PL_OPENED ->
                  [L EXCEPT !.plist[s].action = PA_RELOAD]
             [] OTHER -> L
      ELSE IF WithFamily(L, f) = {} THEN add(L, f, "ini", 0)
      ELSE IF ~ Outranks(L, v, f) /\ L.plist[v].action = PA_LOAD
      THEN add(reset_plugin(L, v), f, "ini", 0)
      ELSE L

\* What refresh() does about one entry.
refresh_one_any(L, s, now, out) ==
  LET p == L.plist[s]
  IN  CASE p.action = PA_KEEP -> [L EXCEPT !.plist[s].action = PA_NONE]
        [] p.action = PA_LOAD -> load(L, s, now, out)
        [] p.action = PA_RELOAD -> reload(L, s, now, "newer", out)
        [] p.action = PA_NONE /\ p.status >= PL_RUNNING ->
             unload([L EXCEPT !.plist[s].action = PA_UNLOAD], s, now,
                    "deleted", out)
        [] p.action \in {PA_ATTACH, PA_UNLOAD} ->
             retry(L, s, now, "delayed", out)
        [] OTHER -> L
refresh_one(L, s, now, out) ==
  LET p == L.plist[s]
  IN  CASE p.action = PA_KEEP -> [L EXCEPT !.plist[s].action = PA_NONE]
        [] p.action = PA_LOAD -> load(L, s, now, out)
        [] p.action = PA_RELOAD -> reload(L, s, now, "newer", out)
        [] p.action = PA_NONE /\ p.source = "ini" /\ p.status >= PL_RUNNING ->
             unload([L EXCEPT !.plist[s].action = PA_UNLOAD], s, now,
                    "deleted", out)
        [] p.action \in {PA_ATTACH, PA_UNLOAD} ->
             retry(L, s, now, "delayed", out)
        [] OTHER -> L

refresh_listed(L, s, now, out) == IF s \notin Listed(L) THEN L
                                  ELSE refresh_one(Fails(L, "none"), s, now, out)

ini_refresh(L, q, outs) ==
  LET read[n \in 0 .. Len(q)] ==
        IF n = 0 THEN L ELSE ini_refresh_line(read[n - 1], q[n], outs)
  IN  IF q = NULL THEN Fails(L, "nofile") ELSE read[Len(q)]

refresh_midmap(L, q, now, outs) ==
  LET done[s \in 0 .. MaxPlugins] ==
        IF s = 0 THEN ini_refresh(L, q, outs)
        ELSE refresh_listed(done[s - 1], s, PT_ANYTIME, outs[s])
  IN  IF q = NULL THEN ini_refresh(L, q, outs) ELSE done[MaxPlugins]

\* refresh(): when the file cannot be read, nothing pending is done either.
refresh(L, q, now, outs) ==
  LET done[s \in 0 .. MaxPlugins] ==
        IF s = 0 THEN ini_refresh(L, q, outs)
        ELSE refresh_listed(done[s - 1], s, now, outs[s])
  IN  IF q = NULL THEN ini_refresh(L, q, outs) ELSE done[MaxPlugins]

unpause_listed(L, s) == IF s \in 1 .. L.endlist THEN unpause(L, s) ELSE L

unpause_all(L) ==
  LET done[s \in 0 .. MaxPlugins] ==
        IF s = 0 THEN L ELSE unpause_listed(done[s - 1], s)
  IN  done[MaxPlugins]

\* cmd_addload(): "meta load".
cmd_addload_twice(L, f, out) ==
  LET added == add(L, f, "cmd", 0)
  IN  IF Failed(added) THEN added ELSE load(added, FreeSlot(L), PT_ANYTIME, out)
cmd_addload(L, f, out) ==
  LET s      == FreeSlot(L)
      added  == add(L, f, "cmd", 0)
      loaded == load(added, s, PT_ANYTIME, out)
  IN  IF WithFile(L, f) # {} THEN Fails(L, "already")
      ELSE IF Failed(added) THEN added
      ELSE IF loaded.errno = "notallowed" THEN clear(loaded, s)
      ELSE loaded

\* plugin_addload(): a plugin asks for another one to be loaded, now.
plugin_addload(L, loader, f, now, out) ==
  LET s      == FreeSlot(L)
      added  == add(L, f, "plugin", loader)
      loaded == load(added, s, now, out)
  IN  IF WithFile(L, f) # {} THEN Fails(L, "already")
      ELSE IF Failed(added) THEN added
      ELSE IF loaded.errno \in {"notallowed", "delayed"} THEN clear(loaded, s)
      ELSE loaded

\* plugin_unload(): a plugin asks for another one to be unloaded, now; the
\* request is never left pending for lack of permission.
plugin_unload_delays(L, s, now, reason, out) ==
  unload([L EXCEPT !.plist[s].action = PA_UNLOAD], s, now, reason, out)
plugin_unload(L, s, now, reason, out) ==
  LET unloaded == unload([L EXCEPT !.plist[s].action = PA_UNLOAD], s, now,
                         reason, out)
  IN  IF unloaded.errno = "delayed"
      THEN [unloaded EXCEPT !.plist[s].action = L.plist[s].action]
      ELSE unloaded
-----------------------------------------------------------------------------
(***************************************************************************)
(* The actions.                                                            *)
(***************************************************************************)
\* The realloc of the last rebuild fails: every rebuild empties the lists first,
\* so only the last one of an operation matters.  (Every plugin that runs is
\* taken to hook something.)
OutOfMemory(L) == AllocMayFail /\ L.rebuilt /\ L.hooked # {}

\* The game goes on from list state L.  (MaxRefs bounds the model only.)
Becomes(L, op, now) ==
  /\ \A f \in Files : L.refs[f] <= MaxRefs
  /\ plist' = L.plist
  /\ endlist' = L.endlist
  /\ refs' = L.refs
  /\ hooked' = L.hooked \/ (OutOfMemory(L) /\ hooked' = NULL)
  /\ last' = [op |-> op, now |-> now]
  /\ UNCHANGED ini

\* metamod_startup().
Startup ==
  /\ ~ started
  /\ \E outs \in [Slot -> Outcomes] :
       Becomes(load_list(List, ini, outs), "startup", PT_STARTUP)
  /\ started' = TRUE

\* An operation while the server runs.
Operate(L, op, now) == started /\ Becomes(L, op, now) /\ UNCHANGED started

\* metamod_ServerDeactivate(), at every changelevel.
ChangeLevel == \E outs \in [Slot -> Outcomes] :
  Operate(unpause_all(refresh(List, ini, PT_CHANGELEVEL, outs)),
          "changelevel", PT_CHANGELEVEL)

\* "meta refresh", "meta load <file>".
MetaRefresh == \E outs \in [Slot -> Outcomes] :
  Operate(refresh(List, ini, PT_ANYTIME, outs), "command", PT_ANYTIME)

MetaLoad(f, out) == Operate(cmd_addload(List, f, out), "command", PT_ANYTIME)

\* cmd_doplug(): the commands on the plugin with a given index, which find()
\* looks up in the whole array.
MetaUnload(s, out) ==
  /\ Valid(List, s)
  /\ Operate(unload([List EXCEPT !.plist[s].action = PA_UNLOAD], s,
                    PT_ANYTIME, "command", out), "command", PT_ANYTIME)

MetaForceUnload(s, out) ==
  /\ Valid(List, s)
  /\ Operate(unload([List EXCEPT !.plist[s].action = PA_UNLOAD], s,
                    PT_ANYTIME, "forced", out), "command", PT_ANYTIME)

MetaReload(s, out) ==
  /\ Valid(List, s)
  /\ Operate(reload([List EXCEPT !.plist[s].action = PA_RELOAD], s,
                    PT_ANYTIME, "command", out), "command", PT_ANYTIME)

MetaRetry(s, out) ==
  Valid(List, s) /\ Operate(retry(List, s, PT_ANYTIME, "command", out), "command", PT_ANYTIME)

MetaClear(s)   == Valid(List, s) /\ Operate(clear(List, s), "command", PT_ANYTIME)
MetaPause(s)   == Valid(List, s) /\ Operate(pause(List, s), "command", PT_ANYTIME)
MetaUnpause(s) == Valid(List, s) /\ Operate(unpause(List, s), "command", PT_ANYTIME)

\* mutil_LoadMetaPlugin(), mutil_UnloadMetaPlugin(), called by a plugin that is
\* running (a paused one is not called and so calls nothing).
Running(s) == s \in Listed(List) /\ plist[s].status = PL_RUNNING

PluginLoads(loader, f, now, out) ==
  Running(loader) /\ Operate(plugin_addload(List, loader, f, now, out), "request", now)

PluginUnloads(unloader, s, now, reason, out) ==
  /\ Running(unloader)
  /\ s # unloader
  /\ Valid(List, s)
  /\ Operate(plugin_unload(List, s, now, reason, out), "request", now)

\* The administrator edits plugins.ini, takes it away or brings it back, or puts
\* a new version of a plugin's file in place.
EditIni == /\ started
           /\ ini' \in Inis
           /\ last' = [op |-> "file", now |-> PT_ANYTIME]
           /\ UNCHANGED <<listVars, started>>

UpdateFile(f) ==
  /\ started
  /\ plist' = [s \in Slot |-> IF plist[s].file = f
                              THEN [plist[s] EXCEPT !.fresh = FALSE] ELSE plist[s]]
  /\ last' = [op |-> "file", now |-> PT_ANYTIME]
  /\ UNCHANGED <<endlist, refs, hooked, ini, started>>

Init == /\ plist = [s \in Slot |-> Zeroed]
        /\ endlist = 0
        /\ refs = [f \in Files |-> 0]
        /\ hooked = {}
        /\ ini \in Inis
        /\ started = FALSE
        /\ last = [op |-> "none", now |-> PT_NEVER]

Command(s, out) == \/ MetaUnload(s, out)
                   \/ MetaForceUnload(s, out)
                   \/ MetaReload(s, out)
                   \/ MetaRetry(s, out)

RequestTimes == {PT_CHANGELEVEL, PT_ANYTIME}

Request(s, now, out) ==
  \/ \E f \in Files : PluginLoads(s, f, now, out)
  \/ \E t \in Slot, reason \in {"command", "forced"} :
       PluginUnloads(s, t, now, reason, out)

Next == \/ Startup
        \/ ChangeLevel
        \/ MetaRefresh
        \/ \E f \in Files, out \in Outcomes : MetaLoad(f, out)
        \/ \E s \in Slot, out \in Outcomes : Command(s, out)
        \/ \E s \in Slot : MetaClear(s) \/ MetaPause(s) \/ MetaUnpause(s)
        \/ \E s \in Slot, now \in RequestTimes, out \in Outcomes : Request(s, now, out)
        \/ EditIni
        \/ \E f \in Files : UpdateFile(f)

Spec == Init /\ [][Next]_vars

\* The server run by its plugins.ini, and "meta unload": no other plugins come.
IniNext == \/ Startup
           \/ ChangeLevel
           \/ MetaRefresh
           \/ \E s \in Slot, out \in Outcomes : MetaUnload(s, out)
           \/ EditIni

IniSpec == Init /\ [][IniNext]_vars
-----------------------------------------------------------------------------
TypeOK == /\ plist \in [Slot -> Plugin]
          /\ endlist \in 0 .. MaxPlugins
          /\ refs \in [Files -> 0 .. MaxRefs]
          /\ hooked \in (SUBSET Slot) \cup {NULL}
          /\ ini \in Inis
          /\ started \in BOOLEAN
          /\ last \in [op : {"none", "startup", "changelevel", "command", "request",
                           "file"}, now : Time]

(***************************************************************************)
(* A plugin's info is only ever looked at in a library that is still       *)
(* mapped: what is opened has its info and its library open, and nobody    *)
(* closes a library under another entry's handle or info.                  *)
(***************************************************************************)
InfoIsMapped ==
  \A s \in Slot :
    LET p == plist[s]
    IN  /\ p.info # NULL => refs[p.info] > 0
        /\ p.status >= PL_OPENED => p.info = p.file /\ p.handle = p.file

(***************************************************************************)
(* The hook lists hold the running plugins of the list and no others: no   *)
(* operation leaves an unloaded or paused plugin hooked, or a running one  *)
(* out - but for a reallocation that fails, which leaves all of them out   *)
(* until the next rebuild.                                                 *)
(***************************************************************************)
HookedIsRunning == hooked # NULL => hooked = RunningSlots(List)

\* mplugin.h: the pathname of an entry is UNIQUE in the list.
UniquePathnames ==
  \A s, t \in Listed(List) : plist[s].file = plist[t].file => s = t

(***************************************************************************)
(* The loader a plugin names is still in the list (mplugin.h: -1 means     *)
(* source plugin has been unloaded): a later plugin in the loader's slot   *)
(* does not inherit its children.                                          *)
(***************************************************************************)
LoaderIsThere ==
  \A s \in Listed(List) :
    plist[s].source_plugin_index > 0 =>
      plist[plist[s].source_plugin_index].status >= PL_VALID

(***************************************************************************)
(* No two variants of one plugin are listed together, whatever becomes of  *)
(* plugins.ini (mlist.cpp: the line with the higher platform specific      *)
(* level overrides the other).  Of the plugins of plugins.ini only:        *)
(* cmd_addload() and plugin_addload() do not look for variants.            *)
(***************************************************************************)
OneVariant ==
  \A s, t \in Listed(List) :
    family[plist[s].file] = family[plist[t].file] => s = t

(***************************************************************************)
(* At startup the variant of a plugin with the highest platform specific   *)
(* level is the one listed, wherever its line is (MPluginList::ini_startup)*)
(***************************************************************************)
StartupTakesBestVariant ==
  [][started' /\ ~ started /\ ini # NULL =>
       \A f \in Range(ini) : \E s \in 1 .. endlist' :
         /\ plist'[s].status >= PL_VALID
         /\ family[plist'[s].file] = family[f]
         /\ plist'[s].pfspecific >= level[f]]_vars

(***************************************************************************)
(* Changelevels.  A plugin that waits for one to be loaded is loaded by    *)
(* it, unless the plugin itself refuses.  dllapi.cpp: "Look for new plugins*)
(* in inifile, as well as any plugins waiting for a changelevel to load."  *)
(* With plugins.ini out of reach the refresh does nothing at all.          *)
(***************************************************************************)
Waiting(s) == /\ s \in Listed(List)
              /\ plist[s].status = PL_OPENED
              /\ plist[s].action = PA_LOAD
              /\ loadable[plist[s].file] >= PT_CHANGELEVEL

Answered(p) == p.status \in {PL_RUNNING, PL_FAILED, PL_BADFILE}

InIni(s) == plist[s].file \in Range(ini)

\* plugins.ini names a variant that is preferred to the entry and takes its
\* place, although its library is open.
Overridden(s) == \E f \in Range(ini) : /\ family[f] = family[plist[s].file]
                                       /\ level[f] > plist[s].pfspecific

\* What plugins.ini says does not stand in its way: a plugin it lists is not
\* loaded but reloaded, which needs a file newer than the last time the plugin
\* was loaded, and a plugin that may be unloaded at a changelevel.
IniLets(s) == InIni(s) => /\ ~ plist[s].fresh
                          /\ unloadable[plist[s].file] >= PT_CHANGELEVEL

\* As it is: of the waiting plugins that plugins.ini lets be loaded.
ChangelevelLoadsWaiting ==
  [][last'.op = "changelevel" /\ ini # NULL =>
       \A s \in Slot : Waiting(s) /\ ~ Overridden(s) /\ IniLets(s)
                         => Answered(plist'[s])]_vars

\* As it is documented: of every waiting plugin.
ChangelevelLoadsAllWaiting ==
  [][last'.op = "changelevel" /\ ini # NULL =>
       \A s \in Slot : Waiting(s) => Answered(plist'[s])]_vars

(***************************************************************************)
(* A changelevel unloads the running plugins that were listed in           *)
(* plugins.ini and no longer are, and leaves those it never listed running *)
(* (metamod.txt: "unload any plugins that have been deleted from the file. *)
(* This is only applicable to plugins loaded from the inifile").  A plugin *)
(* whose Meta_Detach refuses keeps running, to be unloaded later.  When    *)
(* the file itself is gone, every plugin keeps running.                    *)
(***************************************************************************)
Settled(s) == /\ s \in Listed(List)
              /\ plist[s].status >= PL_RUNNING
              /\ plist[s].action = PA_NONE

Unloaded(p) == \/ p.status = PL_EMPTY
               \/ p.action = PA_UNLOAD /\ "nodetach" \in Outcomes

ChangelevelFollowsIni ==
  [][last'.op = "changelevel" => \A s \in Slot : Settled(s) =>
       IF ini = NULL THEN plist'[s].status = PL_RUNNING
       ELSE IF InIni(s) THEN TRUE
       ELSE IF plist[s].source # "ini" THEN plist'[s].status = PL_RUNNING
       ELSE unloadable[plist[s].file] >= PT_CHANGELEVEL => Unloaded(plist'[s])]_vars

(***************************************************************************)
(* What a plugin asks for happens at once or not at all (mlist.cpp:        *)
(* "setting 'must load now'"; mplugin.cpp: "Don't set delayed mode"): its  *)
(* request leaves no plugin waiting for a later time that was not.  (A     *)
(* refused Meta_Detach does leave a permitted unload pending.)             *)
(***************************************************************************)
Delayed(L, s, now) ==
  LET p == L.plist[s]
  IN  \/ s \in Listed(L) /\ p.status = PL_OPENED /\ p.action = PA_LOAD
         /\ loadable[p.file] < now
      \/ s \in Listed(L) /\ p.status >= PL_RUNNING /\ p.action = PA_UNLOAD
         /\ unloadable[p.file] < now

RequestsNeverWait ==
  [][last'.op = "request" =>
       \A s \in Slot : Delayed(List, s, last.now)' => Delayed(List, s, last'.now)]_vars
=============================================================================
