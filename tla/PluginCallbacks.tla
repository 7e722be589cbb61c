--------------------------- MODULE PluginCallbacks ---------------------------
(***************************************************************************)
(* What Metamod-P's plugins may do to each other from inside the calls it  *)
(* makes into them.  PluginList takes loading and unloading as one step;   *)
(* here the query, Meta_Attach, Meta_Detach, GameInit, a hook and a        *)
(* registered command are frames on the stack of the one game thread, and  *)
(* the plugin on top may load and unload others (metamod/mutil.cpp),       *)
(* register commands (metamod/reg_support.cpp, metamod/mreg.cpp), call the *)
(* engine, and so other plugins' hooks, or return.                         *)
(*                                                                         *)
(* Two checks of MPlugin::plugin_unload() keep a plugin from being         *)
(* unloaded under its own feet: it may not unload itself, nor a plugin     *)
(* that is just unloading another one (is_unloader).  When a library goes  *)
(* that has a frame on the stack, the process crashes on the way back: the *)
(* model stops there (Crashed).                                            *)
(*                                                                         *)
(* Left to PluginList: the list's end, plugins.ini, reloading, pausing and *)
(* what a refresh does for a plugin that waits.  The console works when no *)
(* plugin is active (AtRest).                                              *)
(***************************************************************************)
EXTENDS Naturals, Sequences, FiniteSets

CONSTANTS
  MaxPlugins,   \* MAX_PLUGINS, the size of plist
  Files,        \* the plugin files, by pathname
  NULL,         \* no file, no library
  Commands,     \* the names of registered commands
  loadable,     \* plugin_info_t::loadable of each file
  unloadable,   \* and plugin_info_t::unloadable
  SelfNested,   \* whether a plugin asks for an unload during its own request
  MaxDepth      \* bound on the depth of the stack

Slot == 1 .. MaxPlugins

\* PLUG_STATUS, as far as it matters here, and PLUG_LOADTIME: the orders are
\* crucial.
PL_EMPTY == 0
PL_VALID == 1
PL_BADFILE == 2
PL_OPENED == 3
PL_FAILED == 4
PL_RUNNING == 5

PT_NEVER == 0
PT_STARTUP == 1
PT_CHANGELEVEL == 2
PT_ANYTIME == 3
PT_ANYPAUSE == 4

ASSUME SizeAssumption  == MaxPlugins \in Nat \ {0} /\ MaxDepth \in Nat \ {0}
ASSUME NullAssumption  == NULL \notin Files
ASSUME TimesAssumption == {loadable, unloadable} \subseteq [Files -> PT_NEVER .. PT_ANYPAUSE]
ASSUME NestAssumption  == SelfNested \in BOOLEAN

VARIABLES
  plist,        \* the entries
  cmds,         \* RegCmds, by name
  stack         \* the active calls into plugins, innermost last

vars == <<plist, cmds, stack>>

(***************************************************************************)
(* An entry keeps `handle' while its library is open; info is there once   *)
(* the plugin has been asked for it.  A command's pfnCmd is the library it points into, or     *)
(* NULL once that has been closed; plugid is the slot of its plugin, 0     *)
(* when it has none.  A frame names the entry point that was called, the   *)
(* slot of the plugin and, for a Meta_Detach, the plugin that asked for    *)
(* the unload (0 is the console) and whether it was forced.                *)
(***************************************************************************)
Statuses == {PL_EMPTY, PL_VALID, PL_BADFILE, PL_OPENED, PL_FAILED, PL_RUNNING}

Entry == [file : Files \cup {NULL}, status : Statuses,
          action : {"none", "load", "unload"}, handle : Files \cup {NULL},
          is_unloader : BOOLEAN]

Command == [status : {"none", "invalid", "valid"}, pfnCmd : Files \cup {NULL},
            plugid : 0 .. MaxPlugins]

EntryPoints == {"query", "attach", "gameinit", "hook", "command", "detach"}

Frame == [in : EntryPoints, slot : Slot, by : 0 .. MaxPlugins, forced : BOOLEAN]

Call(in, s)          == [in |-> in, slot |-> s, by |-> 0, forced |-> FALSE]
Detach(s, by, force) == [in |-> "detach", slot |-> s, by |-> by, forced |-> force]

Depth == Len(stack)
Top   == stack[Depth]
Pop   == SubSeq(stack, 1, Depth - 1)
Push(frame) == Depth < MaxDepth /\ stack' = Append(stack, frame)

Unloads(fr, u) == fr.in = "detach" /\ fr.by = u

\* A return into a library that is gone.
Crashed == \E k \in 1 .. Depth : plist[stack[k].slot].handle = NULL

\* A plugin has control; nobody has but the engine.
InPlugin == Depth > 0 /\ ~ Crashed
AtRest   == Depth = 0

\* The time a request is for: the console's is for now, a plugin names its own.
Times(byPlugin) == IF byPlugin THEN PT_NEVER .. PT_ANYPAUSE ELSE {PT_ANYTIME}
-----------------------------------------------------------------------------
(***************************************************************************)
(* Registered commands: what becomes of the function pointers when library *)
(* f is closed.                                                            *)
(***************************************************************************)
Dangling(c, f) == [n \in Commands |-> IF c[n].pfnCmd = f
                                      THEN [c[n] EXCEPT !.pfnCmd = NULL] ELSE c[n]]
-----------------------------------------------------------------------------
(***************************************************************************)
(* Loading.  The first empty slot takes the new entry.  query() opens the  *)
(* library and calls it (Meta_Init, GiveFnptrsToDll and Meta_Query, one    *)
(* frame here), attach() calls Meta_Attach if the plugin may be loaded at  *)
(* that time.                                                              *)
(***************************************************************************)
IsListed(f)  == \E s \in Slot : plist[s].status # PL_EMPTY /\ plist[s].file = f
IsFree(s)    == /\ plist[s].status = PL_EMPTY
                /\ \A t \in Slot : plist[t].status = PL_EMPTY => s <= t

\* The entry of a plugin that was added, its library opened or not.
Valid(s, f)   == [plist[s] EXCEPT !.file = f, !.status = PL_VALID,
                                  !.action = "load", !.handle = f]
BadFile(s, f) == [plist[s] EXCEPT !.file = f, !.status = PL_BADFILE,
                                  !.action = "load", !.handle = NULL]

load(s, f) == \/ /\ plist' = [plist EXCEPT ![s] = Valid(s, f)]
                 /\ Push(Call("query", s))
              \/ /\ plist' = [plist EXCEPT ![s] = BadFile(s, f)]
                 /\ UNCHANGED stack

\* cmd_addload() and plugin_addload(): "meta load", mutil_LoadMetaPlugin().
addload(f) == /\ ~ IsListed(f)
              /\ \E s \in Slot : IsFree(s) /\ load(s, f)
              /\ UNCHANGED cmds

MetaLoad(f)    == AtRest /\ addload(f)
PluginLoads(f) == InPlugin /\ addload(f)

\* clear(): the library and the entry go; commands are left as they are.
Cleared(s) == [plist[s] EXCEPT !.handle = NULL, !.status = PL_EMPTY, !.action = "none"]

\* The query was answered: Meta_Attach is called, or the plugin may not be
\* loaded now.  Then "meta load" keeps it waiting for a later time, if there is
\* one; what a plugin asked to load is cleared.
QueryReturns ==
  /\ InPlugin /\ Top.in = "query"
  /\ LET s == Top.slot
         f == plist[s].file
         byPlugin == Depth > 1
     IN  \E now \in Times(byPlugin) :
           \/ /\ loadable[f] >= now
              /\ plist' = [plist EXCEPT ![s].status = PL_OPENED]
              /\ stack' = Append(Pop, Call("attach", s))
              /\ UNCHANGED cmds
           \/ /\ loadable[f] < now /\ loadable[f] > PT_STARTUP /\ ~ byPlugin
              /\ plist' = [plist EXCEPT ![s].status = PL_OPENED]
              /\ stack' = Pop
              /\ UNCHANGED cmds
           \/ /\ loadable[f] < now /\ (loadable[f] <= PT_STARTUP \/ byPlugin)
              /\ plist' = [plist EXCEPT ![s] = Cleared(s)]
              /\ stack' = Pop
              /\ cmds' = Dangling(cmds, plist[s].handle)

\* The query failed, and the library is closed.  A request that the plugin made
\* in Meta_Query may have left its error in meta_errno, and then fails the query
\* too: after ME_DLOPEN the library stays open, after ME_NOTALLOWED and
\* ME_DELAYED plugin_addload() clears the entry.
QueryFails ==
  /\ InPlugin /\ Top.in = "query"
  /\ LET s == Top.slot
         bad == [plist[s] EXCEPT !.status = PL_BADFILE]
     IN  \/ /\ plist' = [plist EXCEPT ![s] = bad]
            /\ UNCHANGED cmds
         \/ /\ \/ plist' = [plist EXCEPT ![s] = [bad EXCEPT !.handle = NULL]]
               \/ Depth > 1 /\ plist' = [plist EXCEPT ![s] = Cleared(s)]
            /\ cmds' = Dangling(cmds, plist[s].handle)
  /\ stack' = Pop

\* Meta_Attach returns.  A plugin that is loaded while the server runs has its
\* GameInit called at once, if it hooks it.
AttachReturns ==
  /\ InPlugin /\ Top.in = "attach"
  /\ \/ /\ plist' = [plist EXCEPT ![Top.slot].status = PL_RUNNING,
                                  ![Top.slot].action = "none"]
        /\ stack' \in {Pop, Append(Pop, Call("gameinit", Top.slot))}
     \/ /\ plist' = [plist EXCEPT ![Top.slot].status = PL_FAILED]
        /\ stack' = Pop
  /\ UNCHANGED cmds
-----------------------------------------------------------------------------
\* meta_AddServerCommand(): the caller's function, under a name that may be
\* another plugin's.
\* Mutant: the slot is counted from 0 where it is stored from 1.
Register_next(n) ==
  /\ InPlugin
  /\ cmds' = [cmds EXCEPT ![n] = [status |-> "valid", plugid |-> Top.slot + 1,
                                  pfnCmd |-> plist[Top.slot].handle]]
  /\ UNCHANGED <<plist, stack>>
Register(n) ==
  /\ InPlugin
  /\ cmds' = [cmds EXCEPT ![n] = [status |-> "valid", plugid |-> Top.slot,
                                  pfnCmd |-> plist[Top.slot].handle]]
  /\ UNCHANGED <<plist, stack>>

\* meta_command_handler() and MRegCmd::call(): the command's function is called
\* when it is valid and points into an open library (os_safe_call), and
\* forgotten when it does not.
RunCommand(n) ==
  /\ AtRest
  /\ cmds[n].status = "valid"
  /\ \/ /\ cmds[n].pfnCmd # NULL
        /\ \E s \in Slot : /\ plist[s].handle = cmds[n].pfnCmd
                           /\ Push(Call("command", s))
        /\ UNCHANGED cmds
     \/ /\ cmds[n].pfnCmd = NULL
        /\ cmds' = [cmds EXCEPT ![n].status = "invalid"]
        /\ UNCHANGED stack
  /\ UNCHANGED plist

\* MRegCmdList::disable().
\* Mutant: the commands of a plugin with an active call are spared.
disable_attached(c, s) ==
  [n \in Commands |-> IF c[n].plugid = s /\ \A k \in 1 .. Depth : stack[k].slot # s
                      THEN [c[n] EXCEPT !.status = "invalid"] ELSE c[n]]
disable(c, s) ==
  [n \in Commands |-> IF c[n].plugid = s
                      THEN [c[n] EXCEPT !.status = "invalid"] ELSE c[n]]
-----------------------------------------------------------------------------
(***************************************************************************)
(* Unloading.                                                              *)
(***************************************************************************)
\* Plugin u, or the console (0), asks for the entry in slot s to be unloaded:
\* the entry as it is marked, and u as it is protected.
Marked(s, u) ==
  [t \in Slot |-> [plist[t] EXCEPT !.action = IF t = s THEN "unload" ELSE @,
                                   !.is_unloader = @ \/ t = u]]

\* u is no longer unloading anything.
\* Mutant: the mark of the unloader is never taken off.
Unprotected_failed(p, u) == p
Unprotected(p, u) == [t \in Slot |-> IF t = u THEN [p[t] EXCEPT !.is_unloader = FALSE]
                                     ELSE p[t]]

\* The tail of unload(), with clear(): commands go, then the library, then the
\* entry, when it is still marked.
\* Mutant: the library goes and the entry stays.
Closed_left(p, s) == [p EXCEPT ![s].handle = NULL, ![s].action = "none"]
Closed(p, s) ==
  [p EXCEPT ![s] =
     IF @.action = "unload"
     THEN [@ EXCEPT !.handle = NULL, !.status = PL_EMPTY, !.action = "none"]
     ELSE [@ EXCEPT !.handle = NULL]]

\* unload() up to Meta_Detach: refused for a plugin that is not running, or not
\* now, unless it is forced; at once for one that has no library; otherwise
\* Meta_Detach is called.
unload(s, u, forced) ==
  LET e == plist[s]
      marked == Marked(s, u)
      \* what a refusal leaves: a later try by the console, what was pending
      \* before a plugin's request, nothing when there will be no later
      pending == CASE unloadable[e.file] <= PT_STARTUP -> "none"
                   [] unloadable[e.file] > PT_STARTUP /\ u = 0 -> "unload"
                   [] unloadable[e.file] > PT_STARTUP /\ u # 0 -> e.action
  IN  \/ /\ ~ forced /\ e.status < PL_RUNNING
         /\ plist' = Unprotected(marked, u)
         /\ UNCHANGED <<cmds, stack>>
      \/ /\ ~ forced /\ e.status = PL_RUNNING
         /\ \E now \in Times(u # 0) : unloadable[e.file] < now
         /\ plist' = Unprotected([marked EXCEPT ![s].action = pending], u)
         /\ UNCHANGED <<cmds, stack>>
      \/ /\ forced /\ e.handle = NULL
         /\ plist' = Unprotected(Closed(marked, s), u)
         /\ cmds' = disable(cmds, s)
         /\ UNCHANGED stack
      \/ /\ e.handle # NULL
         /\ \/ forced
            \/ /\ e.status = PL_RUNNING
               /\ \E now \in Times(u # 0) : unloadable[e.file] >= now
         /\ plist' = marked
         /\ Push(Detach(s, u, forced))
         /\ UNCHANGED cmds

\* "meta unload", "meta force_unload".
MetaUnload(s, forced) ==
  AtRest /\ plist[s].status # PL_EMPTY /\ unload(s, 0, forced)

\* plugin_unload(), for mutil_UnloadMetaPlugin(): not oneself, and not a plugin
\* that is unloading another one.
\* Mutants: the two checks are dropped; only that of is_unloader is.
plugin_unload_self(s, u, forced) == unload(s, u, forced)
plugin_unload_any(s, u, forced) == s # u /\ unload(s, u, forced)
plugin_unload(s, u, forced) ==
  s # u /\ ~ plist[s].is_unloader /\ unload(s, u, forced)

PluginUnloads(s, forced) ==
  /\ InPlugin
  /\ plist[s].status # PL_EMPTY
  /\ SelfNested \/ \A k \in 1 .. Depth : ~ Unloads(stack[k], Top.slot)
  /\ plugin_unload(s, Top.slot, forced)

\* Meta_Detach agrees, or its refusal is overridden: the rest of unload().
DetachReturns ==
  LET s == Top.slot
  IN  /\ InPlugin /\ Top.in = "detach"
      /\ plist' = Unprotected(Closed(plist, s), Top.by)
      /\ cmds' = Dangling(disable(cmds, s), plist[s].handle)
      /\ stack' = Pop

DetachRefuses == /\ InPlugin /\ Top.in = "detach" /\ ~ Top.forced
                 /\ plist' = Unprotected(plist, Top.by)
                 /\ stack' = Pop
                 /\ UNCHANGED cmds

\* "meta clear", of a plugin that is no plugin, waits, or whose Meta_Attach
\* refused.
MetaClear(s) ==
  /\ AtRest
  /\ plist[s].status \in {PL_FAILED, PL_BADFILE, PL_OPENED}
  /\ plist' = [plist EXCEPT ![s] = Cleared(s)]
  /\ cmds' = IF plist[s].handle = NULL THEN cmds ELSE Dangling(cmds, plist[s].handle)
  /\ UNCHANGED stack
-----------------------------------------------------------------------------
\* The engine or a plugin makes a call that plugin s hooks (HookDispatch says
\* which plugins are called, and in which order).
CallHook(s) == /\ ~ Crashed
               /\ plist[s].status = PL_RUNNING
               /\ Push(Call("hook", s))
               /\ UNCHANGED <<plist, cmds>>

CallReturns == /\ InPlugin /\ Top.in \in {"hook", "command", "gameinit"}
               /\ stack' = Pop
               /\ UNCHANGED <<plist, cmds>>

Init == /\ plist = [s \in Slot |-> [file |-> NULL, status |-> PL_EMPTY,
                                    action |-> "none", handle |-> NULL,
                                    is_unloader |-> FALSE]]
        /\ cmds = [n \in Commands |-> [status |-> "none", pfnCmd |-> NULL, plugid |-> 0]]
        /\ stack = <<>>

Next == \/ \E f \in Files : MetaLoad(f) \/ PluginLoads(f)
        \/ QueryReturns \/ QueryFails \/ AttachReturns
        \/ \E n \in Commands : Register(n) \/ RunCommand(n)
        \/ \E s \in Slot, forced \in BOOLEAN : MetaUnload(s, forced) \/ PluginUnloads(s, forced)
        \/ DetachReturns \/ DetachRefuses
        \/ \E s \in Slot : MetaClear(s) \/ CallHook(s)
        \/ CallReturns

Spec == Init /\ [][Next]_vars
-----------------------------------------------------------------------------
TypeOK == /\ plist \in [Slot -> Entry]
          /\ cmds \in [Commands -> Command]
          /\ stack \in Seq(Frame)

(***************************************************************************)
(* mplugin.cpp: "Do not allow active unloader to be unloaded!"  A plugin   *)
(* that has asked for an unload is still there when its request returns,   *)
(* whatever the plugins that are called meanwhile ask for, as long as it   *)
(* does not ask again during its own request (SelfNested).                 *)
(***************************************************************************)
UnloaderStays == \A k \in 1 .. Depth : stack[k].in = "detach" /\ stack[k].by # 0
                                         => plist[stack[k].by].handle # NULL

(***************************************************************************)
(* Plugins that unload others, from a hook, a command, Meta_Attach or      *)
(* Meta_Detach, in a chain of any length, never unload one of the chain.   *)
(* With a hook or a load in between the code gives no such promise.        *)
(***************************************************************************)
Chain == \A k \in 2 .. Depth : stack[k].in = "detach"

ChainNeverCrashes == Chain => ~ Crashed

(***************************************************************************)
(* A plugin in the hook lists has its library open: an unload that goes on *)
(* after Meta_Detach still finds its entry marked, whatever the plugins    *)
(* called meanwhile have asked for (unload() drops its entry only then).   *)
(***************************************************************************)
RunningIsOpen == \A s \in Slot : plist[s].status = PL_RUNNING => plist[s].handle # NULL

\* At rest no plugin is left marked as unloading, so each can be unloaded.
NoFlagAtRest == AtRest => \A s \in Slot : ~ plist[s].is_unloader

(***************************************************************************)
(* The commands a plugin has registered, in Meta_Detach itself too, are    *)
(* out of use once it is unloaded (mreg.cpp: "Disable any functions        *)
(* belonging to the given plugin"), also when the name was another         *)
(* plugin's before and when a plugin is forced out that never ran.  What   *)
(* leaves commands behind is a load that ends in the query, and "meta      *)
(* clear", of a plugin that is not running: MRegCmd::call() catches those. *)
(***************************************************************************)
UnloadDisables ==
  [][\A n \in Commands :
       cmds'[n].status = "valid" /\ cmds'[n].pfnCmd = NULL
         => \/ cmds[n].status = "valid" /\ cmds[n].pfnCmd = NULL
            \/ /\ AtRest \/ Top.in = "query"
               /\ \E s \in Slot : /\ plist[s].status < PL_RUNNING
                                  /\ plist[s].handle = cmds[n].pfnCmd]_vars
=============================================================================
