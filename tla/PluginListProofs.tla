--------------------------- MODULE PluginListProofs ---------------------------
(***************************************************************************)
(* Proofs about the plugin list, for every number of slots and files, any  *)
(* plugins.ini and any times: that the hook lists hold the running plugins *)
(* and no others, that an entry's library is open and its info mapped,     *)
(* that pathnames are unique, that a loader that is named is there, what   *)
(* a changelevel loads and unloads, that requests leave nothing to wait,   *)
(* and that plugins.ini lists one variant of a plugin, at startup its best.*)
(***************************************************************************)
EXTENDS PluginList, FiniteSetTheorems, WellFoundedInduction, TLAPS

(***************************************************************************)
(* Numbers.  What holds at 0 and goes from each n to the next holds up to  *)
(* N; a set of naturals has a least element.                               *)
(***************************************************************************)
LEMMA LeastIs ==
  ASSUME NEW S \in SUBSET Nat, S # {}
  PROVE  Least(S) \in S /\ \A t \in S : Least(S) <= t
<1> DEFINE R == {ss \in Nat \X Nat : ss[1] < ss[2]}
<1>1. IsWellFoundedOn(R, Nat)
  BY NatLessThanWellFounded DEF OpToRel
<1>2. PICK s \in S : \A t \in S : <<t, s>> \notin R
  <2>. HIDE DEF R
  <2>. QED  BY <1>1, WFMin
<1>3. ASSUME NEW t \in S  PROVE s <= t
  <2>1. s \in Nat /\ t \in Nat /\ <<t, s>> \notin R
    BY <1>2
  <2>2. <<t, s>> \in Nat \X Nat /\ <<t, s>>[1] = t /\ <<t, s>>[2] = s
    BY <2>1
  <2>. QED  BY <2>1, <2>2
<1>. QED  BY <1>3 DEF Least

LEMMA Upwards ==
  ASSUME NEW N \in Nat, NEW G, 0 \in G, \A n \in 1 .. N : n - 1 \in G => n \in G
  PROVE  \A n \in 0 .. N : n \in G
<1> DEFINE B == {n \in 0 .. N : n \notin G}
<1>. SUFFICES ASSUME B # {}  PROVE FALSE
  OBVIOUS
<1>1. B \in SUBSET Nat
  OBVIOUS
<1>2. Least(B) \in B /\ \A t \in B : Least(B) <= t
  <2>. HIDE DEF B
  <2>. QED  BY <1>1, LeastIs
<1>3. Least(B) # 0 /\ Least(B) \in 1 .. N
  BY <1>2
<1>4. Least(B) - 1 \in B
  BY <1>2, <1>3
<1>. QED  BY <1>2, <1>3, <1>4

-----------------------------------------------------------------------------
(***************************************************************************)
(* The invariant, as a predicate on list states.  What is opened is its    *)
(* own library, info is only kept along with the handle, and an entry that *)
(* waits for being loaded does not run.  A library is opened at least once *)
(* for each entry with its handle.  A loader that is named is in the list  *)
(* and has not been unloaded.                                              *)
(***************************************************************************)
Errnos == {"none", "maxreached", "badreq", "query", "attach", "delayed",
           "notallowed", "argument", "already", "detach", "nofile"}

ListState == [plist : [Slot -> Plugin], endlist : 0 .. MaxPlugins,
              refs : [Files -> Int], hooked : (SUBSET Slot) \cup {NULL},
              rebuilt : BOOLEAN, errno : Errnos]

EntryOk(p) == /\ p.status >= PL_VALID => p.file \in Files
              /\ p.status >= PL_OPENED => p.handle = p.file /\ p.info = p.file
              /\ p.info \in {NULL, p.handle}
              /\ p.action = PA_LOAD => p.status < PL_RUNNING

Unique(L) == \A s, t \in Listed(L) : L.plist[s].file = L.plist[t].file => s = t

Users(P, f) == {s \in Slot : P[s].handle = f}

Counted(L) == \A f \in Files : L.refs[f] >= Cardinality(Users(L.plist, f))

HasLoader(L, s, t) == s \in Listed(L) /\ L.plist[s].source_plugin_index = t

Loaders(L) == \A s \in Slot, t \in 1 .. MaxPlugins :
                HasLoader(L, s, t) => t <= L.endlist /\ L.plist[t].status >= PL_RUNNING

Hooked(L) == L.hooked # NULL => L.hooked = RunningSlots(L)

\* All but what is said of the entries one by one, and of the hook lists.
Shared(L) == L \in ListState /\ Unique(L) /\ Counted(L) /\ Loaders(L)

Core(L) == Shared(L) /\ \A s \in Slot : EntryOk(L.plist[s])

ListInv(L) == Core(L) /\ Hooked(L)
-----------------------------------------------------------------------------
\* The codes, to be cited where their order or their range matters.
LEMMA Order ==
  /\ PL_EMPTY = 0 /\ PL_VALID = 1 /\ PL_BADFILE = 2 /\ PL_OPENED = 3
  /\ PL_FAILED = 4 /\ PL_RUNNING = 5 /\ PL_PAUSED = 6
  /\ PA_NULL = 0 /\ PA_NONE = 1 /\ PA_KEEP = 2 /\ PA_LOAD = 3
  /\ PA_ATTACH = 4 /\ PA_UNLOAD = 5 /\ PA_RELOAD = 6
BY DEF PL_EMPTY, PL_VALID, PL_BADFILE, PL_OPENED, PL_FAILED, PL_RUNNING, PL_PAUSED,
       PA_NULL, PA_NONE, PA_KEEP, PA_LOAD, PA_ATTACH, PA_UNLOAD, PA_RELOAD

LEMMA Codes ==
  /\ PL_EMPTY \in 0 .. 6 /\ PL_VALID \in 0 .. 6 /\ PL_BADFILE \in 0 .. 6 /\ PL_OPENED \in 0 .. 6
  /\ PL_FAILED \in 0 .. 6 /\ PL_RUNNING \in 0 .. 6 /\ PL_PAUSED \in 0 .. 6
  /\ PA_NULL \in 0 .. 6 /\ PA_NONE \in 0 .. 6 /\ PA_KEEP \in 0 .. 6 /\ PA_LOAD \in 0 .. 6
  /\ PA_UNLOAD \in 0 .. 6 /\ PA_RELOAD \in 0 .. 6
BY Order

LEMMA StateFields ==
  ASSUME NEW L \in ListState
  PROVE  /\ L.plist \in [Slot -> Plugin] /\ L.endlist \in 0 .. MaxPlugins
         /\ L.refs \in [Files -> Int] /\ L.hooked \in (SUBSET Slot) \cup {NULL}
         /\ L.rebuilt \in BOOLEAN /\ L.errno \in Errnos
BY DEF ListState

LEMMA EntryFields ==
  ASSUME NEW p \in Plugin
  PROVE  /\ p.status \in 0 .. 6 /\ p.action \in 0 .. 6
         /\ p.file \in Files \cup {NULL} /\ p.handle \in Files \cup {NULL}
         /\ p.info \in Files \cup {NULL}
         /\ p.source_plugin_index \in -1 .. MaxPlugins
BY DEF Plugin, PL_EMPTY, PL_PAUSED, PA_NULL, PA_RELOAD

LEMMA SlotIs == MaxPlugins \in Nat \ {0} /\ Slot = 1 .. MaxPlugins /\ IsFiniteSet(Slot)
BY SizeAssumption, FS_Interval DEF Slot

LEMMA ListedIs ==
  ASSUME NEW L \in ListState, NEW s
  PROVE  s \in Listed(L) <=> s \in Slot /\ s <= L.endlist /\ L.plist[s].status >= PL_VALID
BY SlotIs, StateFields DEF Listed, Valid

\* How many entries use a library, when one entry changes.
One(h, f) == IF h = f THEN 1 ELSE 0

LEMMA UsersMoved ==
  ASSUME NEW P \in [Slot -> Plugin], NEW Q \in [Slot -> Plugin], NEW s \in Slot, NEW f,
         \A t \in Slot : t # s => Q[t] = P[t]
  PROVE  /\ Cardinality(Users(P, f)) \in Nat
         /\ Cardinality(Users(Q, f))
              = Cardinality(Users(P, f)) + One(Q[s].handle, f) - One(P[s].handle, f)
<1> DEFINE U == Users(P, f)
           V == Users(Q, f)
<1>1. IsFiniteSet(U) /\ IsFiniteSet(V)
  <2>1. U \subseteq Slot /\ V \subseteq Slot
    BY DEF Users
  <2>. QED  BY <2>1, SlotIs, FS_Subset
<1>2. s \in U <=> P[s].handle = f
  BY DEF Users
<1>3. V = IF Q[s].handle = f THEN U \cup {s} ELSE U \ {s}
  BY DEF Users
<1>. HIDE DEF U, V
<1>4. Cardinality(U) \in Nat
  BY <1>1, FS_CardinalityType
<1>5. Cardinality(U \cup {s}) = IF s \in U THEN Cardinality(U) ELSE Cardinality(U) + 1
  BY <1>1, FS_AddElement
<1>6. Cardinality(U \ {s}) = IF s \in U THEN Cardinality(U) - 1 ELSE Cardinality(U)
  BY <1>1, FS_RemoveElement
<1>7. Cardinality(V) = Cardinality(U) + One(Q[s].handle, f) - One(P[s].handle, f)
  BY <1>2, <1>3, <1>4, <1>5, <1>6 DEF One
<1>. QED  BY <1>4, <1>7 DEF U, V

(***************************************************************************)
(* An operation on the entry s: the others and the length of the list stay,*)
(* the libraries are opened and closed as the handle says, and the entry   *)
(* stays the plugin it is or leaves the list, which it only does when no   *)
(* other names it.                                                         *)
(***************************************************************************)
Writes(L, M, s) == /\ M \in ListState
                   /\ \A t \in Slot : t # s => M.plist[t] = L.plist[t]
                   /\ M.endlist = L.endlist

Accounts(L, M, s) ==
  \A f \in Files :
    M.refs[f] >= L.refs[f] + One(M.plist[s].handle, f) - One(L.plist[s].handle, f)

SamePlugin(L, M, s) ==
  /\ M.plist[s].file = L.plist[s].file
  /\ M.plist[s].source_plugin_index = L.plist[s].source_plugin_index

Leaves(L, s) == L.plist[s].status < PL_RUNNING \/ \A t \in Slot : ~ HasLoader(L, t, s)

LEMMA OneEntry ==
  ASSUME NEW L, NEW M, NEW s \in Slot,
         Shared(L), Writes(L, M, s), Accounts(L, M, s),
         M.plist[s].status >= PL_VALID =>
           L.plist[s].status >= PL_VALID /\ SamePlugin(L, M, s),
         M.plist[s].status >= PL_RUNNING \/ Leaves(L, s)
  PROVE  Shared(M)
<1>1. /\ L \in ListState /\ M \in ListState /\ M.endlist = L.endlist
      /\ L.plist \in [Slot -> Plugin] /\ M.plist \in [Slot -> Plugin]
      /\ \A t \in Slot : t # s => M.plist[t] = L.plist[t]
      /\ L.endlist \in Nat
  BY StateFields DEF Writes, Shared
<1>3. \A t \in Slot : t \in Listed(M) =>
        /\ t \in Listed(L) /\ M.plist[t].file = L.plist[t].file
        /\ M.plist[t].source_plugin_index = L.plist[t].source_plugin_index
  BY <1>1, ListedIs DEF SamePlugin
<1>4. Unique(M)
  BY <1>1, <1>3, ListedIs DEF Shared, Unique
<1>5. Counted(M)
  <2>. SUFFICES ASSUME NEW f \in Files  PROVE M.refs[f] >= Cardinality(Users(M.plist, f))
    BY DEF Counted
  <2>1. M.refs[f] \in Int /\ L.refs[f] \in Int
    BY <1>1, StateFields
  <2>2. L.refs[f] >= Cardinality(Users(L.plist, f))
    BY DEF Shared, Counted
  <2>3. One(M.plist[s].handle, f) \in Int /\ One(L.plist[s].handle, f) \in Int
    BY DEF One
  <2>4. M.refs[f] >= L.refs[f] + One(M.plist[s].handle, f) - One(L.plist[s].handle, f)
    BY DEF Accounts
  <2>. QED  BY <1>1, <2>1, <2>2, <2>3, <2>4, UsersMoved
<1>6. Loaders(M)
  <2>. SUFFICES ASSUME NEW t \in Slot, NEW u \in 1 .. MaxPlugins, HasLoader(M, t, u)
                PROVE  u <= M.endlist /\ M.plist[u].status >= PL_RUNNING
    BY DEF Loaders
  <2>1. HasLoader(L, t, u)
    BY <1>3 DEF HasLoader
  <2>2. u <= L.endlist /\ L.plist[u].status >= PL_RUNNING /\ u \in Slot
    BY <2>1, SlotIs DEF Shared, Loaders
  <2>3. L.plist[u].status \in Int
    BY <1>1, <2>2, EntryFields
  <2>4. u # s => M.plist[u] = L.plist[u]
    BY <1>1, <2>2
  <2>5. u = s => ~ Leaves(L, s)
    BY <2>1, <2>2, <2>3, Order DEF Leaves
  <2>. QED  BY <1>1, <2>2, <2>4, <2>5
<1>. QED  BY <1>1, <1>4, <1>5, <1>6 DEF Shared

LEMMA OthersOk ==
  ASSUME NEW L, NEW M, NEW s \in Slot, Writes(L, M, s),
         \A t \in Slot \ {s} : EntryOk(L.plist[t]), EntryOk(M.plist[s])
  PROVE  \A t \in Slot : EntryOk(M.plist[t])
BY DEF Writes

\* An operation that opens and closes nothing.
LEMMA SameLibraries ==
  ASSUME NEW L \in ListState, NEW M, NEW s \in Slot,
         M.refs = L.refs, M.plist[s].handle = L.plist[s].handle
  PROVE  Accounts(L, M, s)
BY StateFields DEF Accounts, One

(***************************************************************************)
(* The hook lists.                                                         *)
(***************************************************************************)
LEMMA RebuildIs ==
  ASSUME NEW L \in ListState
  PROVE  LET M == rebuild_hook_lists(L)
         IN  /\ M \in ListState /\ Hooked(M)
             /\ M.plist = L.plist /\ M.endlist = L.endlist /\ M.refs = L.refs
             /\ M.errno = L.errno
<1> DEFINE M == rebuild_hook_lists(L)
<1>1. RunningSlots(L) \in (SUBSET Slot) \cup {NULL}
  BY SlotIs, StateFields DEF RunningSlots
<1>2. /\ M \in ListState /\ M.hooked = RunningSlots(L)
      /\ M.plist = L.plist /\ M.endlist = L.endlist /\ M.refs = L.refs
      /\ M.errno = L.errno
  BY <1>1 DEF rebuild_hook_lists, ListState
<1>. HIDE DEF M
<1>3. Hooked(M)
  BY <1>2 DEF Hooked, RunningSlots
<1>. QED  BY <1>2, <1>3 DEF M

LEMMA SameLists ==
  ASSUME NEW L, NEW M \in ListState,
         M.plist = L.plist, M.endlist = L.endlist, M.refs = L.refs
  PROVE  (Shared(L) => Shared(M)) /\ (Core(L) => Core(M))
         /\ (Hooked(L) /\ M.hooked = L.hooked => Hooked(M))
<1>1. Listed(M) = Listed(L)
  BY DEF Listed, Valid
<1>. QED  BY <1>1 DEF Core, Shared, Unique, Counted, Loaders, HasLoader, Hooked, RunningSlots

LEMMA FailsKeeps ==
  ASSUME NEW L, NEW e \in Errnos, ListInv(L)
  PROVE  ListInv(Fails(L, e)) /\ Fails(L, e).errno = e
         /\ Fails(L, e).plist = L.plist /\ Fails(L, e).endlist = L.endlist
<1> DEFINE M == Fails(L, e)
<1>1. /\ M \in ListState /\ M.plist = L.plist /\ M.endlist = L.endlist /\ M.refs = L.refs
      /\ M.hooked = L.hooked /\ M.errno = e
  BY DEF Fails, ListState, ListInv, Core, Shared
<1>. HIDE DEF M
<1>2. ListInv(M)
  BY <1>1, SameLists DEF ListInv
<1>. QED  BY <1>1, <1>2 DEF M

\* An entry is written, its being in the hook lists or not is as before.
LEMMA StaysHooked ==
  ASSUME NEW L \in ListState, NEW M, NEW s \in Slot,
         Hooked(L), Writes(L, M, s), M.hooked = L.hooked,
         M.plist[s].status = PL_RUNNING <=> L.plist[s].status = PL_RUNNING
  PROVE  Hooked(M)
<1>1. /\ M.endlist = L.endlist
      /\ \A t \in Slot : t # s => M.plist[t] = L.plist[t]
      /\ 1 .. L.endlist \subseteq Slot
  BY StateFields, SlotIs DEF Writes
<1>2. \A t \in 1 .. L.endlist : M.plist[t].status = PL_RUNNING <=> L.plist[t].status = PL_RUNNING
  BY <1>1
<1>. QED  BY <1>1, <1>2 DEF Hooked, RunningSlots

(***************************************************************************)
(* The entry s is left with these values in the fields operations write.   *)
(***************************************************************************)
Holds(p, q, st, act, h, i) ==
  /\ p \in Plugin
  /\ p.status = st
  /\ p.action = act
  /\ p.handle = h
  /\ p.info = i
  /\ p.file = q.file
  /\ p.source_plugin_index = q.source_plugin_index
  /\ p.pfspecific = q.pfspecific

Edited(L, M, s, st, act, h, i) ==
  Writes(L, M, s) /\ Holds(M.plist[s], L.plist[s], st, act, h, i)

LEMMA PutIn ==
  ASSUME NEW L \in ListState, NEW s \in Slot, NEW p \in Plugin
  PROVE  LET M == [L EXCEPT !.plist[s] = p]
         IN  /\ M \in ListState /\ M.plist[s] = p
             /\ \A t \in Slot : t # s => M.plist[t] = L.plist[t]
             /\ M.endlist = L.endlist /\ M.refs = L.refs /\ M.hooked = L.hooked
             /\ M.errno = L.errno
BY DEF ListState

LEMMA ActionIs ==
  ASSUME NEW L \in ListState, NEW s \in Slot, NEW a \in 0 .. 6
  PROVE  LET M == [L EXCEPT !.plist[s].action = a]
             q == L.plist[s]
         IN  /\ Edited(L, M, s, q.status, a, q.handle, q.info)
             /\ M.refs = L.refs /\ M.hooked = L.hooked /\ M.errno = L.errno
<1> DEFINE q == L.plist[s]
           p == [q EXCEPT !.action = a]
<1>1. q \in Plugin
  BY StateFields
<1>2. p \in Plugin /\ Holds(p, q, q.status, a, q.handle, q.info)
  BY <1>1 DEF Plugin, PA_NULL, PA_RELOAD, Holds
<1>. HIDE DEF p
<1>3. [L EXCEPT !.plist[s] = p] = [L EXCEPT !.plist[s].action = a]
  BY DEF p
<1> DEFINE A == [L EXCEPT !.plist[s] = p]
<1>4. /\ A \in ListState /\ A.plist[s] = p
      /\ \A t \in Slot : t # s => A.plist[t] = L.plist[t]
      /\ A.endlist = L.endlist /\ A.refs = L.refs /\ A.hooked = L.hooked
      /\ A.errno = L.errno
  BY <1>2, PutIn
<1>. HIDE DEF A
<1>5. Edited(L, A, s, q.status, a, q.handle, q.info)
  BY <1>2, <1>4 DEF Edited, Writes
<1>. QED  BY <1>3, <1>4, <1>5 DEF A

LEMMA StatusIs ==
  ASSUME NEW L \in ListState, NEW s \in Slot, NEW st \in 0 .. 6
  PROVE  LET M == [L EXCEPT !.plist[s].status = st]
             q == L.plist[s]
         IN  /\ Edited(L, M, s, st, q.action, q.handle, q.info)
             /\ M.refs = L.refs /\ M.hooked = L.hooked /\ M.errno = L.errno
<1> DEFINE q == L.plist[s]
           p == [q EXCEPT !.status = st]
<1>1. q \in Plugin
  BY StateFields
<1>2. p \in Plugin /\ Holds(p, q, st, q.action, q.handle, q.info)
  BY <1>1 DEF Plugin, PL_EMPTY, PL_PAUSED, Holds
<1>. HIDE DEF p
<1>3. [L EXCEPT !.plist[s] = p] = [L EXCEPT !.plist[s].status = st]
  BY DEF p
<1> DEFINE A == [L EXCEPT !.plist[s] = p]
<1>4. /\ A \in ListState /\ A.plist[s] = p
      /\ \A t \in Slot : t # s => A.plist[t] = L.plist[t]
      /\ A.endlist = L.endlist /\ A.refs = L.refs /\ A.hooked = L.hooked
      /\ A.errno = L.errno
  BY <1>2, PutIn
<1>. HIDE DEF A
<1>5. Edited(L, A, s, st, q.action, q.handle, q.info)
  BY <1>2, <1>4 DEF Edited, Writes
<1>. QED  BY <1>3, <1>4, <1>5 DEF A

\* query() opens the library or leaves the entry with none.
Opened(q, h, st) == [q EXCEPT !.handle = h, !.info = h, !.status = st]

LEMMA OpenedIs ==
  ASSUME NEW q \in Plugin, NEW h \in Files \cup {NULL}, NEW st \in 0 .. 6
  PROVE  Holds(Opened(q, h, st), q, st, q.action, h, h)
BY DEF Holds, Opened, Plugin, PL_EMPTY, PL_PAUSED

LEMMA QueryIs ==
  ASSUME NEW L \in ListState, NEW s \in Slot, NEW out, L.plist[s].file \in Files
  PROVE  LET M == query(L, s, out)
             q == L.plist[s]
         IN  /\ M.hooked = L.hooked
             /\ \/ /\ Edited(L, M, s, PL_BADFILE, q.action, NULL, NULL)
                   /\ M.refs = L.refs /\ M.errno = "query"
                \/ /\ Edited(L, M, s, PL_OPENED, q.action, q.file, q.file)
                   /\ M.refs = [L.refs EXCEPT ![q.file] = @ + 1] /\ M.errno = L.errno
<1> DEFINE q == L.plist[s]
           f == q.file
           bad == Opened(q, NULL, PL_BADFILE)
           good == Opened(q, f, PL_OPENED)
           more == [L.refs EXCEPT ![f] = @ + 1]
           B == [L EXCEPT !.errno = "query", !.plist[s] = bad]
           A == [L EXCEPT !.refs[f] = @ + 1, !.plist[s] = good]
<1>1. q \in Plugin /\ NULL \in Files \cup {NULL} /\ f \in Files /\ f \in Files \cup {NULL}
      /\ L.refs \in [Files -> Int] /\ L.plist[s] = q
  BY StateFields
<1>2. query(L, s, out) = IF out \in {"nofile", "noquery"} THEN B ELSE A
  BY DEF query, Opened
<1>3. PL_BADFILE \in 0 .. 6 /\ PL_OPENED \in 0 .. 6
  BY Codes
<1>. HIDE DEF q, f
<1>4. Holds(bad, q, PL_BADFILE, q.action, NULL, NULL)
  BY <1>1, <1>3, OpenedIs, Zenon
<1>5. Holds(good, q, PL_OPENED, q.action, f, f)
  BY <1>1, <1>3, OpenedIs, Zenon
<1>6. more \in [Files -> Int] /\ bad \in Plugin /\ good \in Plugin
  BY <1>1, <1>4, <1>5 DEF Holds
<1>. HIDE DEF bad, good
<1>7. /\ B \in ListState /\ B.plist[s] = bad /\ B.errno = "query" /\ B.refs = L.refs
      /\ B.hooked = L.hooked /\ B.endlist = L.endlist
      /\ \A t \in Slot : t # s => B.plist[t] = L.plist[t]
  BY <1>6 DEF ListState, Errnos
<1>8. /\ A \in ListState /\ A.plist[s] = good /\ A.errno = L.errno /\ A.refs = more
      /\ A.hooked = L.hooked /\ A.endlist = L.endlist
      /\ \A t \in Slot : t # s => A.plist[t] = L.plist[t]
  BY <1>6 DEF ListState, Errnos
<1>. HIDE DEF A, B, more
<1>9. /\ Edited(L, B, s, PL_BADFILE, q.action, NULL, NULL)
      /\ Edited(L, A, s, PL_OPENED, q.action, f, f)
  BY <1>1, <1>4, <1>5, <1>7, <1>8 DEF Edited, Writes
<1>. QED  BY <1>2, <1>7, <1>8, <1>9 DEF q, f, more

\* attach() hooks the plugin, or leaves it failed.
Started(q, st, a) == [q EXCEPT !.status = st, !.action = a, !.fresh = TRUE]

LEMMA StartedIs ==
  ASSUME NEW q \in Plugin, NEW st \in 0 .. 6, NEW a \in 0 .. 6
  PROVE  Holds(Started(q, st, a), q, st, a, q.handle, q.info)
BY DEF Holds, Started, Plugin, PL_EMPTY, PL_PAUSED, PA_NULL, PA_RELOAD

LEMMA AttachIs ==
  ASSUME NEW L \in ListState, NEW s \in Slot, NEW out
  PROVE  LET M == attach(L, s, out)
             q == L.plist[s]
         IN  /\ M.refs = L.refs
             /\ \/ /\ Edited(L, M, s, PL_FAILED, q.action, q.handle, q.info)
                   /\ M.hooked = L.hooked /\ M.errno = "attach"
                \/ /\ Edited(L, M, s, PL_RUNNING, PA_NONE, q.handle, q.info)
                   /\ Hooked(M) /\ M.errno = L.errno
<1> DEFINE q == L.plist[s]
           F == [L EXCEPT !.plist[s].status = PL_FAILED]
           B == [L EXCEPT !.errno = "attach", !.plist[s].status = PL_FAILED]
           p == Started(q, PL_RUNNING, PA_NONE)
           A == [L EXCEPT !.plist[s] = p]
           R == rebuild_hook_lists(A)
<1>1. q \in Plugin
  BY StateFields
<1>2. PL_RUNNING \in 0 .. 6 /\ PA_NONE \in 0 .. 6
  BY Codes
<1>3. Holds(p, q, PL_RUNNING, PA_NONE, q.handle, q.info)
  BY <1>1, <1>2, StartedIs, Zenon
<1>4. attach(L, s, out) = IF out = "noattach" THEN B ELSE R
  BY DEF attach, Started
<1>5. /\ Edited(L, F, s, PL_FAILED, q.action, q.handle, q.info)
      /\ F.refs = L.refs /\ F.hooked = L.hooked
  <2>1. PL_FAILED \in 0 .. 6
    BY Codes
  <2>. QED  BY <2>1, StatusIs, Zenon
<1>6. /\ B.plist = F.plist /\ B.endlist = F.endlist /\ B.refs = F.refs
      /\ B.hooked = F.hooked /\ B.errno = "attach" /\ (F \in ListState => B \in ListState)
  BY DEF ListState, Errnos
<1>. HIDE DEF p, F, B
<1>7. /\ A \in ListState /\ A.plist[s] = p
      /\ \A t \in Slot : t # s => A.plist[t] = L.plist[t]
      /\ A.endlist = L.endlist /\ A.refs = L.refs /\ A.errno = L.errno
  BY <1>3, PutIn DEF Holds
<1>. HIDE DEF A
<1>8. /\ R \in ListState /\ Hooked(R) /\ R.plist = A.plist /\ R.endlist = A.endlist
      /\ R.refs = A.refs /\ R.errno = A.errno
  BY <1>7, RebuildIs
<1>. HIDE DEF R
<1>9. Edited(L, B, s, PL_FAILED, q.action, q.handle, q.info)
  BY <1>5, <1>6 DEF Edited, Writes
<1>10. Edited(L, R, s, PL_RUNNING, PA_NONE, q.handle, q.info)
  BY <1>3, <1>7, <1>8 DEF Edited, Writes
<1>. QED  BY <1>4, <1>5, <1>6, <1>7, <1>8, <1>9, <1>10
-----------------------------------------------------------------------------
(***************************************************************************)
(* One plugin.  An operation that leaves the entry s in order and nobody   *)
(* without a loader keeps all but the hook lists; before query() the info  *)
(* of the entry may be what an unload left.                                *)
(***************************************************************************)
OthersAreOk(L, s) == \A t \in Slot \ {s} : EntryOk(L.plist[t])

LEMMA EditKeeps ==
  ASSUME NEW L, NEW M, NEW s \in Slot, NEW st, NEW act, NEW h, NEW i,
         Shared(L), OthersAreOk(L, s), Edited(L, M, s, st, act, h, i), Accounts(L, M, s),
         st >= PL_VALID => L.plist[s].status >= PL_VALID,
         st >= PL_RUNNING \/ Leaves(L, s),
         EntryOk(M.plist[s])
  PROVE  Core(M)
<1>1. Writes(L, M, s) /\ M.plist[s].status = st /\ SamePlugin(L, M, s)
  BY DEF Edited, Holds, SamePlugin
<1>2. Shared(M)
  BY <1>1, OneEntry
<1>3. \A t \in Slot : EntryOk(M.plist[t])
  BY <1>1, OthersOk DEF OthersAreOk
<1>. QED  BY <1>2, <1>3 DEF Core

LEMMA QueryKeeps ==
  ASSUME NEW L, NEW s \in Slot, NEW out, Shared(L), Hooked(L), OthersAreOk(L, s),
         L.plist[s].file \in Files, L.plist[s].status \in PL_VALID .. PL_OPENED
  PROVE  LET M == query(L, s, out)
         IN  /\ ListInv(M)
             /\ M.plist[s].action = L.plist[s].action
             /\ M.plist[s].status \in {PL_BADFILE, PL_OPENED}
             /\ \/ M.errno = "query"
                \/ M.errno = L.errno /\ M.plist[s].status = PL_OPENED
<1> DEFINE q == L.plist[s]
           M == query(L, s, out)
<1>1. /\ L \in ListState /\ q \in Plugin /\ q.status \in Int /\ L.refs \in [Files -> Int]
      /\ q.file \in Files /\ q.status >= PL_VALID /\ q.status <= PL_OPENED
  BY StateFields, EntryFields, Order DEF Shared
<1>2. /\ M.hooked = L.hooked
      /\ \/ /\ Edited(L, M, s, PL_BADFILE, q.action, NULL, NULL)
            /\ M.refs = L.refs /\ M.errno = "query"
         \/ /\ Edited(L, M, s, PL_OPENED, q.action, q.file, q.file)
            /\ M.refs = [L.refs EXCEPT ![q.file] = @ + 1] /\ M.errno = L.errno
  BY <1>1, QueryIs
<1>. HIDE DEF M
<1>3. Leaves(L, s)
  BY <1>1, Order DEF Leaves
<1>4. CASE /\ Edited(L, M, s, PL_BADFILE, q.action, NULL, NULL)
           /\ M.refs = L.refs /\ M.errno = "query"
  <2>1. /\ M.plist[s].handle = NULL /\ M.plist[s].info = NULL /\ M.plist[s].status = PL_BADFILE
        /\ M.plist[s].file = q.file /\ M.plist[s].action = q.action
        /\ Writes(L, M, s) /\ M \in ListState
    BY <1>4 DEF Edited, Holds, Writes
  <2>2. Accounts(L, M, s)
    BY <1>1, <1>4, <2>1, NullAssumption DEF Accounts, One
  <2>3. EntryOk(M.plist[s])
    BY <1>1, <2>1, Order DEF EntryOk
  <2>4. Core(M)
    BY <1>1, <1>3, <1>4, <2>2, <2>3, EditKeeps
  <2>5. Hooked(M)
    BY <1>1, <1>2, <2>1, StaysHooked, Order
  <2>6. /\ ListInv(M) /\ M.plist[s].status = PL_BADFILE /\ M.errno = "query"
        /\ M.plist[s].action = q.action
    BY <1>4, <2>1, <2>4, <2>5 DEF ListInv
  <2>. QED  BY <2>6 DEF M
<1>5. CASE /\ Edited(L, M, s, PL_OPENED, q.action, q.file, q.file)
           /\ M.refs = [L.refs EXCEPT ![q.file] = @ + 1] /\ M.errno = L.errno
  <2>1. /\ M.plist[s].handle = q.file /\ M.plist[s].info = q.file
        /\ M.plist[s].status = PL_OPENED
        /\ M.plist[s].file = q.file /\ M.plist[s].action = q.action
        /\ Writes(L, M, s) /\ M \in ListState
    BY <1>5 DEF Edited, Holds, Writes
  <2>2. Accounts(L, M, s)
    BY <1>1, <1>5, <2>1 DEF Accounts, One
  <2>3. EntryOk(M.plist[s])
    BY <1>1, <2>1, Order DEF EntryOk
  <2>4. Core(M)
    BY <1>1, <1>3, <1>5, <2>2, <2>3, EditKeeps
  <2>5. Hooked(M)
    BY <1>1, <1>2, <2>1, StaysHooked, Order
  <2>. QED  BY <1>5, <2>1, <2>4, <2>5 DEF ListInv, M
<1>. QED  BY <1>2, <1>4, <1>5 DEF M

\* Only the action or the status is written.
LEMMA ActionKeeps ==
  ASSUME NEW L, NEW s \in Slot, NEW a \in 0 .. 6, ListInv(L),
         a = PA_LOAD => L.plist[s].status < PL_RUNNING
  PROVE  LET M == [L EXCEPT !.plist[s].action = a]
         IN  /\ ListInv(M) /\ M.plist[s].action = a
             /\ M.plist[s].status = L.plist[s].status
             /\ M.errno = L.errno
<1> DEFINE q == L.plist[s]
           M == [L EXCEPT !.plist[s].action = a]
<1>1. /\ L \in ListState /\ Shared(L) /\ Hooked(L) /\ OthersAreOk(L, s) /\ EntryOk(q)
      /\ q.status \in Int
  BY StateFields, EntryFields DEF ListInv, Core, Shared, OthersAreOk
<1>2. /\ Edited(L, M, s, q.status, a, q.handle, q.info)
      /\ M.refs = L.refs /\ M.hooked = L.hooked /\ M.errno = L.errno
  BY <1>1, ActionIs
<1>. HIDE DEF M
<1>3. /\ M.plist[s].action = a /\ M.plist[s].status = q.status
      /\ M.plist[s].handle = q.handle /\ M.plist[s].info = q.info
      /\ M.plist[s].file = q.file /\ Writes(L, M, s) /\ M \in ListState
  BY <1>2 DEF Edited, Holds, Writes
<1>4. Accounts(L, M, s)
  BY <1>1, <1>2, <1>3, SameLibraries
<1>5. EntryOk(M.plist[s])
  BY <1>1, <1>3 DEF EntryOk
<1>6. q.status >= PL_RUNNING \/ Leaves(L, s)
  BY <1>1, Order DEF Leaves
<1>7. Core(M)
  BY <1>1, <1>2, <1>4, <1>5, <1>6, EditKeeps
<1>8. Hooked(M)
  BY <1>1, <1>2, <1>3, StaysHooked
<1>. QED  BY <1>2, <1>3, <1>7, <1>8 DEF ListInv, M

LEMMA PostponeKeeps ==
  ASSUME NEW L, NEW s \in Slot, NEW allowed, ListInv(L)
  PROVE  LET M == Postpone(L, s, allowed)
         IN  /\ ListInv(M)
             /\ \/ M = Fails(L, "delayed") /\ M.errno = "delayed"
                \/ M.errno = "notallowed"
<1> DEFINE A == [L EXCEPT !.plist[s].action = PA_NONE]
<1>1. PA_NONE \in 0 .. 6 /\ PA_NONE # PA_LOAD
  BY Order
<1>2. ListInv(A)
  BY <1>1, ActionKeeps
<1>. HIDE DEF A
<1>3. /\ ListInv(Fails(L, "delayed")) /\ Fails(L, "delayed").errno = "delayed"
      /\ ListInv(Fails(A, "notallowed")) /\ Fails(A, "notallowed").errno = "notallowed"
  BY <1>2, FailsKeeps DEF Errnos
<1>. QED  BY <1>3 DEF Postpone, A

LEMMA AttachKeeps ==
  ASSUME NEW L, NEW s \in Slot, NEW out, ListInv(L),
         L.plist[s].status \in {PL_OPENED, PL_FAILED}
  PROVE  ListInv(attach(L, s, out))
<1> DEFINE q == L.plist[s]
           M == attach(L, s, out)
<1>1. /\ L \in ListState /\ Shared(L) /\ Hooked(L) /\ OthersAreOk(L, s) /\ EntryOk(q)
      /\ q.status \in Int /\ q.status \in {PL_OPENED, PL_FAILED}
  BY StateFields, EntryFields DEF ListInv, Core, Shared, OthersAreOk
<1>2. /\ M.refs = L.refs
      /\ \/ /\ Edited(L, M, s, PL_FAILED, q.action, q.handle, q.info)
            /\ M.hooked = L.hooked /\ M.errno = "attach"
         \/ /\ Edited(L, M, s, PL_RUNNING, PA_NONE, q.handle, q.info)
            /\ Hooked(M) /\ M.errno = L.errno
  BY <1>1, AttachIs
<1>. HIDE DEF M
<1>3. q.status < PL_RUNNING /\ q.status >= PL_OPENED /\ q.status >= PL_VALID /\ Leaves(L, s)
  BY <1>1, Order DEF Leaves
<1>4. CASE /\ Edited(L, M, s, PL_FAILED, q.action, q.handle, q.info)
           /\ M.hooked = L.hooked /\ M.errno = "attach"
  <2>1. /\ M.plist[s].action = q.action /\ M.plist[s].status = PL_FAILED
        /\ M.plist[s].handle = q.handle /\ M.plist[s].info = q.info
        /\ M.plist[s].file = q.file /\ Writes(L, M, s)
    BY <1>4 DEF Edited, Holds
  <2>2. Accounts(L, M, s) /\ EntryOk(M.plist[s])
    BY <1>1, <1>2, <1>3, <2>1, SameLibraries, Order DEF EntryOk
  <2>3. Core(M)
    BY <1>1, <1>3, <1>4, <2>2, EditKeeps
  <2>4. Hooked(M)
    BY <1>1, <1>3, <1>4, <2>1, StaysHooked, Order
  <2>. QED  BY <2>3, <2>4 DEF ListInv, M
<1>5. CASE /\ Edited(L, M, s, PL_RUNNING, PA_NONE, q.handle, q.info)
           /\ Hooked(M) /\ M.errno = L.errno
  <2>1. /\ M.plist[s].action = PA_NONE /\ M.plist[s].status = PL_RUNNING
        /\ M.plist[s].handle = q.handle /\ M.plist[s].info = q.info
        /\ M.plist[s].file = q.file /\ Writes(L, M, s)
    BY <1>5 DEF Edited, Holds
  <2>2. Accounts(L, M, s) /\ EntryOk(M.plist[s])
    BY <1>1, <1>2, <1>3, <2>1, SameLibraries, Order DEF EntryOk
  <2>3. Core(M)
    BY <1>1, <1>3, <1>5, <2>2, EditKeeps
  <2>. QED  BY <1>5, <2>3 DEF ListInv, M
<1>. QED  BY <1>2, <1>4, <1>5 DEF M

\* load(): an entry in order, or one that a reload has just unloaded.
LEMMA LoadKeeps ==
  ASSUME NEW L, NEW s \in Slot, NEW now, NEW out,
         Shared(L), Hooked(L), OthersAreOk(L, s), L.errno = "none",
         \/ EntryOk(L.plist[s])
         \/ /\ L.plist[s].status = PL_VALID /\ L.plist[s].action = PA_LOAD
            /\ L.plist[s].file \in Files
  PROVE  ListInv(load(L, s, now, out))
<1> DEFINE p == L.plist[s]
           opened == IF p.status <= PL_OPENED THEN query(L, s, out) ELSE L
           allowed == loadable[opened.plist[s].info]
           M == load(L, s, now, out)
<1>1. /\ L \in ListState /\ p \in Plugin /\ p.status \in 0 .. 6
  BY StateFields, EntryFields DEF Shared
<1>2. M = CASE p.status < PL_VALID    -> Fails(L, "argument")
            [] p.status >= PL_RUNNING -> Fails(L, "already")
            [] p.status \in PL_VALID .. PL_FAILED ->
                 IF p.action \notin {PA_LOAD, PA_ATTACH, PA_RELOAD}
                 THEN Fails(L, "badreq")
                 ELSE IF Failed(opened) THEN opened
                 ELSE IF allowed < now THEN Postpone(opened, s, allowed)
                 ELSE attach(opened, s, out)
  BY DEF load
<1>3. /\ p.status < PL_VALID => M = Fails(L, "argument")
      /\ p.status >= PL_RUNNING => M = Fails(L, "already")
      /\ p.status >= PL_VALID /\ p.status < PL_RUNNING =>
           \/ M = Fails(L, "badreq") /\ p.action # PA_LOAD
           \/ M = opened /\ Failed(opened)
           \/ M = Postpone(opened, s, allowed) /\ ~ Failed(opened)
           \/ M = attach(opened, s, out) /\ ~ Failed(opened)
  <2>. HIDE DEF opened, allowed, M
  <2>. QED  BY <1>1, <1>2, Order
<1>4. p.status \in PL_VALID .. PL_FAILED =>
        /\ ListInv(opened)
        /\ ~ Failed(opened) => opened.plist[s].status \in {PL_OPENED, PL_FAILED}
  <2>. SUFFICES ASSUME p.status \in PL_VALID .. PL_FAILED
                PROVE  /\ ListInv(opened)
                       /\ ~ Failed(opened) => opened.plist[s].status \in {PL_OPENED, PL_FAILED}
    OBVIOUS
  <2>1. CASE p.status <= PL_OPENED
    <3>1. p.file \in Files /\ p.status \in PL_VALID .. PL_OPENED
      BY <1>1, <2>1, Order DEF EntryOk
    <3> DEFINE Q == query(L, s, out)
    <3>2. ListInv(Q) /\ (Q.errno = "query" \/ Q.plist[s].status = PL_OPENED)
      BY <3>1, QueryKeeps
    <3>. HIDE DEF Q
    <3>3. opened = Q
      BY <2>1 DEF Q
    <3>. HIDE DEF opened
    <3>. QED  BY <3>2, <3>3 DEF Failed
  <2>2. CASE ~ (p.status <= PL_OPENED)
    <3>1. opened = L /\ p.status = PL_FAILED
      BY <1>1, <2>2, Order
    <3>2. EntryOk(p)
      BY <3>1, Order
    <3>. HIDE DEF opened
    <3>. QED  BY <3>1, <3>2 DEF ListInv, Core, OthersAreOk
  <2>. QED  BY <2>1, <2>2
<1>. HIDE DEF opened, allowed, M
<1>5. EntryOk(p) => ListInv(L)
  BY DEF ListInv, Core, OthersAreOk
<1>6. EntryOk(p) => /\ ListInv(Fails(L, "argument")) /\ ListInv(Fails(L, "already"))
                    /\ ListInv(Fails(L, "badreq"))
  BY <1>5, FailsKeeps DEF Errnos
<1>7. CASE p.status < PL_VALID \/ p.status >= PL_RUNNING
  BY <1>1, <1>3, <1>6, <1>7, Order DEF M
<1>8. CASE p.status \in PL_VALID .. PL_FAILED
  <2>1. M = Fails(L, "badreq") /\ p.action # PA_LOAD => ListInv(M)
    BY <1>6
  <2>2. M = opened => ListInv(M)
    BY <1>4, <1>8
  <2>3. M = Postpone(opened, s, allowed) => ListInv(M)
    BY <1>4, <1>8, PostponeKeeps
  <2>4. M = attach(opened, s, out) /\ ~ Failed(opened) => ListInv(M)
    BY <1>4, <1>8, AttachKeeps
  <2>. QED  BY <1>1, <1>3, <1>8, <2>1, <2>2, <2>3, <2>4, Order DEF M
<1>. QED  BY <1>1, <1>7, <1>8, Order
-----------------------------------------------------------------------------
(***************************************************************************)
(* Unloading.  Closing a library takes the entry's handle along, clearing  *)
(* the entry its info; trimming takes nothing but empty entries.           *)
(***************************************************************************)
Handleless(q) == [q EXCEPT !.handle = NULL]

LEMMA HandlelessIs ==
  ASSUME NEW q \in Plugin, NULL \in Files \cup {NULL}
  PROVE  Holds(Handleless(q), q, q.status, q.action, NULL, q.info)
BY DEF Holds, Handleless, Plugin

LEMMA CloseIs ==
  ASSUME NEW L \in ListState, NEW s \in Slot
  PROVE  LET M == DLCLOSE(L, s)
             q == L.plist[s]
         IN  /\ Edited(L, M, s, q.status, q.action, NULL, q.info)
             /\ Accounts(L, M, s)
             /\ M.hooked = L.hooked /\ M.errno = L.errno
<1> DEFINE q == L.plist[s]
           h == q.handle
           p == Handleless(q)
           less == [L.refs EXCEPT ![h] = @ - 1]
           A == [L EXCEPT !.refs[h] = @ - 1, !.plist[s].handle = NULL]
           B == [L EXCEPT !.refs[h] = @ - 1, !.plist[s] = p]
           M == DLCLOSE(L, s)
<1>1. q \in Plugin /\ L.refs \in [Files -> Int] /\ h \in Files \cup {NULL} /\ L.plist[s] = q
      /\ L.plist \in [Slot -> Plugin]
  BY StateFields, EntryFields
<1>2. M = IF h = NULL THEN L ELSE A
  BY DEF DLCLOSE
<1>3. A = B
  BY DEF Handleless
<1>4. Holds(p, q, q.status, q.action, NULL, q.info)
  BY <1>1, HandlelessIs, Zenon
<1>. HIDE DEF q, p, A, M
<1>5. CASE h = NULL
  <2>1. M = L
    BY <1>2, <1>5
  <2>2. Edited(L, L, s, q.status, q.action, NULL, q.info)
    BY <1>1, <1>5 DEF Edited, Writes, Holds
  <2>3. Accounts(L, L, s)
    BY SameLibraries
  <2>. QED  BY <2>1, <2>2, <2>3 DEF M, q
<1>6. CASE h # NULL
  <2>1. h \in Files /\ less \in [Files -> Int] /\ p \in Plugin
    BY <1>1, <1>4, <1>6 DEF Holds
  <2>. HIDE DEF h
  <2>2. /\ B \in ListState /\ B.plist[s] = p /\ B.refs = less
        /\ B.hooked = L.hooked /\ B.errno = L.errno /\ B.endlist = L.endlist
        /\ \A t \in Slot : t # s => B.plist[t] = L.plist[t]
    BY <2>1 DEF ListState
  <2>3. M = B
    BY <1>2, <1>3, <1>6
  <2>. HIDE DEF B
  <2>4. Edited(L, B, s, q.status, q.action, NULL, q.info)
    BY <1>1, <1>4, <2>2 DEF Edited, Writes
  <2>5. p.handle = NULL /\ q.handle = h
    BY <1>4 DEF Holds, h
  <2>6. Accounts(L, B, s)
    BY <1>1, <2>1, <2>2, <2>5, NullAssumption DEF Accounts, One
  <2>. QED  BY <2>2, <2>3, <2>4, <2>6 DEF M, q
<1>. QED  BY <1>5, <1>6

\* What clear() leaves of an entry, before it trims the list.
Emptied(q, st, a) ==
  [q EXCEPT !.status = st, !.action = a, !.info = NULL, !.fresh = FALSE]

Blank(L, s) ==
  [DLCLOSE(L, s) EXCEPT !.plist[s] =
    [@ EXCEPT !.status = PL_EMPTY, !.action = PA_NULL, !.info = NULL, !.fresh = FALSE]]

LEMMA EmptiedIs ==
  ASSUME NEW q \in Plugin, NEW st \in 0 .. 6, NEW a \in 0 .. 6, NULL \in Files \cup {NULL}
  PROVE  Holds(Emptied(q, st, a), q, st, a, q.handle, NULL)
BY DEF Holds, Emptied, Plugin, PL_EMPTY, PL_PAUSED, PA_NULL, PA_RELOAD

LEMMA BlankIs ==
  ASSUME NEW L \in ListState, NEW s \in Slot
  PROVE  LET M == Blank(L, s)
         IN  /\ Edited(L, M, s, PL_EMPTY, PA_NULL, NULL, NULL)
             /\ Accounts(L, M, s)
             /\ M.hooked = L.hooked /\ M.errno = L.errno
<1> DEFINE C == DLCLOSE(L, s)
           q == C.plist[s]
           p == Emptied(q, PL_EMPTY, PA_NULL)
           M == [C EXCEPT !.plist[s] = p]
<1>1. /\ Edited(L, C, s, L.plist[s].status, L.plist[s].action, NULL, L.plist[s].info)
      /\ Accounts(L, C, s) /\ C.hooked = L.hooked /\ C.errno = L.errno
  BY CloseIs
<1>2. Blank(L, s) = M
  BY DEF Blank, Emptied
<1>. HIDE DEF C
<1>3. /\ C \in ListState /\ q \in Plugin /\ q.handle = NULL /\ q.file = L.plist[s].file
      /\ q.source_plugin_index = L.plist[s].source_plugin_index
      /\ q.pfspecific = L.plist[s].pfspecific
      /\ \A t \in Slot : t # s => C.plist[t] = L.plist[t]
      /\ C.endlist = L.endlist
  BY <1>1 DEF Edited, Writes, Holds
<1>c. PL_EMPTY \in 0 .. 6 /\ PA_NULL \in 0 .. 6 /\ NULL \in Files \cup {NULL}
  BY Codes
<1>. HIDE DEF q
<1>4. Holds(p, q, PL_EMPTY, PA_NULL, q.handle, NULL)
  BY <1>3, <1>c, EmptiedIs, Zenon
<1>5. p \in Plugin
  BY <1>4 DEF Holds
<1>. HIDE DEF p
<1>6. /\ M \in ListState /\ M.plist[s] = p
      /\ \A t \in Slot : t # s => M.plist[t] = C.plist[t]
      /\ M.endlist = C.endlist /\ M.refs = C.refs /\ M.hooked = C.hooked
      /\ M.errno = C.errno
  BY <1>3, <1>5, PutIn
<1>. HIDE DEF M
<1>7. Edited(L, M, s, PL_EMPTY, PA_NULL, NULL, NULL)
  BY <1>3, <1>4, <1>6 DEF Edited, Writes, Holds
<1>8. Accounts(L, M, s)
  BY <1>1, <1>3, <1>4, <1>6 DEF Accounts, Holds, q
<1>. QED  BY <1>1, <1>2, <1>6, <1>7, <1>8

LEMMA TrimIs ==
  ASSUME NEW L \in ListState
  PROVE  LET M == trim_list(L)
         IN  /\ M \in ListState /\ M.plist = L.plist /\ M.refs = L.refs
             /\ M.hooked = L.hooked /\ M.errno = L.errno /\ M.endlist <= L.endlist
             /\ \A t \in 1 .. L.endlist : L.plist[t].status # PL_EMPTY => t <= M.endlist
<1> DEFINE used == {t \in 1 .. L.endlist : L.plist[t].status # PL_EMPTY}
           Fits == {n \in 0 .. L.endlist : used \subseteq 1 .. n}
           End == CHOOSE n \in 0 .. L.endlist : used \subseteq 1 .. n /\ (n = 0 \/ n \in used)
           M == [L EXCEPT !.endlist = End]
<1>1. L.endlist \in 0 .. MaxPlugins /\ MaxPlugins \in Nat
  BY StateFields, SlotIs
<1>2. L.endlist \in Fits /\ Fits \in SUBSET Nat
  BY <1>1
<1>3. Least(Fits) \in Fits /\ \A n \in Fits : Least(Fits) <= n
  <2>. HIDE DEF Fits
  <2>. QED  BY <1>2, LeastIs
<1>4. Least(Fits) = 0 \/ Least(Fits) \in used
  <2>. SUFFICES ASSUME Least(Fits) # 0, Least(Fits) \notin used  PROVE FALSE
    OBVIOUS
  <2>1. Least(Fits) \in Nat /\ Least(Fits) <= L.endlist /\ used \subseteq 1 .. Least(Fits)
    BY <1>1, <1>3
  <2>. HIDE DEF used
  <2>2. used \subseteq 1 .. (Least(Fits) - 1)
    <3>1. PICK m \in Nat : m = Least(Fits)
      BY <2>1
    <3>2. m \notin used /\ \A t \in used : t \in Nat /\ 1 <= t /\ t <= m
      BY <2>1, <3>1
    <3>3. \A t \in used : t \in 1 .. m - 1
      BY <3>2
    <3>. QED  BY <3>1, <3>3
  <2>3. Least(Fits) - 1 \in Fits
    BY <1>1, <2>1, <2>2
  <2>. QED  BY <1>3, <2>1, <2>3
<1>5. \E n \in 0 .. L.endlist : used \subseteq 1 .. n /\ (n = 0 \/ n \in used)
  BY <1>3, <1>4
<1>6. End \in 0 .. L.endlist /\ used \subseteq 1 .. End
  <2>. HIDE DEF used
  <2>. QED  BY <1>5
<1>7. trim_list(L) = M
  BY DEF trim_list
<1>. HIDE DEF End, Fits
<1>8. /\ M \in ListState /\ M.plist = L.plist /\ M.refs = L.refs
      /\ M.hooked = L.hooked /\ M.errno = L.errno /\ M.endlist = End
  BY <1>1, <1>6 DEF ListState
<1>9. \A t \in 1 .. L.endlist : L.plist[t].status # PL_EMPTY => t <= End
  BY <1>1, <1>6
<1>. HIDE DEF M
<1>. QED  BY <1>1, <1>6, <1>7, <1>8, <1>9

LEMMA TrimKeeps ==
  ASSUME NEW L, Core(L)
  PROVE  Core(trim_list(L)) /\ (Hooked(L) => Hooked(trim_list(L)))
         /\ trim_list(L).errno = L.errno
<1> DEFINE M == trim_list(L)
<1>1. /\ L \in ListState /\ Shared(L) /\ L.endlist \in 0 .. MaxPlugins /\ MaxPlugins \in Nat
      /\ \A t \in Slot : L.plist[t].status \in 0 .. 6
  BY StateFields, EntryFields, SlotIs DEF Core, Shared
<1>2. /\ M \in ListState /\ M.plist = L.plist /\ M.refs = L.refs
      /\ M.hooked = L.hooked /\ M.errno = L.errno /\ M.endlist <= L.endlist
      /\ \A t \in 1 .. L.endlist : L.plist[t].status # PL_EMPTY => t <= M.endlist
  BY <1>1, TrimIs
<1>. HIDE DEF M
<1>3. M.endlist \in 0 .. MaxPlugins /\ 1 .. L.endlist \subseteq Slot
  BY <1>1, <1>2, StateFields, SlotIs
<1>4. \A t \in Slot : t \in Listed(M) <=> t \in Listed(L)
  BY <1>1, <1>2, <1>3, ListedIs, SlotIs, Order
<1>5. Listed(M) = Listed(L)
  BY <1>1, <1>2, <1>4, ListedIs
<1>6. Unique(M) /\ Counted(M)
  BY <1>1, <1>2, <1>5 DEF Unique, Counted, Shared
<1>7. Loaders(M)
  <2>. SUFFICES ASSUME NEW t \in Slot, NEW u \in 1 .. MaxPlugins, HasLoader(M, t, u)
                PROVE  u <= M.endlist /\ M.plist[u].status >= PL_RUNNING
    BY DEF Loaders
  <2>1. HasLoader(L, t, u)
    BY <1>2, <1>5 DEF HasLoader
  <2>2. u <= L.endlist /\ L.plist[u].status >= PL_RUNNING
    BY <1>1, <2>1 DEF Shared, Loaders
  <2>3. L.plist[u].status # PL_EMPTY /\ u \in 1 .. L.endlist
    BY <1>1, <2>2, SlotIs, Order
  <2>. QED  BY <1>2, <2>2, <2>3
<1>8. Hooked(L) => Hooked(M)
  <2>. SUFFICES ASSUME Hooked(L), M.hooked # NULL  PROVE Hooked(M)
    BY DEF Hooked
  <2>1. L.hooked = {t \in 1 .. L.endlist : L.plist[t].status = PL_RUNNING}
    BY <1>2 DEF Hooked, RunningSlots
  <2>2. \A t \in 1 .. L.endlist : L.plist[t].status = PL_RUNNING => t <= M.endlist
    BY <1>2, Order
  <2>3. {t \in 1 .. L.endlist : L.plist[t].status = PL_RUNNING}
          = {t \in 1 .. M.endlist : L.plist[t].status = PL_RUNNING}
    BY <1>1, <1>2, <1>3, <2>2
  <2>. QED  BY <1>2, <2>1, <2>3 DEF Hooked, RunningSlots
<1>9. \A t \in Slot : EntryOk(M.plist[t])
  BY <1>2 DEF Core
<1>. QED  BY <1>2, <1>6, <1>7, <1>8, <1>9 DEF M, Core, Shared
-----------------------------------------------------------------------------
LEMMA ClearKeeps ==
  ASSUME NEW L, NEW s \in Slot, ListInv(L)
  PROVE  ListInv(clear(L, s))
<1> DEFINE B == Blank(L, s)
<1>1. /\ L \in ListState /\ Shared(L) /\ Hooked(L) /\ OthersAreOk(L, s)
      /\ L.plist[s].status \in 0 .. 6
  BY StateFields, EntryFields DEF ListInv, Core, Shared, OthersAreOk
<1>2. clear(L, s) = IF L.plist[s].status \notin {PL_FAILED, PL_BADFILE, PL_EMPTY, PL_OPENED}
                    THEN Fails(L, "badreq") ELSE trim_list(B)
  BY DEF clear, Blank
<1>3. ListInv(Fails(L, "badreq"))
  BY FailsKeeps DEF Errnos
<1>4. ASSUME L.plist[s].status \in {PL_FAILED, PL_BADFILE, PL_EMPTY, PL_OPENED}
      PROVE  ListInv(trim_list(B))
  <2>1. /\ Edited(L, B, s, PL_EMPTY, PA_NULL, NULL, NULL)
        /\ Accounts(L, B, s) /\ B.hooked = L.hooked
    BY <1>1, BlankIs
  <2>. HIDE DEF B
  <2>2. Writes(L, B, s) /\ B.plist[s].status = PL_EMPTY /\ EntryOk(B.plist[s])
    BY <2>1, Order DEF Edited, Holds, EntryOk
  <2>3. Leaves(L, s) /\ L.plist[s].status # PL_RUNNING
    BY <1>1, <1>4, Order DEF Leaves
  <2>4. ~ (PL_EMPTY >= PL_VALID) /\ PL_EMPTY # PL_RUNNING
    BY Order
  <2>5. Core(B)
    BY <1>1, <2>1, <2>2, <2>3, <2>4, EditKeeps
  <2>6. Hooked(B)
    BY <1>1, <2>1, <2>2, <2>3, <2>4, StaysHooked
  <2>. QED  BY <2>5, <2>6, TrimKeeps DEF ListInv
<1>. QED  BY <1>2, <1>3, <1>4

\* clear_source_plugin_index(): afterwards nobody names s.
LEMMA OrphanKeeps ==
  ASSUME NEW L, NEW s \in Slot, ListInv(L)
  PROVE  LET M == clear_source_plugin_index(L, s)
         IN  /\ ListInv(M) /\ M.errno = L.errno /\ \A t \in Slot : ~ HasLoader(M, t, s)
             /\ M.plist[s].status = L.plist[s].status
             /\ M.plist[s].file = L.plist[s].file
<1> DEFINE M == clear_source_plugin_index(L, s)
           Q == [t \in Slot |->
                  IF t \in Listed(L) /\ L.plist[t].source_plugin_index = s
                  THEN [L.plist[t] EXCEPT !.source_plugin_index = -1] ELSE L.plist[t]]
<1>1. /\ L \in ListState /\ L.plist \in [Slot -> Plugin] /\ Shared(L) /\ Hooked(L)
      /\ s \in Int /\ L.endlist \in 0 .. MaxPlugins
      /\ MaxPlugins \in Nat /\ s # -1 /\ 1 .. L.endlist \subseteq Slot
  BY StateFields, SlotIs DEF ListInv, Core, Shared
<1>2. M = [L EXCEPT !.plist = Q]
  BY DEF clear_source_plugin_index
<1>3. ASSUME NEW t \in Slot
      PROVE  /\ Q[t] \in Plugin
             /\ Q[t].status = L.plist[t].status /\ Q[t].action = L.plist[t].action
             /\ Q[t].file = L.plist[t].file /\ Q[t].handle = L.plist[t].handle
             /\ Q[t].info = L.plist[t].info
             /\ Q[t].source_plugin_index =
                  IF t \in Listed(L) /\ L.plist[t].source_plugin_index = s
                  THEN -1 ELSE L.plist[t].source_plugin_index
  <2> DEFINE q == L.plist[t]
             p == [q EXCEPT !.source_plugin_index = -1]
  <2>1. q \in Plugin
    BY <1>1
  <2>2. /\ p \in Plugin /\ p.status = q.status /\ p.action = q.action /\ p.file = q.file
        /\ p.handle = q.handle /\ p.info = q.info /\ p.source_plugin_index = -1
    BY <1>1, <2>1 DEF Plugin
  <2>3. Q[t] = IF t \in Listed(L) /\ q.source_plugin_index = s THEN p ELSE q
    OBVIOUS
  <2>. HIDE DEF p, Q
  <2>. QED  BY <2>1, <2>2, <2>3
<1>4. Q \in [Slot -> Plugin]
  BY <1>3
<1>. HIDE DEF Q, M
<1>5. /\ M \in ListState /\ M.plist = Q /\ M.refs = L.refs /\ M.endlist = L.endlist
      /\ M.hooked = L.hooked /\ M.errno = L.errno
  BY <1>1, <1>2, <1>4 DEF ListState
<1>6. \A t \in Slot : t \in Listed(M) <=> t \in Listed(L)
  BY <1>1, <1>3, <1>5, ListedIs
<1>7. Unique(M)
  <2>1. \A t \in Listed(M) : t \in Slot /\ t \in Listed(L) /\ M.plist[t].file = L.plist[t].file
    BY <1>3, <1>5, <1>6, ListedIs
  <2>. QED  BY <1>1, <2>1 DEF Unique, Shared
<1>8. Counted(M)
  <2>1. \A f \in Files : Users(M.plist, f) = Users(L.plist, f)
    BY <1>3, <1>5 DEF Users
  <2>. QED  BY <1>1, <1>5, <2>1 DEF Counted, Shared
<1>9. \A t, u \in Slot : HasLoader(M, t, u) => u # s /\ HasLoader(L, t, u)
  BY <1>1, <1>3, <1>5, <1>6, SlotIs DEF HasLoader
<1>10. Loaders(M)
  <2>. SUFFICES ASSUME NEW t \in Slot, NEW u \in 1 .. MaxPlugins, HasLoader(M, t, u)
                PROVE  u <= M.endlist /\ M.plist[u].status >= PL_RUNNING
    BY DEF Loaders
  <2>1. HasLoader(L, t, u) /\ u \in Slot
    BY <1>9, SlotIs
  <2>2. u <= L.endlist /\ L.plist[u].status >= PL_RUNNING
    BY <1>1, <2>1 DEF Shared, Loaders
  <2>. QED  BY <1>3, <1>5, <2>1, <2>2
<1>11. \A t \in Slot : EntryOk(M.plist[t])
  <2>. SUFFICES ASSUME NEW t \in Slot  PROVE EntryOk(M.plist[t])
    OBVIOUS
  <2>1. EntryOk(L.plist[t])
    BY DEF ListInv, Core
  <2>. QED  BY <1>3, <1>5, <2>1 DEF EntryOk
<1>12. Hooked(M)
  <2>1. \A t \in 1 .. L.endlist : M.plist[t].status = L.plist[t].status
    BY <1>1, <1>3, <1>5
  <2>. QED  BY <1>1, <1>5, <2>1 DEF Hooked, RunningSlots
<1>13. ListInv(M)
  BY <1>5, <1>7, <1>8, <1>10, <1>11, <1>12 DEF ListInv, Core, Shared
<1>. QED  BY <1>3, <1>5, <1>9, <1>13 DEF M

LEMMA EditThen ==
  ASSUME NEW L \in ListState, NEW M \in ListState, NEW N, NEW s \in Slot,
         NEW st, NEW act, NEW h, NEW i, NEW st2, NEW act2, NEW h2, NEW i2,
         Edited(L, M, s, st, act, h, i), Edited(M, N, s, st2, act2, h2, i2)
  PROVE  /\ Edited(L, N, s, st2, act2, h2, i2)
         /\ Accounts(L, M, s) /\ Accounts(M, N, s) => Accounts(L, N, s)
<1>1. Edited(L, N, s, st2, act2, h2, i2)
  BY DEF Edited, Writes, Holds
<1>2. ASSUME Accounts(L, M, s), Accounts(M, N, s)  PROVE Accounts(L, N, s)
  <2>1. N \in ListState
    BY DEF Edited, Writes
  <2>. SUFFICES ASSUME NEW f \in Files
                PROVE  N.refs[f] >= L.refs[f] + One(N.plist[s].handle, f)
                                              - One(L.plist[s].handle, f)
    BY DEF Accounts
  <2>2. L.refs[f] \in Int /\ M.refs[f] \in Int /\ N.refs[f] \in Int
    BY <2>1, StateFields
  <2>3. /\ One(N.plist[s].handle, f) \in Int /\ One(M.plist[s].handle, f) \in Int
        /\ One(L.plist[s].handle, f) \in Int
    BY DEF One
  <2>4. /\ N.refs[f] >= M.refs[f] + One(N.plist[s].handle, f) - One(M.plist[s].handle, f)
        /\ M.refs[f] >= L.refs[f] + One(M.plist[s].handle, f) - One(L.plist[s].handle, f)
    BY <1>2 DEF Accounts
  <2>. QED  BY <2>2, <2>3, <2>4
<1>. QED  BY <1>1, <1>2

Ready(q, st, a) == [q EXCEPT !.status = st, !.action = a]

LEMMA ReadyIs ==
  ASSUME NEW q \in Plugin, NEW st \in 0 .. 6, NEW a \in 0 .. 6
  PROVE  Holds(Ready(q, st, a), q, st, a, q.handle, q.info)
BY DEF Holds, Ready, Plugin, PL_EMPTY, PL_PAUSED, PA_NULL, PA_RELOAD

\* The tail of unload(), for an unload.
LEMMA DetachedUnloaded ==
  ASSUME NEW L, NEW s \in Slot, ListInv(L), L.plist[s].action = PA_UNLOAD
  PROVE  ListInv(Detached(L, s)) /\ Detached(L, s).errno = L.errno
<1> DEFINE D == clear_source_plugin_index(L, s)
           C == DLCLOSE(D, s)
           X == [C EXCEPT !.plist[s].status = PL_EMPTY]
           B == Blank(X, s)
           T == trim_list(B)
<1>1. /\ ListInv(D) /\ D.errno = L.errno /\ \A t \in Slot : ~ HasLoader(D, t, s)
  BY OrphanKeeps
<1>2. Detached(L, s) = rebuild_hook_lists(clear(X, s))
  BY DEF Detached
<1>. HIDE DEF D
<1>3. D \in ListState /\ Shared(D) /\ OthersAreOk(D, s) /\ Leaves(D, s)
  BY <1>1 DEF ListInv, Core, Shared, OthersAreOk, Leaves
<1>4. /\ Edited(D, C, s, D.plist[s].status, D.plist[s].action, NULL, D.plist[s].info)
      /\ Accounts(D, C, s) /\ C.errno = D.errno
  BY <1>3, CloseIs
<1>. HIDE DEF C
<1>5. C \in ListState
  BY <1>4 DEF Edited, Writes
<1>6. /\ Edited(C, X, s, PL_EMPTY, C.plist[s].action, C.plist[s].handle, C.plist[s].info)
      /\ X.refs = C.refs /\ X.errno = C.errno
  <2>1. PL_EMPTY \in 0 .. 6
    BY Codes
  <2>. QED  BY <1>5, <2>1, StatusIs, Zenon
<1>. HIDE DEF X
<1>7. X \in ListState /\ X.plist[s].status = PL_EMPTY /\ X.plist[s].handle = C.plist[s].handle
  BY <1>6 DEF Edited, Writes, Holds
<1>8. Accounts(C, X, s)
  BY <1>5, <1>6, <1>7, SameLibraries
<1>9. clear(X, s) = T
  BY <1>7 DEF clear, Blank
<1>10. /\ Edited(X, B, s, PL_EMPTY, PA_NULL, NULL, NULL)
       /\ Accounts(X, B, s) /\ B.errno = X.errno
  BY <1>7, BlankIs
<1>. HIDE DEF B
<1>11. /\ Edited(D, X, s, PL_EMPTY, C.plist[s].action, C.plist[s].handle, C.plist[s].info)
       /\ Accounts(D, X, s)
  BY <1>3, <1>4, <1>5, <1>6, <1>8, EditThen
<1>12. Edited(D, B, s, PL_EMPTY, PA_NULL, NULL, NULL) /\ Accounts(D, B, s)
  BY <1>3, <1>7, <1>10, <1>11, EditThen
<1>13. EntryOk(B.plist[s])
  BY <1>10, Order DEF Edited, Holds, EntryOk
<1>14. ~ (PL_EMPTY >= PL_VALID)
  BY Order
<1>15. Core(B)
  BY <1>3, <1>12, <1>13, <1>14, EditKeeps
<1>16. Core(T) /\ T.errno = B.errno
  BY <1>15, TrimKeeps
<1>. HIDE DEF T
<1> DEFINE R == rebuild_hook_lists(T)
<1>17. /\ R \in ListState /\ Hooked(R) /\ R.plist = T.plist /\ R.endlist = T.endlist
       /\ R.refs = T.refs /\ R.errno = T.errno
  BY <1>16, RebuildIs DEF Core, Shared
<1>18. Detached(L, s) = R
  BY <1>2, <1>9
<1>. HIDE DEF R
<1>19. Core(R)
  BY <1>16, <1>17, SameLists DEF Core, Shared
<1>. QED  BY <1>1, <1>4, <1>6, <1>10, <1>16, <1>17, <1>18, <1>19 DEF ListInv

\* The same for a reload: the entry is ready to be loaded again.
LEMMA DetachedReloaded ==
  ASSUME NEW L, NEW s \in Slot, ListInv(L), L.plist[s].action # PA_UNLOAD,
         L.plist[s].status >= PL_VALID
  PROVE  LET M == Detached(L, s)
         IN  /\ Shared(M) /\ Hooked(M) /\ OthersAreOk(M, s) /\ M.errno = L.errno
             /\ M.plist[s].status = PL_VALID /\ M.plist[s].action = PA_LOAD
             /\ M.plist[s].file \in Files /\ M.plist[s].file = L.plist[s].file
<1> DEFINE D == clear_source_plugin_index(L, s)
           C == DLCLOSE(D, s)
           p == Ready(C.plist[s], PL_VALID, PA_LOAD)
           V == [C EXCEPT !.plist[s] = p]
           R == rebuild_hook_lists(V)
<1>1. /\ ListInv(D) /\ D.errno = L.errno /\ \A t \in Slot : ~ HasLoader(D, t, s)
      /\ D.plist[s].status = L.plist[s].status /\ D.plist[s].file = L.plist[s].file
  BY OrphanKeeps
<1>2. Detached(L, s) = R
  BY DEF Detached, Ready
<1>. HIDE DEF D
<1>3. /\ D \in ListState /\ Shared(D) /\ OthersAreOk(D, s) /\ Leaves(D, s)
      /\ D.plist[s].status >= PL_VALID /\ D.plist[s].file \in Files
  BY <1>1 DEF ListInv, Core, Shared, OthersAreOk, Leaves, EntryOk
<1>4. /\ Edited(D, C, s, D.plist[s].status, D.plist[s].action, NULL, D.plist[s].info)
      /\ Accounts(D, C, s) /\ C.errno = D.errno
  BY <1>3, CloseIs
<1>. HIDE DEF C
<1>5. C \in ListState /\ C.plist[s] \in Plugin /\ C.plist[s].file = D.plist[s].file
  BY <1>4 DEF Edited, Writes, Holds
<1>6. PL_VALID \in 0 .. 6 /\ PA_LOAD \in 0 .. 6
  BY Codes
<1>7. Holds(p, C.plist[s], PL_VALID, PA_LOAD, C.plist[s].handle, C.plist[s].info)
  BY <1>5, <1>6, ReadyIs, Zenon
<1>8. p \in Plugin
  BY <1>7 DEF Holds
<1>. HIDE DEF p
<1>9. /\ V \in ListState /\ V.plist[s] = p
      /\ \A t \in Slot : t # s => V.plist[t] = C.plist[t]
      /\ V.endlist = C.endlist /\ V.refs = C.refs /\ V.errno = C.errno
  BY <1>5, <1>8, PutIn
<1>. HIDE DEF V
<1>10. Edited(C, V, s, PL_VALID, PA_LOAD, C.plist[s].handle, C.plist[s].info)
  BY <1>7, <1>9 DEF Edited, Writes
<1>11. Accounts(C, V, s)
  BY <1>5, <1>7, <1>9, SameLibraries DEF Holds
<1>12. /\ Edited(D, V, s, PL_VALID, PA_LOAD, C.plist[s].handle, C.plist[s].info)
       /\ Accounts(D, V, s)
  BY <1>3, <1>4, <1>5, <1>10, <1>11, EditThen
<1>13. Writes(D, V, s) /\ SamePlugin(D, V, s) /\ V.plist[s].status = PL_VALID
       /\ V.plist[s].action = PA_LOAD /\ V.plist[s].file \in Files
       /\ V.plist[s].file = L.plist[s].file
  BY <1>1, <1>3, <1>12 DEF Edited, Holds, SamePlugin
<1>14. Shared(V)
  BY <1>3, <1>12, <1>13, OneEntry
<1>15. OthersAreOk(V, s)
  BY <1>3, <1>13 DEF OthersAreOk, Writes
<1>16. /\ R \in ListState /\ Hooked(R) /\ R.plist = V.plist /\ R.endlist = V.endlist
       /\ R.refs = V.refs /\ R.errno = V.errno
  BY <1>9, RebuildIs
<1>. HIDE DEF R
<1>17. Shared(R)
  BY <1>9, <1>14, <1>16, SameLists
<1>18. OthersAreOk(R, s)
  BY <1>15, <1>16 DEF OthersAreOk
<1>. QED  BY <1>1, <1>2, <1>4, <1>9, <1>13, <1>16, <1>17, <1>18
-----------------------------------------------------------------------------
(***************************************************************************)
(* The operations on one plugin.                                           *)
(***************************************************************************)
LEMMA UnloadKeeps ==
  ASSUME NEW L, NEW s \in Slot, NEW now, NEW reason, NEW out,
         ListInv(L), L.plist[s].action = PA_UNLOAD
  PROVE  LET M == unload(L, s, now, reason, out)
         IN  ListInv(M) /\ (M = Fails(L, "delayed") \/ M.errno # "delayed" \/ L.errno = "delayed")
<1> DEFINE p == L.plist[s]
           M == unload(L, s, now, reason, out)
<1>1. \/ M = Fails(L, "argument") \/ M = Fails(L, "already") \/ M = Fails(L, "badreq")
      \/ M = Fails(L, "detach") \/ M = Postpone(L, s, unloadable[p.info])
      \/ M = Detached(L, s)
  BY DEF unload
<1>2. /\ ListInv(Fails(L, "argument")) /\ Fails(L, "argument").errno = "argument"
      /\ ListInv(Fails(L, "already")) /\ Fails(L, "already").errno = "already"
      /\ ListInv(Fails(L, "badreq")) /\ Fails(L, "badreq").errno = "badreq"
      /\ ListInv(Fails(L, "detach")) /\ Fails(L, "detach").errno = "detach"
  BY FailsKeeps DEF Errnos
<1>3. LET P == Postpone(L, s, unloadable[p.info])
      IN  ListInv(P) /\ (P = Fails(L, "delayed") \/ P.errno = "notallowed")
  BY PostponeKeeps
<1>4. ListInv(Detached(L, s)) /\ Detached(L, s).errno = L.errno
  BY DetachedUnloaded
<1>. HIDE DEF M
<1>5. ListInv(M) /\ (M = Fails(L, "delayed") \/ M.errno # "delayed" \/ L.errno = "delayed")
  BY <1>1, <1>2, <1>3, <1>4
<1>. QED  BY <1>5 DEF M

LEMMA ReloadKeeps ==
  ASSUME NEW L, NEW s \in Slot, NEW now, NEW reason, NEW out,
         ListInv(L), L.plist[s].action = PA_RELOAD, L.errno = "none"
  PROVE  ListInv(reload(L, s, now, reason, out))
<1> DEFINE p == L.plist[s]
           why == IF p.status < PL_RUNNING THEN "reload" ELSE reason
           U == unload(L, s, now, why, out)
           M == reload(L, s, now, reason, out)
<1>1. \/ M = Fails(L, "argument")
      \/ p.status >= PL_VALID /\ M = Postpone(L, s, loadable[p.info])
      \/ p.status >= PL_VALID /\ M = U /\ Failed(U)
      \/ p.status >= PL_VALID /\ M = load(U, s, now, out) /\ ~ Failed(U)
  <2>1. p.status \in Int
    BY StateFields, EntryFields DEF ListInv, Core, Shared
  <2>2. M = IF p.status < PL_VALID THEN Fails(L, "argument")
            ELSE IF p.info # NULL /\ loadable[p.info] < now
            THEN Postpone(L, s, loadable[p.info])
            ELSE IF Failed(U) THEN U ELSE load(U, s, now, out)
    BY DEF reload
  <2>. HIDE DEF M, U
  <2>. QED  BY <2>1, <2>2, Order
<1>2. \/ U = Fails(L, "argument") \/ U = Fails(L, "already") \/ U = Fails(L, "badreq")
      \/ U = Fails(L, "detach") \/ U = Postpone(L, s, unloadable[p.info])
      \/ U = Detached(L, s)
  BY DEF unload
<1>3. /\ ListInv(Fails(L, "argument")) /\ Fails(L, "argument").errno = "argument"
      /\ ListInv(Fails(L, "already")) /\ Fails(L, "already").errno = "already"
      /\ ListInv(Fails(L, "badreq")) /\ Fails(L, "badreq").errno = "badreq"
      /\ ListInv(Fails(L, "detach")) /\ Fails(L, "detach").errno = "detach"
      /\ Fails(L, "delayed").errno = "delayed"
  BY FailsKeeps DEF Errnos
<1>4. \A allowed : LET P == Postpone(L, s, allowed)
                   IN  ListInv(P) /\ (P = Fails(L, "delayed") \/ P.errno = "notallowed")
  BY PostponeKeeps
<1>. HIDE DEF U, M
<1>5. Failed(U) => ListInv(U) \/ U = Detached(L, s)
  BY <1>2, <1>3, <1>4
<1>6. ~ Failed(U) => U = Detached(L, s)
  BY <1>2, <1>3, <1>4 DEF Failed
<1>7. ASSUME p.status >= PL_VALID, U = Detached(L, s)
      PROVE  ~ Failed(U) /\ ListInv(load(U, s, now, out))
  <2>1. p.action # PA_UNLOAD
    BY Order
  <2>2. /\ Shared(U) /\ Hooked(U) /\ OthersAreOk(U, s) /\ U.errno = L.errno
        /\ U.plist[s].status = PL_VALID /\ U.plist[s].action = PA_LOAD
        /\ U.plist[s].file \in Files
    BY <1>7, <2>1, DetachedReloaded
  <2>. QED  BY <2>2, LoadKeeps DEF Failed
<1>. QED  BY <1>1, <1>3, <1>4, <1>5, <1>6, <1>7 DEF M

LEMMA RetryKeeps ==
  ASSUME NEW L, NEW s \in Slot, NEW now, NEW reason, NEW out, ListInv(L), L.errno = "none"
  PROVE  ListInv(retry(L, s, now, reason, out))
<1> DEFINE p == L.plist[s]
<1>1. /\ Shared(L) /\ Hooked(L) /\ OthersAreOk(L, s) /\ EntryOk(p)
  BY DEF ListInv, Core, OthersAreOk
<1>2. ListInv(load(L, s, now, out))
  BY <1>1, LoadKeeps
<1>3. p.action = PA_UNLOAD => ListInv(unload(L, s, now, reason, out))
  BY UnloadKeeps
<1>4. p.action = PA_RELOAD => ListInv(reload(L, s, now, reason, out))
  BY ReloadKeeps
<1>5. ListInv(Fails(L, "badreq"))
  BY FailsKeeps DEF Errnos
<1>. QED  BY <1>2, <1>3, <1>4, <1>5, Order DEF retry

\* pause(), unpause(): the status is written and the hook lists rebuilt.
LEMMA SwitchKeeps ==
  ASSUME NEW L, NEW s \in Slot, NEW st \in 0 .. 6, ListInv(L),
         L.plist[s].status >= PL_RUNNING, st >= PL_RUNNING
  PROVE  ListInv(rebuild_hook_lists([L EXCEPT !.plist[s].status = st]))
<1> DEFINE q == L.plist[s]
           M == [L EXCEPT !.plist[s].status = st]
           R == rebuild_hook_lists(M)
<1>1. /\ L \in ListState /\ Shared(L) /\ OthersAreOk(L, s) /\ EntryOk(q)
      /\ q.status \in Int
  BY StateFields, EntryFields DEF ListInv, Core, Shared, OthersAreOk
<1>2. Edited(L, M, s, st, q.action, q.handle, q.info) /\ M.refs = L.refs
  BY <1>1, StatusIs
<1>. HIDE DEF M
<1>3. /\ M.plist[s].action = q.action /\ M.plist[s].status = st
      /\ M.plist[s].handle = q.handle /\ M.plist[s].info = q.info
      /\ M.plist[s].file = q.file /\ M \in ListState
  BY <1>2 DEF Edited, Holds, Writes
<1>4. Accounts(L, M, s)
  BY <1>1, <1>2, <1>3, SameLibraries
<1>5. EntryOk(M.plist[s])
  BY <1>1, <1>3, Order DEF EntryOk
<1>6. L.plist[s].status >= PL_VALID
  BY <1>1, Order
<1>7. Core(M)
  BY <1>1, <1>2, <1>4, <1>5, <1>6, EditKeeps
<1>8. /\ R \in ListState /\ Hooked(R) /\ R.plist = M.plist /\ R.endlist = M.endlist
      /\ R.refs = M.refs
  BY <1>3, RebuildIs
<1>. HIDE DEF R
<1>9. Core(R)
  BY <1>3, <1>7, <1>8, SameLists
<1>. QED  BY <1>8, <1>9 DEF ListInv, R, M

LEMMA PauseKeeps ==
  ASSUME NEW L, NEW s \in Slot, ListInv(L)
  PROVE  ListInv(pause(L, s)) /\ ListInv(unpause(L, s))
<1> DEFINE A == [L EXCEPT !.plist[s].action = PA_NONE]
<1>1. PA_NONE \in 0 .. 6 /\ PA_NONE # PA_LOAD /\ PL_RUNNING \in 0 .. 6 /\ PL_PAUSED \in 0 .. 6
      /\ PL_RUNNING >= PL_RUNNING /\ PL_PAUSED >= PL_RUNNING
  BY Order
<1>2. ListInv(A)
  BY <1>1, ActionKeeps
<1>. HIDE DEF A
<1>3. ListInv(Fails(A, "notallowed")) /\ ListInv(Fails(L, "badreq"))
  BY <1>2, FailsKeeps DEF Errnos
<1>4. L.plist[s].status = PL_RUNNING =>
        ListInv(rebuild_hook_lists([L EXCEPT !.plist[s].status = PL_PAUSED]))
  BY <1>1, SwitchKeeps
<1>5. L.plist[s].status = PL_PAUSED =>
        ListInv(rebuild_hook_lists([L EXCEPT !.plist[s].status = PL_RUNNING]))
  BY <1>1, SwitchKeeps
<1>. QED  BY <1>3, <1>4, <1>5 DEF pause, unpause, A
-----------------------------------------------------------------------------
(***************************************************************************)
(* New entries.                                                            *)
(***************************************************************************)
LEMMA FreeSlotIs ==
  ASSUME NEW L \in ListState
  PROVE  /\ FreeSlot(L) \in 1 .. L.endlist + 1
         /\ FreeSlot(L) <= L.endlist => L.plist[FreeSlot(L)].status < PL_VALID
<1> DEFINE S == {i \in 1 .. L.endlist : ~ Valid(L, i)} \cup {L.endlist + 1}
<1>1. L.endlist \in Nat /\ 1 .. L.endlist \subseteq Slot
  BY StateFields, SlotIs
<1>2. S \in SUBSET Nat /\ S # {}
  BY <1>1
<1>3. Least(S) \in S
  <2>. HIDE DEF S
  <2>. QED  BY <1>2, LeastIs
<1>4. FreeSlot(L) = Least(S)
  BY DEF FreeSlot
<1>5. PICK m \in S : m = Least(S)
  BY <1>3
<1>6. m \in 1 .. L.endlist + 1 /\ (m <= L.endlist => ~ Valid(L, m))
  BY <1>1
<1>7. m <= L.endlist => L.plist[m].status \in Int
  BY <1>1, <1>6, StateFields, EntryFields
<1>. QED  BY <1>4, <1>5, <1>6, <1>7, Order DEF Valid

Added(q, f, source, loader, st, a) ==
  [q EXCEPT !.file = f, !.source = source, !.source_plugin_index = loader,
            !.status = st, !.action = a]

Joined(p, q, f, loader, st, a) ==
  /\ p \in Plugin
  /\ p.file = f
  /\ p.source_plugin_index = loader
  /\ p.status = st
  /\ p.action = a
  /\ p.handle = q.handle
  /\ p.info = q.info

LEMMA AddedIs ==
  ASSUME NEW q \in Plugin, NEW f \in Files, NEW source \in {"ini", "cmd", "plugin"},
         NEW loader \in -1 .. MaxPlugins, NEW st \in 0 .. 6, NEW a \in 0 .. 6
  PROVE  Joined(Added(q, f, source, loader, st, a), q, f, loader, st, a)
BY DEF Joined, Added, Plugin, PL_EMPTY, PL_PAUSED, PA_NULL, PA_RELOAD

\* A file that is not listed yet, for a loader that is there.
LEMMA AddKeeps ==
  ASSUME NEW L, NEW f \in Files, NEW source \in {"ini", "cmd", "plugin"},
         NEW loader \in 0 .. MaxPlugins, ListInv(L), WithFile(L, f) = {},
         loader > 0 => loader <= L.endlist /\ L.plist[loader].status >= PL_RUNNING
  PROVE  LET M == add(L, f, source, loader)
         IN  /\ ListInv(M)
             /\ M.errno = "maxreached" \/ (M.errno = L.errno /\ FreeSlot(L) \in Slot)
<1> DEFINE s == FreeSlot(L)
           q == L.plist[s]
           p == Added(q, f, source, loader, PL_VALID, PA_LOAD)
           end == IF s > L.endlist THEN s ELSE L.endlist
           N == [L EXCEPT !.endlist = end, !.plist[s] = p]
           M == add(L, f, source, loader)
<1>1. /\ L \in ListState /\ L.plist \in [Slot -> Plugin] /\ L.endlist \in 0 .. MaxPlugins
      /\ Slot = 1 .. MaxPlugins /\ MaxPlugins \in Nat
      /\ Unique(L) /\ Counted(L) /\ Loaders(L) /\ Hooked(L)
      /\ \A t \in Slot : EntryOk(L.plist[t])
  BY StateFields, SlotIs DEF ListInv, Core, Shared
<1>2. s \in 1 .. L.endlist + 1 /\ (s <= L.endlist => q.status < PL_VALID)
  BY <1>1, FreeSlotIs
<1>3. M = IF s > MaxPlugins THEN Fails(L, "maxreached") ELSE N
  BY DEF add, Added
<1>4. CASE s > MaxPlugins
  <2>1. M = Fails(L, "maxreached")
    BY <1>3, <1>4
  <2>2. ListInv(Fails(L, "maxreached")) /\ Fails(L, "maxreached").errno = "maxreached"
    BY FailsKeeps DEF Errnos
  <2>. QED  BY <2>1, <2>2
<1>5. CASE ~ (s > MaxPlugins)
  <2>. HIDE DEF s, q
  <2>1. s \in Slot /\ q \in Plugin /\ L.plist[s] = q /\ EntryOk(q) /\ M = N
    BY <1>1, <1>2, <1>3, <1>5 DEF q
  <2>c. PL_VALID \in 0 .. 6 /\ PA_LOAD \in 0 .. 6 /\ loader \in -1 .. MaxPlugins
    BY <1>1, Codes
  <2>2. Joined(p, q, f, loader, PL_VALID, PA_LOAD)
    BY <2>1, <2>c, AddedIs, Zenon
  <2>3. p \in Plugin
    BY <2>2 DEF Joined
  <2>4. /\ end \in 0 .. MaxPlugins /\ L.endlist <= end /\ s <= end
        /\ \A t \in 1 .. end : t = s \/ t \in 1 .. L.endlist
    BY <1>1, <1>2, <2>1
  <2>. HIDE DEF p, end
  <2>5. /\ N \in ListState /\ N.plist[s] = p
        /\ \A t \in Slot : t # s => N.plist[t] = L.plist[t]
        /\ N.endlist = end /\ N.refs = L.refs /\ N.hooked = L.hooked /\ N.errno = L.errno
    BY <1>1, <2>1, <2>3, <2>4 DEF ListState
  <2>. HIDE DEF N
  <2>6. /\ p.file = f /\ p.source_plugin_index = loader /\ p.status = PL_VALID
        /\ p.action = PA_LOAD /\ p.handle = q.handle /\ p.info = q.info
    BY <2>2 DEF Joined
  <2>7. \A t \in Slot : t # s /\ t \in Listed(N) => t \in Listed(L)
    BY <1>1, <2>4, <2>5, ListedIs
  <2>8. \A t \in Listed(L) : t \in Slot /\ L.plist[t].file # f
    BY <1>1, ListedIs DEF WithFile
  <2>9. Unique(N)
    <3>. SUFFICES ASSUME NEW t \in Listed(N), NEW u \in Listed(N), N.plist[t].file = N.plist[u].file
                  PROVE  t = u
      BY DEF Unique
    <3>1. t \in Slot /\ u \in Slot
      BY <2>5, ListedIs
    <3>2. t # s => t \in Listed(L) /\ N.plist[t] = L.plist[t]
      BY <2>5, <2>7, <3>1
    <3>3. u # s => u \in Listed(L) /\ N.plist[u] = L.plist[u]
      BY <2>5, <2>7, <3>1
    <3>4. CASE t = s \/ u = s
      BY <2>5, <2>6, <2>8, <3>2, <3>3, <3>4
    <3>5. CASE t # s /\ u # s
      BY <1>1, <3>2, <3>3, <3>5 DEF Unique
    <3>. QED  BY <3>4, <3>5
  <2>10. Counted(N)
    <3>1. \A g \in Files : Users(N.plist, g) = Users(L.plist, g)
      BY <2>1, <2>5, <2>6 DEF Users
    <3>. QED  BY <1>1, <2>5, <3>1 DEF Counted
  <2>11. \A u \in Slot : u <= L.endlist /\ L.plist[u].status >= PL_RUNNING =>
           u # s /\ u <= N.endlist /\ N.plist[u].status >= PL_RUNNING
    <3>. SUFFICES ASSUME NEW u \in Slot, u <= L.endlist, L.plist[u].status >= PL_RUNNING
                  PROVE  u # s /\ u <= N.endlist /\ N.plist[u].status >= PL_RUNNING
      OBVIOUS
    <3>1. u # s
      <4>1. q.status \in Int
        BY <2>1, EntryFields
      <4>. QED  BY <1>2, <2>1, <4>1, Order
    <3>. QED  BY <1>1, <2>4, <2>5, <3>1
  <2>12. Loaders(N)
    <3>. SUFFICES ASSUME NEW t \in Slot, NEW u \in 1 .. MaxPlugins, HasLoader(N, t, u)
                  PROVE  u <= N.endlist /\ N.plist[u].status >= PL_RUNNING
      BY DEF Loaders
    <3>1. CASE t = s
      <4>1. u = loader /\ u > 0
        BY <2>5, <2>6, <3>1 DEF HasLoader
      <4>. QED  BY <1>1, <2>11, <4>1
    <3>2. CASE t # s
      <4>1. HasLoader(L, t, u)
        BY <2>5, <2>7, <3>2 DEF HasLoader
      <4>. QED  BY <1>1, <2>11, <4>1 DEF Loaders
    <3>. QED  BY <3>1, <3>2
  <2>13. \A t \in Slot : EntryOk(N.plist[t])
    <3>1. EntryOk(p)
      BY <2>1, <2>6, Order DEF EntryOk
    <3>. QED  BY <1>1, <2>5, <3>1
  <2>14. Hooked(N)
    <3>1. \A t \in 1 .. L.endlist : /\ t \in 1 .. end /\ t \in Slot
                                    /\ L.plist[t].status = PL_RUNNING <=> N.plist[t].status = PL_RUNNING
      BY <1>1, <1>2, <2>1, <2>4, <2>5, <2>6, Order
    <3>2. \A t \in 1 .. end : N.plist[t].status = PL_RUNNING => t \in 1 .. L.endlist
      BY <2>4, <2>5, <2>6, Order
    <3>. QED  BY <1>1, <2>5, <3>1, <3>2 DEF Hooked, RunningSlots
  <2>15. ListInv(N)
    BY <2>5, <2>9, <2>10, <2>12, <2>13, <2>14 DEF ListInv, Core, Shared
  <2>. QED  BY <2>1, <2>5, <2>15 DEF s, M
<1>. QED  BY <1>4, <1>5

LEMMA ResetKeeps ==
  ASSUME NEW L, NEW s \in Slot, ListInv(L), L.plist[s].status < PL_RUNNING
  PROVE  LET M == reset_plugin(L, s)
         IN  /\ ListInv(M) /\ M.errno = L.errno
             /\ \A f \in Files : WithFile(L, f) = {} => WithFile(M, f) = {}
<1> DEFINE M == reset_plugin(L, s)
<1>1. /\ L \in ListState /\ Shared(L) /\ Hooked(L) /\ OthersAreOk(L, s)
      /\ L.plist[s].status \in 0 .. 6 /\ L.refs \in [Files -> Int]
  BY StateFields, EntryFields DEF ListInv, Core, Shared, OthersAreOk
<1>2. /\ Zeroed \in Plugin /\ Zeroed.status = PL_EMPTY /\ Zeroed.handle = NULL
      /\ Zeroed.info = NULL /\ Zeroed.action = PA_NULL
  BY SlotIs DEF Zeroed, Plugin, PL_EMPTY, PL_PAUSED, PA_NULL, PA_RELOAD
<1>3. /\ M \in ListState /\ M.plist[s] = Zeroed
      /\ \A t \in Slot : t # s => M.plist[t] = L.plist[t]
      /\ M.endlist = L.endlist /\ M.refs = L.refs /\ M.hooked = L.hooked /\ M.errno = L.errno
  BY <1>1, <1>2, PutIn DEF reset_plugin
<1>. HIDE DEF M
<1>4. Writes(L, M, s)
  BY <1>3 DEF Writes
<1>5. Accounts(L, M, s)
  BY <1>1, <1>2, <1>3, NullAssumption DEF Accounts, One
<1>6. Leaves(L, s) /\ L.plist[s].status # PL_RUNNING
  BY <1>1, Order DEF Leaves
<1>7. ~ (PL_EMPTY >= PL_VALID) /\ PL_EMPTY # PL_RUNNING
  BY Order
<1>8. Shared(M)
  BY <1>1, <1>2, <1>3, <1>4, <1>5, <1>6, <1>7, OneEntry
<1>9. EntryOk(M.plist[s])
  BY <1>2, <1>3, Order DEF EntryOk
<1>10. \A t \in Slot : EntryOk(M.plist[t])
  BY <1>1, <1>4, <1>9, OthersOk DEF OthersAreOk
<1>11. Hooked(M)
  BY <1>1, <1>2, <1>3, <1>4, <1>6, <1>7, StaysHooked
<1>12. ListInv(M)
  BY <1>8, <1>10, <1>11 DEF ListInv, Core
<1>13. ASSUME NEW f \in Files, WithFile(L, f) = {}  PROVE WithFile(M, f) = {}
  <2>1. \A t \in Listed(M) : t \in Listed(L) /\ t # s /\ M.plist[t] = L.plist[t]
    BY <1>1, <1>2, <1>3, <1>7, ListedIs
  <2>. QED  BY <1>13, <2>1 DEF WithFile
<1>. QED  BY <1>3, <1>12, <1>13 DEF M
-----------------------------------------------------------------------------
(***************************************************************************)
(* The operations on the list.                                             *)
(***************************************************************************)
LEMMA InOrder ==
  ASSUME NEW L, NEW s \in Slot, ListInv(L)
  PROVE  /\ L \in ListState /\ Shared(L) /\ Hooked(L) /\ OthersAreOk(L, s)
         /\ EntryOk(L.plist[s]) /\ L.plist[s].status \in 0 .. 6 /\ L.plist[s].action \in 0 .. 6
BY StateFields, EntryFields DEF ListInv, Core, Shared, OthersAreOk

LEMMA LeastListed ==
  ASSUME NEW L, NEW S, ListInv(L), S \subseteq Listed(L), S # {}
  PROVE  Least(S) \in Slot /\ Least(S) \in S
<1>1. L \in ListState
  BY DEF ListInv, Core, Shared
<1>2. \A t \in S : t \in Slot /\ t \in Nat
  BY <1>1, ListedIs, SlotIs
<1>3. S \in SUBSET Nat
  BY <1>2
<1>. QED  BY <1>2, <1>3, LeastIs

\* A line is read for a file that is listed or for one that is to be added.
LEMMA IniRefreshLineIs ==
  ASSUME NEW L, NEW f, NEW outs
  PROVE  LET s == Least(WithFile(L, f))
             v == Least(WithFamily(L, f))
             M == ini_refresh_line(L, f, outs)
         IN  /\ WithFile(L, f) # {} => \/ M = L
                                       \/ /\ L.plist[s].fresh
                                          /\ M = [L EXCEPT !.plist[s].action = PA_KEEP]
                                       \/ M = [L EXCEPT !.plist[s].action = PA_RELOAD]
             /\ WithFile(L, f) = {} /\ WithFamily(L, f) = {} => M = add(L, f, "ini", 0)
             /\ WithFile(L, f) = {} /\ WithFamily(L, f) # {} =>
                  \/ M = L
                  \/ /\ ~ Outranks(L, v, f) /\ L.plist[v].action = PA_LOAD
                     /\ M = add(reset_plugin(L, v), f, "ini", 0)
<1> DEFINE s == Least(WithFile(L, f))
           v == Least(WithFamily(L, f))
           K == [L EXCEPT !.plist[s].action = PA_KEEP]
           Q == [L EXCEPT !.plist[s].action = PA_RELOAD]
           Z == reset_plugin(L, v)
           M == ini_refresh_line(L, f, outs)
           p == L.plist[s]
           C == CASE outs[s] = "nofile" -> L
                  [] outs[s] # "nofile" /\ p.fresh -> K
                  [] outs[s] # "nofile" /\ ~ p.fresh /\ p.status >= PL_OPENED -> Q
                  [] OTHER -> L
<1>1. M = IF WithFile(L, f) # {} THEN C
          ELSE IF WithFamily(L, f) = {} THEN add(L, f, "ini", 0)
          ELSE IF ~ Outranks(L, v, f) /\ L.plist[v].action = PA_LOAD
          THEN add(Z, f, "ini", 0) ELSE L
  BY DEF ini_refresh_line
<1>2. C = L \/ (p.fresh /\ C = K) \/ C = Q
  <2>. HIDE DEF K, Q
  <2>. QED  OBVIOUS
<1>. HIDE DEF C, M, K, Q, Z
<1>3. /\ WithFile(L, f) # {} => M = L \/ (p.fresh /\ M = K) \/ M = Q
      /\ WithFile(L, f) = {} /\ WithFamily(L, f) = {} => M = add(L, f, "ini", 0)
      /\ WithFile(L, f) = {} /\ WithFamily(L, f) # {} =>
           \/ M = L
           \/ ~ Outranks(L, v, f) /\ L.plist[v].action = PA_LOAD /\ M = add(Z, f, "ini", 0)
  BY <1>1, <1>2
<1>. QED  BY <1>3 DEF M, K, Q, Z

LEMMA IniRefreshLineKeeps ==
  ASSUME NEW L, NEW f \in Files, NEW outs, ListInv(L)
  PROVE  ListInv(ini_refresh_line(L, f, outs))
<1> DEFINE s == Least(WithFile(L, f))
           v == Least(WithFamily(L, f))
           K == [L EXCEPT !.plist[s].action = PA_KEEP]
           Q == [L EXCEPT !.plist[s].action = PA_RELOAD]
           Z == reset_plugin(L, v)
           M == ini_refresh_line(L, f, outs)
<1>1. /\ WithFile(L, f) # {} => M = L \/ M = K \/ M = Q
      /\ WithFile(L, f) = {} /\ WithFamily(L, f) = {} => M = add(L, f, "ini", 0)
      /\ WithFile(L, f) = {} /\ WithFamily(L, f) # {} =>
           M = L \/ (L.plist[v].action = PA_LOAD /\ M = add(Z, f, "ini", 0))
  BY IniRefreshLineIs
<1>2. WithFile(L, f) \subseteq Listed(L) /\ WithFamily(L, f) \subseteq Listed(L)
  BY DEF WithFile, WithFamily
<1>3. PA_KEEP \in 0 .. 6 /\ PA_RELOAD \in 0 .. 6 /\ PA_KEEP # PA_LOAD /\ PA_RELOAD # PA_LOAD
  BY Order
<1>4. 0 \in 0 .. MaxPlugins /\ "ini" \in {"ini", "cmd", "plugin"} /\ ~ (0 > 0)
  BY SlotIs
<1>5. ASSUME WithFile(L, f) # {}  PROVE ListInv(K) /\ ListInv(Q)
  <2>1. s \in Slot
    BY <1>2, <1>5, LeastListed
  <2>. HIDE DEF s
  <2>. QED  BY <1>3, <2>1, ActionKeeps
<1>6. WithFile(L, f) = {} => ListInv(add(L, f, "ini", 0))
  BY <1>4, AddKeeps
<1>7. ASSUME WithFile(L, f) = {}, WithFamily(L, f) # {}, L.plist[v].action = PA_LOAD
      PROVE  ListInv(add(Z, f, "ini", 0))
  <2>1. v \in Slot
    BY <1>2, <1>7, LeastListed
  <2>. HIDE DEF v
  <2>2. L.plist[v].status < PL_RUNNING
    BY <1>7, <2>1, InOrder DEF EntryOk
  <2>3. ListInv(Z) /\ WithFile(Z, f) = {}
    BY <1>7, <2>1, <2>2, ResetKeeps
  <2>. HIDE DEF Z
  <2>. QED  BY <1>4, <2>3, AddKeeps
<1>. HIDE DEF M, K, Q, Z, s, v
<1>8. ListInv(M)
  BY <1>1, <1>5, <1>6, <1>7
<1>. QED  BY <1>8 DEF M

LEMMA RefreshOneKeeps ==
  ASSUME NEW L, NEW s \in Slot, NEW now, NEW out, ListInv(L), L.errno = "none"
  PROVE  ListInv(refresh_one(L, s, now, out))
<1> DEFINE p == L.plist[s]
           N == [L EXCEPT !.plist[s].action = PA_NONE]
           U == [L EXCEPT !.plist[s].action = PA_UNLOAD]
           M == refresh_one(L, s, now, out)
<1>1. \/ M = N \/ M = L
      \/ M = load(L, s, now, out)
      \/ p.action = PA_RELOAD /\ M = reload(L, s, now, "newer", out)
      \/ M = unload(U, s, now, "deleted", out)
      \/ M = retry(L, s, now, "delayed", out)
  BY Order DEF refresh_one
<1>2. PA_NONE \in 0 .. 6 /\ PA_UNLOAD \in 0 .. 6 /\ PA_NONE # PA_LOAD /\ PA_UNLOAD # PA_LOAD
  BY Order
<1>3. ListInv(N)
  BY <1>2, ActionKeeps
<1>4. ListInv(U) /\ U.plist[s].action = PA_UNLOAD
  BY <1>2, ActionKeeps
<1>. HIDE DEF N, U
<1>5. ListInv(unload(U, s, now, "deleted", out))
  BY <1>4, UnloadKeeps
<1>6. ListInv(load(L, s, now, out))
  BY InOrder, LoadKeeps
<1>7. p.action = PA_RELOAD => ListInv(reload(L, s, now, "newer", out))
  BY ReloadKeeps
<1>8. ListInv(retry(L, s, now, "delayed", out))
  BY RetryKeeps
<1>. HIDE DEF M
<1>9. ListInv(M)
  BY <1>1, <1>3, <1>5, <1>6, <1>7, <1>8
<1>. QED  BY <1>9 DEF M

LEMMA ListedSlot ==
  ASSUME NEW L, NEW s, ListInv(L), s \in 1 .. L.endlist
  PROVE  s \in Slot
BY StateFields, SlotIs DEF ListInv, Core, Shared

LEMMA LoadOneKeeps ==
  ASSUME NEW L, NEW s, NEW out, ListInv(L)
  PROVE  ListInv(load_one(L, s, out))
<1>1. ListInv(Fails(L, "none")) /\ Fails(L, "none").errno = "none"
  BY FailsKeeps DEF Errnos
<1>2. s \in Listed(L) => ListInv(load(Fails(L, "none"), s, PT_STARTUP, out))
  BY <1>1, ListedSlot, InOrder, LoadKeeps DEF Listed
<1>. QED  BY <1>2 DEF load_one

LEMMA RefreshListedKeeps ==
  ASSUME NEW L, NEW s, NEW now, NEW out, ListInv(L)
  PROVE  ListInv(refresh_listed(L, s, now, out))
<1>1. ListInv(Fails(L, "none")) /\ Fails(L, "none").errno = "none"
  BY FailsKeeps DEF Errnos
<1>2. s \in Listed(L) => ListInv(refresh_one(Fails(L, "none"), s, now, out))
  BY <1>1, ListedSlot, RefreshOneKeeps DEF Listed
<1>. QED  BY <1>2 DEF refresh_listed

LEMMA UnpauseListedKeeps ==
  ASSUME NEW L, NEW s, ListInv(L)
  PROVE  ListInv(unpause_listed(L, s))
BY ListedSlot, PauseKeeps DEF unpause_listed

LEMMA AddloadKeeps ==
  ASSUME NEW L, NEW f \in Files, NEW out, ListInv(L), L.errno = "none"
  PROVE  ListInv(cmd_addload(L, f, out))
<1> DEFINE s == FreeSlot(L)
           A == add(L, f, "cmd", 0)
           N == load(A, s, PT_ANYTIME, out)
           M == cmd_addload(L, f, out)
<1>1. M = IF WithFile(L, f) # {} THEN Fails(L, "already")
          ELSE IF Failed(A) THEN A
          ELSE IF N.errno = "notallowed" THEN clear(N, s) ELSE N
  BY DEF cmd_addload
<1>2. ListInv(Fails(L, "already"))
  BY FailsKeeps DEF Errnos
<1>3. 0 \in 0 .. MaxPlugins /\ "cmd" \in {"ini", "cmd", "plugin"} /\ ~ (0 > 0)
  BY SlotIs
<1>4. WithFile(L, f) = {} =>
        ListInv(A) /\ (A.errno = "maxreached" \/ (A.errno = L.errno /\ s \in Slot))
  BY <1>3, AddKeeps
<1>. HIDE DEF A, s
<1>5. ASSUME WithFile(L, f) = {}, ~ Failed(A)  PROVE ListInv(N) /\ ListInv(clear(N, s))
  <2>1. ListInv(A) /\ A.errno = "none" /\ s \in Slot
    BY <1>4, <1>5 DEF Failed
  <2>2. ListInv(N)
    BY <2>1, InOrder, LoadKeeps
  <2>. HIDE DEF N
  <2>. QED  BY <2>1, <2>2, ClearKeeps
<1>. HIDE DEF N, M
<1>6. ListInv(M)
  BY <1>1, <1>2, <1>4, <1>5
<1>. QED  BY <1>6 DEF M

LEMMA PluginAddloadKeeps ==
  ASSUME NEW L, NEW loader, NEW f \in Files, NEW now, NEW out, ListInv(L), L.errno = "none",
         loader \in Listed(L), L.plist[loader].status = PL_RUNNING
  PROVE  ListInv(plugin_addload(L, loader, f, now, out))
<1> DEFINE s == FreeSlot(L)
           A == add(L, f, "plugin", loader)
           N == load(A, s, now, out)
           M == plugin_addload(L, loader, f, now, out)
<1>1. M = IF WithFile(L, f) # {} THEN Fails(L, "already")
          ELSE IF Failed(A) THEN A
          ELSE IF N.errno \in {"notallowed", "delayed"} THEN clear(N, s) ELSE N
  BY DEF plugin_addload
<1>2. ListInv(Fails(L, "already"))
  BY FailsKeeps DEF Errnos
<1>3. /\ loader \in 0 .. MaxPlugins /\ "plugin" \in {"ini", "cmd", "plugin"}
      /\ loader <= L.endlist /\ L.plist[loader].status >= PL_RUNNING
  BY ListedIs, SlotIs, Order DEF ListInv, Core, Shared
<1>4. WithFile(L, f) = {} =>
        ListInv(A) /\ (A.errno = "maxreached" \/ (A.errno = L.errno /\ s \in Slot))
  BY <1>3, AddKeeps
<1>. HIDE DEF A, s
<1>5. ASSUME WithFile(L, f) = {}, ~ Failed(A)  PROVE ListInv(N) /\ ListInv(clear(N, s))
  <2>1. ListInv(A) /\ A.errno = "none" /\ s \in Slot
    BY <1>4, <1>5 DEF Failed
  <2>2. ListInv(N)
    BY <2>1, InOrder, LoadKeeps
  <2>. HIDE DEF N
  <2>. QED  BY <2>1, <2>2, ClearKeeps
<1>. HIDE DEF N, M
<1>6. ListInv(M)
  BY <1>1, <1>2, <1>4, <1>5
<1>. QED  BY <1>6 DEF M

LEMMA PluginUnloadKeeps ==
  ASSUME NEW L, NEW s \in Slot, NEW now, NEW reason, NEW out, ListInv(L), L.errno = "none"
  PROVE  ListInv(plugin_unload(L, s, now, reason, out))
<1> DEFINE A == [L EXCEPT !.plist[s].action = PA_UNLOAD]
           U == unload(A, s, now, reason, out)
           a == L.plist[s].action
           N == [U EXCEPT !.plist[s].action = a]
<1>1. plugin_unload(L, s, now, reason, out) = IF U.errno = "delayed" THEN N ELSE U
  BY DEF plugin_unload
<1>2. PA_UNLOAD \in 0 .. 6 /\ PA_UNLOAD # PA_LOAD
  BY Order
<1>3. /\ ListInv(A) /\ A.plist[s].action = PA_UNLOAD /\ A.errno = "none"
      /\ A.plist[s].status = L.plist[s].status
  BY <1>2, ActionKeeps
<1>. HIDE DEF A
<1>4. ListInv(U) /\ (U = Fails(A, "delayed") \/ U.errno # "delayed")
  BY <1>3, UnloadKeeps
<1>. HIDE DEF U
<1>5. ASSUME U.errno = "delayed"  PROVE ListInv(N)
  <2>1. U.plist[s].status = L.plist[s].status
    BY <1>3, <1>4, <1>5, FailsKeeps DEF Errnos
  <2>2. a \in 0 .. 6 /\ (a = PA_LOAD => L.plist[s].status < PL_RUNNING)
    BY InOrder DEF EntryOk
  <2>. HIDE DEF a
  <2>. QED  BY <1>4, <2>1, <2>2, ActionKeeps
<1>. QED  BY <1>1, <1>4, <1>5
-----------------------------------------------------------------------------
(***************************************************************************)
(* Startup: until the first plugin is loaded nothing is open, nobody has a *)
(* loader and nothing is hooked.                                           *)
(***************************************************************************)
UnopenedEntry(p) == /\ p.status \in {PL_EMPTY, PL_VALID}
                    /\ p.status = PL_VALID => p.file \in Files
                    /\ p.handle = NULL
                    /\ p.info = NULL
                    /\ p.source_plugin_index = 0

Unopened(L) == /\ L \in ListState
               /\ Unique(L)
               /\ L.hooked = {}
               /\ \A f \in Files : L.refs[f] >= 0
               /\ \A t \in Slot : UnopenedEntry(L.plist[t])

LEMMA UnopenedIsInOrder ==
  ASSUME NEW L, Unopened(L)
  PROVE  ListInv(L)
<1>1. /\ L \in ListState /\ Unique(L) /\ \A t \in Slot : UnopenedEntry(L.plist[t])
      /\ 1 .. L.endlist \subseteq Slot
  BY StateFields, SlotIs DEF Unopened
<1>2. Counted(L)
  <2>1. \A f \in Files : Users(L.plist, f) = {}
    BY <1>1, NullAssumption DEF Users, UnopenedEntry
  <2>. QED  BY <2>1, FS_EmptySet DEF Counted, Unopened
<1>3. Loaders(L)
  BY <1>1 DEF Loaders, HasLoader, UnopenedEntry
<1>4. Hooked(L)
  BY <1>1, Order DEF Hooked, RunningSlots, UnopenedEntry, Unopened
<1>5. \A t \in Slot : EntryOk(L.plist[t])
  BY <1>1, Order DEF EntryOk, UnopenedEntry
<1>. QED  BY <1>1, <1>2, <1>3, <1>4, <1>5 DEF ListInv, Core, Shared

Parsed(q, f, lev, st) ==
  [q EXCEPT !.file = f, !.pfspecific = lev, !.source = "ini", !.status = st]

ParsedAs(p, q, f, st) ==
  /\ p \in Plugin /\ p.file = f /\ p.status = st
  /\ p.handle = q.handle /\ p.info = q.info
  /\ p.source_plugin_index = q.source_plugin_index

LEMMA ParsedIs ==
  ASSUME NEW q \in Plugin, NEW f \in Files, NEW lev \in {0, 1}, NEW st \in 0 .. 6
  PROVE  ParsedAs(Parsed(q, f, lev, st), q, f, st)
BY DEF ParsedAs, Parsed, Plugin, PL_EMPTY, PL_PAUSED

LEMMA LoadIs ==
  ASSUME NEW N \in ListState, NEW n \in Slot
  PROVE  LET B == [N EXCEPT !.plist[n].action = PA_LOAD]
             q == N.plist[n]
         IN  /\ Edited(N, B, n, q.status, PA_LOAD, q.handle, q.info)
             /\ B.refs = N.refs /\ B.hooked = N.hooked
<1>1. PA_LOAD \in 0 .. 6
  BY Codes
<1>. QED  BY <1>1, ActionIs, Zenon

LEMMA StartupLineKeeps ==
  ASSUME NEW L, NEW f \in Files, Unopened(L), L.endlist + 1 \in Slot
  PROVE  LET M == ini_startup_line(L, f)
         IN  Unopened(M) /\ M.endlist <= L.endlist + 1
<1> DEFINE n == L.endlist + 1
           rivals == WithFamily(L, f)
           v == Least(rivals)
           p == Parsed(L.plist[n], f, level[f], PL_VALID)
           P == [L EXCEPT !.plist[n] = p]
           Z == reset_plugin(P, v)
           A(N) == [N EXCEPT !.endlist = n, !.plist[n].action = PA_LOAD]
           M == ini_startup_line(L, f)
<1>1. /\ L \in ListState /\ L.plist \in [Slot -> Plugin] /\ Unique(L) /\ ListInv(L)
      /\ L.endlist \in Nat /\ n \in Slot /\ L.plist[n] \in Plugin /\ level[f] \in {0, 1}
      /\ n = L.endlist + 1 /\ Slot = 1 .. MaxPlugins /\ MaxPlugins \in Nat
      /\ \A t \in Slot : UnopenedEntry(L.plist[t])
  BY StateFields, SlotIs, UnopenedIsInOrder, LevelAssumption DEF Unopened
<1>2. /\ M = P \/ (WithFile(L, f) = {} /\ rivals = {} /\ M = A(P))
              \/ (WithFile(L, f) = {} /\ rivals # {} /\ M = A(Z))
  BY DEF ini_startup_line, Parsed
<1>3. PL_VALID \in 0 .. 6 /\ PL_VALID # PL_EMPTY
  BY Order
<1>. HIDE DEF n
<1>4. ParsedAs(p, L.plist[n], f, PL_VALID)
  BY <1>1, <1>3, ParsedIs, Zenon
<1>5. p \in Plugin /\ UnopenedEntry(p) /\ p.file = f
  BY <1>1, <1>4 DEF ParsedAs, UnopenedEntry
<1>. HIDE DEF p
<1>6. /\ P \in ListState /\ P.plist[n] = p
      /\ \A t \in Slot : t # n => P.plist[t] = L.plist[t]
      /\ P.endlist = L.endlist /\ P.refs = L.refs /\ P.hooked = L.hooked
  BY <1>1, <1>5, PutIn
<1>. HIDE DEF P
<1>7. /\ Zeroed \in Plugin /\ Zeroed.status = PL_EMPTY /\ UnopenedEntry(Zeroed)
  BY <1>3, SlotIs DEF Zeroed, Plugin, PL_EMPTY, PL_PAUSED, PA_NULL, PA_RELOAD, UnopenedEntry
<1>8. \A t \in Listed(L) : t \in Slot /\ t # n /\ L.plist[t].file \in Files
  BY <1>1, ListedIs, Order DEF UnopenedEntry
<1>9. ASSUME rivals # {}
      PROVE  /\ Z \in ListState /\ v \in Slot /\ v # n /\ Z.plist[v] = Zeroed
             /\ \A t \in Slot : t # v => Z.plist[t] = P.plist[t]
             /\ Z.endlist = P.endlist /\ Z.refs = P.refs /\ Z.hooked = P.hooked
  <2>1. rivals \subseteq Listed(L)
    BY DEF WithFamily
  <2>2. v \in Slot /\ v \in Listed(L)
    BY <1>1, <1>9, <2>1, LeastListed
  <2>. HIDE DEF v
  <2>. QED  BY <1>6, <1>7, <1>8, <2>2, PutIn DEF reset_plugin
<1>10. Unopened(P)
  <2>1. \A t \in Listed(P) : t \in Listed(L) /\ P.plist[t] = L.plist[t]
    BY <1>1, <1>6, ListedIs
  <2>2. Unique(P)
    BY <1>1, <2>1 DEF Unique
  <2>3. \A t \in Slot : UnopenedEntry(P.plist[t])
    BY <1>1, <1>5, <1>6
  <2>. QED  BY <1>6, <2>2, <2>3 DEF Unopened
\* The entry that is kept, after a list in which the others are as before or reset.
<1>11. ASSUME NEW N \in ListState, N.plist[n] = p, N.endlist = L.endlist, N.hooked = L.hooked,
              N.refs = L.refs, WithFile(L, f) = {},
              \A t \in Slot : t # n => N.plist[t] = L.plist[t] \/ N.plist[t] = Zeroed
       PROVE  Unopened(A(N)) /\ A(N).endlist = n
  <2> DEFINE B == [N EXCEPT !.plist[n].action = PA_LOAD]
             C == A(N)
  <2>2. /\ Edited(N, B, n, N.plist[n].status, PA_LOAD, N.plist[n].handle, N.plist[n].info)
        /\ B.refs = N.refs /\ B.hooked = N.hooked
    BY <1>1, LoadIs
  <2>3. C = [B EXCEPT !.endlist = n]
    BY DEF ListState
  <2>. HIDE DEF B
  <2>b. B \in ListState /\ n \in 0 .. MaxPlugins
    BY <1>1, <2>2 DEF Edited, Writes
  <2>e. /\ C.plist = B.plist /\ C.endlist = n /\ C.refs = B.refs /\ C.hooked = B.hooked
        /\ C \in ListState
    BY <2>b, <2>3 DEF ListState
  <2>. HIDE DEF C
  <2>4. /\ C \in ListState /\ C.plist[n].status = p.status /\ C.plist[n].file = p.file
        /\ C.plist[n].handle = p.handle /\ C.plist[n].info = p.info
        /\ C.plist[n].source_plugin_index = p.source_plugin_index
        /\ \A t \in Slot : t # n => C.plist[t] = N.plist[t]
    BY <1>11, <2>2, <2>e DEF Edited, Writes, Holds
  <2>5. UnopenedEntry(C.plist[n])
    BY <1>5, <2>4 DEF UnopenedEntry
  <2>6. \A t \in Slot : UnopenedEntry(C.plist[t])
    BY <1>1, <1>7, <1>11, <2>4, <2>5
  <2>7. \A t \in Listed(C) : t \in Slot /\ (t # n => t \in Listed(L) /\ C.plist[t] = L.plist[t])
    <3>. SUFFICES ASSUME NEW t \in Listed(C), t # n
                  PROVE  t \in Listed(L) /\ C.plist[t] = L.plist[t]
      BY <2>4, ListedIs
    <3>1. t \in Slot /\ t <= n /\ C.plist[t].status >= PL_VALID
      BY <2>e, <2>4, ListedIs
    <3>2. C.plist[t] # Zeroed
      BY <1>7, <3>1, Order
    <3>3. C.plist[t] = L.plist[t]
      BY <1>11, <2>4, <3>1, <3>2
    <3>4. t <= L.endlist
      BY <1>1, <3>1
    <3>. QED  BY <1>1, <3>1, <3>3, <3>4, ListedIs
  <2>8. \A t \in Listed(L) : L.plist[t].file # f
    BY <1>11 DEF WithFile
  <2>9. Unique(C)
    <3>. SUFFICES ASSUME NEW t \in Listed(C), NEW u \in Listed(C), C.plist[t].file = C.plist[u].file
                  PROVE  t = u
      BY DEF Unique
    <3>1. CASE t = n \/ u = n
      BY <1>5, <2>4, <2>7, <2>8, <3>1
    <3>2. CASE t # n /\ u # n
      BY <1>1, <2>7, <3>2 DEF Unique
    <3>. QED  BY <3>1, <3>2
  <2>10. C.hooked = {} /\ \A g \in Files : C.refs[g] >= 0
    BY <1>11, <2>2, <2>e DEF Unopened
  <2>11. Unopened(C) /\ C.endlist = n
    BY <2>e, <2>4, <2>6, <2>9, <2>10 DEF Unopened
  <2>. QED  BY <2>11 DEF C
<1>. HIDE DEF Z, A, M
<1>12. CASE M = P
  BY <1>1, <1>6, <1>10, <1>12 DEF M
<1>13. CASE WithFile(L, f) = {} /\ rivals = {} /\ M = A(P)
  <2>1. Unopened(A(P)) /\ A(P).endlist = n
    BY <1>6, <1>11, <1>13
  <2>. QED  BY <1>1, <1>13, <2>1 DEF M
<1>14. CASE WithFile(L, f) = {} /\ rivals # {} /\ M = A(Z)
  <2>1. \A t \in Slot : t # n => Z.plist[t] = L.plist[t] \/ Z.plist[t] = Zeroed
    BY <1>6, <1>9, <1>14
  <2>2. Unopened(A(Z)) /\ A(Z).endlist = n
    BY <1>1, <1>6, <1>9, <1>11, <1>14, <2>1
  <2>. QED  BY <1>1, <1>14, <2>2 DEF M
<1>. QED  BY <1>2, <1>12, <1>13, <1>14
-----------------------------------------------------------------------------
(***************************************************************************)
(* The loops.  Each is defined by what it has done after n steps; there is *)
(* such a function, so that the loop ends where its last step leaves it.   *)
(***************************************************************************)
LEMMA StartupSteps ==
  ASSUME NEW L, NEW q, NEW N \in Nat, N = Len(q), q # NULL
  PROVE  \E r : /\ r[0] = L /\ ini_startup(L, q) = r[N]
                /\ \A n \in 1 .. N : r[n] = ini_startup_line(r[n - 1], q[n])
<1> DEFINE Run(n, f) == f = [i \in 0 .. n |-> IF i = 0 THEN L ELSE ini_startup_line(f[i - 1], q[i])]
           G == {n \in 0 .. N : \E f : Run(n, f)}
<1>0. N \in Nat
  BY SizeAssumption
<1>1. 0 \in G
  <2>1. Run(0, [i \in 0 .. 0 |-> L])
    OBVIOUS
  <2>. HIDE DEF Run
  <2>. QED  BY <1>0, <2>1
<1>2. ASSUME NEW n \in 1 .. N, n - 1 \in G
      PROVE  n \in G
  <2>1. PICK f : Run(n - 1, f)
    BY <1>2
  <2> DEFINE g == [i \in 0 .. n |-> IF i < n THEN f[i] ELSE ini_startup_line(f[n - 1], q[i])]
  <2>2. \A i \in 0 .. n : g[i] = IF i = 0 THEN L ELSE ini_startup_line(g[i - 1], q[i])
    BY <1>0, <2>1
  <2>3. Run(n, g)
    BY <2>2
  <2>. HIDE DEF Run, g
  <2>. QED  BY <1>0, <2>3
<1> HIDE DEF G
<1>3. N \in G
  <2>1. \A n \in 1 .. N : n - 1 \in G => n \in G
    BY <1>2
  <2>2. \A n \in 0 .. N : n \in G
    BY <1>0, <1>1, <2>1, Upwards, Zenon
  <2>. QED  BY <1>0, <2>2
<1> USE DEF G
<1> HIDE DEF Run
<1>4. Run(N, CHOOSE f : Run(N, f))
  BY <1>3
<1> USE DEF Run
<1> DEFINE read == CHOOSE f : f = [i \in 0 .. N |-> IF i = 0 THEN L ELSE ini_startup_line(f[i - 1], q[i])]
<1>5. ini_startup(L, q) = read[N]
  BY DEF ini_startup
<1>6. read = [i \in 0 .. N |-> IF i = 0 THEN L ELSE ini_startup_line(read[i - 1], q[i])]
  BY <1>4
<1>. HIDE DEF read
<1>7. read[0] = L /\ \A n \in 1 .. N : read[n] = ini_startup_line(read[n - 1], q[n])
  BY <1>0, <1>6
<1>. QED  BY <1>5, <1>7

LEMMA IniRefreshSteps ==
  ASSUME NEW L, NEW q, NEW outs, NEW N \in Nat, N = Len(q), q # NULL
  PROVE  \E r : /\ r[0] = L /\ ini_refresh(L, q, outs) = r[N]
                /\ \A n \in 1 .. N : r[n] = ini_refresh_line(r[n - 1], q[n], outs)
<1> DEFINE Run(n, f) == f = [i \in 0 .. n |-> IF i = 0 THEN L ELSE ini_refresh_line(f[i - 1], q[i], outs)]
           G == {n \in 0 .. N : \E f : Run(n, f)}
<1>0. N \in Nat
  BY SizeAssumption
<1>1. 0 \in G
  <2>1. Run(0, [i \in 0 .. 0 |-> L])
    OBVIOUS
  <2>. HIDE DEF Run
  <2>. QED  BY <1>0, <2>1
<1>2. ASSUME NEW n \in 1 .. N, n - 1 \in G
      PROVE  n \in G
  <2>1. PICK f : Run(n - 1, f)
    BY <1>2
  <2> DEFINE g == [i \in 0 .. n |-> IF i < n THEN f[i] ELSE ini_refresh_line(f[n - 1], q[i], outs)]
  <2>2. \A i \in 0 .. n : g[i] = IF i = 0 THEN L ELSE ini_refresh_line(g[i - 1], q[i], outs)
    BY <1>0, <2>1
  <2>3. Run(n, g)
    BY <2>2
  <2>. HIDE DEF Run, g
  <2>. QED  BY <1>0, <2>3
<1> HIDE DEF G
<1>3. N \in G
  <2>1. \A n \in 1 .. N : n - 1 \in G => n \in G
    BY <1>2
  <2>2. \A n \in 0 .. N : n \in G
    BY <1>0, <1>1, <2>1, Upwards, Zenon
  <2>. QED  BY <1>0, <2>2
<1> USE DEF G
<1> HIDE DEF Run
<1>4. Run(N, CHOOSE f : Run(N, f))
  BY <1>3
<1> USE DEF Run
<1> DEFINE read == CHOOSE f : f = [i \in 0 .. N |-> IF i = 0 THEN L ELSE ini_refresh_line(f[i - 1], q[i], outs)]
<1>5. ini_refresh(L, q, outs) = read[N]
  BY DEF ini_refresh
<1>6. read = [i \in 0 .. N |-> IF i = 0 THEN L ELSE ini_refresh_line(read[i - 1], q[i], outs)]
  BY <1>4
<1>. HIDE DEF read
<1>7. read[0] = L /\ \A n \in 1 .. N : read[n] = ini_refresh_line(read[n - 1], q[n], outs)
  BY <1>0, <1>6
<1>. QED  BY <1>5, <1>7

LEMMA LoadSteps ==
  ASSUME NEW L, NEW q, NEW outs, q # NULL
  PROVE  \E r : /\ r[0] = ini_startup(L, q) /\ load_list(L, q, outs) = r[MaxPlugins]
                /\ \A n \in 1 .. MaxPlugins : r[n] = load_one(r[n - 1], n, outs[n])
<1> DEFINE Run(n, f) == f = [i \in 0 .. n |-> IF i = 0 THEN ini_startup(L, q) ELSE load_one(f[i - 1], i, outs[i])]
           G == {n \in 0 .. MaxPlugins : \E f : Run(n, f)}
<1>0. MaxPlugins \in Nat
  BY SizeAssumption
<1>1. 0 \in G
  <2>1. Run(0, [i \in 0 .. 0 |-> ini_startup(L, q)])
    OBVIOUS
  <2>. HIDE DEF Run
  <2>. QED  BY <1>0, <2>1
<1>2. ASSUME NEW n \in 1 .. MaxPlugins, n - 1 \in G
      PROVE  n \in G
  <2>1. PICK f : Run(n - 1, f)
    BY <1>2
  <2> DEFINE g == [i \in 0 .. n |-> IF i < n THEN f[i] ELSE load_one(f[n - 1], i, outs[i])]
  <2>2. \A i \in 0 .. n : g[i] = IF i = 0 THEN ini_startup(L, q) ELSE load_one(g[i - 1], i, outs[i])
    BY <1>0, <2>1
  <2>3. Run(n, g)
    BY <2>2
  <2>. HIDE DEF Run, g
  <2>. QED  BY <1>0, <2>3
<1> HIDE DEF G
<1>3. MaxPlugins \in G
  <2>1. \A n \in 1 .. MaxPlugins : n - 1 \in G => n \in G
    BY <1>2
  <2>2. \A n \in 0 .. MaxPlugins : n \in G
    BY <1>0, <1>1, <2>1, Upwards, Zenon
  <2>. QED  BY <1>0, <2>2
<1> USE DEF G
<1> HIDE DEF Run
<1>4. Run(MaxPlugins, CHOOSE f : Run(MaxPlugins, f))
  BY <1>3
<1> USE DEF Run
<1> DEFINE done == CHOOSE f : f = [i \in 0 .. MaxPlugins |-> IF i = 0 THEN ini_startup(L, q) ELSE load_one(f[i - 1], i, outs[i])]
<1>5. load_list(L, q, outs) = done[MaxPlugins]
  BY DEF load_list
<1>6. done = [i \in 0 .. MaxPlugins |-> IF i = 0 THEN ini_startup(L, q) ELSE load_one(done[i - 1], i, outs[i])]
  BY <1>4
<1>. HIDE DEF done
<1>7. done[0] = ini_startup(L, q) /\ \A n \in 1 .. MaxPlugins : done[n] = load_one(done[n - 1], n, outs[n])
  BY <1>0, <1>6
<1>. QED  BY <1>5, <1>7

LEMMA RefreshSteps ==
  ASSUME NEW L, NEW q, NEW now, NEW outs, q # NULL
  PROVE  \E r : /\ r[0] = ini_refresh(L, q, outs) /\ refresh(L, q, now, outs) = r[MaxPlugins]
                /\ \A n \in 1 .. MaxPlugins : r[n] = refresh_listed(r[n - 1], n, now, outs[n])
<1> DEFINE Run(n, f) == f = [i \in 0 .. n |-> IF i = 0 THEN ini_refresh(L, q, outs) ELSE refresh_listed(f[i - 1], i, now, outs[i])]
           G == {n \in 0 .. MaxPlugins : \E f : Run(n, f)}
<1>0. MaxPlugins \in Nat
  BY SizeAssumption
<1>1. 0 \in G
  <2>1. Run(0, [i \in 0 .. 0 |-> ini_refresh(L, q, outs)])
    OBVIOUS
  <2>. HIDE DEF Run
  <2>. QED  BY <1>0, <2>1
<1>2. ASSUME NEW n \in 1 .. MaxPlugins, n - 1 \in G
      PROVE  n \in G
  <2>1. PICK f : Run(n - 1, f)
    BY <1>2
  <2> DEFINE g == [i \in 0 .. n |-> IF i < n THEN f[i] ELSE refresh_listed(f[n - 1], i, now, outs[i])]
  <2>2. \A i \in 0 .. n : g[i] = IF i = 0 THEN ini_refresh(L, q, outs) ELSE refresh_listed(g[i - 1], i, now, outs[i])
    BY <1>0, <2>1
  <2>3. Run(n, g)
    BY <2>2
  <2>. HIDE DEF Run, g
  <2>. QED  BY <1>0, <2>3
<1> HIDE DEF G
<1>3. MaxPlugins \in G
  <2>1. \A n \in 1 .. MaxPlugins : n - 1 \in G => n \in G
    BY <1>2
  <2>2. \A n \in 0 .. MaxPlugins : n \in G
    BY <1>0, <1>1, <2>1, Upwards, Zenon
  <2>. QED  BY <1>0, <2>2
<1> USE DEF G
<1> HIDE DEF Run
<1>4. Run(MaxPlugins, CHOOSE f : Run(MaxPlugins, f))
  BY <1>3
<1> USE DEF Run
<1> DEFINE done == CHOOSE f : f = [i \in 0 .. MaxPlugins |-> IF i = 0 THEN ini_refresh(L, q, outs) ELSE refresh_listed(f[i - 1], i, now, outs[i])]
<1>5. refresh(L, q, now, outs) = done[MaxPlugins]
  BY DEF refresh
<1>6. done = [i \in 0 .. MaxPlugins |-> IF i = 0 THEN ini_refresh(L, q, outs) ELSE refresh_listed(done[i - 1], i, now, outs[i])]
  BY <1>4
<1>. HIDE DEF done
<1>7. done[0] = ini_refresh(L, q, outs) /\ \A n \in 1 .. MaxPlugins : done[n] = refresh_listed(done[n - 1], n, now, outs[n])
  BY <1>0, <1>6
<1>. QED  BY <1>5, <1>7

LEMMA UnpauseSteps ==
  ASSUME NEW L
  PROVE  \E r : /\ r[0] = L /\ unpause_all(L) = r[MaxPlugins]
                /\ \A n \in 1 .. MaxPlugins : r[n] = unpause_listed(r[n - 1], n)
<1> DEFINE Run(n, f) == f = [i \in 0 .. n |-> IF i = 0 THEN L ELSE unpause_listed(f[i - 1], i)]
           G == {n \in 0 .. MaxPlugins : \E f : Run(n, f)}
<1>0. MaxPlugins \in Nat
  BY SizeAssumption
<1>1. 0 \in G
  <2>1. Run(0, [i \in 0 .. 0 |-> L])
    OBVIOUS
  <2>. HIDE DEF Run
  <2>. QED  BY <1>0, <2>1
<1>2. ASSUME NEW n \in 1 .. MaxPlugins, n - 1 \in G
      PROVE  n \in G
  <2>1. PICK f : Run(n - 1, f)
    BY <1>2
  <2> DEFINE g == [i \in 0 .. n |-> IF i < n THEN f[i] ELSE unpause_listed(f[n - 1], i)]
  <2>2. \A i \in 0 .. n : g[i] = IF i = 0 THEN L ELSE unpause_listed(g[i - 1], i)
    BY <1>0, <2>1
  <2>3. Run(n, g)
    BY <2>2
  <2>. HIDE DEF Run, g
  <2>. QED  BY <1>0, <2>3
<1> HIDE DEF G
<1>3. MaxPlugins \in G
  <2>1. \A n \in 1 .. MaxPlugins : n - 1 \in G => n \in G
    BY <1>2
  <2>2. \A n \in 0 .. MaxPlugins : n \in G
    BY <1>0, <1>1, <2>1, Upwards, Zenon
  <2>. QED  BY <1>0, <2>2
<1> USE DEF G
<1> HIDE DEF Run
<1>4. Run(MaxPlugins, CHOOSE f : Run(MaxPlugins, f))
  BY <1>3
<1> USE DEF Run
<1> DEFINE done == CHOOSE f : f = [i \in 0 .. MaxPlugins |-> IF i = 0 THEN L ELSE unpause_listed(f[i - 1], i)]
<1>5. unpause_all(L) = done[MaxPlugins]
  BY DEF unpause_all
<1>6. done = [i \in 0 .. MaxPlugins |-> IF i = 0 THEN L ELSE unpause_listed(done[i - 1], i)]
  BY <1>4
<1>. HIDE DEF done
<1>7. done[0] = L /\ \A n \in 1 .. MaxPlugins : done[n] = unpause_listed(done[n - 1], n)
  BY <1>0, <1>6
<1>. QED  BY <1>5, <1>7

LEMMA StartupKeeps ==
  ASSUME NEW L, NEW q \in Inis \ {NULL}, NEW outs, Unopened(L), L.endlist = 0
  PROVE  ListInv(load_list(L, q, outs))
<1>1. q # NULL /\ q \in Seq(Files) /\ Len(q) \in Nat /\ Len(q) <= MaxPlugins /\ MaxPlugins \in Nat
      /\ Slot = 1 .. MaxPlugins
  BY IniAssumption, SlotIs
<1>2. PICK N \in Nat : N = Len(q)
  BY <1>1
<1>3. PICK r : /\ r[0] = L /\ ini_startup(L, q) = r[N]
               /\ \A n \in 1 .. N : r[n] = ini_startup_line(r[n - 1], q[n])
  BY <1>1, <1>2, StartupSteps
<1> DEFINE G == {n \in 0 .. N : Unopened(r[n]) /\ r[n].endlist <= n}
<1>4. 0 \in G
  BY <1>3
<1>5. ASSUME NEW n \in 1 .. N, n - 1 \in G  PROVE n \in G
  <2>1. Unopened(r[n - 1]) /\ r[n - 1].endlist <= n - 1 /\ q[n] \in Files
    BY <1>1, <1>2, <1>5
  <2>2. r[n - 1].endlist \in Nat
    BY <2>1, StateFields, SlotIs DEF Unopened
  <2>3. r[n - 1].endlist + 1 \in Slot
    BY <1>1, <1>2, <2>1, <2>2
  <2> DEFINE M == ini_startup_line(r[n - 1], q[n])
  <2>4. Unopened(M) /\ M.endlist <= r[n - 1].endlist + 1
    BY <2>1, <2>3, StartupLineKeeps
  <2>. HIDE DEF M
  <2>5. M.endlist \in Nat
    BY <2>4, StateFields, SlotIs DEF Unopened
  <2>6. r[n] = M
    BY <1>3 DEF M
  <2>. QED  BY <2>1, <2>2, <2>4, <2>5, <2>6
<1>. HIDE DEF G
<1>6. N \in G
  <2>1. \A n \in 0 .. N : n \in G
    BY <1>4, <1>5, Upwards
  <2>. QED  BY <2>1
<1>7. ListInv(ini_startup(L, q))
  BY <1>3, <1>6, UnopenedIsInOrder DEF G
<1>8. PICK d : /\ d[0] = ini_startup(L, q) /\ load_list(L, q, outs) = d[MaxPlugins]
               /\ \A n \in 1 .. MaxPlugins : d[n] = load_one(d[n - 1], n, outs[n])
  BY <1>1, LoadSteps
<1> DEFINE H == {n \in 0 .. MaxPlugins : ListInv(d[n])}
<1>9. 0 \in H
  BY <1>1, <1>7, <1>8
<1>10. ASSUME NEW n \in 1 .. MaxPlugins, n - 1 \in H  PROVE n \in H
  BY <1>1, <1>8, <1>10, LoadOneKeeps
<1>. HIDE DEF H
<1>11. MaxPlugins \in H
  <2>1. \A n \in 0 .. MaxPlugins : n \in H
    BY <1>1, <1>9, <1>10, Upwards
  <2>. QED  BY <1>1, <2>1
<1>. QED  BY <1>8, <1>11 DEF H

LEMMA RefreshKeeps ==
  ASSUME NEW L, NEW q \in Inis \ {NULL}, NEW now, NEW outs, ListInv(L)
  PROVE  ListInv(refresh(L, q, now, outs))
<1>1. q # NULL /\ q \in Seq(Files) /\ Len(q) \in Nat /\ MaxPlugins \in Nat
  BY IniAssumption, SlotIs
<1>2. PICK N \in Nat : N = Len(q)
  BY <1>1
<1>3. PICK r : /\ r[0] = L /\ ini_refresh(L, q, outs) = r[N]
               /\ \A n \in 1 .. N : r[n] = ini_refresh_line(r[n - 1], q[n], outs)
  BY <1>1, <1>2, IniRefreshSteps
<1> DEFINE G == {n \in 0 .. N : ListInv(r[n])}
<1>4. 0 \in G
  BY <1>3
<1>5. ASSUME NEW n \in 1 .. N, n - 1 \in G  PROVE n \in G
  <2>1. ListInv(r[n - 1]) /\ q[n] \in Files
    BY <1>1, <1>2, <1>5
  <2>. QED  BY <1>3, <2>1, IniRefreshLineKeeps
<1>. HIDE DEF G
<1>6. N \in G
  <2>1. \A n \in 0 .. N : n \in G
    BY <1>4, <1>5, Upwards
  <2>. QED  BY <2>1
<1>7. ListInv(ini_refresh(L, q, outs))
  BY <1>3, <1>6 DEF G
<1>8. PICK d : /\ d[0] = ini_refresh(L, q, outs) /\ refresh(L, q, now, outs) = d[MaxPlugins]
               /\ \A n \in 1 .. MaxPlugins : d[n] = refresh_listed(d[n - 1], n, now, outs[n])
  BY <1>1, RefreshSteps
<1> DEFINE H == {n \in 0 .. MaxPlugins : ListInv(d[n])}
<1>9. 0 \in H
  BY <1>1, <1>7, <1>8
<1>10. ASSUME NEW n \in 1 .. MaxPlugins, n - 1 \in H  PROVE n \in H
  BY <1>1, <1>8, <1>10, RefreshListedKeeps
<1>. HIDE DEF H
<1>11. MaxPlugins \in H
  <2>1. \A n \in 0 .. MaxPlugins : n \in H
    BY <1>1, <1>9, <1>10, Upwards
  <2>. QED  BY <1>1, <2>1
<1>. QED  BY <1>8, <1>11 DEF H

\* plugins.ini cannot be read: nothing is done.
LEMMA Unread ==
  ASSUME NEW L, NEW now, NEW outs
  PROVE  load_list(L, NULL, outs) = Fails(L, "nofile")
         /\ refresh(L, NULL, now, outs) = Fails(L, "nofile")
BY DEF load_list, refresh, ini_startup, ini_refresh

LEMMA StartupInOrder ==
  ASSUME NEW L, NEW q \in Inis, NEW outs, Unopened(L), L.endlist = 0
  PROVE  ListInv(load_list(L, q, outs))
<1>1. CASE q = NULL
  BY <1>1, Unread, UnopenedIsInOrder, FailsKeeps DEF Errnos
<1>2. CASE q # NULL
  BY <1>2, StartupKeeps
<1>. QED  BY <1>1, <1>2

LEMMA RefreshInOrder ==
  ASSUME NEW L, NEW q \in Inis, NEW now, NEW outs, ListInv(L)
  PROVE  ListInv(refresh(L, q, now, outs))
<1>1. CASE q = NULL
  BY <1>1, Unread, FailsKeeps DEF Errnos
<1>2. CASE q # NULL
  BY <1>2, RefreshKeeps
<1>. QED  BY <1>1, <1>2

LEMMA UnpauseAllKeeps ==
  ASSUME NEW L, ListInv(L)
  PROVE  ListInv(unpause_all(L))
<1>1. MaxPlugins \in Nat
  BY SlotIs
<1>2. PICK d : /\ d[0] = L /\ unpause_all(L) = d[MaxPlugins]
               /\ \A n \in 1 .. MaxPlugins : d[n] = unpause_listed(d[n - 1], n)
  BY UnpauseSteps
<1> DEFINE H == {n \in 0 .. MaxPlugins : ListInv(d[n])}
<1>3. 0 \in H
  BY <1>1, <1>2
<1>4. ASSUME NEW n \in 1 .. MaxPlugins, n - 1 \in H  PROVE n \in H
  BY <1>1, <1>2, <1>4, UnpauseListedKeeps
<1>. HIDE DEF H
<1>5. MaxPlugins \in H
  <2>1. \A n \in 0 .. MaxPlugins : n \in H
    BY <1>1, <1>3, <1>4, Upwards
  <2>. QED  BY <1>1, <2>1
<1>. QED  BY <1>2, <1>5 DEF H
-----------------------------------------------------------------------------
(***************************************************************************)
(* What an operation on one entry t leaves of the others: each stays as it *)
(* is, but for its loader, and stays in the list or out of it.             *)
(***************************************************************************)
Alike(p, q) == /\ p.status = q.status
               /\ p.action = q.action
               /\ p.file = q.file
               /\ p.source = q.source
               /\ p.pfspecific = q.pfspecific
               /\ p.fresh = q.fresh

Spares(L, M, s) == /\ Alike(M.plist[s], L.plist[s])
                   /\ s \in Listed(M) <=> s \in Listed(L)

Touches(L, M, t) == M \in ListState /\ \A s \in Slot \ {t} : Spares(L, M, s)

LEMMA SparesNext ==
  ASSUME NEW L, NEW M, NEW N, NEW s, Spares(L, M, s), Spares(M, N, s)
  PROVE  Spares(L, N, s)
BY DEF Spares, Alike

LEMMA TouchesNext ==
  ASSUME NEW L, NEW M, NEW N, NEW t, Touches(L, M, t), Touches(M, N, t)
  PROVE  Touches(L, N, t)
BY SparesNext DEF Touches

LEMMA TouchesEdited ==
  ASSUME NEW L \in ListState, NEW M, NEW t \in Slot, NEW st, NEW act, NEW h, NEW i,
         Edited(L, M, t, st, act, h, i)
  PROVE  Touches(L, M, t) /\ M \in ListState /\ M.plist[t] \in Plugin
BY ListedIs DEF Edited, Writes, Holds, Touches, Spares, Alike

\* An operation that leaves the entries, or trims the list, touches none.
LEMMA TouchesSame ==
  ASSUME NEW L \in ListState, NEW M \in ListState, M.plist = L.plist, M.endlist = L.endlist
  PROVE  \A s \in Slot : Spares(L, M, s) /\ Touches(L, M, s)
BY ListedIs DEF Spares, Alike, Touches

LEMMA TouchesFails ==
  ASSUME NEW L \in ListState, NEW e \in Errnos
  PROVE  LET M == Fails(L, e)
         IN  /\ M \in ListState /\ M.plist = L.plist /\ M.endlist = L.endlist /\ M.errno = e
             /\ \A s \in Slot : Spares(L, M, s) /\ Touches(L, M, s)
<1> DEFINE M == Fails(L, e)
<1>1. M \in ListState /\ M.plist = L.plist /\ M.endlist = L.endlist /\ M.errno = e
  BY DEF Fails, ListState
<1>. HIDE DEF M
<1>2. \A s \in Slot : Spares(L, M, s) /\ Touches(L, M, s)
  BY <1>1, TouchesSame
<1>. QED  BY <1>1, <1>2 DEF M

LEMMA TouchesRebuilt ==
  ASSUME NEW L \in ListState
  PROVE  \A s \in Slot : Spares(L, rebuild_hook_lists(L), s)
                       /\ Touches(L, rebuild_hook_lists(L), s)
BY RebuildIs, TouchesSame

LEMMA TouchesTrimmed ==
  ASSUME NEW L \in ListState
  PROVE  \A s \in Slot : Spares(L, trim_list(L), s) /\ Touches(L, trim_list(L), s)
<1> DEFINE M == trim_list(L)
<1>1. /\ M \in ListState /\ M.plist = L.plist /\ M.endlist <= L.endlist
      /\ \A t \in 1 .. L.endlist : L.plist[t].status # PL_EMPTY => t <= M.endlist
      /\ L.endlist \in 0 .. MaxPlugins /\ MaxPlugins \in Nat
  BY TrimIs, StateFields, SlotIs
<1>. HIDE DEF M
<1>2. M.endlist \in 0 .. MaxPlugins
  BY <1>1, StateFields
<1>3. ASSUME NEW s \in Slot  PROVE s \in Listed(M) <=> s \in Listed(L)
  <2>1. s \in Nat /\ s >= 1 /\ L.plist[s].status \in 0 .. 6
    BY <1>1, SlotIs, StateFields, EntryFields
  <2>. QED  BY <1>1, <1>2, <2>1, ListedIs, Order
<1>4. \A s \in Slot : Spares(L, M, s) /\ Touches(L, M, s)
  BY <1>1, <1>3 DEF Spares, Alike, Touches
<1>. QED  BY <1>4 DEF M

\* Orphaning the children of t changes nothing but who their loader is.
LEMMA TouchesOrphans ==
  ASSUME NEW L, NEW t \in Slot, ListInv(L)
  PROVE  LET M == clear_source_plugin_index(L, t)
         IN  M \in ListState /\ \A s \in Slot : Spares(L, M, s) /\ Touches(L, M, s)
<1> DEFINE M == clear_source_plugin_index(L, t)
           Q == [s \in Slot |->
                  IF s \in Listed(L) /\ L.plist[s].source_plugin_index = t
                  THEN [L.plist[s] EXCEPT !.source_plugin_index = -1] ELSE L.plist[s]]
<1>1. L \in ListState /\ M \in ListState
  BY OrphanKeeps DEF ListInv, Core, Shared
<1>2. M = [L EXCEPT !.plist = Q]
  BY DEF clear_source_plugin_index
<1>3. ASSUME NEW s \in Slot  PROVE Alike(Q[s], L.plist[s])
  <2> DEFINE q == L.plist[s]
             p == [q EXCEPT !.source_plugin_index = -1]
  <2>1. q \in Plugin
    BY <1>1, StateFields
  <2>2. Alike(p, q) /\ Alike(q, q)
    BY <2>1 DEF Alike, Plugin
  <2>3. Q[s] = IF s \in Listed(L) /\ q.source_plugin_index = t THEN p ELSE q
    OBVIOUS
  <2>. HIDE DEF p, Q
  <2>. QED  BY <2>2, <2>3
<1>. HIDE DEF Q, M
<1>4. M.plist = Q /\ M.endlist = L.endlist
  BY <1>1, <1>2 DEF ListState
<1>5. \A s \in Slot : s \in Listed(M) <=> s \in Listed(L)
  BY <1>1, <1>3, <1>4, ListedIs DEF Alike
<1>6. \A s \in Slot : Spares(L, M, s) /\ Touches(L, M, s)
  BY <1>1, <1>3, <1>4, <1>5 DEF Spares, Touches
<1>. QED  BY <1>1, <1>6 DEF M

-----------------------------------------------------------------------------
\* The operations on one entry touch no other; and what they make of it.
LEMMA PostponeDoes ==
  ASSUME NEW L \in ListState, NEW t \in Slot, NEW allowed
  PROVE  LET M == Postpone(L, t, allowed)
         IN  /\ Touches(L, M, t)
             /\ M.plist[t].status = L.plist[t].status
             /\ \/ M.errno = "delayed" /\ M.plist = L.plist /\ M.endlist = L.endlist
                \/ M.errno = "notallowed" /\ M.plist[t].action = PA_NONE
<1> DEFINE A == [L EXCEPT !.plist[t].action = PA_NONE]
           q == L.plist[t]
           D == Fails(L, "delayed")
           N == Fails(A, "notallowed")
<1>1. PA_NONE \in 0 .. 6
  BY Codes
<1>2. Edited(L, A, t, q.status, PA_NONE, q.handle, q.info)
  BY <1>1, ActionIs
<1>3. Postpone(L, t, allowed) = IF allowed > PT_STARTUP THEN D ELSE N
  BY DEF Postpone
<1>. HIDE DEF A
<1>4. Touches(L, A, t) /\ A \in ListState /\ A.plist[t].status = q.status
      /\ A.plist[t].action = PA_NONE
  BY <1>2, TouchesEdited DEF Edited, Holds
<1>5. /\ Touches(L, D, t) /\ D.plist = L.plist /\ D.endlist = L.endlist /\ D.errno = "delayed"
  BY TouchesFails DEF Errnos
<1>6. Touches(A, N, t) /\ N.plist = A.plist /\ N.errno = "notallowed"
  BY <1>4, TouchesFails DEF Errnos
<1>. HIDE DEF D, N
<1>7. Touches(L, N, t)
  BY <1>4, <1>6, TouchesNext
<1>. QED  BY <1>3, <1>4, <1>5, <1>6, <1>7

\* A plugin that is tried is answered, or put off as the time says.
Tried(M, t) == /\ M.plist[t].status \in {PL_RUNNING, PL_FAILED, PL_BADFILE}
               /\ M.plist[t].action \in {PA_NONE, PA_LOAD}
               /\ M.plist[t].status = PL_RUNNING => M.plist[t].action = PA_NONE
               /\ M.errno \notin {"delayed", "notallowed"}

PutOff(M, t) == /\ M.plist[t].status = PL_OPENED
                /\ M.errno \in {"delayed", "notallowed"}

LEMMA LoadDoes ==
  ASSUME NEW L \in ListState, NEW t \in Slot, NEW now, NEW out,
         L.plist[t].status >= PL_VALID => L.plist[t].file \in Files
  PROVE  LET M == load(L, t, now, out)
             p == L.plist[t]
         IN  /\ Touches(L, M, t)
             /\ p.status \in PL_VALID .. PL_OPENED /\ p.action = PA_LOAD /\ L.errno = "none" =>
                  Tried(M, t) \/ (loadable[p.file] < now /\ PutOff(M, t))
<1> DEFINE p == L.plist[t]
           opened == IF p.status <= PL_OPENED THEN query(L, t, out) ELSE L
           allowed == loadable[opened.plist[t].info]
           M == load(L, t, now, out)
<1>1. p.status \in 0 .. 6
  BY StateFields, EntryFields
<1>2. M = CASE p.status < PL_VALID    -> Fails(L, "argument")
            [] p.status >= PL_RUNNING -> Fails(L, "already")
            [] p.status \in PL_VALID .. PL_FAILED ->
                 IF p.action \notin {PA_LOAD, PA_ATTACH, PA_RELOAD}
                 THEN Fails(L, "badreq")
                 ELSE IF Failed(opened) THEN opened
                 ELSE IF allowed < now THEN Postpone(opened, t, allowed)
                 ELSE attach(opened, t, out)
  BY DEF load
<1>3. /\ p.status < PL_VALID => M = Fails(L, "argument")
      /\ p.status >= PL_RUNNING => M = Fails(L, "already")
      /\ p.status >= PL_VALID /\ p.status < PL_RUNNING =>
           \/ M = Fails(L, "badreq") /\ p.action # PA_LOAD
           \/ M = opened /\ Failed(opened)
           \/ M = Postpone(opened, t, allowed) /\ ~ Failed(opened) /\ allowed < now
           \/ M = attach(opened, t, out) /\ ~ Failed(opened)
  <2>. HIDE DEF opened, allowed, M
  <2>. QED  BY <1>1, <1>2, Order
<1>4. ASSUME p.status >= PL_VALID
      PROVE  /\ opened \in ListState /\ Touches(L, opened, t)
             /\ p.status <= PL_OPENED =>
                  \/ /\ opened.plist[t].status = PL_BADFILE /\ opened.errno = "query"
                     /\ opened.plist[t].action = p.action
                  \/ /\ opened.plist[t].status = PL_OPENED /\ opened.errno = L.errno
                     /\ opened.plist[t].action = p.action /\ opened.plist[t].info = p.file
  <2> DEFINE Q == query(L, t, out)
  <2>1. p.file \in Files
    BY <1>4
  <2>2. \/ Edited(L, Q, t, PL_BADFILE, p.action, NULL, NULL) /\ Q.errno = "query"
        \/ Edited(L, Q, t, PL_OPENED, p.action, p.file, p.file) /\ Q.errno = L.errno
    <3>1. \/ /\ Edited(L, Q, t, PL_BADFILE, p.action, NULL, NULL)
             /\ Q.refs = L.refs /\ Q.errno = "query"
          \/ /\ Edited(L, Q, t, PL_OPENED, p.action, p.file, p.file)
             /\ Q.refs = [L.refs EXCEPT ![p.file] = @ + 1] /\ Q.errno = L.errno
      BY <2>1, QueryIs, Zenon
    <3>. HIDE DEF Q
    <3>. QED  BY <3>1
  <2>. HIDE DEF Q
  <2>3. Touches(L, Q, t) /\ Q \in ListState
    BY <2>2, TouchesEdited
  <2>4. Touches(L, L, t)
    BY TouchesSame
  <2>5. \/ /\ Q.plist[t].status = PL_BADFILE /\ Q.errno = "query"
           /\ Q.plist[t].action = p.action
        \/ /\ Q.plist[t].status = PL_OPENED /\ Q.errno = L.errno
           /\ Q.plist[t].action = p.action /\ Q.plist[t].info = p.file
    BY <2>2 DEF Edited, Holds
  <2>6. opened = IF p.status <= PL_OPENED THEN Q ELSE L
    BY DEF Q
  <2>. HIDE DEF opened
  <2>. QED  BY <2>3, <2>4, <2>5, <2>6
<1>. HIDE DEF opened, allowed, M
<1>5. /\ Touches(L, Fails(L, "argument"), t) /\ Touches(L, Fails(L, "already"), t)
      /\ Touches(L, Fails(L, "badreq"), t)
  BY TouchesFails DEF Errnos
<1>6. CASE p.status < PL_VALID \/ p.status >= PL_RUNNING
  <2>1. ~ (p.status \in PL_VALID .. PL_OPENED)
    BY <1>1, <1>6, Order
  <2>. QED  BY <1>3, <1>5, <1>6, <2>1 DEF M
<1>7. CASE p.status >= PL_VALID /\ p.status < PL_RUNNING
  <2>1. /\ opened \in ListState /\ Touches(L, opened, t)
        /\ p.status <= PL_OPENED =>
             \/ /\ opened.plist[t].status = PL_BADFILE /\ opened.errno = "query"
                /\ opened.plist[t].action = p.action
             \/ /\ opened.plist[t].status = PL_OPENED /\ opened.errno = L.errno
                /\ opened.plist[t].action = p.action /\ opened.plist[t].info = p.file
    BY <1>4, <1>7
  <2>2. p.status \in PL_VALID .. PL_OPENED => p.status <= PL_OPENED
    BY <1>1, Order
  <2>3. CASE M = Fails(L, "badreq") /\ p.action # PA_LOAD
    BY <1>5, <2>3 DEF M
  <2>4. CASE M = opened /\ Failed(opened)
    BY <2>1, <2>2, <2>4, Order DEF M, Failed, Tried
  <2>5. CASE M = Postpone(opened, t, allowed) /\ ~ Failed(opened) /\ allowed < now
    <3>1. /\ Touches(opened, M, t) /\ M.plist[t].status = opened.plist[t].status
          /\ M.errno \in {"delayed", "notallowed"}
      BY <2>1, <2>5, PostponeDoes
    <3>2. Touches(L, M, t)
      BY <2>1, <3>1, TouchesNext
    <3>. QED  BY <2>1, <2>2, <2>5, <3>1, <3>2 DEF M, Failed, PutOff, allowed
  <2>6. CASE M = attach(opened, t, out) /\ ~ Failed(opened)
    <3> DEFINE q == opened.plist[t]
    <3>1. \/ Edited(opened, M, t, PL_FAILED, q.action, q.handle, q.info) /\ M.errno = "attach"
          \/ Edited(opened, M, t, PL_RUNNING, PA_NONE, q.handle, q.info)
             /\ M.errno = opened.errno
      BY <2>1, <2>6, AttachIs
    <3>2. Touches(opened, M, t)
      BY <2>1, <3>1, TouchesEdited
    <3>3. Touches(L, M, t)
      BY <2>1, <3>2, TouchesNext
    <3>4. p.status <= PL_OPENED /\ p.action = PA_LOAD /\ L.errno = "none" => Tried(M, t)
      BY <2>1, <2>6, <3>1, Order DEF Edited, Holds, Failed, Tried
    <3>. QED  BY <2>2, <3>3, <3>4 DEF M
  <2>. QED  BY <1>3, <1>7, <2>3, <2>4, <2>5, <2>6
<1>. QED  BY <1>1, <1>6, <1>7, Order

LEMMA ClearDoes ==
  ASSUME NEW L \in ListState, NEW t \in Slot
  PROVE  LET M == clear(L, t)
         IN  /\ Touches(L, M, t)
             /\ L.plist[t].status \in {PL_FAILED, PL_BADFILE, PL_EMPTY, PL_OPENED} =>
                  M.plist[t].status = PL_EMPTY
<1> DEFINE B == Blank(L, t)
           T == trim_list(B)
           F == Fails(L, "badreq")
<1>1. clear(L, t) = IF L.plist[t].status \notin {PL_FAILED, PL_BADFILE, PL_EMPTY, PL_OPENED}
                    THEN F ELSE T
  BY DEF clear, Blank
<1>2. Edited(L, B, t, PL_EMPTY, PA_NULL, NULL, NULL)
  BY BlankIs
<1>. HIDE DEF B
<1>3. Touches(L, B, t) /\ B \in ListState /\ B.plist[t].status = PL_EMPTY
  BY <1>2, TouchesEdited DEF Edited, Holds
<1>4. Touches(B, T, t) /\ T.plist = B.plist
  BY <1>3, TouchesTrimmed, TrimIs
<1>5. Touches(L, F, t)
  BY TouchesFails DEF Errnos
<1>. HIDE DEF T, F
<1>6. Touches(L, T, t)
  BY <1>3, <1>4, TouchesNext
<1>. QED  BY <1>1, <1>3, <1>4, <1>5, <1>6

LEMMA DetachedDoes ==
  ASSUME NEW L, NEW t \in Slot, ListInv(L)
  PROVE  LET M == Detached(L, t)
         IN  Touches(L, M, t) /\ (L.plist[t].action = PA_UNLOAD => M.plist[t].status = PL_EMPTY)
<1> DEFINE D == clear_source_plugin_index(L, t)
           C == DLCLOSE(D, t)
           X == [C EXCEPT !.plist[t].status = PL_EMPTY]
           T == clear(X, t)
           p == Ready(C.plist[t], PL_VALID, PA_LOAD)
           V == [C EXCEPT !.plist[t] = p]
<1>1. Detached(L, t) = IF L.plist[t].action = PA_UNLOAD THEN rebuild_hook_lists(T)
                       ELSE rebuild_hook_lists(V)
  BY DEF Detached, Ready
<1>2. D \in ListState /\ Touches(L, D, t)
  BY TouchesOrphans
<1>. HIDE DEF D
<1>3. Edited(D, C, t, D.plist[t].status, D.plist[t].action, NULL, D.plist[t].info)
  BY <1>2, CloseIs
<1>. HIDE DEF C
<1>4. Touches(D, C, t) /\ C \in ListState /\ C.plist[t] \in Plugin
  BY <1>2, <1>3, TouchesEdited
<1>5. Touches(L, C, t)
  BY <1>2, <1>4, TouchesNext
<1>6. Edited(C, X, t, PL_EMPTY, C.plist[t].action, C.plist[t].handle, C.plist[t].info)
  BY <1>4, StatusIs, Codes
<1>. HIDE DEF X
<1>7. Touches(C, X, t) /\ X \in ListState /\ X.plist[t].status = PL_EMPTY
  BY <1>4, <1>6, TouchesEdited DEF Edited, Holds
<1>8. Touches(X, T, t) /\ T.plist[t].status = PL_EMPTY
  BY <1>7, ClearDoes
<1>. HIDE DEF T
<1>9. Touches(L, T, t) /\ T \in ListState
  <2>1. Touches(L, X, t)
    BY <1>5, <1>7, TouchesNext
  <2>2. Touches(L, T, t)
    BY <1>8, <2>1, TouchesNext
  <2>. QED  BY <2>2 DEF Touches
<1> DEFINE RT == rebuild_hook_lists(T)
<1>10. Touches(T, RT, t) /\ RT.plist = T.plist
  BY <1>9, TouchesRebuilt, RebuildIs
<1>11. PL_VALID \in 0 .. 6 /\ PA_LOAD \in 0 .. 6
  BY Codes
<1>12. Holds(p, C.plist[t], PL_VALID, PA_LOAD, C.plist[t].handle, C.plist[t].info)
  BY <1>4, <1>11, ReadyIs, Zenon
<1>13. p \in Plugin
  BY <1>12 DEF Holds
<1>. HIDE DEF p
<1>14. /\ V \in ListState /\ V.plist[t] = p
       /\ \A s \in Slot : s # t => V.plist[s] = C.plist[s]
       /\ V.endlist = C.endlist
  BY <1>4, <1>13, PutIn
<1>. HIDE DEF V
<1>15. Edited(C, V, t, PL_VALID, PA_LOAD, C.plist[t].handle, C.plist[t].info)
  BY <1>12, <1>14 DEF Edited, Writes
<1>16. Touches(L, V, t)
  <2>1. Touches(C, V, t)
    BY <1>4, <1>15, TouchesEdited
  <2>. QED  BY <1>5, <2>1, TouchesNext
<1> DEFINE RV == rebuild_hook_lists(V)
<1>17. Touches(V, RV, t)
  BY <1>14, TouchesRebuilt
<1>. HIDE DEF RT, RV
<1>18. Touches(L, RT, t) /\ Touches(L, RV, t)
  BY <1>9, <1>10, <1>16, <1>17, TouchesNext
<1>. QED  BY <1>1, <1>8, <1>10, <1>18 DEF RT, RV

\* unload(): refused for good, put off, or done.
LEMMA UnloadDoes ==
  ASSUME NEW L, NEW t \in Slot, NEW now, NEW reason, NEW out, ListInv(L)
  PROVE  LET M == unload(L, t, now, reason, out)
             p == L.plist[t]
         IN  /\ Touches(L, M, t)
             /\ \/ /\ M.plist = L.plist /\ M.endlist = L.endlist
                   /\ \/ M.errno = "argument" /\ p.status < PL_VALID
                      \/ M.errno = "already" /\ p.status < PL_RUNNING /\ reason # "reload"
                      \/ M.errno = "badreq" /\ p.action \notin {PA_UNLOAD, PA_RELOAD}
                      \/ M.errno = "detach" /\ out = "nodetach" /\ reason # "reload"
                         /\ (p.info # NULL => ~ (unloadable[p.info] < now))
                \/ M = Postpone(L, t, unloadable[p.info]) /\ unloadable[p.info] < now
                \/ M = Detached(L, t)
<1> DEFINE M == unload(L, t, now, reason, out)
           p == L.plist[t]
<1>1. L \in ListState
  BY DEF ListInv, Core, Shared
<1>2. \/ M = Fails(L, "argument") /\ p.status < PL_VALID
      \/ M = Fails(L, "already") /\ p.status < PL_RUNNING /\ reason # "reload"
      \/ M = Fails(L, "badreq") /\ p.action \notin {PA_UNLOAD, PA_RELOAD}
      \/ /\ M = Fails(L, "detach") /\ out = "nodetach" /\ reason \notin {"forced", "reload"}
         /\ (p.info # NULL => ~ (unloadable[p.info] < now))
      \/ M = Postpone(L, t, unloadable[p.info]) /\ unloadable[p.info] < now
      \/ M = Detached(L, t)
  BY DEF unload
<1>3. \A e \in Errnos : LET F == Fails(L, e)
                        IN  /\ F.plist = L.plist /\ F.endlist = L.endlist /\ F.errno = e
                            /\ Touches(L, F, t)
  BY <1>1, TouchesFails
<1>4. {"argument", "already", "badreq", "detach"} \subseteq Errnos
  BY DEF Errnos
<1>5. Touches(L, Postpone(L, t, unloadable[p.info]), t) /\ Touches(L, Detached(L, t), t)
  BY <1>1, PostponeDoes, DetachedDoes
<1>. HIDE DEF M
<1>. QED  BY <1>2, <1>3, <1>4, <1>5 DEF M

\* reload(): an opened plugin that may be unloaded and loaded is tried.
LEMMA ReloadDoes ==
  ASSUME NEW L, NEW t \in Slot, NEW now, NEW reason, NEW out,
         ListInv(L), L.plist[t].action = PA_RELOAD, L.errno = "none"
  PROVE  LET M == reload(L, t, now, reason, out)
             p == L.plist[t]
         IN  /\ Touches(L, M, t)
             /\ /\ p.status = PL_OPENED
                /\ ~ (loadable[p.file] < now) /\ ~ (unloadable[p.file] < now)
                => Tried(M, t)
<1> DEFINE p == L.plist[t]
           why == IF p.status < PL_RUNNING THEN "reload" ELSE reason
           U == unload(L, t, now, why, out)
           P == Postpone(L, t, loadable[p.info])
           V == load(U, t, now, out)
           M == reload(L, t, now, reason, out)
<1>1. L \in ListState /\ p.status \in 0 .. 6
  BY InOrder
<1>2. M = IF p.status < PL_VALID THEN Fails(L, "argument")
          ELSE IF p.info # NULL /\ loadable[p.info] < now THEN P
          ELSE IF Failed(U) THEN U ELSE V
  BY DEF reload
<1>3. Touches(L, P, t) /\ Touches(L, Fails(L, "argument"), t)
  BY <1>1, PostponeDoes, TouchesFails DEF Errnos
<1>4. /\ Touches(L, U, t)
      /\ ~ Failed(U) => U = Detached(L, t)
  <2>1. \A allowed : LET O == Postpone(L, t, allowed)
                     IN O.errno = "delayed" \/ O.errno = "notallowed"
    BY <1>1, PostponeDoes
  <2>. QED  BY <2>1, UnloadDoes DEF Failed
<1>5. ASSUME p.status = PL_OPENED, ~ (unloadable[p.file] < now)
      PROVE  U = Detached(L, t)
  <2>1. p.info = p.file
    BY <1>5, InOrder, Order DEF EntryOk
  <2>2. why = "reload" /\ ~ (p.status < PL_VALID)
    BY <1>5, Order
  <2>. HIDE DEF why
  <2>3. U = unload(L, t, now, "reload", out)
    BY <2>2
  <2>. QED  BY <2>1, <2>2, <2>3, <1>5, Order DEF unload
<1>. HIDE DEF U, M, P, V
<1>6. ASSUME p.status >= PL_VALID, U = Detached(L, t)
      PROVE  /\ Touches(U, V, t) /\ ~ Failed(U)
             /\ ~ (loadable[p.file] < now) => Tried(V, t)
  <2>1. p.action # PA_UNLOAD
    BY Order
  <2>2. /\ U \in ListState /\ U.plist[t].file = p.file /\ p.file \in Files /\ U.errno = "none"
        /\ U.plist[t].status = PL_VALID /\ U.plist[t].action = PA_LOAD
    BY <1>6, <2>1, DetachedReloaded DEF Shared
  <2>3. PL_VALID \in PL_VALID .. PL_OPENED
    BY Order
  <2>. QED  BY <2>2, <2>3, LoadDoes DEF V, Failed
<1>7. Touches(L, M, t)
  <2>1. p.status >= PL_VALID /\ ~ Failed(U) => Touches(L, V, t)
    BY <1>4, <1>6, TouchesNext
  <2>2. p.status < PL_VALID \/ p.status >= PL_VALID
    BY <1>1, Order
  <2>. QED  BY <1>2, <1>3, <1>4, <2>1, <2>2
<1>8. ASSUME p.status = PL_OPENED, ~ (loadable[p.file] < now), ~ (unloadable[p.file] < now)
      PROVE  Tried(M, t)
  <2>1. p.info = p.file /\ p.status >= PL_VALID /\ ~ (p.status < PL_VALID)
    BY <1>8, InOrder, Order DEF EntryOk
  <2>2. U = Detached(L, t)
    BY <1>5, <1>8
  <2>. QED  BY <1>2, <1>6, <1>8, <2>1, <2>2
<1>. QED  BY <1>7, <1>8 DEF M

LEMMA RetryDoes ==
  ASSUME NEW L, NEW t \in Slot, NEW now, NEW reason, NEW out, ListInv(L), L.errno = "none"
  PROVE  Touches(L, retry(L, t, now, reason, out), t)
<1>1. L \in ListState /\ (L.plist[t].status >= PL_VALID => L.plist[t].file \in Files)
  BY InOrder DEF EntryOk
<1>2. Touches(L, load(L, t, now, out), t)
  BY <1>1, LoadDoes
<1>3. Touches(L, unload(L, t, now, reason, out), t)
  BY UnloadDoes
<1>4. L.plist[t].action = PA_RELOAD => Touches(L, reload(L, t, now, reason, out), t)
  BY ReloadDoes
<1>5. Touches(L, Fails(L, "badreq"), t)
  BY <1>1, TouchesFails DEF Errnos
<1>. QED  BY <1>2, <1>3, <1>4, <1>5, Order DEF retry

\* The entry t is given the action a, and no other is touched.
Switched(L, M, t, a) == M = [L EXCEPT !.plist[t].action = a]

Switches(L, M, t, a) ==
  /\ Touches(L, M, t) /\ M \in ListState /\ M.endlist = L.endlist
  /\ M.plist[t].action = a /\ M.plist[t].status = L.plist[t].status
  /\ M.plist[t].file = L.plist[t].file /\ M.plist[t].info = L.plist[t].info
  /\ M.errno = L.errno

LEMMA Acted ==
  ASSUME NEW L, NEW M, NEW t \in Slot, NEW a \in 0 .. 6, ListInv(L), Switched(L, M, t, a)
  PROVE  Switches(L, M, t, a)
<1> DEFINE X == [L EXCEPT !.plist[t].action = a]
           p == L.plist[t]
<1>1. L \in ListState
  BY InOrder
<1>2. Edited(L, X, t, p.status, a, p.handle, p.info) /\ X.errno = L.errno
  BY <1>1, ActionIs
<1>3. X = M
  BY DEF Switched
<1>. HIDE DEF X
<1>4. Edited(L, M, t, p.status, a, p.handle, p.info) /\ M.errno = L.errno
  BY <1>2, <1>3
<1>5. Touches(L, M, t) /\ M \in ListState
  BY <1>1, <1>4, TouchesEdited
<1>. QED  BY <1>4, <1>5 DEF Edited, Holds, Writes, Switches

LEMMA RefreshOneDoes ==
  ASSUME NEW L, NEW t \in Slot, NEW now, NEW out, ListInv(L), L.errno = "none",
         L.plist[t].status >= PL_VALID
  PROVE  LET M == refresh_one(L, t, now, out)
             p == L.plist[t]
         IN  /\ Touches(L, M, t)
             /\ /\ p.status = PL_OPENED /\ ~ (loadable[p.file] < now)
                /\ p.action = PA_LOAD \/ (p.action = PA_RELOAD /\ ~ (unloadable[p.file] < now))
                => Tried(M, t)
             /\ p.action = PA_NONE /\ p.status >= PL_RUNNING /\ p.source # "ini" => M = L
             /\ /\ p.action = PA_NONE /\ p.status >= PL_RUNNING /\ p.source = "ini"
                /\ ~ (unloadable[p.file] < now)
                => \/ M.plist[t].status = PL_EMPTY
                   \/ M.plist[t].action = PA_UNLOAD /\ out = "nodetach"
<1> DEFINE p == L.plist[t]
           N == [L EXCEPT !.plist[t].action = PA_NONE]
           A == [L EXCEPT !.plist[t].action = PA_UNLOAD]
           U == unload(A, t, now, "deleted", out)
           M == refresh_one(L, t, now, out)
<1>1. /\ L \in ListState /\ p.status \in 0 .. 6 /\ p.action \in 0 .. 6 /\ p.file \in Files
      /\ EntryOk(p)
  BY InOrder DEF EntryOk
<1>2. /\ p.action = PA_KEEP => M = N
      /\ p.action = PA_LOAD => M = load(L, t, now, out)
      /\ p.action = PA_RELOAD => M = reload(L, t, now, "newer", out)
      /\ p.action \in {PA_ATTACH, PA_UNLOAD} => M = retry(L, t, now, "delayed", out)
      /\ p.action = PA_NONE /\ p.source = "ini" /\ p.status >= PL_RUNNING => M = U
      /\ p.action = PA_NONE /\ ~ (p.source = "ini" /\ p.status >= PL_RUNNING) => M = L
      /\ p.action = PA_NULL => M = L
  BY Order DEF refresh_one
<1>3. PA_NONE \in 0 .. 6 /\ PA_UNLOAD \in 0 .. 6 /\ PA_NONE # PA_LOAD /\ PA_UNLOAD # PA_LOAD
  BY Order
<1>4. Touches(L, N, t)
  <2>1. Switched(L, N, t, PA_NONE)
    BY DEF Switched
  <2>. HIDE DEF N
  <2>. QED  BY <1>3, <2>1, Acted DEF Switches
<1>5. /\ Touches(L, A, t) /\ ListInv(A) /\ A.plist[t].action = PA_UNLOAD
      /\ A.plist[t].status = p.status /\ A.plist[t].info = p.info /\ A.errno = "none"
  <2>1. ListInv(A)
    BY <1>3, ActionKeeps
  <2>2. Switched(L, A, t, PA_UNLOAD)
    BY DEF Switched
  <2>. HIDE DEF A
  <2>3. Switches(L, A, t, PA_UNLOAD)
    BY <1>3, <2>2, Acted
  <2>. QED  BY <2>1, <2>3 DEF Switches
<1>. HIDE DEF A, N
<1>6. Touches(A, U, t)
  BY <1>5, UnloadDoes
<1>7. Touches(L, U, t)
  BY <1>5, <1>6, TouchesNext
<1>8. ASSUME p.status >= PL_RUNNING, ~ (unloadable[p.file] < now)
      PROVE  U.plist[t].status = PL_EMPTY \/ (U.plist[t].action = PA_UNLOAD /\ out = "nodetach")
  <2>1. p.info = p.file
    BY <1>1, <1>8, Order DEF EntryOk
  <2>2. \/ U.plist = A.plist /\ U.errno = "detach" /\ out = "nodetach"
        \/ U = Detached(A, t)
    BY <1>1, <1>5, <1>8, <2>1, UnloadDoes, Order
  <2>. HIDE DEF U
  <2>. QED  BY <1>5, <2>2, DetachedDoes
<1>. HIDE DEF U
<1>9. /\ Touches(L, load(L, t, now, out), t)
      /\ p.action = PA_LOAD /\ p.status = PL_OPENED /\ ~ (loadable[p.file] < now) =>
           Tried(load(L, t, now, out), t)
  <2>1. PL_OPENED \in PL_VALID .. PL_OPENED
    BY Order
  <2>. QED  BY <1>1, <2>1, LoadDoes
<1>10. p.action = PA_RELOAD =>
         /\ Touches(L, reload(L, t, now, "newer", out), t)
         /\ p.status = PL_OPENED /\ ~ (loadable[p.file] < now) /\ ~ (unloadable[p.file] < now) =>
              Tried(reload(L, t, now, "newer", out), t)
  BY ReloadDoes
<1>11. Touches(L, retry(L, t, now, "delayed", out), t)
  BY RetryDoes
<1>12. Touches(L, L, t)
  BY <1>1, TouchesSame
<1>13. p.action \in {PA_NULL, PA_NONE, PA_KEEP, PA_LOAD, PA_ATTACH, PA_UNLOAD, PA_RELOAD}
  BY <1>1, Order
<1>. HIDE DEF M, p
<1>14. Touches(L, M, t)
  BY <1>2, <1>4, <1>7, <1>9, <1>10, <1>11, <1>12, <1>13
<1>. QED  BY <1>2, <1>8, <1>9, <1>10, <1>14 DEF M, p

LEMMA RefreshListedDoes ==
  ASSUME NEW L, NEW t \in Slot, NEW now, NEW out, ListInv(L)
  PROVE  LET M == refresh_listed(L, t, now, out)
             p == L.plist[t]
         IN  /\ Touches(L, M, t)
             /\ t \in Listed(L) =>
                /\ /\ p.status = PL_OPENED /\ ~ (loadable[p.file] < now)
                   /\ p.action = PA_LOAD \/ (p.action = PA_RELOAD /\ ~ (unloadable[p.file] < now))
                   => Tried(M, t)
                /\ p.action = PA_NONE /\ p.status >= PL_RUNNING /\ p.source # "ini" =>
                     Spares(L, M, t)
                /\ /\ p.action = PA_NONE /\ p.status >= PL_RUNNING /\ p.source = "ini"
                   /\ ~ (unloadable[p.file] < now)
                   => \/ M.plist[t].status = PL_EMPTY
                      \/ M.plist[t].action = PA_UNLOAD /\ out = "nodetach"
<1> DEFINE F == Fails(L, "none")
           R == refresh_one(F, t, now, out)
<1>1. L \in ListState
  BY InOrder
<1>2. /\ ListInv(F) /\ F.errno = "none" /\ F.plist = L.plist /\ Touches(L, F, t)
      /\ Spares(L, F, t)
  BY <1>1, FailsKeeps, TouchesFails DEF Errnos
<1>3. refresh_listed(L, t, now, out) = IF t \notin Listed(L) THEN L ELSE R
  BY DEF refresh_listed
<1>4. Touches(L, L, t)
  BY <1>1, TouchesSame
<1>. HIDE DEF F
<1>5. CASE t \notin Listed(L)
  BY <1>3, <1>4, <1>5
<1>6. CASE t \in Listed(L)
  <2>1. F.plist[t].status >= PL_VALID
    BY <1>1, <1>2, <1>6, ListedIs
  <2>2. Touches(F, R, t)
    BY <1>2, <2>1, RefreshOneDoes
  <2>3. Touches(L, R, t)
    BY <1>2, <2>2, TouchesNext
  <2>4. LET p == L.plist[t]
        IN  /\ /\ p.status = PL_OPENED /\ ~ (loadable[p.file] < now)
               /\ p.action = PA_LOAD \/ (p.action = PA_RELOAD /\ ~ (unloadable[p.file] < now))
               => Tried(R, t)
            /\ p.action = PA_NONE /\ p.status >= PL_RUNNING /\ p.source # "ini" => R = F
            /\ /\ p.action = PA_NONE /\ p.status >= PL_RUNNING /\ p.source = "ini"
               /\ ~ (unloadable[p.file] < now)
               => \/ R.plist[t].status = PL_EMPTY
                  \/ R.plist[t].action = PA_UNLOAD /\ out = "nodetach"
    BY <1>2, <2>1, RefreshOneDoes
  <2>. HIDE DEF R
  <2>. QED  BY <1>2, <1>3, <1>6, <2>3, <2>4
<1>. QED  BY <1>5, <1>6

-----------------------------------------------------------------------------
\* add() touches the slot it takes, which no listed plugin has.
LEMMA AddDoes ==
  ASSUME NEW L \in ListState, NEW f \in Files, NEW source \in {"ini", "cmd", "plugin"},
         NEW loader \in 0 .. MaxPlugins
  PROVE  LET M == add(L, f, source, loader)
             t == FreeSlot(L)
         IN  /\ Touches(L, M, t)
             /\ t \notin Listed(L)
             /\ \/ M.errno = "maxreached" /\ M.plist = L.plist /\ M.endlist = L.endlist
                \/ /\ t \in Slot /\ M.errno = L.errno /\ M.plist[t].file = f
                   /\ M.plist[t].status = PL_VALID /\ M.plist[t].action = PA_LOAD
<1> DEFINE t == FreeSlot(L)
           q == L.plist[t]
           p == Added(q, f, source, loader, PL_VALID, PA_LOAD)
           end == IF t > L.endlist THEN t ELSE L.endlist
           N == [L EXCEPT !.endlist = end, !.plist[t] = p]
           M == add(L, f, source, loader)
           F == Fails(L, "maxreached")
<1>1. /\ L.plist \in [Slot -> Plugin] /\ L.endlist \in 0 .. MaxPlugins
      /\ Slot = 1 .. MaxPlugins /\ MaxPlugins \in Nat
  BY StateFields, SlotIs
<1>2. t \in 1 .. L.endlist + 1 /\ (t <= L.endlist => q.status < PL_VALID)
  BY FreeSlotIs
<1>3. M = IF t > MaxPlugins THEN F ELSE N
  BY DEF add, Added
<1>4. F \in ListState /\ F.plist = L.plist /\ F.endlist = L.endlist /\ F.errno = "maxreached"
      /\ \A s \in Slot : Spares(L, F, s)
  BY TouchesFails DEF Errnos
<1>. HIDE DEF t, F
<1>5. t \notin Listed(L)
  <2>1. t \in Listed(L) => t <= L.endlist /\ q.status >= PL_VALID /\ q.status \in 0 .. 6
    BY <1>1, ListedIs, EntryFields
  <2>. QED  BY <1>2, <2>1, Order
<1>6. CASE t > MaxPlugins
  BY <1>3, <1>4, <1>5, <1>6 DEF M, t, Touches
<1>7. CASE ~ (t > MaxPlugins)
  <2>1. t \in Slot /\ q \in Plugin /\ M = N
    BY <1>1, <1>2, <1>3, <1>7
  <2>2. PL_VALID \in 0 .. 6 /\ PA_LOAD \in 0 .. 6 /\ loader \in -1 .. MaxPlugins
    BY <1>1, Codes
  <2>. HIDE DEF q, M
  <2>3. Joined(p, q, f, loader, PL_VALID, PA_LOAD)
    BY <2>1, <2>2, AddedIs, Zenon
  <2>4. /\ p \in Plugin /\ p.file = f /\ p.status = PL_VALID /\ p.action = PA_LOAD
    BY <2>3 DEF Joined
  <2>5. /\ end \in 0 .. MaxPlugins /\ L.endlist <= end
        /\ \A s \in 1 .. end : s = t \/ s \in 1 .. L.endlist
    BY <1>1, <1>2, <2>1
  <2>. HIDE DEF p, end
  <2>6. /\ N \in ListState /\ N.plist[t] = p
        /\ \A s \in Slot : s # t => N.plist[s] = L.plist[s]
        /\ N.endlist = end /\ N.errno = L.errno
    BY <1>1, <2>1, <2>4, <2>5 DEF ListState
  <2>. HIDE DEF N
  <2>7. ASSUME NEW s \in Slot, s # t  PROVE Spares(L, N, s)
    <3>1. s \in 1 .. end <=> s \in 1 .. L.endlist
      BY <1>1, <2>5, <2>7
    <3>2. N.plist[s] = L.plist[s]
      BY <2>6, <2>7
    <3>3. s \in Listed(N) <=> s \in Listed(L)
      BY <2>6, <3>1, <3>2 DEF Listed, Valid
    <3>. QED  BY <3>2, <3>3 DEF Spares, Alike
  <2>. QED  BY <1>5, <2>1, <2>4, <2>6, <2>7 DEF M, t, Touches
<1>. QED  BY <1>6, <1>7

LEMMA ResetDoes ==
  ASSUME NEW L \in ListState, NEW t \in Slot
  PROVE  Touches(L, reset_plugin(L, t), t) /\ reset_plugin(L, t) \in ListState
<1> DEFINE M == reset_plugin(L, t)
<1>1. Zeroed \in Plugin
  BY SlotIs DEF Zeroed, Plugin, PL_EMPTY, PL_PAUSED, PA_NULL, PA_RELOAD
<1>2. /\ M \in ListState /\ \A s \in Slot : s # t => M.plist[s] = L.plist[s]
      /\ M.endlist = L.endlist
  BY <1>1, PutIn DEF reset_plugin
<1>. HIDE DEF M
<1>3. Touches(L, M, t)
  BY <1>2, ListedIs DEF Touches, Spares, Alike
<1>. QED  BY <1>2, <1>3 DEF M

\* A line spares a listed plugin that it does not name, neither as it is nor, if
\* the plugin waits to be loaded, as a better variant of it.
LEMMA IniRefreshLineSpares ==
  ASSUME NEW L, NEW f \in Files, NEW outs, NEW s \in Listed(L), ListInv(L),
         f # L.plist[s].file,
         L.plist[s].action = PA_LOAD => family[f] # family[L.plist[s].file] \/ Outranks(L, s, f)
  PROVE  Spares(L, ini_refresh_line(L, f, outs), s)
<1> DEFINE w == Least(WithFile(L, f))
           v == Least(WithFamily(L, f))
           K == [L EXCEPT !.plist[w].action = PA_KEEP]
           Q == [L EXCEPT !.plist[w].action = PA_RELOAD]
           Z == reset_plugin(L, v)
           M == ini_refresh_line(L, f, outs)
<1>1. /\ WithFile(L, f) # {} => M = L \/ M = K \/ M = Q
      /\ WithFile(L, f) = {} /\ WithFamily(L, f) = {} => M = add(L, f, "ini", 0)
      /\ WithFile(L, f) = {} /\ WithFamily(L, f) # {} =>
           \/ M = L
           \/ ~ Outranks(L, v, f) /\ L.plist[v].action = PA_LOAD /\ M = add(Z, f, "ini", 0)
  BY IniRefreshLineIs
<1>2. L \in ListState /\ s \in Slot
  BY ListedIs DEF ListInv, Core, Shared
<1>3. Spares(L, L, s)
  BY DEF Spares, Alike
<1>4. 0 \in 0 .. MaxPlugins /\ "ini" \in {"ini", "cmd", "plugin"}
  BY SlotIs
<1>5. ASSUME WithFile(L, f) # {}  PROVE Spares(L, K, s) /\ Spares(L, Q, s)
  <2>1. w \in Slot /\ w \in WithFile(L, f)
    BY <1>5, LeastListed DEF WithFile
  <2>2. w # s
    BY <2>1 DEF WithFile
  <2>. HIDE DEF w
  <2>3. Switched(L, K, w, PA_KEEP) /\ Switched(L, Q, w, PA_RELOAD)
    BY DEF Switched
  <2>. HIDE DEF K, Q
  <2>4. Touches(L, K, w) /\ Touches(L, Q, w)
    BY <2>1, <2>3, Acted, Codes DEF Switches
  <2>. QED  BY <1>2, <2>2, <2>4 DEF Touches
<1>6. Spares(L, add(L, f, "ini", 0), s)
  BY <1>2, <1>4, AddDoes DEF Touches
<1>7. ASSUME WithFamily(L, f) # {}, ~ Outranks(L, v, f), L.plist[v].action = PA_LOAD
      PROVE  Spares(L, add(Z, f, "ini", 0), s)
  <2>1. v \in Slot /\ v \in WithFamily(L, f)
    <3>1. WithFamily(L, f) \in SUBSET Listed(L) /\ WithFamily(L, f) # {}
      BY <1>7 DEF WithFamily
    <3>. QED  BY <1>2, <3>1, LeastListed, Zenon
  <2>2. v # s
    BY <1>7, <2>1 DEF WithFamily
  <2>. HIDE DEF v
  <2>3. Z \in ListState /\ Spares(L, Z, s) /\ s \in Listed(Z)
    BY <1>2, <2>1, <2>2, ResetDoes DEF Touches, Spares
  <2>. HIDE DEF Z
  <2>4. Spares(Z, add(Z, f, "ini", 0), s)
    BY <1>2, <1>4, <2>3, AddDoes DEF Touches
  <2>. QED  BY <2>3, <2>4, SparesNext
<1>. HIDE DEF M, K, Q, Z, v
<1>8. Spares(L, M, s)
  BY <1>1, <1>3, <1>5, <1>6, <1>7
<1>. QED  BY <1>8 DEF M

\* A line that names a listed plugin whose file is newer than what was loaded of
\* it asks for its reload, if it does anything.
LEMMA IniRefreshLineReloads ==
  ASSUME NEW L, NEW f \in Files, NEW outs, NEW s \in Listed(L), ListInv(L),
         f = L.plist[s].file, ~ L.plist[s].fresh
  PROVE  LET M == ini_refresh_line(L, f, outs)
         IN  \/ M = L
             \/ s \in Listed(M) /\ Alike(M.plist[s], [L.plist[s] EXCEPT !.action = PA_RELOAD])
<1> DEFINE w == Least(WithFile(L, f))
           Q == [L EXCEPT !.plist[w].action = PA_RELOAD]
           M == ini_refresh_line(L, f, outs)
           q == L.plist[s]
           p == [q EXCEPT !.action = PA_RELOAD]
<1>1. WithFile(L, f) # {} /\ s \in WithFile(L, f) /\ WithFile(L, f) \subseteq Listed(L)
  BY DEF WithFile
<1>2. L \in ListState /\ s \in Slot /\ Unique(L)
  BY ListedIs DEF ListInv, Core, Shared
<1>3. w = s
  <2>1. w \in WithFile(L, f)
    BY <1>1, LeastListed
  <2>. HIDE DEF w
  <2>. QED  BY <1>1, <1>2, <2>1 DEF WithFile, Unique
<1>4. M = L \/ (L.plist[w].fresh /\ M = [L EXCEPT !.plist[w].action = PA_KEEP]) \/ M = Q
  BY <1>1, IniRefreshLineIs
<1>5. Q = [L EXCEPT !.plist[s] = p]
  <2>. HIDE DEF w
  <2>. QED  BY <1>3
<1>6. q \in Plugin /\ p \in Plugin /\ p.status = q.status
  BY <1>2, StateFields DEF Plugin, PA_NULL, PA_RELOAD
<1>. HIDE DEF p, w, M, Q
<1>7. Q \in ListState /\ Q.plist[s] = p /\ Q.endlist = L.endlist
  BY <1>2, <1>5, <1>6, PutIn
<1>8. s \in Listed(Q)
  BY <1>2, <1>6, <1>7, ListedIs
<1>9. Alike(p, p)
  BY DEF Alike
<1>10. M = L \/ (s \in Listed(M) /\ Alike(M.plist[s], p))
  BY <1>3, <1>4, <1>7, <1>8, <1>9
<1>. QED  BY <1>10 DEF M, p

\* unpause_all() on one entry.
LEMMA UnpauseListedDoes ==
  ASSUME NEW L, NEW t \in Slot, ListInv(L)
  PROVE  LET M == unpause_listed(L, t)
             p == L.plist[t]
         IN  /\ Touches(L, M, t)
             /\ M.plist[t].action = p.action
             /\ M.plist[t].status = p.status
                \/ (p.status = PL_PAUSED /\ M.plist[t].status = PL_RUNNING)
             /\ t \in Listed(L) /\ p.status = PL_PAUSED => M.plist[t].status = PL_RUNNING
<1> DEFINE p == L.plist[t]
           A == [L EXCEPT !.plist[t].status = PL_RUNNING]
           R == rebuild_hook_lists(A)
           F == Fails(L, "badreq")
           M == unpause_listed(L, t)
<1>1. L \in ListState
  BY InOrder
<1>2. M = IF t \in 1 .. L.endlist THEN (IF p.status # PL_PAUSED THEN F ELSE R) ELSE L
  BY DEF unpause_listed, unpause
<1>3. Edited(L, A, t, PL_RUNNING, p.action, p.handle, p.info)
  BY <1>1, Codes, StatusIs
<1>. HIDE DEF A
<1>4. Touches(L, A, t) /\ A \in ListState
  BY <1>1, <1>3, TouchesEdited
<1>5. Touches(A, R, t) /\ R.plist = A.plist
  BY <1>4, TouchesRebuilt, RebuildIs
<1>6. Touches(L, F, t) /\ F.plist = L.plist /\ Touches(L, L, t)
  BY <1>1, TouchesFails, TouchesSame DEF Errnos
<1>. HIDE DEF R, F
<1>7. Touches(L, R, t) /\ R.plist[t].status = PL_RUNNING /\ R.plist[t].action = p.action
  BY <1>3, <1>4, <1>5, TouchesNext DEF Edited, Holds
<1>8. t \in Listed(L) => t \in 1 .. L.endlist
  BY DEF Listed
<1>. HIDE DEF M
<1>. QED  BY <1>2, <1>6, <1>7, <1>8 DEF M

-----------------------------------------------------------------------------
(***************************************************************************)
(* A loop that treats the slots in turn spares a slot before and after its *)
(* turn.                                                                   *)
(***************************************************************************)
LEMMA AroundTheTurn ==
  ASSUME NEW d, NEW s \in Slot, \A n \in 1 .. MaxPlugins : Touches(d[n - 1], d[n], n)
  PROVE  Spares(d[0], d[s - 1], s) /\ Spares(d[s], d[MaxPlugins], s)
<1>1. MaxPlugins \in Nat /\ Slot = 1 .. MaxPlugins /\ s \in 1 .. MaxPlugins
  BY SlotIs
<1>2. \A K : Spares(K, K, s)
  BY DEF Spares, Alike
<1>3. \A n \in 1 .. MaxPlugins : n # s => Spares(d[n - 1], d[n], s)
  BY <1>1 DEF Touches
<1> DEFINE G == {n \in 0 .. s - 1 : Spares(d[0], d[n], s)}
           H == {n \in 0 .. MaxPlugins : n >= s => Spares(d[s], d[n], s)}
<1>4. s - 1 \in G
  <2>1. 0 \in G
    BY <1>1, <1>2
  <2>2. ASSUME NEW n \in 1 .. s - 1, n - 1 \in G  PROVE n \in G
    <3>1. n \in 1 .. MaxPlugins /\ n # s /\ n \in 0 .. s - 1
      BY <1>1
    <3>2. Spares(d[0], d[n - 1], s) /\ Spares(d[n - 1], d[n], s)
      BY <1>3, <2>2, <3>1
    <3>3. Spares(d[0], d[n], s)
      BY <3>2, SparesNext
    <3>. QED  BY <3>1, <3>3
  <2>. HIDE DEF G
  <2>3. s - 1 \in Nat
    BY <1>1
  <2>4. \A n \in 0 .. s - 1 : n \in G
    BY <2>1, <2>2, <2>3, Upwards
  <2>. QED  BY <2>3, <2>4
<1>5. MaxPlugins \in H
  <2>1. 0 \in H
    BY <1>1
  <2>2. ASSUME NEW n \in 1 .. MaxPlugins, n - 1 \in H  PROVE n \in H
    <3>1. CASE n = s
      BY <1>1, <1>2, <3>1
    <3>2. CASE n > s
      <4>1. n - 1 >= s /\ n # s
        BY <1>1, <3>2
      <4>2. Spares(d[s], d[n - 1], s) /\ Spares(d[n - 1], d[n], s)
        BY <1>3, <2>2, <4>1
      <4>3. Spares(d[s], d[n], s)
        BY <4>2, SparesNext
      <4>. QED  BY <1>1, <4>3
    <3>3. CASE n < s
      BY <1>1, <3>3
    <3>. QED  BY <1>1, <3>1, <3>2, <3>3
  <2>. HIDE DEF H
  <2>3. \A n \in 0 .. MaxPlugins : n \in H
    BY <1>1, <2>1, <2>2, Upwards
  <2>. QED  BY <1>1, <2>3
<1>. QED  BY <1>1, <1>4, <1>5

\* The entry in L is p as it was, or, if the lines of q name it, to be reloaded.
Due(L, s, p, q) ==
  /\ s \in Listed(L)
  /\ \/ Alike(L.plist[s], p)
     \/ p.file \in Range(q) /\ Alike(L.plist[s], [p EXCEPT !.action = PA_RELOAD])

\* A line leaves a plugin due that it may not replace.
LEMMA IniRefreshLineDue ==
  ASSUME NEW L, NEW f \in Files, NEW outs, NEW s, NEW q, NEW p \in Plugin,
         ListInv(L), Due(L, s, p, q), f \in Range(q),
         f = p.file => ~ p.fresh,
         p.action = PA_LOAD => family[f] # family[p.file] \/ p.pfspecific >= level[f]
  PROVE  Due(ini_refresh_line(L, f, outs), s, p, q)
<1> DEFINE M == ini_refresh_line(L, f, outs)
           d == [p EXCEPT !.action = PA_RELOAD]
           e == L.plist[s]
<1>1. /\ d.status = p.status /\ d.action = PA_RELOAD /\ d.file = p.file /\ d.source = p.source
      /\ d.pfspecific = p.pfspecific /\ d.fresh = p.fresh
  BY DEF Plugin
<1>2. s \in Listed(L) /\ (Alike(e, p) \/ (p.file \in Range(q) /\ Alike(e, d)))
  BY DEF Due
<1>3. /\ e.file = p.file /\ e.fresh = p.fresh /\ e.pfspecific = p.pfspecific
      /\ e.status = p.status /\ e.source = p.source
      /\ e.action = p.action \/ e.action = PA_RELOAD
  BY <1>1, <1>2 DEF Alike
<1>4. CASE f = p.file
  <2>1. \/ M = L
        \/ s \in Listed(M) /\ Alike(M.plist[s], [e EXCEPT !.action = PA_RELOAD])
    BY <1>2, <1>3, <1>4, IniRefreshLineReloads
  <2>2. ASSUME Alike(M.plist[s], [e EXCEPT !.action = PA_RELOAD])  PROVE Alike(M.plist[s], d)
    <3>1. e \in Plugin
      BY <1>2, ListedIs, StateFields DEF ListInv, Core, Shared
    <3> DEFINE x == [e EXCEPT !.action = PA_RELOAD]
    <3>2. /\ x.status = e.status /\ x.action = PA_RELOAD /\ x.file = e.file
          /\ x.source = e.source /\ x.pfspecific = e.pfspecific /\ x.fresh = e.fresh
      BY <3>1 DEF Plugin
    <3>3. Alike(M.plist[s], x)
      BY <2>2
    <3>. HIDE DEF M, x, d, e
    <3>. QED  BY <1>1, <1>3, <3>2, <3>3 DEF Alike
  <2>. HIDE DEF M, e
  <2>3. Due(M, s, p, q)
    BY <1>4, <2>1, <2>2 DEF Due
  <2>. QED  BY <2>3 DEF M
<1>5. CASE f # p.file
  <2>1. e.action = PA_LOAD => family[f] # family[e.file] \/ Outranks(L, s, f)
    BY <1>3, Order DEF Outranks
  <2>2. Spares(L, M, s)
    BY <1>2, <1>3, <1>5, <2>1, IniRefreshLineSpares
  <2>. HIDE DEF M, d
  <2>3. s \in Listed(M) /\ Alike(M.plist[s], e)
    BY <1>2, <2>2 DEF Spares
  <2>. HIDE DEF e
  <2>4. Alike(M.plist[s], p) \/ (p.file \in Range(q) /\ Alike(M.plist[s], d))
    BY <1>2, <2>3 DEF Alike
  <2>. QED  BY <2>3, <2>4 DEF Due, d, M
<1>. QED  BY <1>4, <1>5

\* A refresh comes to a plugin that plugins.ini does not replace as it was before
\* the refresh, or to be reloaded, and leaves it as it makes it then.
LEMMA RefreshReaches ==
  ASSUME NEW L, NEW q \in Inis \ {NULL}, NEW now, NEW outs, NEW s \in Listed(L), ListInv(L),
         L.plist[s].file \in Range(q) => ~ L.plist[s].fresh,
         L.plist[s].action = PA_LOAD =>
           \A f \in Range(q) : \/ family[f] # family[L.plist[s].file]
                               \/ L.plist[s].pfspecific >= level[f]
  PROVE  \E K : /\ ListInv(K) /\ Due(K, s, L.plist[s], q)
                /\ Spares(refresh_listed(K, s, now, outs[s]), refresh(L, q, now, outs), s)
<1>1. q # NULL /\ q \in Seq(Files) /\ Len(q) \in Nat /\ MaxPlugins \in Nat /\ Slot = 1 .. MaxPlugins
  BY IniAssumption, SlotIs
<1>2. PICK N \in Nat : N = Len(q)
  BY <1>1
<1>3. \A n \in 1 .. N : q[n] \in Files /\ q[n] \in Range(q)
  BY <1>1, <1>2 DEF Range
<1> DEFINE p == L.plist[s]
<1>4. s \in Slot /\ L \in ListState /\ p \in Plugin
  BY ListedIs, StateFields DEF ListInv, Core, Shared
<1>5. PICK r : /\ r[0] = L /\ ini_refresh(L, q, outs) = r[N]
               /\ \A n \in 1 .. N : r[n] = ini_refresh_line(r[n - 1], q[n], outs)
  BY <1>1, <1>2, IniRefreshSteps
<1> DEFINE G == {n \in 0 .. N : ListInv(r[n]) /\ Due(r[n], s, p, q)}
<1>6. N \in G
  <2>1. 0 \in G
    BY <1>5 DEF Due, Alike
  <2>2. ASSUME NEW n \in 1 .. N, n - 1 \in G  PROVE n \in G
    <3> DEFINE K == r[n - 1]
               M == ini_refresh_line(K, q[n], outs)
    <3>1. ListInv(K) /\ Due(K, s, p, q) /\ q[n] \in Files /\ q[n] \in Range(q)
      BY <1>3, <2>2
    <3>2. /\ q[n] = p.file => ~ p.fresh
          /\ p.action = PA_LOAD => family[q[n]] # family[p.file] \/ p.pfspecific >= level[q[n]]
      BY <3>1
    <3>. HIDE DEF K, p
    <3>3. ListInv(M) /\ Due(M, s, p, q)
      BY <1>4, <3>1, <3>2, IniRefreshLineKeeps, IniRefreshLineDue
    <3>. HIDE DEF M
    <3>4. r[n] = M
      BY <1>5 DEF K, M
    <3>. QED  BY <3>3, <3>4
  <2>. HIDE DEF G
  <2>3. \A n \in 0 .. N : n \in G
    BY <2>1, <2>2, Upwards
  <2>. QED  BY <2>3
<1>7. PICK d : /\ d[0] = ini_refresh(L, q, outs) /\ refresh(L, q, now, outs) = d[MaxPlugins]
               /\ \A n \in 1 .. MaxPlugins : d[n] = refresh_listed(d[n - 1], n, now, outs[n])
  BY <1>1, RefreshSteps
<1> DEFINE H == {n \in 0 .. MaxPlugins : ListInv(d[n])}
<1>8. \A n \in 0 .. MaxPlugins : n \in H
  <2>1. 0 \in H
    BY <1>1, <1>5, <1>6, <1>7
  <2>2. ASSUME NEW n \in 1 .. MaxPlugins, n - 1 \in H  PROVE n \in H
    BY <1>1, <1>7, <2>2, RefreshListedKeeps
  <2>. HIDE DEF H
  <2>. QED  BY <1>1, <2>1, <2>2, Upwards
<1>9. \A n \in 1 .. MaxPlugins : Touches(d[n - 1], d[n], n)
  <2>. SUFFICES ASSUME NEW n \in 1 .. MaxPlugins  PROVE Touches(d[n - 1], d[n], n)
    OBVIOUS
  <2> DEFINE K == d[n - 1]
  <2>1. ListInv(K) /\ n \in Slot /\ d[n] = refresh_listed(K, n, now, outs[n])
    BY <1>1, <1>7, <1>8
  <2>. HIDE DEF K
  <2>2. Touches(K, refresh_listed(K, n, now, outs[n]), n)
    BY <2>1, RefreshListedDoes
  <2>. QED  BY <2>1, <2>2 DEF K
<1>10. Spares(d[0], d[s - 1], s) /\ Spares(d[s], d[MaxPlugins], s)
  BY <1>4, <1>9, AroundTheTurn
<1>11. Due(d[s - 1], s, p, q)
  <2>1. Due(d[0], s, p, q)
    BY <1>5, <1>6, <1>7
  <2>. HIDE DEF p
  <2>. QED  BY <1>10, <2>1 DEF Due, Spares, Alike
<1>12. ListInv(d[s - 1]) /\ d[s] = refresh_listed(d[s - 1], s, now, outs[s])
  BY <1>1, <1>4, <1>7, <1>8
<1>. QED  BY <1>7, <1>10, <1>11, <1>12

LEMMA UnpauseAllDoes ==
  ASSUME NEW L, NEW s \in Slot, ListInv(L)
  PROVE  LET M == unpause_all(L)
             p == L.plist[s]
         IN  /\ M.plist[s].action = p.action
             /\ M.plist[s].status = p.status
                \/ (p.status = PL_PAUSED /\ M.plist[s].status = PL_RUNNING)
             /\ s \in Listed(L) /\ p.status = PL_PAUSED => M.plist[s].status = PL_RUNNING
<1>1. MaxPlugins \in Nat /\ Slot = 1 .. MaxPlugins
  BY SlotIs
<1>2. PICK d : /\ d[0] = L /\ unpause_all(L) = d[MaxPlugins]
               /\ \A n \in 1 .. MaxPlugins : d[n] = unpause_listed(d[n - 1], n)
  BY UnpauseSteps
<1> DEFINE H == {n \in 0 .. MaxPlugins : ListInv(d[n])}
<1>3. \A n \in 0 .. MaxPlugins : n \in H
  <2>1. 0 \in H
    BY <1>1, <1>2
  <2>2. ASSUME NEW n \in 1 .. MaxPlugins, n - 1 \in H  PROVE n \in H
    BY <1>1, <1>2, <2>2, UnpauseListedKeeps
  <2>. HIDE DEF H
  <2>. QED  BY <1>1, <2>1, <2>2, Upwards
<1>4. \A n \in 1 .. MaxPlugins : Touches(d[n - 1], d[n], n)
  <2>. SUFFICES ASSUME NEW n \in 1 .. MaxPlugins  PROVE Touches(d[n - 1], d[n], n)
    OBVIOUS
  <2>1. ListInv(d[n - 1]) /\ n \in Slot /\ d[n] = unpause_listed(d[n - 1], n)
    BY <1>1, <1>2, <1>3
  <2>. QED  BY <2>1, UnpauseListedDoes
<1>5. Spares(L, d[s - 1], s) /\ Spares(d[s], d[MaxPlugins], s)
  BY <1>2, <1>4, AroundTheTurn
<1>6. ListInv(d[s - 1]) /\ d[s] = unpause_listed(d[s - 1], s)
  BY <1>1, <1>2, <1>3
<1> DEFINE K == d[s - 1]
           R == d[s]
<1>7. /\ R.plist[s].action = K.plist[s].action
      /\ R.plist[s].status = K.plist[s].status
         \/ (K.plist[s].status = PL_PAUSED /\ R.plist[s].status = PL_RUNNING)
      /\ s \in Listed(K) /\ K.plist[s].status = PL_PAUSED => R.plist[s].status = PL_RUNNING
  BY <1>6, UnpauseListedDoes
<1>. HIDE DEF K, R
<1>. QED  BY <1>2, <1>5, <1>7 DEF Spares, Alike, K, R

-----------------------------------------------------------------------------
(***************************************************************************)
(* Requests of plugins.                                                    *)
(***************************************************************************)
LEMMA DelayedStays ==
  ASSUME NEW L, NEW M, NEW s, NEW now, Spares(L, M, s), Delayed(M, s, now)
  PROVE  Delayed(L, s, now)
BY DEF Spares, Alike, Delayed

LEMMA AddloadDelaysNone ==
  ASSUME NEW L, NEW loader, NEW f \in Files, NEW now, NEW out, NEW s \in Slot,
         ListInv(L), L.errno = "none", loader \in Listed(L),
         Delayed(plugin_addload(L, loader, f, now, out), s, now)
  PROVE  Delayed(L, s, now)
<1> DEFINE t == FreeSlot(L)
           A == add(L, f, "plugin", loader)
           N == load(A, t, now, out)
           C == clear(N, t)
           M == plugin_addload(L, loader, f, now, out)
           F == Fails(L, "already")
<1>1. M = IF WithFile(L, f) # {} THEN F
          ELSE IF Failed(A) THEN A
          ELSE IF N.errno \in {"notallowed", "delayed"} THEN C ELSE N
  BY DEF plugin_addload
<1>2. L \in ListState /\ loader \in 0 .. MaxPlugins /\ "plugin" \in {"ini", "cmd", "plugin"}
  BY ListedIs, SlotIs DEF ListInv, Core, Shared
<1>3. Spares(L, F, s)
  BY <1>2, TouchesFails DEF Errnos
<1>4. /\ Touches(L, A, t) /\ A \in ListState
      /\ \/ A.errno = "maxreached" /\ A.plist = L.plist /\ A.endlist = L.endlist
         \/ /\ t \in Slot /\ A.errno = L.errno /\ A.plist[t].file = f
            /\ A.plist[t].status = PL_VALID /\ A.plist[t].action = PA_LOAD
  BY <1>2, AddDoes DEF Touches
<1>. HIDE DEF A, F, t, M
<1>5. CASE M = F
  BY <1>3, <1>5, DelayedStays DEF M
<1>6. CASE M = A /\ Failed(A)
  <2>1. A.plist = L.plist /\ A.endlist = L.endlist
    BY <1>4, <1>6 DEF Failed
  <2>2. Spares(L, A, s)
    BY <1>2, <1>4, <2>1, TouchesSame
  <2>. QED  BY <1>6, <2>2, DelayedStays DEF M
<1>7. CASE ~ Failed(A) /\ M = IF N.errno \in {"notallowed", "delayed"} THEN C ELSE N
  <2>1. /\ t \in Slot /\ A.errno = "none" /\ A.plist[t].file \in Files
        /\ A.plist[t].status = PL_VALID /\ A.plist[t].action = PA_LOAD
        /\ PL_VALID \in PL_VALID .. PL_OPENED
    BY <1>4, <1>7, Order DEF Failed
  <2>2. Touches(A, N, t) /\ (Tried(N, t) \/ PutOff(N, t))
    BY <1>4, <2>1, LoadDoes
  <2>. HIDE DEF N
  <2>3. N \in ListState
    BY <2>2 DEF Touches
  <2>4. Touches(N, C, t) /\ (PutOff(N, t) => C.plist[t].status = PL_EMPTY)
    BY <2>1, <2>3, ClearDoes DEF PutOff
  <2>. HIDE DEF C
  <2>5. CASE s = t
    <3>1. Tried(N, t) => M = N /\ ~ Delayed(N, t, now)
      BY <1>7, Order DEF Tried, Delayed
    <3>2. PutOff(N, t) => M = C /\ ~ Delayed(C, t, now)
      <4>1. PutOff(N, t) => M = C /\ C.plist[t].status = PL_EMPTY
        BY <1>7, <2>4 DEF PutOff
      <4>. QED  BY <4>1, Order DEF Delayed
    <3>. QED  BY <2>2, <2>5, <3>1, <3>2 DEF M
  <2>6. CASE s # t
    <3>1. Spares(L, A, s) /\ Spares(A, N, s) /\ Spares(N, C, s)
      BY <1>4, <2>2, <2>4, <2>6 DEF Touches
    <3>2. Spares(L, N, s)
      BY <3>1, SparesNext
    <3>3. Spares(L, C, s)
      BY <3>1, <3>2, SparesNext
    <3>4. Spares(L, M, s)
      BY <1>7, <3>2, <3>3
    <3>. QED  BY <3>4, DelayedStays DEF M
  <2>. QED  BY <2>5, <2>6
<1>. QED  BY <1>1, <1>5, <1>6, <1>7

LEMMA UnloadDelaysNone ==
  ASSUME NEW L, NEW t \in Slot, NEW now, NEW reason, NEW out, NEW s \in Slot,
         ListInv(L), L.errno = "none", L.plist[t].status >= PL_VALID,
         Delayed(plugin_unload(L, t, now, reason, out), s, now)
  PROVE  Delayed(L, s, now)
<1> DEFINE p == L.plist[t]
           a == p.action
           A == [L EXCEPT !.plist[t].action = PA_UNLOAD]
           U == unload(A, t, now, reason, out)
           N == [U EXCEPT !.plist[t].action = a]
           M == plugin_unload(L, t, now, reason, out)
<1>1. M = IF U.errno = "delayed" THEN N ELSE U
  BY DEF plugin_unload
<1>2. /\ L \in ListState /\ EntryOk(p) /\ p.status \in 0 .. 6 /\ a \in 0 .. 6
  BY InOrder
<1>3. PA_UNLOAD \in 0 .. 6 /\ PA_UNLOAD # PA_LOAD
  BY Order
<1>4. ListInv(A)
  BY <1>3, ActionKeeps
<1>5. /\ Touches(L, A, t) /\ A \in ListState /\ A.endlist = L.endlist
      /\ A.plist[t].action = PA_UNLOAD /\ A.plist[t].status = p.status
      /\ A.plist[t].file = p.file /\ A.plist[t].info = p.info /\ A.errno = L.errno
  <2>1. Switched(L, A, t, PA_UNLOAD)
    BY DEF Switched
  <2>. HIDE DEF A
  <2>2. Switches(L, A, t, PA_UNLOAD)
    BY <1>3, <2>1, Acted
  <2>. QED  BY <2>2 DEF Switches
<1>. HIDE DEF A
<1> DEFINE P == Postpone(A, t, unloadable[p.info])
<1>6. /\ Touches(A, U, t)
      /\ \/ /\ U.plist = A.plist /\ U.endlist = A.endlist
            /\ \/ U.errno = "argument" /\ p.status < PL_VALID
               \/ U.errno = "already" /\ p.status < PL_RUNNING
               \/ U.errno = "detach" /\ (p.info # NULL => ~ (unloadable[p.info] < now))
         \/ U = P
         \/ U = Detached(A, t)
  BY <1>4, <1>5, UnloadDoes
<1>7. /\ P.plist[t].status = p.status
      /\ \/ P.errno = "delayed" /\ P.plist = A.plist /\ P.endlist = A.endlist
         \/ P.errno = "notallowed" /\ P.plist[t].action = PA_NONE
  BY <1>5, PostponeDoes
<1>8. Detached(A, t).plist[t].status = PL_EMPTY /\ Detached(A, t).errno = "none"
  BY <1>4, <1>5, DetachedDoes, DetachedUnloaded
<1>. HIDE DEF U, P
<1>9. U \in ListState /\ Touches(L, U, t) /\ ListInv(U)
  <2>1. U \in ListState /\ Touches(L, U, t)
    BY <1>5, <1>6, TouchesNext DEF Touches
  <2>2. ListInv(U)
    BY <1>4, <1>5, UnloadKeeps DEF U
  <2>. QED  BY <2>1, <2>2
<1>10. /\ Touches(U, N, t) /\ N.endlist = U.endlist
       /\ N.plist[t].action = a /\ N.plist[t].status = U.plist[t].status
       /\ N.plist[t].file = U.plist[t].file
  <2>1. Switched(U, N, t, a)
    BY DEF Switched
  <2>. HIDE DEF N, a
  <2>2. Switches(U, N, t, a)
    BY <1>2, <1>9, <2>1, Acted
  <2>. QED  BY <2>2 DEF Switches
<1>. HIDE DEF N, M
<1>11. CASE s # t
  <2>1. Touches(L, N, t)
    BY <1>9, <1>10, TouchesNext
  <2>2. Spares(L, M, s)
    BY <1>1, <1>9, <1>11, <2>1 DEF Touches
  <2>. QED  BY <2>2, DelayedStays DEF M
<1>12. CASE s = t
  <2>1. p.status >= PL_RUNNING => p.info = p.file /\ p.info # NULL
    BY <1>2, NullAssumption, Order DEF EntryOk
  <2>2. CASE U.errno = "delayed"
    <3>1. /\ U.plist = A.plist /\ U.endlist = A.endlist
      BY <1>6, <1>7, <1>8, <2>2
    <3>2. /\ M.endlist = L.endlist /\ M.plist[t].action = a /\ M.plist[t].status = p.status
          /\ M.plist[t].file = p.file
      BY <1>1, <1>5, <1>10, <2>2, <3>1
    <3>3. Delayed(M, t, now) => Delayed(L, t, now)
      BY <3>2 DEF Delayed, Listed, Valid
    <3>. QED  BY <1>12, <3>3 DEF M
  <2>3. CASE U.errno # "delayed"
    <3>1. M = U
      BY <1>1, <2>3
    <3>2. CASE U = Detached(A, t)
      BY <1>8, <1>12, <3>1, <3>2, Order DEF Delayed, M
    <3>3. CASE U = P
      BY <1>7, <1>12, <2>3, <3>1, <3>3, Order DEF Delayed, M
    <3>4. CASE /\ U.plist = A.plist /\ U.endlist = A.endlist
               /\ \/ U.errno = "argument" /\ p.status < PL_VALID
                  \/ U.errno = "already" /\ p.status < PL_RUNNING
                  \/ U.errno = "detach" /\ (p.info # NULL => ~ (unloadable[p.info] < now))
      BY <1>2, <1>5, <1>12, <2>1, <3>1, <3>4, Order DEF Delayed, M
    <3>. QED  BY <1>6, <3>2, <3>3, <3>4
  <2>. QED  BY <2>2, <2>3
<1>. QED  BY <1>11, <1>12
-----------------------------------------------------------------------------
(***************************************************************************)
(* Variants.  An operation that adds nothing lists no file that was not.   *)
(***************************************************************************)
Shrinks(L, M) ==
  /\ M \in ListState
  /\ M.endlist <= L.endlist
  /\ \A t \in Slot : /\ M.plist[t].file = L.plist[t].file
                     /\ M.plist[t].status >= PL_VALID => L.plist[t].status >= PL_VALID

LEMMA ShrinksNext ==
  ASSUME NEW L \in ListState, NEW M, NEW N, Shrinks(L, M), Shrinks(M, N)
  PROVE  Shrinks(L, N)
<1>1. M \in ListState /\ N \in ListState
  BY DEF Shrinks
<1>2. L.endlist \in Int /\ M.endlist \in Int /\ N.endlist \in Int
  BY <1>1, StateFields, SlotIs
<1>3. N.endlist <= L.endlist
  BY <1>2 DEF Shrinks
<1>. QED  BY <1>1, <1>3 DEF Shrinks

LEMMA ShrinksEdited ==
  ASSUME NEW L \in ListState, NEW M, NEW t \in Slot, NEW st, NEW act, NEW h, NEW i,
         Edited(L, M, t, st, act, h, i), st >= PL_VALID => L.plist[t].status >= PL_VALID
  PROVE  Shrinks(L, M) /\ M \in ListState
<1>1. L.endlist \in Int
  BY StateFields, SlotIs
<1>. QED  BY <1>1 DEF Edited, Writes, Holds, Shrinks

LEMMA ShrinksSame ==
  ASSUME NEW L \in ListState, NEW M \in ListState, M.plist = L.plist, M.endlist <= L.endlist
  PROVE  Shrinks(L, M)
BY DEF Shrinks

LEMMA ShrinksStill ==
  ASSUME NEW L \in ListState
  PROVE  /\ Shrinks(L, L) /\ Shrinks(L, rebuild_hook_lists(L)) /\ Shrinks(L, trim_list(L))
         /\ \A e \in Errnos : Shrinks(L, Fails(L, e))
<1>1. L.endlist \in Int
  BY StateFields, SlotIs
<1>2. Shrinks(L, L)
  BY <1>1, ShrinksSame
<1>3. Shrinks(L, rebuild_hook_lists(L))
  BY <1>1, RebuildIs, ShrinksSame
<1>4. Shrinks(L, trim_list(L))
  BY TrimIs, ShrinksSame
<1>5. \A e \in Errnos : Shrinks(L, Fails(L, e))
  BY <1>1, TouchesFails, ShrinksSame
<1>. QED  BY <1>2, <1>3, <1>4, <1>5

LEMMA ShrinksPostponed ==
  ASSUME NEW L \in ListState, NEW t \in Slot, NEW allowed
  PROVE  Shrinks(L, Postpone(L, t, allowed))
<1> DEFINE A == [L EXCEPT !.plist[t].action = PA_NONE]
           q == L.plist[t]
<1>1. Edited(L, A, t, q.status, PA_NONE, q.handle, q.info)
  BY Codes, ActionIs
<1>2. Postpone(L, t, allowed) = IF allowed > PT_STARTUP THEN Fails(L, "delayed")
                                ELSE Fails(A, "notallowed")
  BY DEF Postpone
<1>. HIDE DEF A
<1>3. Shrinks(L, A) /\ A \in ListState
  BY <1>1, ShrinksEdited
<1>4. Shrinks(L, Fails(L, "delayed")) /\ Shrinks(A, Fails(A, "notallowed"))
  BY <1>3, ShrinksStill DEF Errnos
<1>. QED  BY <1>2, <1>3, <1>4, ShrinksNext

LEMMA ShrinksCleared ==
  ASSUME NEW L \in ListState, NEW t \in Slot
  PROVE  Shrinks(L, clear(L, t))
<1> DEFINE B == Blank(L, t)
<1>1. clear(L, t) = IF L.plist[t].status \notin {PL_FAILED, PL_BADFILE, PL_EMPTY, PL_OPENED}
                    THEN Fails(L, "badreq") ELSE trim_list(B)
  BY DEF clear, Blank
<1>2. Edited(L, B, t, PL_EMPTY, PA_NULL, NULL, NULL)
  BY BlankIs
<1>. HIDE DEF B
<1>3. Shrinks(L, B) /\ B \in ListState
  BY <1>2, ShrinksEdited, Order
<1>4. Shrinks(B, trim_list(B)) /\ Shrinks(L, Fails(L, "badreq"))
  BY <1>3, ShrinksStill DEF Errnos
<1>. QED  BY <1>1, <1>3, <1>4, ShrinksNext

LEMMA ShrinksOrphans ==
  ASSUME NEW L, NEW t \in Slot, ListInv(L)
  PROVE  Shrinks(L, clear_source_plugin_index(L, t))
<1> DEFINE M == clear_source_plugin_index(L, t)
<1>1. M \in ListState /\ \A s \in Slot : Spares(L, M, s)
  BY TouchesOrphans
<1>2. L \in ListState /\ M.endlist = L.endlist
  BY InOrder DEF clear_source_plugin_index, ListState
<1>. HIDE DEF M
<1>3. L.endlist \in Int
  BY <1>2, StateFields, SlotIs
<1>4. Shrinks(L, M)
  BY <1>1, <1>2, <1>3 DEF Spares, Alike, Shrinks
<1>. QED  BY <1>4 DEF M

LEMMA ShrinksDetached ==
  ASSUME NEW L, NEW t \in Slot, ListInv(L), L.plist[t].status >= PL_VALID
  PROVE  Shrinks(L, Detached(L, t))
<1> DEFINE D == clear_source_plugin_index(L, t)
           C == DLCLOSE(D, t)
           X == [C EXCEPT !.plist[t].status = PL_EMPTY]
           T == clear(X, t)
           p == Ready(C.plist[t], PL_VALID, PA_LOAD)
           V == [C EXCEPT !.plist[t] = p]
<1>1. Detached(L, t) = IF L.plist[t].action = PA_UNLOAD THEN rebuild_hook_lists(T)
                       ELSE rebuild_hook_lists(V)
  BY DEF Detached, Ready
<1>2. /\ L \in ListState /\ D \in ListState /\ Shrinks(L, D)
      /\ D.plist[t].status = L.plist[t].status
  BY ShrinksOrphans, TouchesOrphans, InOrder DEF Spares, Alike
<1>. HIDE DEF D
<1>3. Edited(D, C, t, D.plist[t].status, D.plist[t].action, NULL, D.plist[t].info)
  BY <1>2, CloseIs
<1>. HIDE DEF C
<1>4. /\ Shrinks(D, C) /\ C \in ListState /\ C.plist[t] \in Plugin
      /\ C.plist[t].status >= PL_VALID
  BY <1>2, <1>3, ShrinksEdited DEF Edited, Holds
<1>5. Shrinks(L, C)
  BY <1>2, <1>4, ShrinksNext
<1>6. Edited(C, X, t, PL_EMPTY, C.plist[t].action, C.plist[t].handle, C.plist[t].info)
  BY <1>4, StatusIs, Codes
<1>. HIDE DEF X
<1>7. Shrinks(C, X) /\ X \in ListState
  BY <1>4, <1>6, ShrinksEdited
<1>8. Shrinks(X, T) /\ T \in ListState
  BY <1>7, ShrinksCleared DEF Shrinks
<1>. HIDE DEF T
<1>9. PL_VALID \in 0 .. 6 /\ PA_LOAD \in 0 .. 6
  BY Codes
<1>10. Holds(p, C.plist[t], PL_VALID, PA_LOAD, C.plist[t].handle, C.plist[t].info)
  BY <1>4, <1>9, ReadyIs, Zenon
<1>11. p \in Plugin
  BY <1>10 DEF Holds
<1>. HIDE DEF p
<1>12. /\ V \in ListState /\ V.plist[t] = p
       /\ \A s \in Slot : s # t => V.plist[s] = C.plist[s]
       /\ V.endlist = C.endlist
  BY <1>4, <1>11, PutIn
<1>. HIDE DEF V
<1>13. Edited(C, V, t, PL_VALID, PA_LOAD, C.plist[t].handle, C.plist[t].info)
  BY <1>10, <1>12 DEF Edited, Writes
<1>14. Shrinks(C, V)
  BY <1>4, <1>13, ShrinksEdited
<1>15. Shrinks(L, T) /\ Shrinks(L, V)
  BY <1>2, <1>5, <1>7, <1>8, <1>14, ShrinksNext
<1>16. Shrinks(T, rebuild_hook_lists(T)) /\ Shrinks(V, rebuild_hook_lists(V))
  BY <1>8, <1>12, ShrinksStill
<1>17. Shrinks(L, rebuild_hook_lists(T)) /\ Shrinks(L, rebuild_hook_lists(V))
  BY <1>2, <1>15, <1>16, ShrinksNext
<1>. QED  BY <1>1, <1>17

LEMMA ShrinksUnloaded ==
  ASSUME NEW L, NEW t \in Slot, NEW now, NEW reason, NEW out, ListInv(L)
  PROVE  Shrinks(L, unload(L, t, now, reason, out))
<1> DEFINE M == unload(L, t, now, reason, out)
           p == L.plist[t]
<1>1. L \in ListState /\ p.status \in 0 .. 6
  BY InOrder
<1>2. \/ \E e \in {"argument", "already", "badreq", "detach"} : M = Fails(L, e)
      \/ M = Postpone(L, t, unloadable[p.info])
      \/ p.status >= PL_VALID /\ M = Detached(L, t)
  BY <1>1, Order DEF unload
<1>3. \A e \in {"argument", "already", "badreq", "detach"} : Shrinks(L, Fails(L, e))
  BY <1>1, ShrinksStill DEF Errnos
<1>4. Shrinks(L, Postpone(L, t, unloadable[p.info]))
  BY <1>1, ShrinksPostponed
<1>5. p.status >= PL_VALID => Shrinks(L, Detached(L, t))
  BY ShrinksDetached
<1>. HIDE DEF M
<1>6. Shrinks(L, M)
  BY <1>2, <1>3, <1>4, <1>5
<1>. QED  BY <1>6 DEF M

LEMMA ShrinksQueried ==
  ASSUME NEW L \in ListState, NEW t \in Slot, NEW out, L.plist[t].file \in Files,
         L.plist[t].status >= PL_VALID
  PROVE  Shrinks(L, query(L, t, out))
<1> DEFINE M == query(L, t, out)
           q == L.plist[t]
<1>1. \/ Edited(L, M, t, PL_BADFILE, q.action, NULL, NULL)
      \/ Edited(L, M, t, PL_OPENED, q.action, q.file, q.file)
  BY QueryIs
<1>. HIDE DEF M
<1>2. Shrinks(L, M)
  BY <1>1, ShrinksEdited
<1>. QED  BY <1>2 DEF M

LEMMA ShrinksAttached ==
  ASSUME NEW L \in ListState, NEW t \in Slot, NEW out, L.plist[t].status >= PL_VALID
  PROVE  Shrinks(L, attach(L, t, out))
<1> DEFINE M == attach(L, t, out)
           q == L.plist[t]
<1>1. \/ Edited(L, M, t, PL_FAILED, q.action, q.handle, q.info)
      \/ Edited(L, M, t, PL_RUNNING, PA_NONE, q.handle, q.info)
  BY AttachIs
<1>. HIDE DEF M
<1>2. Shrinks(L, M)
  BY <1>1, ShrinksEdited
<1>. QED  BY <1>2 DEF M

LEMMA ShrinksLoaded ==
  ASSUME NEW L \in ListState, NEW t \in Slot, NEW now, NEW out,
         L.plist[t].status >= PL_VALID => L.plist[t].file \in Files
  PROVE  Shrinks(L, load(L, t, now, out))
<1> DEFINE p == L.plist[t]
           Q == query(L, t, out)
           opened == IF p.status <= PL_OPENED THEN Q ELSE L
           allowed == loadable[opened.plist[t].info]
           M == load(L, t, now, out)
<1>1. p.status \in 0 .. 6
  BY StateFields, EntryFields
<1>2. M = CASE p.status < PL_VALID    -> Fails(L, "argument")
            [] p.status >= PL_RUNNING -> Fails(L, "already")
            [] p.status \in PL_VALID .. PL_FAILED ->
                 IF p.action \notin {PA_LOAD, PA_ATTACH, PA_RELOAD}
                 THEN Fails(L, "badreq")
                 ELSE IF Failed(opened) THEN opened
                 ELSE IF allowed < now THEN Postpone(opened, t, allowed)
                 ELSE attach(opened, t, out)
  BY DEF load
<1>. HIDE DEF opened, allowed, M
<1>3. \/ \E e \in {"argument", "already", "badreq"} : M = Fails(L, e)
      \/ /\ p.status >= PL_VALID
         /\ M \in {opened, Postpone(opened, t, allowed), attach(opened, t, out)}
  BY <1>1, <1>2, Order
<1>4. \A e \in {"argument", "already", "badreq"} : Shrinks(L, Fails(L, e))
  BY ShrinksStill DEF Errnos
<1>5. ASSUME p.status >= PL_VALID
      PROVE  Shrinks(L, M) \/ M = Fails(L, "argument") \/ M = Fails(L, "already") \/ M = Fails(L, "badreq")
  <2>1. Shrinks(L, Q) /\ Shrinks(L, L)
    BY <1>5, ShrinksQueried, ShrinksStill
  <2>2. Q.plist[t].status >= PL_VALID
    <3>1. \/ Edited(L, Q, t, PL_BADFILE, p.action, NULL, NULL)
          \/ Edited(L, Q, t, PL_OPENED, p.action, p.file, p.file)
      BY <1>5, QueryIs
    <3>. HIDE DEF Q
    <3>. QED  BY <3>1, Order DEF Edited, Holds
  <2>. HIDE DEF Q
  <2>3. Shrinks(L, opened) /\ opened \in ListState /\ opened.plist[t].status >= PL_VALID
    BY <1>5, <2>1, <2>2 DEF opened, Shrinks
  <2>4. Shrinks(opened, Postpone(opened, t, allowed)) /\ Shrinks(opened, attach(opened, t, out))
    BY <2>3, ShrinksPostponed, ShrinksAttached
  <2>5. Shrinks(L, Postpone(opened, t, allowed)) /\ Shrinks(L, attach(opened, t, out))
    BY <2>3, <2>4, ShrinksNext
  <2>. QED  BY <1>3, <2>3, <2>5
<1>6. Shrinks(L, M)
  BY <1>3, <1>4, <1>5
<1>. QED  BY <1>6 DEF M

LEMMA ShrinksReloaded ==
  ASSUME NEW L, NEW t \in Slot, NEW now, NEW reason, NEW out,
         ListInv(L), L.plist[t].action = PA_RELOAD, L.errno = "none"
  PROVE  Shrinks(L, reload(L, t, now, reason, out))
<1> DEFINE p == L.plist[t]
           why == IF p.status < PL_RUNNING THEN "reload" ELSE reason
           U == unload(L, t, now, why, out)
           P == Postpone(L, t, loadable[p.info])
           M == reload(L, t, now, reason, out)
<1>1. L \in ListState /\ p.status \in 0 .. 6
  BY InOrder
<1>2. \/ M = Fails(L, "argument")
      \/ M = P
      \/ M = U
      \/ p.status >= PL_VALID /\ M = load(U, t, now, out) /\ ~ Failed(U)
  <2>1. M = IF p.status < PL_VALID THEN Fails(L, "argument")
            ELSE IF p.info # NULL /\ loadable[p.info] < now
            THEN P
            ELSE IF Failed(U) THEN U ELSE load(U, t, now, out)
    BY DEF reload
  <2>. HIDE DEF M, U, P
  <2>. QED  BY <1>1, <2>1, Order
<1>3. Shrinks(L, P) /\ Shrinks(L, Fails(L, "argument")) /\ Shrinks(L, U)
  BY <1>1, ShrinksPostponed, ShrinksUnloaded, ShrinksStill DEF Errnos
<1>4. ~ Failed(U) => U = Detached(L, t)
  <2>1. \A allowed : LET O == Postpone(L, t, allowed)
                     IN O.errno = "delayed" \/ O.errno = "notallowed"
    BY <1>1, PostponeDoes
  <2>. QED  BY <2>1, UnloadDoes DEF Failed
<1>. HIDE DEF U, M, P
<1>5. ASSUME p.status >= PL_VALID, U = Detached(L, t)  PROVE Shrinks(U, load(U, t, now, out))
  <2>1. p.action # PA_UNLOAD
    BY Order
  <2>2. U \in ListState /\ U.plist[t].file \in Files
    BY <1>5, <2>1, DetachedReloaded DEF Shared
  <2>. QED  BY <2>2, ShrinksLoaded
<1>6. p.status >= PL_VALID /\ ~ Failed(U) => Shrinks(L, load(U, t, now, out))
  BY <1>1, <1>3, <1>4, <1>5, ShrinksNext
<1>. QED  BY <1>2, <1>3, <1>6 DEF M

LEMMA ShrinksRetried ==
  ASSUME NEW L, NEW t \in Slot, NEW now, NEW reason, NEW out, ListInv(L), L.errno = "none"
  PROVE  Shrinks(L, retry(L, t, now, reason, out))
<1>1. L \in ListState /\ (L.plist[t].status >= PL_VALID => L.plist[t].file \in Files)
  BY InOrder DEF EntryOk
<1>2. Shrinks(L, load(L, t, now, out)) /\ Shrinks(L, unload(L, t, now, reason, out))
  BY <1>1, ShrinksLoaded, ShrinksUnloaded
<1>3. L.plist[t].action = PA_RELOAD => Shrinks(L, reload(L, t, now, reason, out))
  BY ShrinksReloaded
<1>4. Shrinks(L, Fails(L, "badreq"))
  BY <1>1, ShrinksStill DEF Errnos
<1>. QED  BY <1>2, <1>3, <1>4, Order DEF retry

LEMMA ShrinksSwitched ==
  ASSUME NEW L, NEW t \in Slot, NEW a \in 0 .. 6, ListInv(L)
  PROVE  Shrinks(L, [L EXCEPT !.plist[t].action = a])
<1> DEFINE M == [L EXCEPT !.plist[t].action = a]
           p == L.plist[t]
<1>1. L \in ListState
  BY InOrder
<1>2. Edited(L, M, t, p.status, a, p.handle, p.info)
  BY <1>1, ActionIs
<1>. HIDE DEF M
<1>3. Shrinks(L, M)
  BY <1>1, <1>2, ShrinksEdited
<1>. QED  BY <1>3 DEF M

\* unload() after a change of the entry's action to PA_UNLOAD.
LEMMA ShrinksAsked ==
  ASSUME NEW L, NEW t \in Slot, NEW now, NEW reason, NEW out, ListInv(L)
  PROVE  Shrinks(L, unload([L EXCEPT !.plist[t].action = PA_UNLOAD], t, now, reason, out))
<1> DEFINE A == [L EXCEPT !.plist[t].action = PA_UNLOAD]
           U == unload(A, t, now, reason, out)
<1>1. L \in ListState /\ PA_UNLOAD \in 0 .. 6 /\ PA_UNLOAD # PA_LOAD
  BY InOrder, Order
<1>2. ListInv(A) /\ Shrinks(L, A)
  BY <1>1, ActionKeeps, ShrinksSwitched
<1>. HIDE DEF A
<1>3. Shrinks(A, U)
  BY <1>2, ShrinksUnloaded
<1>. HIDE DEF U
<1>4. Shrinks(L, U)
  BY <1>1, <1>2, <1>3, ShrinksNext
<1>. QED  BY <1>4 DEF U, A

LEMMA ShrinksRefreshed ==
  ASSUME NEW L, NEW t \in Slot, NEW now, NEW out, ListInv(L), L.errno = "none"
  PROVE  Shrinks(L, refresh_one(L, t, now, out))
<1> DEFINE p == L.plist[t]
           N == [L EXCEPT !.plist[t].action = PA_NONE]
           U == unload([L EXCEPT !.plist[t].action = PA_UNLOAD], t, now, "deleted", out)
           M == refresh_one(L, t, now, out)
<1>1. L \in ListState /\ (p.status >= PL_VALID => p.file \in Files)
  BY InOrder DEF EntryOk
<1>2. \/ M = N
      \/ M = load(L, t, now, out)
      \/ p.action = PA_RELOAD /\ M = reload(L, t, now, "newer", out)
      \/ M = retry(L, t, now, "delayed", out)
      \/ M = U
      \/ M = L
  BY Order DEF refresh_one
<1>3. Shrinks(L, N)
  BY Codes, ShrinksSwitched
<1>4. Shrinks(L, U)
  BY ShrinksAsked
<1>5. Shrinks(L, load(L, t, now, out)) /\ Shrinks(L, L)
  BY <1>1, ShrinksLoaded, ShrinksStill
<1>6. p.action = PA_RELOAD => Shrinks(L, reload(L, t, now, "newer", out))
  BY ShrinksReloaded
<1>7. Shrinks(L, retry(L, t, now, "delayed", out))
  BY ShrinksRetried
<1>. HIDE DEF M, N, U
<1>8. Shrinks(L, M)
  BY <1>2, <1>3, <1>4, <1>5, <1>6, <1>7
<1>. QED  BY <1>8 DEF M

LEMMA ShrinksRefreshListed ==
  ASSUME NEW L, NEW t \in Slot, NEW now, NEW out, ListInv(L)
  PROVE  Shrinks(L, refresh_listed(L, t, now, out))
<1> DEFINE F == Fails(L, "none")
<1>1. L \in ListState
  BY InOrder
<1>2. ListInv(F) /\ F.errno = "none" /\ Shrinks(L, F) /\ Shrinks(L, L)
  BY <1>1, FailsKeeps, ShrinksStill DEF Errnos
<1>3. refresh_listed(L, t, now, out) = IF t \notin Listed(L) THEN L
                                       ELSE refresh_one(F, t, now, out)
  BY DEF refresh_listed
<1>. HIDE DEF F
<1>4. Shrinks(F, refresh_one(F, t, now, out))
  BY <1>2, ShrinksRefreshed
<1>5. Shrinks(L, refresh_one(F, t, now, out))
  BY <1>1, <1>2, <1>4, ShrinksNext
<1>. QED  BY <1>2, <1>3, <1>5

LEMMA ShrinksUnpaused ==
  ASSUME NEW L, NEW t \in Slot, ListInv(L)
  PROVE  Shrinks(L, unpause_listed(L, t))
<1> DEFINE p == L.plist[t]
           A == [L EXCEPT !.plist[t].status = PL_RUNNING]
           R == rebuild_hook_lists(A)
           F == Fails(L, "badreq")
           M == unpause_listed(L, t)
<1>1. L \in ListState
  BY InOrder
<1>2. M = F \/ M = L \/ (p.status = PL_PAUSED /\ M = R)
  BY DEF unpause_listed, unpause
<1>3. Edited(L, A, t, PL_RUNNING, p.action, p.handle, p.info)
  BY <1>1, Codes, StatusIs
<1>. HIDE DEF A
<1>4. p.status = PL_PAUSED => Shrinks(L, A) /\ A \in ListState
  BY <1>1, <1>3, Order, ShrinksEdited
<1>5. Shrinks(L, F) /\ Shrinks(L, L)
  BY <1>1, ShrinksStill DEF Errnos
<1>6. p.status = PL_PAUSED => Shrinks(A, R)
  BY <1>4, ShrinksStill
<1>. HIDE DEF R, F
<1>7. p.status = PL_PAUSED => Shrinks(L, R)
  BY <1>1, <1>4, <1>6, ShrinksNext
<1>. HIDE DEF M
<1>8. Shrinks(L, M)
  BY <1>2, <1>5, <1>7
<1>. QED  BY <1>8 DEF M
-----------------------------------------------------------------------------
(***************************************************************************)
(* A list with one variant of each plugin.                                 *)
(***************************************************************************)
OneOfEach(L) ==
  \A s, t \in Listed(L) : family[L.plist[s].file] = family[L.plist[t].file] => s = t

LEMMA ShrinksListed ==
  ASSUME NEW L \in ListState, NEW M, Shrinks(L, M)
  PROVE  \A t \in Listed(M) : t \in Listed(L) /\ M.plist[t].file = L.plist[t].file
<1>1. M \in ListState /\ L.endlist \in Int /\ M.endlist \in Int /\ M.endlist <= L.endlist
  BY StateFields, SlotIs DEF Shrinks
<1>. SUFFICES ASSUME NEW t \in Listed(M)
              PROVE  t \in Listed(L) /\ M.plist[t].file = L.plist[t].file
  OBVIOUS
<1>2. t \in Slot /\ t <= M.endlist /\ M.plist[t].status >= PL_VALID
  BY <1>1, ListedIs
<1>3. t <= L.endlist
  BY <1>1, <1>2, SlotIs
<1>. QED  BY <1>2, <1>3, ListedIs DEF Shrinks

LEMMA OneOfFewer ==
  ASSUME NEW L \in ListState, NEW M, Shrinks(L, M), OneOfEach(L)
  PROVE  OneOfEach(M)
BY ShrinksListed DEF OneOfEach

\* add(), of a plugin of which no variant is listed.
\* What is listed depends on the entries only.
LEMMA OneOfTheSame ==
  ASSUME NEW L, NEW M, M.plist = L.plist, M.endlist = L.endlist, OneOfEach(L)
  PROVE  OneOfEach(M)
BY DEF OneOfEach, Listed, Valid

LEMMA AddOne ==
  ASSUME NEW L \in ListState, NEW f \in Files, WithFamily(L, f) = {}, OneOfEach(L)
  PROVE  OneOfEach(add(L, f, "ini", 0))
<1> DEFINE t == FreeSlot(L)
           M == add(L, f, "ini", 0)
<1>1. 0 \in 0 .. MaxPlugins /\ "ini" \in {"ini", "cmd", "plugin"}
  BY SlotIs
<1>2. /\ Touches(L, M, t)
      /\ \/ M.plist = L.plist /\ M.endlist = L.endlist
         \/ M.plist[t].file = f
  BY <1>1, AddDoes
<1>. HIDE DEF M, t
<1>3. M \in ListState
  BY <1>2 DEF Touches
<1>4. CASE M.plist = L.plist /\ M.endlist = L.endlist
  BY <1>4 DEF OneOfEach, Listed, Valid, M
<1>5. CASE M.plist[t].file = f
  <2>1. \A s \in Listed(M) : s # t => s \in Listed(L) /\ M.plist[s].file = L.plist[s].file
    BY <1>2, <1>3, ListedIs DEF Touches, Spares, Alike
  <2>2. \A s \in Listed(L) : family[L.plist[s].file] # family[f]
    BY DEF WithFamily
  <2>. QED  BY <1>5, <2>1, <2>2 DEF OneOfEach, M
<1>. QED  BY <1>2, <1>4, <1>5

LEMMA IniRefreshLineOne ==
  ASSUME NEW L, NEW f \in Files, NEW outs, ListInv(L), OneOfEach(L)
  PROVE  OneOfEach(ini_refresh_line(L, f, outs))
<1> DEFINE w == Least(WithFile(L, f))
           v == Least(WithFamily(L, f))
           K == [L EXCEPT !.plist[w].action = PA_KEEP]
           Q == [L EXCEPT !.plist[w].action = PA_RELOAD]
           Z == reset_plugin(L, v)
           M == ini_refresh_line(L, f, outs)
<1>1. /\ WithFile(L, f) # {} => M = L \/ M = K \/ M = Q
      /\ WithFile(L, f) = {} /\ WithFamily(L, f) = {} => M = add(L, f, "ini", 0)
      /\ WithFile(L, f) = {} /\ WithFamily(L, f) # {} =>
           M = L \/ (L.plist[v].action = PA_LOAD /\ M = add(Z, f, "ini", 0))
  BY IniRefreshLineIs
<1>2. L \in ListState
  BY DEF ListInv, Core, Shared
<1>3. ASSUME WithFile(L, f) # {}  PROVE OneOfEach(K) /\ OneOfEach(Q)
  <2>1. w \in Slot
    BY <1>3, LeastListed DEF WithFile
  <2>. HIDE DEF w
  <2>2. Shrinks(L, K) /\ Shrinks(L, Q)
    BY <2>1, ShrinksSwitched, Codes
  <2>. HIDE DEF K, Q
  <2>. QED  BY <1>2, <2>2, OneOfFewer
<1>4. WithFamily(L, f) = {} => OneOfEach(add(L, f, "ini", 0))
  BY <1>2, AddOne
<1>5. ASSUME WithFamily(L, f) # {}  PROVE OneOfEach(add(Z, f, "ini", 0))
  <2>1. v \in Slot /\ v \in WithFamily(L, f)
    BY <1>5, LeastListed DEF WithFamily
  <2>. HIDE DEF v
  <2>2. /\ Zeroed \in Plugin /\ Zeroed.status = PL_EMPTY
    BY SlotIs DEF Zeroed, Plugin, PL_EMPTY, PL_PAUSED, PA_NULL, PA_RELOAD
  <2>3. /\ Z \in ListState /\ Z.plist[v] = Zeroed
        /\ \A s \in Slot : s # v => Z.plist[s] = L.plist[s]
        /\ Z.endlist = L.endlist
    BY <1>2, <2>1, <2>2, PutIn DEF reset_plugin
  <2>. HIDE DEF Z
  <2>4. \A s \in Listed(Z) : s # v /\ s \in Listed(L) /\ Z.plist[s] = L.plist[s]
    BY <1>2, <2>2, <2>3, ListedIs, Order
  <2>5. OneOfEach(Z)
    BY <2>4 DEF OneOfEach
  <2>6. WithFamily(Z, f) = {}
    BY <2>1, <2>4 DEF WithFamily, OneOfEach
  <2>. QED  BY <2>3, <2>5, <2>6, AddOne
<1>. HIDE DEF M, K, Q, Z, v
<1>6. OneOfEach(M)
  BY <1>1, <1>3, <1>4, <1>5
<1>. QED  BY <1>6 DEF M

LEMMA RefreshOne ==
  ASSUME NEW L, NEW q \in Inis \ {NULL}, NEW now, NEW outs, ListInv(L), OneOfEach(L)
  PROVE  OneOfEach(refresh(L, q, now, outs))
<1>1. q # NULL /\ q \in Seq(Files) /\ Len(q) \in Nat /\ MaxPlugins \in Nat /\ Slot = 1 .. MaxPlugins
  BY IniAssumption, SlotIs
<1>2. PICK N \in Nat : N = Len(q)
  BY <1>1
<1>3. \A n \in 1 .. N : q[n] \in Files
  BY <1>1, <1>2
<1>4. PICK r : /\ r[0] = L /\ ini_refresh(L, q, outs) = r[N]
               /\ \A n \in 1 .. N : r[n] = ini_refresh_line(r[n - 1], q[n], outs)
  BY <1>1, <1>2, IniRefreshSteps
<1> DEFINE G == {n \in 0 .. N : ListInv(r[n]) /\ OneOfEach(r[n])}
<1>5. N \in G
  <2>1. 0 \in G
    BY <1>4
  <2>2. ASSUME NEW n \in 1 .. N, n - 1 \in G  PROVE n \in G
    BY <1>3, <1>4, <2>2, IniRefreshLineKeeps, IniRefreshLineOne
  <2>. HIDE DEF G
  <2>3. \A n \in 0 .. N : n \in G
    BY <2>1, <2>2, Upwards
  <2>. QED  BY <2>3
<1>6. PICK d : /\ d[0] = ini_refresh(L, q, outs) /\ refresh(L, q, now, outs) = d[MaxPlugins]
               /\ \A n \in 1 .. MaxPlugins : d[n] = refresh_listed(d[n - 1], n, now, outs[n])
  BY <1>1, RefreshSteps
<1> DEFINE H == {n \in 0 .. MaxPlugins : ListInv(d[n]) /\ OneOfEach(d[n])}
<1>7. MaxPlugins \in H
  <2>1. 0 \in H
    BY <1>1, <1>4, <1>5, <1>6
  <2>2. ASSUME NEW n \in 1 .. MaxPlugins, n - 1 \in H  PROVE n \in H
    <3> DEFINE K == d[n - 1]
               M == refresh_listed(K, n, now, outs[n])
    <3>1. ListInv(K) /\ OneOfEach(K) /\ n \in Slot /\ d[n] = M
      BY <1>1, <1>6, <2>2
    <3>. HIDE DEF K
    <3>2. ListInv(M) /\ Shrinks(K, M) /\ K \in ListState
      BY <3>1, RefreshListedKeeps, ShrinksRefreshListed, InOrder
    <3>. HIDE DEF M
    <3>3. OneOfEach(M)
      BY <3>1, <3>2, OneOfFewer
    <3>. QED  BY <3>1, <3>2, <3>3
  <2>. HIDE DEF H
  <2>3. \A n \in 0 .. MaxPlugins : n \in H
    BY <1>1, <2>1, <2>2, Upwards
  <2>. QED  BY <1>1, <2>3
<1>. QED  BY <1>6, <1>7

LEMMA RefreshedOne ==
  ASSUME NEW L, NEW q \in Inis, NEW now, NEW outs, ListInv(L), OneOfEach(L)
  PROVE  OneOfEach(refresh(L, q, now, outs))
<1>1. CASE q = NULL
  <2>1. Fails(L, "nofile").plist = L.plist /\ Fails(L, "nofile").endlist = L.endlist
    BY FailsKeeps DEF Errnos
  <2>. QED  BY <1>1, <2>1, Unread, OneOfTheSame
<1>2. CASE q # NULL
  BY <1>2, RefreshOne
<1>. QED  BY <1>1, <1>2

LEMMA UnpauseOne ==
  ASSUME NEW L, ListInv(L), OneOfEach(L)
  PROVE  OneOfEach(unpause_all(L))
<1>1. MaxPlugins \in Nat /\ Slot = 1 .. MaxPlugins
  BY SlotIs
<1>2. PICK d : /\ d[0] = L /\ unpause_all(L) = d[MaxPlugins]
               /\ \A n \in 1 .. MaxPlugins : d[n] = unpause_listed(d[n - 1], n)
  BY UnpauseSteps
<1> DEFINE H == {n \in 0 .. MaxPlugins : ListInv(d[n]) /\ OneOfEach(d[n])}
<1>3. MaxPlugins \in H
  <2>1. 0 \in H
    BY <1>1, <1>2
  <2>2. ASSUME NEW n \in 1 .. MaxPlugins, n - 1 \in H  PROVE n \in H
    <3> DEFINE K == d[n - 1]
               M == unpause_listed(K, n)
    <3>1. ListInv(K) /\ OneOfEach(K) /\ n \in Slot /\ d[n] = M
      BY <1>1, <1>2, <2>2
    <3>. HIDE DEF K
    <3>2. ListInv(M) /\ Shrinks(K, M) /\ K \in ListState
      BY <3>1, UnpauseListedKeeps, ShrinksUnpaused, InOrder
    <3>. HIDE DEF M
    <3>3. OneOfEach(M)
      BY <3>1, <3>2, OneOfFewer
    <3>. QED  BY <3>1, <3>2, <3>3
  <2>. HIDE DEF H
  <2>3. \A n \in 0 .. MaxPlugins : n \in H
    BY <1>1, <2>1, <2>2, Upwards
  <2>. QED  BY <1>1, <2>3
<1>. QED  BY <1>2, <1>3
-----------------------------------------------------------------------------
(***************************************************************************)
(* The startup.  A line of plugins.ini is passed over, as its file or a    *)
(* variant at least as good is listed (Passed); or it is listed after the  *)
(* others, of which at most one worse variant has to go (Taken).           *)
(***************************************************************************)
Best(L, f) == \E s \in Listed(L) : /\ family[L.plist[s].file] = family[f]
                                   /\ L.plist[s].pfspecific >= level[f]

SameListed(L, M, S) == \A s \in S : M.plist[s].file = L.plist[s].file
                                    /\ M.plist[s].pfspecific = L.plist[s].pfspecific

Passed(L, M, f) ==
  /\ Listed(M) = Listed(L)
  /\ SameListed(L, M, Listed(L))
  /\ \/ \E s \in Listed(L) : L.plist[s].file = f
     \/ Best(L, f)

Replaces(L, M, f, R, n) ==
  /\ n \notin Listed(L)
  /\ Listed(M) = (Listed(L) \ R) \cup {n}
  /\ SameListed(L, M, Listed(L) \ R)
  /\ M.plist[n].file = f /\ M.plist[n].pfspecific = level[f]
  /\ \/ R = {} /\ WithFamily(L, f) = {}
     \/ \E v \in WithFamily(L, f) : R = {v} /\ ~ (L.plist[v].pfspecific >= level[f])

Taken(L, M, f) == \E R \in SUBSET Listed(L) : \E n : Replaces(L, M, f, R, n)

LEMMA StartupLineDoes ==
  ASSUME NEW L, NEW f \in Files, Unopened(L), L.endlist + 1 \in Slot
  PROVE  LET M == ini_startup_line(L, f) IN Passed(L, M, f) \/ Taken(L, M, f)
<1> DEFINE n == L.endlist + 1
           rivals == WithFamily(L, f)
           v == Least(rivals)
           p == Parsed(L.plist[n], f, level[f], PL_VALID)
           P == [L EXCEPT !.plist[n] = p]
           Z == reset_plugin(P, v)
           A(N) == [N EXCEPT !.endlist = n, !.plist[n].action = PA_LOAD]
           M == ini_startup_line(L, f)
<1>1. /\ L \in ListState /\ L.plist \in [Slot -> Plugin] /\ ListInv(L)
      /\ L.endlist \in Nat /\ n \in Slot /\ L.plist[n] \in Plugin /\ level[f] \in {0, 1}
      /\ n = L.endlist + 1 /\ Slot = 1 .. MaxPlugins /\ MaxPlugins \in Nat
  BY StateFields, SlotIs, UnopenedIsInOrder, LevelAssumption DEF Unopened
<1>2. \/ M = P /\ (WithFile(L, f) # {} \/ (rivals # {} /\ Outranks(L, v, f)))
      \/ rivals = {} /\ M = A(P)
      \/ rivals # {} /\ ~ Outranks(L, v, f) /\ M = A(Z)
  BY DEF ini_startup_line, Parsed
<1>3. PL_VALID \in 0 .. 6 /\ PL_VALID # PL_EMPTY
  BY Order
<1>. HIDE DEF n
<1>4. ParsedAs(p, L.plist[n], f, PL_VALID)
  BY <1>1, <1>3, ParsedIs, Zenon
<1>5. p.pfspecific = level[f]
  <2> DEFINE q == L.plist[n]
  <2>1. q \in Plugin
    BY <1>1
  <2>. HIDE DEF q
  <2>2. Parsed(q, f, level[f], PL_VALID).pfspecific = level[f]
    BY <2>1 DEF Parsed, Plugin
  <2>. QED  BY <2>2 DEF q
<1>6. p \in Plugin /\ p.file = f /\ p.status = PL_VALID
  BY <1>4 DEF ParsedAs
<1>. HIDE DEF p
<1>7. /\ P \in ListState /\ P.plist[n] = p
      /\ \A t \in Slot : t # n => P.plist[t] = L.plist[t]
      /\ P.endlist = L.endlist
  BY <1>1, <1>6, PutIn
<1>. HIDE DEF P
<1>8. n \notin Listed(L)
  BY <1>1, ListedIs
<1>9. ASSUME rivals # {}
      PROVE  /\ v \in Slot /\ v \in rivals /\ v # n /\ Z \in ListState
             /\ Z.plist[v].status = PL_EMPTY
             /\ \A t \in Slot : t # v => Z.plist[t] = P.plist[t]
             /\ Z.endlist = P.endlist
  <2>1. v \in Slot /\ v \in rivals /\ v \in Listed(L)
    BY <1>1, <1>9, LeastListed DEF WithFamily
  <2>. HIDE DEF v
  <2>2. Zeroed \in Plugin /\ Zeroed.status = PL_EMPTY
    BY SlotIs DEF Zeroed, Plugin, PL_EMPTY, PL_PAUSED, PA_NULL, PA_RELOAD
  <2>. QED  BY <1>7, <1>8, <2>1, <2>2, PutIn DEF reset_plugin
\* The entry that is kept.
<1>10. ASSUME NEW N \in ListState, N.plist[n] = p, N.endlist = L.endlist
       PROVE  /\ A(N) \in ListState /\ A(N).endlist = n
              /\ A(N).plist[n].status = PL_VALID /\ A(N).plist[n].file = f
              /\ A(N).plist[n].pfspecific = level[f]
              /\ \A t \in Slot : t # n => A(N).plist[t] = N.plist[t]
  <2> DEFINE B == [N EXCEPT !.plist[n].action = PA_LOAD]
             C == A(N)
  <2>1. Edited(N, B, n, N.plist[n].status, PA_LOAD, N.plist[n].handle, N.plist[n].info)
    BY <1>1, LoadIs
  <2>2. C = [B EXCEPT !.endlist = n]
    BY DEF ListState
  <2>. HIDE DEF B
  <2>3. B \in ListState /\ n \in 0 .. MaxPlugins
    BY <1>1, <2>1 DEF Edited, Writes
  <2>4. C.plist = B.plist /\ C.endlist = n /\ C \in ListState
    BY <2>2, <2>3 DEF ListState
  <2>. HIDE DEF C
  <2>5. /\ C \in ListState /\ C.endlist = n
        /\ C.plist[n].status = PL_VALID /\ C.plist[n].file = f
        /\ C.plist[n].pfspecific = level[f]
        /\ \A t \in Slot : t # n => C.plist[t] = N.plist[t]
    BY <1>5, <1>6, <1>10, <2>1, <2>4 DEF Edited, Writes, Holds
  <2>. QED  BY <2>5 DEF C
<1>. HIDE DEF Z, A, M
<1>11. CASE M = P /\ (WithFile(L, f) # {} \/ (rivals # {} /\ Outranks(L, v, f)))
  <2>1. Listed(P) = Listed(L) /\ SameListed(L, P, Listed(L))
    <3>1. \A t \in Slot : t <= L.endlist => P.plist[t] = L.plist[t]
      BY <1>1, <1>7
    <3>2. \A t : t \in Listed(P) <=> t \in Listed(L)
      BY <1>1, <1>7, <3>1, ListedIs
    <3>3. SameListed(L, P, Listed(L))
      BY <1>1, <3>1, ListedIs DEF SameListed
    <3>. QED  BY <3>2, <3>3
  <2>2. \/ \E s \in Listed(L) : L.plist[s].file = f
        \/ Best(L, f)
    <3>1. CASE WithFile(L, f) # {}
      BY <3>1, Zenon DEF WithFile
    <3>2. CASE rivals # {} /\ Outranks(L, v, f)
      BY <1>9, <3>2 DEF WithFamily, Outranks, Best
    <3>. QED  BY <1>11, <3>1, <3>2
  <2>3. Passed(L, P, f)
    BY <2>1, <2>2 DEF Passed
  <2>. QED  BY <1>11, <2>3 DEF M
<1>12. CASE rivals = {} /\ M = A(P)
  <2>1. /\ M \in ListState /\ M.endlist = n
        /\ M.plist[n].status = PL_VALID /\ M.plist[n].file = f
        /\ M.plist[n].pfspecific = level[f]
        /\ \A t \in Slot : t # n => M.plist[t] = L.plist[t]
    BY <1>7, <1>10, <1>12
  <2>2. Listed(M) = (Listed(L) \ {}) \cup {n}
    <3>1. \A t \in Slot : t <= n /\ t # n <=> t <= L.endlist
      BY <1>1
    <3>2. n \in Listed(M)
      BY <1>1, <1>3, <2>1, ListedIs, Order
    <3>3. \A t : t # n => (t \in Listed(M) <=> t \in Listed(L))
      BY <1>1, <2>1, <3>1, ListedIs
    <3>. QED  BY <1>8, <3>2, <3>3
  <2>3. SameListed(L, M, Listed(L) \ {})
    BY <1>1, <1>8, <2>1, ListedIs DEF SameListed
  <2>4. Taken(L, M, f)
    BY <1>8, <1>12, <2>1, <2>2, <2>3 DEF Taken, Replaces
  <2>. QED  BY <2>4 DEF M
<1>13. CASE rivals # {} /\ ~ Outranks(L, v, f) /\ M = A(Z)
  <2>1. /\ M \in ListState /\ M.endlist = n
        /\ M.plist[n].status = PL_VALID /\ M.plist[n].file = f
        /\ M.plist[n].pfspecific = level[f]
        /\ \A t \in Slot : t # n => M.plist[t] = Z.plist[t]
    BY <1>1, <1>7, <1>9, <1>10, <1>13
  <2>. HIDE DEF v, rivals
  <2>2. /\ v \in Slot /\ v \in rivals /\ v # n /\ v \in Listed(L)
        /\ M.plist[v].status = PL_EMPTY
        /\ \A t \in Slot : t # v /\ t # n => M.plist[t] = L.plist[t]
    BY <1>7, <1>9, <1>13, <2>1 DEF rivals, WithFamily
  <2>3. Listed(M) = (Listed(L) \ {v}) \cup {n}
    <3>1. \A t \in Slot : t <= n /\ t # n <=> t <= L.endlist
      BY <1>1
    <3>2. n <= n /\ v \notin Listed(M) /\ n \in Listed(M)
      BY <1>1, <1>3, <2>1, <2>2, ListedIs, Order
    <3>3. \A t : t # v /\ t # n => (t \in Listed(M) <=> t \in Listed(L))
      BY <1>1, <2>1, <2>2, <3>1, ListedIs
    <3>. QED  BY <1>8, <2>2, <3>2, <3>3
  <2>4. SameListed(L, M, Listed(L) \ {v})
    BY <1>1, <1>8, <2>2, ListedIs DEF SameListed
  <2>5. ~ (L.plist[v].pfspecific >= level[f]) /\ v \in WithFamily(L, f)
    BY <1>13, <2>2 DEF Outranks, rivals
  <2>6. Taken(L, M, f)
    BY <1>8, <2>1, <2>2, <2>3, <2>4, <2>5 DEF Taken, Replaces
  <2>. QED  BY <2>6 DEF M
<1>. QED  BY <1>2, <1>11, <1>12, <1>13

\* What is read so far: one variant of each plugin, none with the level of
\* another file, and the best of those that were lines.
Levelled(L) == \A s \in Listed(L) : L.plist[s].pfspecific = level[L.plist[s].file]

LEMMA PassedBest ==
  ASSUME NEW L \in ListState, NEW M, NEW f \in Files, Passed(L, M, f),
         OneOfEach(L), Levelled(L)
  PROVE  /\ OneOfEach(M) /\ Levelled(M) /\ Best(M, f)
         /\ \A g \in Files : Best(L, g) => Best(M, g)
<1>1. /\ Listed(M) = Listed(L)
      /\ \A s \in Listed(L) : /\ M.plist[s].file = L.plist[s].file
                              /\ M.plist[s].pfspecific = L.plist[s].pfspecific
  BY DEF Passed, SameListed
<1>2. OneOfEach(M)
  BY <1>1 DEF OneOfEach
<1>3. Levelled(M)
  BY <1>1 DEF Levelled
<1>4. \A g \in Files : Best(L, g) => Best(M, g)
  BY <1>1 DEF Best
<1>5. Best(L, f)
  <2>1. ASSUME NEW s \in Listed(L), L.plist[s].file = f  PROVE Best(L, f)
    <3>1. level[f] \in Int
      BY LevelAssumption
    <3>. QED  BY <2>1, <3>1 DEF Levelled, Best
  <2>. QED  BY <2>1 DEF Passed
<1>. QED  BY <1>2, <1>3, <1>4, <1>5

LEMMA TakenBest ==
  ASSUME NEW L \in ListState, NEW M, NEW f \in Files, Taken(L, M, f),
         OneOfEach(L), Levelled(L)
  PROVE  /\ OneOfEach(M) /\ Levelled(M) /\ Best(M, f)
         /\ \A g \in Files : Best(L, g) => Best(M, g)
<1>. PICK R \in SUBSET Listed(L) : \E n : Replaces(L, M, f, R, n)
  BY DEF Taken
<1>. PICK n : Replaces(L, M, f, R, n)
  OBVIOUS
<1>1. /\ n \notin Listed(L)
      /\ Listed(M) = (Listed(L) \ R) \cup {n}
      /\ SameListed(L, M, Listed(L) \ R)
      /\ M.plist[n].file = f /\ M.plist[n].pfspecific = level[f]
      /\ \/ R = {} /\ WithFamily(L, f) = {}
         \/ \E v \in WithFamily(L, f) : R = {v} /\ ~ (L.plist[v].pfspecific >= level[f])
  BY DEF Replaces
<1>2. \A s \in Listed(L) \ R : /\ s # n /\ M.plist[s].file = L.plist[s].file
                               /\ M.plist[s].pfspecific = L.plist[s].pfspecific
  BY <1>1 DEF SameListed
<1>3. \A s \in Listed(L) \ R : family[L.plist[s].file] # family[f]
  <2>1. CASE R = {} /\ WithFamily(L, f) = {}
    BY <2>1 DEF WithFamily
  <2>2. ASSUME NEW v \in WithFamily(L, f), R = {v}
        PROVE  \A s \in Listed(L) \ R : family[L.plist[s].file] # family[f]
    BY <2>2 DEF WithFamily, OneOfEach
  <2>. QED  BY <1>1, <2>1, <2>2
<1>4. OneOfEach(M)
  BY <1>1, <1>2, <1>3 DEF OneOfEach
<1>5. Levelled(M)
  BY <1>1, <1>2 DEF Levelled
<1>6. Best(M, f)
  <2>1. level[f] \in Int
    BY LevelAssumption
  <2>. QED  BY <1>1, <2>1 DEF Best
<1>7. ASSUME NEW g \in Files, Best(L, g)  PROVE Best(M, g)
  <2>1. PICK s \in Listed(L) : /\ family[L.plist[s].file] = family[g]
                               /\ L.plist[s].pfspecific >= level[g]
    BY <1>7 DEF Best
  <2>2. CASE s \notin R
    BY <1>1, <1>2, <2>1, <2>2 DEF Best
  <2>3. CASE s \in R
    <3>1. s \in WithFamily(L, f) /\ ~ (L.plist[s].pfspecific >= level[f])
      BY <1>1, <2>3
    <3>2. family[g] = family[f]
      BY <2>1, <3>1 DEF WithFamily
    <3>3. level[g] \in Int /\ level[f] \in Int /\ L.plist[s].pfspecific \in Int
      <4>1. s \in Slot /\ L.plist[s] \in Plugin
        BY ListedIs, StateFields
      <4>. QED  BY <4>1, LevelAssumption DEF Plugin
    <3>4. level[f] >= level[g]
      BY <2>1, <3>1, <3>3
    <3>. QED  BY <1>1, <3>2, <3>4 DEF Best
  <2>. QED  BY <2>2, <2>3
<1>. QED  BY <1>4, <1>5, <1>6, <1>7

\* An operation that keeps what is listed.
Retains(L, M) ==
  /\ M \in ListState
  /\ M.endlist = L.endlist
  /\ \A t \in Slot : L.plist[t].status >= PL_VALID =>
       /\ M.plist[t].status >= PL_VALID
       /\ M.plist[t].file = L.plist[t].file
       /\ M.plist[t].pfspecific = L.plist[t].pfspecific

LEMMA RetainsNext ==
  ASSUME NEW L, NEW M, NEW N, Retains(L, M), Retains(M, N)
  PROVE  Retains(L, N)
BY DEF Retains

LEMMA RetainsEdited ==
  ASSUME NEW L \in ListState, NEW M, NEW t \in Slot, NEW st, NEW act, NEW h, NEW i,
         Edited(L, M, t, st, act, h, i), st >= PL_VALID
  PROVE  Retains(L, M)
BY DEF Edited, Writes, Holds, Retains

LEMMA RetainsSame ==
  ASSUME NEW L \in ListState
  PROVE  Retains(L, L) /\ \A e \in Errnos : Retains(L, Fails(L, e))
<1>1. Retains(L, L)
  BY DEF Retains
<1>2. ASSUME NEW e \in Errnos  PROVE Retains(L, Fails(L, e))
  BY TouchesFails DEF Retains
<1>. QED  BY <1>1, <1>2

LEMMA RetainsPostponed ==
  ASSUME NEW L \in ListState, NEW t \in Slot, NEW allowed, L.plist[t].status >= PL_VALID
  PROVE  Retains(L, Postpone(L, t, allowed))
<1> DEFINE A == [L EXCEPT !.plist[t].action = PA_NONE]
           q == L.plist[t]
<1>1. Edited(L, A, t, q.status, PA_NONE, q.handle, q.info)
  BY Codes, ActionIs
<1>2. Postpone(L, t, allowed) = IF allowed > PT_STARTUP THEN Fails(L, "delayed")
                                ELSE Fails(A, "notallowed")
  BY DEF Postpone
<1>. HIDE DEF A
<1>3. Retains(L, A) /\ A \in ListState
  BY <1>1, RetainsEdited DEF Retains
<1>4. Retains(L, Fails(L, "delayed")) /\ Retains(A, Fails(A, "notallowed"))
  BY <1>3, RetainsSame DEF Errnos
<1>. QED  BY <1>2, <1>3, <1>4, RetainsNext

LEMMA RetainsQueried ==
  ASSUME NEW L \in ListState, NEW t \in Slot, NEW out, L.plist[t].file \in Files
  PROVE  Retains(L, query(L, t, out))
<1> DEFINE M == query(L, t, out)
           q == L.plist[t]
<1>1. \/ Edited(L, M, t, PL_BADFILE, q.action, NULL, NULL)
      \/ Edited(L, M, t, PL_OPENED, q.action, q.file, q.file)
  BY QueryIs
<1>. HIDE DEF M
<1>2. Retains(L, M)
  BY <1>1, RetainsEdited, Order
<1>. QED  BY <1>2 DEF M

LEMMA RetainsAttached ==
  ASSUME NEW L \in ListState, NEW t \in Slot, NEW out
  PROVE  Retains(L, attach(L, t, out))
<1> DEFINE M == attach(L, t, out)
           q == L.plist[t]
<1>1. \/ Edited(L, M, t, PL_FAILED, q.action, q.handle, q.info)
      \/ Edited(L, M, t, PL_RUNNING, PA_NONE, q.handle, q.info)
  BY AttachIs
<1>. HIDE DEF M
<1>2. Retains(L, M)
  BY <1>1, RetainsEdited, Order
<1>. QED  BY <1>2 DEF M

LEMMA RetainsLoaded ==
  ASSUME NEW L \in ListState, NEW t \in Slot, NEW now, NEW out,
         L.plist[t].status >= PL_VALID => L.plist[t].file \in Files
  PROVE  Retains(L, load(L, t, now, out))
<1> DEFINE p == L.plist[t]
           Q == query(L, t, out)
           opened == IF p.status <= PL_OPENED THEN Q ELSE L
           allowed == loadable[opened.plist[t].info]
           M == load(L, t, now, out)
<1>1. p.status \in 0 .. 6
  BY StateFields, EntryFields
<1>2. M = CASE p.status < PL_VALID    -> Fails(L, "argument")
            [] p.status >= PL_RUNNING -> Fails(L, "already")
            [] p.status \in PL_VALID .. PL_FAILED ->
                 IF p.action \notin {PA_LOAD, PA_ATTACH, PA_RELOAD}
                 THEN Fails(L, "badreq")
                 ELSE IF Failed(opened) THEN opened
                 ELSE IF allowed < now THEN Postpone(opened, t, allowed)
                 ELSE attach(opened, t, out)
  BY DEF load
<1>. HIDE DEF opened, allowed, M
<1>3. \/ \E e \in {"argument", "already", "badreq"} : M = Fails(L, e)
      \/ /\ p.status >= PL_VALID
         /\ M \in {opened, Postpone(opened, t, allowed), attach(opened, t, out)}
  BY <1>1, <1>2, Order
<1>4. \A e \in {"argument", "already", "badreq"} : Retains(L, Fails(L, e))
  BY RetainsSame DEF Errnos
<1>5. ASSUME p.status >= PL_VALID
      PROVE  /\ Retains(L, opened) /\ Retains(L, Postpone(opened, t, allowed))
             /\ Retains(L, attach(opened, t, out))
  <2>1. Retains(L, Q) /\ Retains(L, L)
    BY <1>5, RetainsQueried, RetainsSame
  <2>. HIDE DEF Q
  <2>2. Retains(L, opened)
    BY <2>1 DEF opened
  <2>3. opened \in ListState /\ opened.plist[t].status >= PL_VALID
    BY <1>5, <2>2 DEF Retains
  <2>4. Retains(opened, Postpone(opened, t, allowed)) /\ Retains(opened, attach(opened, t, out))
    BY <2>3, RetainsPostponed, RetainsAttached
  <2>. QED  BY <2>2, <2>4, RetainsNext
<1>6. Retains(L, M)
  BY <1>3, <1>4, <1>5
<1>. QED  BY <1>6 DEF M

LEMMA RetainsLoadOne ==
  ASSUME NEW L, NEW t \in Slot, NEW out, ListInv(L)
  PROVE  Retains(L, load_one(L, t, out)) /\ Shrinks(L, load_one(L, t, out))
<1> DEFINE F == Fails(L, "none")
           N == load(F, t, PT_STARTUP, out)
<1>1. L \in ListState
  BY InOrder
<1>2. ListInv(F) /\ Retains(L, F) /\ Shrinks(L, F) /\ Retains(L, L) /\ Shrinks(L, L)
  BY <1>1, FailsKeeps, RetainsSame, ShrinksStill DEF Errnos
<1>3. load_one(L, t, out) = IF t \notin Listed(L) THEN L ELSE N
  BY DEF load_one
<1>. HIDE DEF F
<1>4. F \in ListState /\ (F.plist[t].status >= PL_VALID => F.plist[t].file \in Files)
  BY <1>2, InOrder DEF EntryOk
<1>5. Retains(F, N) /\ Shrinks(F, N)
  BY <1>4, RetainsLoaded, ShrinksLoaded
<1>. HIDE DEF N
<1>6. Retains(L, N) /\ Shrinks(L, N)
  BY <1>1, <1>2, <1>5, RetainsNext, ShrinksNext
<1>. QED  BY <1>2, <1>3, <1>6

LEMMA RetainsBest ==
  ASSUME NEW L \in ListState, NEW M, Retains(L, M), NEW f, Best(L, f)
  PROVE  Best(M, f)
<1>1. PICK s \in Listed(L) : /\ family[L.plist[s].file] = family[f]
                             /\ L.plist[s].pfspecific >= level[f]
  BY DEF Best
<1>2. s \in Listed(M) /\ M.plist[s].file = L.plist[s].file
      /\ M.plist[s].pfspecific = L.plist[s].pfspecific
  BY ListedIs DEF Retains
<1>. QED  BY <1>1, <1>2 DEF Best

LEMMA StartupBest ==
  ASSUME NEW L, NEW q \in Inis \ {NULL}, NEW outs, Unopened(L), L.endlist = 0
  PROVE  LET M == load_list(L, q, outs)
         IN  OneOfEach(M) /\ \A f \in Range(q) : Best(M, f)
<1>1. q # NULL /\ q \in Seq(Files) /\ Len(q) \in Nat /\ Len(q) <= MaxPlugins /\ MaxPlugins \in Nat
      /\ Slot = 1 .. MaxPlugins
  BY IniAssumption, SlotIs
<1>2. PICK N \in Nat : N = Len(q)
  BY <1>1
<1>3. \A f \in Range(q) : f \in Files /\ \E n \in 1 .. N : f = q[n]
  BY <1>1, <1>2 DEF Range
<1>4. PICK r : /\ r[0] = L /\ ini_startup(L, q) = r[N]
               /\ \A n \in 1 .. N : r[n] = ini_startup_line(r[n - 1], q[n])
  BY <1>1, <1>2, StartupSteps
<1> DEFINE Read(n) == /\ Unopened(r[n]) /\ r[n].endlist <= n
                      /\ OneOfEach(r[n]) /\ Levelled(r[n])
                      /\ \A i \in 1 .. n : Best(r[n], q[i])
           G == {n \in 0 .. N : Read(n)}
<1>5. 0 \in G
  <2>1. Listed(L) = {}
    BY DEF Listed
  <2>. QED  BY <1>4, <2>1 DEF OneOfEach, Levelled
<1>6. ASSUME NEW n \in 1 .. N, n - 1 \in G  PROVE n \in G
  <2> DEFINE K == r[n - 1]
             M == ini_startup_line(K, q[n])
  <2>1. /\ Unopened(K) /\ K.endlist <= n - 1 /\ q[n] \in Files
        /\ OneOfEach(K) /\ Levelled(K) /\ \A i \in 1 .. n - 1 : Best(K, q[i])
        /\ r[n] = M
    BY <1>1, <1>2, <1>4, <1>6
  <2>. HIDE DEF K
  <2>2. K \in ListState /\ K.endlist \in Nat
    BY <2>1, StateFields, SlotIs DEF Unopened
  <2>3. K.endlist + 1 \in Slot
    BY <1>1, <1>2, <2>1, <2>2
  <2>4. Unopened(M) /\ M.endlist <= K.endlist + 1
    BY <2>1, <2>3, StartupLineKeeps
  <2>5. Passed(K, M, q[n]) \/ Taken(K, M, q[n])
    BY <2>1, <2>3, StartupLineDoes
  <2>. HIDE DEF M
  <2>6. /\ OneOfEach(M) /\ Levelled(M) /\ Best(M, q[n])
        /\ \A g \in Files : Best(K, g) => Best(M, g)
    BY <2>1, <2>2, <2>5, PassedBest, TakenBest
  <2>7. M.endlist \in Nat
    BY <2>4, StateFields, SlotIs DEF Unopened
  <2>8. \A i \in 1 .. n : Best(M, q[i])
    <3>1. \A i \in 1 .. n - 1 : q[i] \in Files
      BY <1>1, <1>2
    <3>. QED  BY <2>1, <2>6, <3>1
  <2>. QED  BY <2>1, <2>2, <2>4, <2>6, <2>7, <2>8
<1>7. Read(N)
  <2>. HIDE DEF Read
  <2>1. \A n \in 0 .. N : n \in G
    <3>. HIDE DEF G
    <3>. QED  BY <1>5, <1>6, Upwards
  <2>. QED  BY <2>1
<1>8. PICK d : /\ d[0] = ini_startup(L, q) /\ load_list(L, q, outs) = d[MaxPlugins]
               /\ \A n \in 1 .. MaxPlugins : d[n] = load_one(d[n - 1], n, outs[n])
  BY <1>1, LoadSteps
<1> DEFINE Loads(n) == /\ ListInv(d[n]) /\ OneOfEach(d[n])
                       /\ \A f \in Range(q) : Best(d[n], f)
           H == {n \in 0 .. MaxPlugins : Loads(n)}
<1>9. 0 \in H
  <2>1. d[0] = r[N] /\ ListInv(d[0])
    BY <1>4, <1>7, <1>8, UnopenedIsInOrder
  <2>. QED  BY <1>1, <1>3, <1>7, <2>1
<1>10. ASSUME NEW n \in 1 .. MaxPlugins, n - 1 \in H  PROVE n \in H
  <2> DEFINE K == d[n - 1]
             M == load_one(K, n, outs[n])
  <2>1. /\ ListInv(K) /\ OneOfEach(K) /\ n \in Slot /\ d[n] = M
        /\ \A f \in Range(q) : Best(K, f)
    BY <1>1, <1>8, <1>10
  <2>. HIDE DEF K
  <2>2. ListInv(M) /\ Retains(K, M) /\ Shrinks(K, M) /\ K \in ListState
    BY <2>1, LoadOneKeeps, RetainsLoadOne, InOrder
  <2>. HIDE DEF M
  <2>3. OneOfEach(M) /\ \A f \in Range(q) : Best(M, f)
    BY <2>1, <2>2, OneOfFewer, RetainsBest
  <2>. QED  BY <2>1, <2>2, <2>3
<1>11. Loads(MaxPlugins)
  <2>. HIDE DEF Loads
  <2>1. \A n \in 0 .. MaxPlugins : n \in H
    <3>. HIDE DEF H
    <3>. QED  BY <1>1, <1>9, <1>10, Upwards
  <2>. QED  BY <1>1, <2>1
<1>. QED  BY <1>8, <1>11

LEMMA StartupOne ==
  ASSUME NEW L, NEW q \in Inis, NEW outs, Unopened(L), L.endlist = 0
  PROVE  OneOfEach(load_list(L, q, outs))
<1>1. CASE q = NULL
  <2>1. Listed(Fails(L, "nofile")) = {}
    BY UnopenedIsInOrder, FailsKeeps DEF Errnos, Listed
  <2>. QED  BY <1>1, <2>1, Unread DEF OneOfEach
<1>2. CASE q # NULL
  BY <1>2, StartupBest
<1>. QED  BY <1>1, <1>2
-----------------------------------------------------------------------------
(***************************************************************************)
(* The system.                                                             *)
(***************************************************************************)
Lasts == [op : {"none", "startup", "changelevel", "command", "request", "file"}, now : Time]

StateInv == /\ ListInv(List)
            /\ \A f \in Files : refs[f] <= MaxRefs
            /\ ini \in Inis
            /\ started \in BOOLEAN
            /\ last \in Lasts
            /\ ~ started => Unopened(List) /\ endlist = 0

LEMMA ListIs ==
  /\ List.plist = plist /\ List.endlist = endlist /\ List.refs = refs
  /\ List.hooked = hooked /\ List.errno = "none"
BY DEF List

LEMMA InitStateInv == Init => StateInv
<1>. SUFFICES ASSUME Init  PROVE StateInv
  OBVIOUS
<1>1. Zeroed \in Plugin /\ UnopenedEntry(Zeroed) /\ Zeroed.status = PL_EMPTY
  BY SlotIs, Order DEF Zeroed, Plugin, PL_EMPTY, PL_PAUSED, PA_NULL, PA_RELOAD, UnopenedEntry
<1>2. /\ plist \in [Slot -> Plugin] /\ endlist = 0 /\ refs = [f \in Files |-> 0] /\ hooked = {}
      /\ \A s \in Slot : plist[s] = Zeroed
  BY <1>1 DEF Init
<1>3. List \in ListState
  BY <1>2, SlotIs DEF List, ListState, Errnos
<1>4. Unique(List)
  BY <1>2, ListIs DEF Unique, Listed
<1>5. Unopened(List)
  BY <1>1, <1>2, <1>3, <1>4, ListIs DEF Unopened
<1>t. PT_NEVER \in Time
  BY DEF Time, PT_NEVER, PT_ANYPAUSE
<1>6. last \in Lasts /\ started \in BOOLEAN /\ ini \in Inis
  BY <1>t DEF Init, Lasts
<1>7. \A f \in Files : refs[f] <= MaxRefs
  BY <1>2, SizeAssumption
<1>. QED  BY <1>2, <1>5, <1>6, <1>7, UnopenedIsInOrder DEF StateInv

\* The game goes on from a list in order.
LEMMA BecomesKeeps ==
  ASSUME NEW L, NEW op \in {"startup", "changelevel", "command", "request"},
         NEW now \in Time, StateInv, ListInv(L), Becomes(L, op, now), started' = TRUE
  PROVE  StateInv'
<1>1. /\ plist' = L.plist /\ endlist' = L.endlist /\ refs' = L.refs
      /\ hooked' = L.hooked \/ hooked' = NULL
      /\ ini' = ini /\ last' = [op |-> op, now |-> now]
      /\ \A f \in Files : L.refs[f] <= MaxRefs
  BY DEF Becomes
<1>2. /\ L.plist \in [Slot -> Plugin] /\ L.endlist \in 0 .. MaxPlugins
      /\ L.refs \in [Files -> Int] /\ hooked' \in (SUBSET Slot) \cup {NULL}
  <2>1. L \in ListState
    BY DEF ListInv, Core, Shared
  <2>2. /\ L.plist \in [Slot -> Plugin] /\ L.endlist \in 0 .. MaxPlugins
        /\ L.refs \in [Files -> Int] /\ L.hooked \in (SUBSET Slot) \cup {NULL}
    BY <2>1, StateFields
  <2>. QED  BY <1>1, <2>2
<1> DEFINE N == [plist |-> L.plist, endlist |-> L.endlist, refs |-> L.refs,
                 hooked |-> hooked', rebuilt |-> FALSE, errno |-> "none"]
<1>3. List' = N
  BY <1>1 DEF List
<1>4. /\ N \in ListState /\ N.plist = L.plist /\ N.endlist = L.endlist /\ N.refs = L.refs
      /\ N.hooked = L.hooked \/ N.hooked = NULL
  BY <1>1, <1>2 DEF ListState, Errnos
<1>. HIDE DEF N
<1>5. ListInv(N)
  BY <1>4, SameLists DEF ListInv, Hooked
<1>6. ListInv(List)'
  BY <1>3, <1>5
<1>7. last' \in Lasts /\ ini' \in Inis
  BY <1>1 DEF Lasts, StateInv
<1>. QED  BY <1>1, <1>6, <1>7 DEF StateInv

LEMMA OperateKeeps ==
  ASSUME NEW L, NEW op \in {"changelevel", "command", "request"},
         NEW now \in Time, StateInv, ListInv(L), Operate(L, op, now)
  PROVE  StateInv'
<1>1. Becomes(L, op, now) /\ started' = TRUE
  BY DEF Operate, StateInv
<1>. QED  BY <1>1, BecomesKeeps

LEMMA UpdateFileKeeps ==
  ASSUME NEW f \in Files, StateInv, UpdateFile(f)
  PROVE  StateInv'
<1> DEFINE Q == [s \in Slot |-> IF plist[s].file = f
                                THEN [plist[s] EXCEPT !.fresh = FALSE] ELSE plist[s]]
           N == [plist |-> Q, endlist |-> endlist, refs |-> refs,
                 hooked |-> hooked, rebuilt |-> FALSE, errno |-> "none"]
<1>1. /\ plist' = Q /\ endlist' = endlist /\ refs' = refs /\ hooked' = hooked
      /\ ini' = ini /\ started /\ started' = started
      /\ last' = [op |-> "file", now |-> PT_ANYTIME]
  BY DEF UpdateFile
<1>2. List' = N
  BY <1>1 DEF List
<1>3. List \in ListState /\ ListInv(List) /\ plist \in [Slot -> Plugin]
      /\ endlist \in 0 .. MaxPlugins /\ 1 .. endlist \subseteq Slot
  BY StateFields, ListIs, SlotIs DEF StateInv, ListInv, Core, Shared
<1>4. ASSUME NEW s \in Slot
      PROVE  /\ Q[s] \in Plugin
             /\ Q[s].status = plist[s].status /\ Q[s].action = plist[s].action
             /\ Q[s].file = plist[s].file /\ Q[s].handle = plist[s].handle
             /\ Q[s].info = plist[s].info
             /\ Q[s].source_plugin_index = plist[s].source_plugin_index
  <2> DEFINE q == plist[s]
             p == [q EXCEPT !.fresh = FALSE]
  <2>1. q \in Plugin
    BY <1>3
  <2>2. /\ p \in Plugin /\ p.status = q.status /\ p.action = q.action /\ p.file = q.file
        /\ p.handle = q.handle /\ p.info = q.info
        /\ p.source_plugin_index = q.source_plugin_index
    BY <2>1 DEF Plugin
  <2>3. Q[s] = IF q.file = f THEN p ELSE q
    OBVIOUS
  <2>. HIDE DEF p, Q
  <2>. QED  BY <2>1, <2>2, <2>3
<1>5. Q \in [Slot -> Plugin]
  BY <1>4
<1>. HIDE DEF Q
<1>6. /\ N \in ListState /\ N.plist = Q /\ N.refs = refs /\ N.endlist = endlist /\ N.hooked = hooked
  BY <1>3, <1>5, ListIs DEF ListState, Errnos
<1>. HIDE DEF N
<1>7. \A s \in Slot : s \in Listed(N) <=> s \in Listed(List)
  BY <1>3, <1>4, <1>6, ListedIs, ListIs
<1>8. Unique(N)
  <2>1. \A s \in Listed(N) : s \in Listed(List) /\ N.plist[s].file = List.plist[s].file
    BY <1>4, <1>6, <1>7, ListedIs, ListIs
  <2>. QED  BY <1>3, <2>1 DEF Unique, ListInv, Core, Shared
<1>9. Counted(N)
  <2>1. \A g \in Files : Users(N.plist, g) = Users(List.plist, g)
    BY <1>4, <1>6, ListIs DEF Users
  <2>. QED  BY <1>3, <1>6, <2>1, ListIs DEF Counted, ListInv, Core, Shared
<1>10. Loaders(N)
  <2>1. \A s, t \in Slot : HasLoader(N, s, t) => HasLoader(List, s, t)
    BY <1>4, <1>6, <1>7, ListIs DEF HasLoader
  <2>. QED  BY <1>3, <1>4, <1>6, <2>1, ListIs, SlotIs DEF Loaders, ListInv, Core, Shared
<1>11. Hooked(N)
  <2>1. \A s \in 1 .. endlist : N.plist[s].status = plist[s].status
    BY <1>3, <1>4, <1>6
  <2>. QED  BY <1>3, <1>6, <2>1, ListIs DEF Hooked, RunningSlots, ListInv
<1>12. \A s \in Slot : EntryOk(N.plist[s])
  <2>. SUFFICES ASSUME NEW s \in Slot  PROVE EntryOk(N.plist[s])
    OBVIOUS
  <2>1. EntryOk(plist[s])
    BY <1>3, ListIs DEF ListInv, Core
  <2>. QED  BY <1>4, <1>6, <2>1 DEF EntryOk
<1>13. ListInv(N)
  BY <1>6, <1>8, <1>9, <1>10, <1>11, <1>12 DEF ListInv, Core, Shared
<1>14. ListInv(List)'
  BY <1>2, <1>13
<1>15. last' \in Lasts
  BY <1>1 DEF Lasts, Time, PT_NEVER, PT_ANYTIME, PT_ANYPAUSE
<1>. QED  BY <1>1, <1>14, <1>15 DEF StateInv

LEMMA Times == PT_STARTUP \in Time /\ PT_CHANGELEVEL \in Time /\ PT_ANYTIME \in Time
BY DEF Time, PT_NEVER, PT_STARTUP, PT_CHANGELEVEL, PT_ANYTIME, PT_ANYPAUSE

\* What cmd_doplug() and the plugins' requests ask of one plugin.
LEMMA CommandKeeps ==
  ASSUME NEW s \in Slot, NEW out, StateInv, Command(s, out)
  PROVE  StateInv'
<1> DEFINE U == [List EXCEPT !.plist[s].action = PA_UNLOAD]
           R == [List EXCEPT !.plist[s].action = PA_RELOAD]
<1>1. ListInv(List) /\ List.errno = "none" /\ PT_ANYTIME \in Time
  BY ListIs, Times DEF StateInv
<1>2. PA_UNLOAD \in 0 .. 6 /\ PA_RELOAD \in 0 .. 6 /\ PA_UNLOAD # PA_LOAD /\ PA_RELOAD # PA_LOAD
  BY Order
<1>3. ListInv(U) /\ U.plist[s].action = PA_UNLOAD
  BY <1>1, <1>2, ActionKeeps
<1>4. ListInv(R) /\ R.plist[s].action = PA_RELOAD /\ R.errno = "none"
  BY <1>1, <1>2, ActionKeeps
<1>5. \/ Operate(unload(U, s, PT_ANYTIME, "command", out), "command", PT_ANYTIME)
      \/ Operate(unload(U, s, PT_ANYTIME, "forced", out), "command", PT_ANYTIME)
      \/ Operate(reload(R, s, PT_ANYTIME, "command", out), "command", PT_ANYTIME)
      \/ Operate(retry(List, s, PT_ANYTIME, "command", out), "command", PT_ANYTIME)
  BY DEF Command, MetaUnload, MetaForceUnload, MetaReload, MetaRetry
<1>. HIDE DEF U, R
<1>6. /\ ListInv(unload(U, s, PT_ANYTIME, "command", out))
      /\ ListInv(unload(U, s, PT_ANYTIME, "forced", out))
  BY <1>3, UnloadKeeps
<1>7. ListInv(reload(R, s, PT_ANYTIME, "command", out))
  BY <1>4, ReloadKeeps
<1>8. ListInv(retry(List, s, PT_ANYTIME, "command", out))
  BY <1>1, RetryKeeps
<1>. QED  BY <1>1, <1>5, <1>6, <1>7, <1>8, OperateKeeps

LEMMA RequestKeeps ==
  ASSUME NEW s \in Slot, NEW now \in RequestTimes, NEW out, StateInv, Request(s, now, out)
  PROVE  StateInv'
<1>1. ListInv(List) /\ List.errno = "none" /\ now \in Time
  BY ListIs, Times DEF StateInv, RequestTimes
<1>2. CASE \E f \in Files : PluginLoads(s, f, now, out)
  <2>1. PICK f \in Files : PluginLoads(s, f, now, out)
    BY <1>2
  <2>2. /\ s \in Listed(List) /\ List.plist[s].status = PL_RUNNING
        /\ Operate(plugin_addload(List, s, f, now, out), "request", now)
    BY <2>1, ListIs DEF PluginLoads, Running
  <2>3. ListInv(plugin_addload(List, s, f, now, out))
    BY <1>1, <2>2, PluginAddloadKeeps
  <2>. QED  BY <1>1, <2>2, <2>3, OperateKeeps
<1>3. CASE \E t \in Slot, reason \in {"command", "forced"} : PluginUnloads(s, t, now, reason, out)
  <2>1. PICK t \in Slot, reason \in {"command", "forced"} : PluginUnloads(s, t, now, reason, out)
    BY <1>3
  <2>2. Operate(plugin_unload(List, t, now, reason, out), "request", now)
    BY <2>1 DEF PluginUnloads
  <2>3. ListInv(plugin_unload(List, t, now, reason, out))
    BY <1>1, PluginUnloadKeeps
  <2>. QED  BY <1>1, <2>2, <2>3, OperateKeeps
<1>. QED  BY <1>2, <1>3 DEF Request

\* One step per action.
LEMMA StepStateInv == StateInv /\ [Next]_vars => StateInv'
<1>. SUFFICES ASSUME StateInv, [Next]_vars  PROVE StateInv'
  OBVIOUS
<1>1. ListInv(List) /\ List.errno = "none" /\ ini \in Inis
  BY ListIs DEF StateInv
<1>2. CASE Startup
  <2>1. PICK outs : Becomes(load_list(List, ini, outs), "startup", PT_STARTUP)
    BY <1>2 DEF Startup
  <2>2. ~ started /\ started' = TRUE
    BY <1>2 DEF Startup
  <2>3. Unopened(List) /\ List.endlist = 0
    BY <2>2, ListIs DEF StateInv
  <2>4. ListInv(load_list(List, ini, outs))
    BY <1>1, <2>3, StartupInOrder
  <2>. QED  BY <2>1, <2>2, <2>4, Times, BecomesKeeps
<1>3. CASE ChangeLevel
  <2>1. PICK outs : Operate(unpause_all(refresh(List, ini, PT_CHANGELEVEL, outs)),
                            "changelevel", PT_CHANGELEVEL)
    BY <1>3 DEF ChangeLevel
  <2>2. ListInv(unpause_all(refresh(List, ini, PT_CHANGELEVEL, outs)))
    BY <1>1, RefreshInOrder, UnpauseAllKeeps
  <2>. QED  BY <2>1, <2>2, Times, OperateKeeps
<1>4. CASE MetaRefresh
  <2>1. PICK outs : Operate(refresh(List, ini, PT_ANYTIME, outs), "command", PT_ANYTIME)
    BY <1>4 DEF MetaRefresh
  <2>2. ListInv(refresh(List, ini, PT_ANYTIME, outs))
    BY <1>1, RefreshInOrder
  <2>. QED  BY <2>1, <2>2, Times, OperateKeeps
<1>5. ASSUME NEW f \in Files, NEW out \in Outcomes, MetaLoad(f, out)  PROVE StateInv'
  <2>1. Operate(cmd_addload(List, f, out), "command", PT_ANYTIME)
    BY <1>5 DEF MetaLoad
  <2>2. ListInv(cmd_addload(List, f, out))
    BY <1>1, AddloadKeeps
  <2>. QED  BY <2>1, <2>2, Times, OperateKeeps
<1>6. ASSUME NEW s \in Slot, NEW out \in Outcomes, Command(s, out)  PROVE StateInv'
  BY <1>6, CommandKeeps
<1>7. ASSUME NEW s \in Slot, MetaClear(s) \/ MetaPause(s) \/ MetaUnpause(s)  PROVE StateInv'
  <2>1. \/ Operate(clear(List, s), "command", PT_ANYTIME)
        \/ Operate(pause(List, s), "command", PT_ANYTIME)
        \/ Operate(unpause(List, s), "command", PT_ANYTIME)
    BY <1>7 DEF MetaClear, MetaPause, MetaUnpause
  <2>2. ListInv(clear(List, s)) /\ ListInv(pause(List, s)) /\ ListInv(unpause(List, s))
    BY <1>1, ClearKeeps, PauseKeeps
  <2>. QED  BY <2>1, <2>2, Times, OperateKeeps
<1>8. ASSUME NEW s \in Slot, NEW now \in RequestTimes, NEW out \in Outcomes, Request(s, now, out)
      PROVE  StateInv'
  BY <1>8, RequestKeeps
<1>9. CASE EditIni
  <2>1. List' = List /\ started' = started /\ ini' \in Inis /\ refs' = refs /\ started
        /\ last' = [op |-> "file", now |-> PT_ANYTIME]
    BY <1>9 DEF EditIni, listVars, List
  <2>2. last' \in Lasts
    BY <2>1, Times DEF Lasts
  <2>. QED  BY <2>1, <2>2 DEF StateInv
<1>10. ASSUME NEW f \in Files, UpdateFile(f)  PROVE StateInv'
  BY <1>10, UpdateFileKeeps
<1>11. CASE UNCHANGED vars
  BY <1>11 DEF vars, StateInv, List
<1>. QED  BY <1>2, <1>3, <1>4, <1>5, <1>6, <1>7, <1>8, <1>9, <1>10, <1>11 DEF Next

LEMMA Invariant == Spec => []StateInv
<1>1. Init => StateInv
  BY InitStateInv
<1>2. StateInv /\ [Next]_vars => StateInv'
  BY StepStateInv
<1>. QED  BY <1>1, <1>2, PTL DEF Spec
-----------------------------------------------------------------------------
(***************************************************************************)
(* Type correctness; and a library is never closed more often than it was  *)
(* opened.                                                                 *)
(***************************************************************************)
THEOREM TypeCorrect == Spec => []TypeOK
<1>1. StateInv => TypeOK
  <2>. SUFFICES ASSUME StateInv  PROVE TypeOK
    OBVIOUS
  <2>1. /\ plist \in [Slot -> Plugin] /\ endlist \in 0 .. MaxPlugins
        /\ refs \in [Files -> Int] /\ hooked \in (SUBSET Slot) \cup {NULL}
    BY StateFields, ListIs DEF StateInv, ListInv, Core, Shared
  <2>2. ASSUME NEW f \in Files  PROVE refs[f] \in 0 .. MaxRefs
    <3>1. Cardinality(Users(plist, f)) \in Nat
      BY <2>1, UsersMoved, SlotIs
    <3>2. refs[f] >= Cardinality(Users(plist, f))
      BY ListIs DEF StateInv, ListInv, Core, Shared, Counted
    <3>. QED  BY <2>1, <3>1, <3>2, SizeAssumption DEF StateInv
  <2>3. refs \in [Files -> 0 .. MaxRefs]
    BY <2>1, <2>2
  <2>. QED  BY <2>1, <2>3 DEF TypeOK, StateInv, Lasts
<1>. QED  BY <1>1, Invariant, PTL

(***************************************************************************)
(* Whatever is loaded, unloaded, paused, refreshed or asked for, in any    *)
(* order and with any outcome, the hook lists hold the running plugins of  *)
(* the list and no others, or, after a reallocation that failed, none until*)
(* they are rebuilt (MPluginList::rebuild_hook_lists and its callers).     *)
(***************************************************************************)
THEOREM HookedAreRunning == Spec => []HookedIsRunning
<1>1. StateInv => HookedIsRunning
  BY ListIs DEF StateInv, ListInv, Hooked, HookedIsRunning, RunningSlots
<1>. QED  BY <1>1, Invariant, PTL

(***************************************************************************)
(* The info of an entry is in a library that is open, however often the    *)
(* entry was queried, unloaded, cleared or reset and whoever shares the    *)
(* library (MPlugin::query, MPlugin::clear, MPlugin::unload).              *)
(***************************************************************************)
THEOREM InfoStaysMapped == Spec => []InfoIsMapped
<1>1. StateInv => InfoIsMapped
  <2>. SUFFICES ASSUME StateInv, NEW s \in Slot
                PROVE  /\ plist[s].info # NULL => refs[plist[s].info] > 0
                       /\ plist[s].status >= PL_OPENED =>
                            plist[s].info = plist[s].file /\ plist[s].handle = plist[s].file
    BY DEF InfoIsMapped
  <2> DEFINE h == plist[s].handle
  <2>1. /\ plist \in [Slot -> Plugin] /\ refs \in [Files -> Int] /\ EntryOk(plist[s])
        /\ h \in Files \cup {NULL}
    BY StateFields, EntryFields, ListIs DEF StateInv, ListInv, Core, Shared
  <2>2. ASSUME h \in Files  PROVE refs[h] > 0
    <3>. HIDE DEF h
    <3>1. refs[h] >= Cardinality(Users(plist, h))
      BY <2>2, ListIs DEF StateInv, ListInv, Core, Shared, Counted
    <3>2. Users(plist, h) \subseteq Slot /\ s \in Users(plist, h)
      BY DEF Users, h
    <3>3. IsFiniteSet(Users(plist, h))
      BY <3>2, SlotIs, FS_Subset
    <3>4. Cardinality(Users(plist, h)) \in Nat /\ Cardinality(Users(plist, h)) # 0
      BY <3>2, <3>3, FS_CardinalityType, FS_EmptySet
    <3>. QED  BY <2>1, <2>2, <3>1, <3>4
  <2>. QED  BY <2>1, <2>2 DEF EntryOk
<1>. QED  BY <1>1, Invariant, PTL

(***************************************************************************)
(* No two entries of the list have the same pathname (mplugin.h: UNIQUE),  *)
(* whatever plugins.ini, the console and the plugins ask to be added.      *)
(***************************************************************************)
THEOREM PathnamesStayUnique == Spec => []UniquePathnames
<1>1. StateInv => UniquePathnames
  BY ListIs DEF StateInv, ListInv, Core, Shared, Unique, UniquePathnames
<1>. QED  BY <1>1, Invariant, PTL

(***************************************************************************)
(* A plugin that names another as its loader names one that is in the list *)
(* (MPluginList::clear_source_plugin_index, MPluginList::plugin_addload):  *)
(* it has not been unloaded, nor its slot been given to another.           *)
(***************************************************************************)
THEOREM LoadersStay == Spec => []LoaderIsThere
<1>1. StateInv => LoaderIsThere
  <2>. SUFFICES ASSUME StateInv, NEW s \in Listed(List), plist[s].source_plugin_index > 0
                PROVE  plist[plist[s].source_plugin_index].status >= PL_VALID
    BY DEF LoaderIsThere
  <2> DEFINE t == plist[s].source_plugin_index
  <2>1. /\ List \in ListState /\ Loaders(List) /\ plist \in [Slot -> Plugin] /\ s \in Slot
    BY StateFields, ListIs, ListedIs DEF StateInv, ListInv, Core, Shared
  <2>2. t \in 1 .. MaxPlugins /\ t \in Slot
    BY <2>1, EntryFields, SlotIs
  <2>. HIDE DEF t
  <2>3. HasLoader(List, s, t)
    BY ListIs DEF HasLoader, t
  <2>4. plist[t].status >= PL_RUNNING /\ plist[t].status \in Int
    BY <2>1, <2>2, <2>3, ListIs, EntryFields DEF Loaders
  <2>. QED  BY <2>4, Order DEF t
<1>. QED  BY <1>1, Invariant, PTL
-----------------------------------------------------------------------------
(***************************************************************************)
(* The action properties.                                                  *)
(***************************************************************************)
LEMMA BecomesSays ==
  ASSUME NEW L, NEW op, NEW now, Becomes(L, op, now)
  PROVE  last'.op = op /\ last'.now = now
BY DEF Becomes

\* Only requests say that they are requests, only changelevels ...
LEMMA WhoSays ==
  ASSUME Next
  PROVE  /\ last'.op = "request" =>
              \E s \in Slot, now \in RequestTimes, out \in Outcomes : Request(s, now, out)
         /\ last'.op = "changelevel" => ChangeLevel
<1>1. CASE Startup
  BY <1>1, BecomesSays DEF Startup
<1>2. CASE ChangeLevel
  BY <1>2, BecomesSays DEF ChangeLevel, Operate
<1>3. CASE MetaRefresh
  BY <1>3, BecomesSays DEF MetaRefresh, Operate
<1>4. ASSUME NEW f \in Files, NEW out \in Outcomes, MetaLoad(f, out)  PROVE last'.op = "command"
  BY <1>4, BecomesSays DEF MetaLoad, Operate
<1>5. ASSUME NEW s \in Slot, NEW out \in Outcomes, Command(s, out)  PROVE last'.op = "command"
  BY <1>5, BecomesSays
     DEF Command, MetaUnload, MetaForceUnload, MetaReload, MetaRetry, Operate
<1>6. ASSUME NEW s \in Slot, MetaClear(s) \/ MetaPause(s) \/ MetaUnpause(s)
      PROVE  last'.op = "command"
  BY <1>6, BecomesSays DEF MetaClear, MetaPause, MetaUnpause, Operate
<1>7. ASSUME NEW s \in Slot, NEW now \in RequestTimes, NEW out \in Outcomes, Request(s, now, out)
      PROVE  last'.op = "request"
  BY <1>7, BecomesSays DEF Request, PluginLoads, PluginUnloads, Operate
<1>8. EditIni => last'.op = "file"
  BY DEF EditIni
<1>9. ASSUME NEW f \in Files, UpdateFile(f)  PROVE last'.op = "file"
  BY <1>9 DEF UpdateFile
<1>. QED  BY <1>1, <1>2, <1>3, <1>4, <1>5, <1>6, <1>7, <1>8, <1>9 DEF Next

LEMMA DelayedAfter ==
  ASSUME NEW L, NEW op, NEW now, NEW s, Becomes(L, op, now)
  PROVE  Delayed(List, s, last.now)' <=> Delayed(L, s, now)
<1>1. List.plist' = L.plist /\ List.endlist' = L.endlist /\ last.now' = now
  BY BecomesSays DEF Becomes, List
<1>. QED  BY <1>1 DEF Delayed, Listed, Valid

LEMMA RequestDelaysNone ==
  ASSUME NEW s \in Slot, NEW now \in RequestTimes, NEW out, NEW r \in Slot,
         StateInv, Request(s, now, out), Delayed(List, r, last.now)'
  PROVE  Delayed(List, r, last'.now)
<1>1. ListInv(List) /\ List.errno = "none"
  BY ListIs DEF StateInv
<1>2. CASE \E f \in Files : PluginLoads(s, f, now, out)
  <2>1. PICK f \in Files : PluginLoads(s, f, now, out)
    BY <1>2
  <2> DEFINE M == plugin_addload(List, s, f, now, out)
  <2>2. s \in Listed(List) /\ Becomes(M, "request", now)
    BY <2>1 DEF PluginLoads, Running, Operate
  <2>. HIDE DEF M
  <2>3. Delayed(M, r, now) /\ last'.now = now
    BY <2>2, DelayedAfter, BecomesSays
  <2>4. Delayed(List, r, now)
    BY <1>1, <2>2, <2>3, AddloadDelaysNone DEF M
  <2>. QED  BY <2>3, <2>4
<1>3. CASE \E t \in Slot, reason \in {"command", "forced"} : PluginUnloads(s, t, now, reason, out)
  <2>1. PICK t \in Slot, reason \in {"command", "forced"} : PluginUnloads(s, t, now, reason, out)
    BY <1>3
  <2> DEFINE M == plugin_unload(List, t, now, reason, out)
  <2>2. List.plist[t].status >= PL_VALID /\ Becomes(M, "request", now)
    BY <2>1 DEF PluginUnloads, Valid, Operate
  <2>. HIDE DEF M
  <2>3. Delayed(M, r, now) /\ last'.now = now
    BY <2>2, DelayedAfter, BecomesSays
  <2>4. Delayed(List, r, now)
    BY <1>1, <2>2, <2>3, UnloadDelaysNone DEF M
  <2>. QED  BY <2>3, <2>4
<1>. QED  BY <1>2, <1>3 DEF Request

(***************************************************************************)
(* What a plugin asks for leaves nothing waiting for a later time that was *)
(* not (MPluginList::plugin_addload clears the plugin that could not be    *)
(* loaded now, MPlugin::plugin_unload puts the action back), whichever     *)
(* plugin asks, for whichever plugin and whatever the outcome.             *)
(***************************************************************************)
THEOREM NothingAskedForWaits == Spec => RequestsNeverWait
<1>1. StateInv /\ [Next]_vars =>
        [last'.op = "request" =>
           \A s \in Slot : Delayed(List, s, last.now)' => Delayed(List, s, last'.now)]_vars
  <2>. SUFFICES ASSUME StateInv, Next, last'.op = "request",
                       NEW r \in Slot, Delayed(List, r, last.now)'
                PROVE  Delayed(List, r, last'.now)
    OBVIOUS
  <2>. QED  BY WhoSays, RequestDelaysNone
<1>. QED  BY <1>1, Invariant, PTL DEF Spec, RequestsNeverWait

\* A changelevel does to a plugin that plugins.ini does not replace what refresh()
\* does in that plugin's turn, and then unpauses it.
LEMMA ChangeLevelReaches ==
  ASSUME StateInv, ChangeLevel, ini # NULL, NEW s \in Listed(List),
         InIni(s) => ~ plist[s].fresh,
         plist[s].action = PA_LOAD =>
           \A f \in Range(ini) : \/ family[f] # family[plist[s].file]
                                 \/ plist[s].pfspecific >= level[f]
  PROVE  \E K, R, out :
           /\ out \in Outcomes /\ ListInv(K) /\ Due(K, s, plist[s], ini)
           /\ R = refresh_listed(K, s, PT_CHANGELEVEL, out)
           /\ plist'[s].action = R.plist[s].action
           /\ plist'[s].status = R.plist[s].status
              \/ (R.plist[s].status = PL_PAUSED /\ plist'[s].status = PL_RUNNING)
           /\ s \in Listed(R) /\ R.plist[s].status = PL_PAUSED => plist'[s].status = PL_RUNNING
<1>1. ListInv(List) /\ ini \in Inis \ {NULL} /\ List.plist = plist
  BY ListIs DEF StateInv
<1>2. s \in Slot
  BY <1>1, ListedIs DEF ListInv, Core, Shared
<1>3. PICK outs \in [Slot -> Outcomes] :
        Operate(unpause_all(refresh(List, ini, PT_CHANGELEVEL, outs)),
                "changelevel", PT_CHANGELEVEL)
  BY DEF ChangeLevel
<1> DEFINE F == refresh(List, ini, PT_CHANGELEVEL, outs)
           M == unpause_all(F)
<1>4. PICK K : /\ ListInv(K) /\ Due(K, s, plist[s], ini)
               /\ Spares(refresh_listed(K, s, PT_CHANGELEVEL, outs[s]), F, s)
  BY <1>1, RefreshReaches DEF InIni
<1>5. ListInv(F)
  BY <1>1, RefreshKeeps
<1>6. plist' = M.plist
  BY <1>3 DEF Operate, Becomes
<1>. HIDE DEF F
<1>7. /\ M.plist[s].action = F.plist[s].action
      /\ M.plist[s].status = F.plist[s].status
         \/ (F.plist[s].status = PL_PAUSED /\ M.plist[s].status = PL_RUNNING)
      /\ s \in Listed(F) /\ F.plist[s].status = PL_PAUSED => M.plist[s].status = PL_RUNNING
  BY <1>2, <1>5, UnpauseAllDoes
<1>. HIDE DEF M
<1> DEFINE R == refresh_listed(K, s, PT_CHANGELEVEL, outs[s])
<1>8. R = refresh_listed(K, s, PT_CHANGELEVEL, outs[s]) /\ outs[s] \in Outcomes
  BY <1>2
<1>9. /\ F.plist[s].action = R.plist[s].action /\ F.plist[s].status = R.plist[s].status
      /\ s \in Listed(F) <=> s \in Listed(R)
  BY <1>4 DEF Spares, Alike
<1>. HIDE DEF R
<1>10. /\ plist'[s].action = R.plist[s].action
       /\ plist'[s].status = R.plist[s].status
          \/ (R.plist[s].status = PL_PAUSED /\ plist'[s].status = PL_RUNNING)
       /\ s \in Listed(R) /\ R.plist[s].status = PL_PAUSED => plist'[s].status = PL_RUNNING
  BY <1>6, <1>7, <1>9
<1>. QED  BY <1>4, <1>8, <1>10

\* When plugins.ini cannot be read, a changelevel unpauses every plugin and
\* that is all.
LEMMA ChangeLevelUnread ==
  ASSUME StateInv, ChangeLevel, ini = NULL, NEW s \in Listed(List), plist[s].status >= PL_RUNNING
  PROVE  plist'[s].status = PL_RUNNING
<1>1. ListInv(List) /\ List.plist = plist
  BY ListIs DEF StateInv
<1>2. s \in Slot /\ plist[s].status \in 0 .. 6
  BY <1>1, ListedIs, StateFields, EntryFields DEF ListInv, Core, Shared
<1> DEFINE F == Fails(List, "nofile")
           M == unpause_all(F)
<1>3. plist' = M.plist
  BY Unread DEF ChangeLevel, Operate, Becomes
<1>4. ListInv(F) /\ F.plist = plist /\ F.endlist = List.endlist
  BY <1>1, FailsKeeps DEF Errnos
<1>5. s \in Listed(F)
  BY <1>1, <1>4 DEF Listed, Valid
<1>. HIDE DEF F
<1>6. /\ M.plist[s].status = F.plist[s].status
         \/ (F.plist[s].status = PL_PAUSED /\ M.plist[s].status = PL_RUNNING)
      /\ s \in Listed(F) /\ F.plist[s].status = PL_PAUSED => M.plist[s].status = PL_RUNNING
  BY <1>2, <1>4, UnpauseAllDoes
<1>. HIDE DEF M
<1>. QED  BY <1>2, <1>3, <1>4, <1>5, <1>6, Order

\* What may be done at a changelevel is not refused then.
LEMMA AllowedThen ==
  ASSUME NEW f \in Files
  PROVE  /\ loadable[f] >= PT_CHANGELEVEL => ~ (loadable[f] < PT_CHANGELEVEL)
         /\ unloadable[f] >= PT_CHANGELEVEL => ~ (unloadable[f] < PT_CHANGELEVEL)
<1>1. loadable[f] \in Nat /\ unloadable[f] \in Nat /\ PT_CHANGELEVEL \in Nat
  BY TimesAssumption DEF Time, PT_NEVER, PT_ANYPAUSE, PT_CHANGELEVEL
<1>. QED  BY <1>1

(***************************************************************************)
(* A changelevel that can read plugins.ini loads each plugin that waits    *)
(* for it and that the file does not stand in the way of, or says why not  *)
(* (MPluginList::refresh, MPlugin::load, MPlugin::reload), whatever stands *)
(* in the slots before and after it.                                       *)
(***************************************************************************)
THEOREM WaitingAreLoaded == Spec => ChangelevelLoadsWaiting
<1>1. StateInv /\ [Next]_vars =>
        [last'.op = "changelevel" /\ ini # NULL =>
           \A s \in Slot : Waiting(s) /\ ~ Overridden(s) /\ IniLets(s)
                             => Answered(plist'[s])]_vars
  <2>. SUFFICES ASSUME StateInv, ChangeLevel, ini # NULL, NEW s \in Slot,
                       Waiting(s), ~ Overridden(s), IniLets(s)
                PROVE  Answered(plist'[s])
    BY WhoSays
  <2> DEFINE p == plist[s]
  <2>1. s \in Listed(List) /\ p.status = PL_OPENED /\ p.action = PA_LOAD
    BY DEF Waiting
  <2>2. p.file \in Files /\ p \in Plugin
    <3>1. List \in ListState /\ List.plist = plist /\ s \in Slot
      BY InOrder, ListIs DEF StateInv
    <3>2. EntryOk(p)
      BY InOrder, ListIs DEF StateInv
    <3>. QED  BY <2>1, <3>1, <3>2, StateFields, Order DEF EntryOk
  <2>3. ~ (loadable[p.file] < PT_CHANGELEVEL)
    BY <2>2, AllowedThen DEF Waiting
  <2>4. InIni(s) => ~ p.fresh /\ ~ (unloadable[p.file] < PT_CHANGELEVEL)
    BY <2>2, AllowedThen DEF IniLets
  <2>5. ASSUME NEW f \in Range(ini)
        PROVE  family[f] # family[p.file] \/ p.pfspecific >= level[f]
    <3>1. f \in Files
      BY IniAssumption DEF StateInv, Range
    <3>2. level[f] \in {0, 1} /\ p.pfspecific \in {0, 1}
      BY <2>2, <3>1, LevelAssumption DEF Plugin
    <3>3. family[f] # family[p.file] \/ ~ (level[f] > p.pfspecific)
      BY DEF Overridden
    <3>. QED  BY <3>2, <3>3
  <2>6. PICK K, R, out :
           /\ out \in Outcomes /\ ListInv(K) /\ Due(K, s, p, ini)
           /\ R = refresh_listed(K, s, PT_CHANGELEVEL, out)
           /\ plist'[s].status = R.plist[s].status
              \/ (R.plist[s].status = PL_PAUSED /\ plist'[s].status = PL_RUNNING)
    BY <2>1, <2>4, <2>5, ChangeLevelReaches
  <2>7. /\ s \in Listed(K) /\ K.plist[s].status = PL_OPENED /\ K.plist[s].file = p.file
        /\ \/ K.plist[s].action = PA_LOAD
           \/ K.plist[s].action = PA_RELOAD /\ InIni(s)
    <3> DEFINE d == [p EXCEPT !.action = PA_RELOAD]
    <3>1. d.status = p.status /\ d.file = p.file /\ d.action = PA_RELOAD
      BY <2>2 DEF Plugin
    <3>. HIDE DEF d
    <3>2. /\ s \in Listed(K)
          /\ Alike(K.plist[s], p) \/ (p.file \in Range(ini) /\ Alike(K.plist[s], d))
      BY <2>6 DEF Due, d
    <3>. QED  BY <2>1, <3>1, <3>2 DEF Alike, InIni
  <2>8. Tried(R, s)
    BY <2>3, <2>4, <2>6, <2>7, RefreshListedDoes
  <2>. QED  BY <2>6, <2>8 DEF Tried, Answered
<1>. QED  BY <1>1, Invariant, PTL DEF Spec, ChangelevelLoadsWaiting

(***************************************************************************)
(* A changelevel unloads the running plugins that came from plugins.ini    *)
(* and are no longer in it, as far as they may be unloaded then and        *)
(* Meta_Detach agrees, and leaves running those that did not come from it, *)
(* and every plugin when the file cannot be read (MPluginList::refresh,    *)
(* MPlugin::unload, MPluginList::unpause_all).                             *)
(***************************************************************************)
THEOREM IniIsFollowed == Spec => ChangelevelFollowsIni
<1>1. StateInv /\ [Next]_vars =>
        [last'.op = "changelevel" => \A s \in Slot : Settled(s) =>
           IF ini = NULL THEN plist'[s].status = PL_RUNNING
           ELSE IF InIni(s) THEN TRUE
           ELSE IF plist[s].source # "ini" THEN plist'[s].status = PL_RUNNING
           ELSE unloadable[plist[s].file] >= PT_CHANGELEVEL => Unloaded(plist'[s])]_vars
  <2>. SUFFICES ASSUME StateInv, ChangeLevel, NEW s \in Slot, Settled(s)
                PROVE  IF ini = NULL THEN plist'[s].status = PL_RUNNING
                       ELSE IF InIni(s) THEN TRUE
                       ELSE IF plist[s].source # "ini" THEN plist'[s].status = PL_RUNNING
                       ELSE unloadable[plist[s].file] >= PT_CHANGELEVEL => Unloaded(plist'[s])
    BY WhoSays
  <2> DEFINE p == plist[s]
  <2>1. /\ s \in Listed(List) /\ p.status >= PL_RUNNING /\ p.action = PA_NONE
        /\ PA_NONE # PA_LOAD
    BY Order DEF Settled
  <2>2. CASE ini = NULL
    BY <2>1, <2>2, ChangeLevelUnread
  <2>3. CASE ini # NULL /\ ~ InIni(s)
    <3>1. PICK K, R, out :
           /\ out \in Outcomes /\ ListInv(K) /\ Due(K, s, p, ini)
           /\ R = refresh_listed(K, s, PT_CHANGELEVEL, out)
           /\ plist'[s].action = R.plist[s].action
           /\ plist'[s].status = R.plist[s].status
              \/ (R.plist[s].status = PL_PAUSED /\ plist'[s].status = PL_RUNNING)
           /\ s \in Listed(R) /\ R.plist[s].status = PL_PAUSED => plist'[s].status = PL_RUNNING
      BY <2>1, <2>3, ChangeLevelReaches
    <3>2. p.status \in 0 .. 6 /\ p.file \in Files
      BY <2>1, InOrder, ListIs, Order DEF StateInv, EntryOk
    <3>3. s \in Listed(K) /\ Alike(K.plist[s], p)
      BY <2>3, <3>1 DEF Due, InIni
    <3>4. /\ K.plist[s].action = PA_NONE /\ K.plist[s].status = p.status
          /\ K.plist[s].source = p.source /\ K.plist[s].file = p.file
      BY <2>1, <3>3 DEF Alike
    <3>5. CASE p.source # "ini"
      <4>1. Spares(K, R, s)
        BY <2>1, <3>1, <3>3, <3>4, <3>5, RefreshListedDoes
      <4>2. s \in Listed(R) /\ R.plist[s].status = p.status
        BY <3>3, <3>4, <4>1 DEF Spares, Alike
      <4>. QED  BY <2>1, <2>3, <3>1, <3>2, <3>5, <4>2, Order
    <3>6. CASE p.source = "ini" /\ unloadable[p.file] >= PT_CHANGELEVEL
      <4>1. ~ (unloadable[p.file] < PT_CHANGELEVEL)
        BY <3>2, <3>6, AllowedThen
      <4>2. \/ R.plist[s].status = PL_EMPTY
            \/ R.plist[s].action = PA_UNLOAD /\ out = "nodetach"
        BY <2>1, <3>1, <3>3, <3>4, <3>6, <4>1, RefreshListedDoes
      <4>. QED  BY <2>3, <3>1, <3>6, <4>2, Order DEF Unloaded
    <3>. QED  BY <2>3, <3>5, <3>6
  <2>. QED  BY <2>2, <2>3
<1>. QED  BY <1>1, Invariant, PTL DEF Spec, ChangelevelFollowsIni

(***************************************************************************)
(* After the startup each plugin of plugins.ini is listed in the best of   *)
(* the variants its lines name, or in one as good (ini_startup), however   *)
(* many lines there are, in whatever order, and whatever becomes of the    *)
(* plugins as they are loaded.                                             *)
(***************************************************************************)
THEOREM BestAreTaken == Spec => StartupTakesBestVariant
<1>1. StateInv /\ [Next]_vars =>
        [started' /\ ~ started /\ ini # NULL =>
           \A f \in Range(ini) : \E s \in 1 .. endlist' :
             /\ plist'[s].status >= PL_VALID
             /\ family[plist'[s].file] = family[f]
             /\ plist'[s].pfspecific >= level[f]]_vars
  <2>. SUFFICES ASSUME StateInv, Next, started', ~ started, ini # NULL, NEW f \in Range(ini)
                PROVE  \E s \in 1 .. endlist' : /\ plist'[s].status >= PL_VALID
                                                /\ family[plist'[s].file] = family[f]
                                                /\ plist'[s].pfspecific >= level[f]
    BY DEF vars
  <2>1. Startup
    BY DEF Next, ChangeLevel, MetaRefresh, MetaLoad, Command, MetaUnload, MetaForceUnload,
           MetaReload, MetaRetry, MetaClear, MetaPause, MetaUnpause, Request, PluginLoads,
           PluginUnloads, EditIni, UpdateFile, Operate
  <2>2. PICK outs : Becomes(load_list(List, ini, outs), "startup", PT_STARTUP)
    BY <2>1 DEF Startup
  <2> DEFINE M == load_list(List, ini, outs)
  <2>3. plist' = M.plist /\ endlist' = M.endlist
    BY <2>2 DEF Becomes
  <2>4. Best(M, f)
    BY ListIs, StartupBest DEF StateInv
  <2>. HIDE DEF M
  <2>. QED  BY <2>3, <2>4 DEF Best, Listed, Valid
<1>. QED  BY <1>1, Invariant, PTL DEF Spec, StartupTakesBestVariant

LEMMA BecomesOne ==
  ASSUME NEW L, NEW op, NEW now, OneOfEach(L), Becomes(L, op, now)
  PROVE  OneOfEach(List)'
<1>1. OneOfEach(List)' <=> \A s, t \in Listed(List)' :
         family[List'.plist[s].file] = family[List'.plist[t].file] => s = t
  BY DEF OneOfEach
<1>2. List'.plist = L.plist /\ List'.endlist = L.endlist
  BY DEF Becomes, List
<1>3. Listed(List)' = Listed(L)
  BY <1>2 DEF Listed, Valid
<1>. QED  BY <1>1, <1>2, <1>3 DEF OneOfEach

\* One step per action.
LEMMA StepOneOfEach ==
  StateInv /\ OneOfEach(List) /\ [IniNext]_vars => OneOfEach(List)'
<1>. SUFFICES ASSUME StateInv, OneOfEach(List), [IniNext]_vars  PROVE OneOfEach(List)'
  OBVIOUS
<1>1. ListInv(List) /\ List \in ListState /\ ini \in Inis
  <2>1. ListInv(List) /\ ini \in Inis
    BY DEF StateInv
  <2>. QED  BY <2>1 DEF ListInv, Core, Shared
<1>2. CASE Startup
  <2>1. PICK outs : Becomes(load_list(List, ini, outs), "startup", PT_STARTUP)
    BY <1>2 DEF Startup
  <2>2. ~ started
    BY <1>2 DEF Startup
  <2>3. OneOfEach(load_list(List, ini, outs))
    BY <1>1, <2>2, ListIs, StartupOne DEF StateInv
  <2>. QED  BY <2>1, <2>3, BecomesOne
<1>3. CASE ChangeLevel
  <2>1. PICK outs : Operate(unpause_all(refresh(List, ini, PT_CHANGELEVEL, outs)),
                            "changelevel", PT_CHANGELEVEL)
    BY <1>3 DEF ChangeLevel
  <2> DEFINE R == refresh(List, ini, PT_CHANGELEVEL, outs)
  <2>2. ListInv(R) /\ OneOfEach(R)
    BY <1>1, RefreshInOrder, RefreshedOne
  <2>. HIDE DEF R
  <2>3. OneOfEach(unpause_all(R))
    BY <2>2, UnpauseOne
  <2>4. Becomes(unpause_all(R), "changelevel", PT_CHANGELEVEL)
    BY <2>1 DEF Operate, R
  <2>. QED  BY <2>3, <2>4, BecomesOne
<1>4. CASE MetaRefresh
  <2>1. PICK outs : Operate(refresh(List, ini, PT_ANYTIME, outs), "command", PT_ANYTIME)
    BY <1>4 DEF MetaRefresh
  <2>2. OneOfEach(refresh(List, ini, PT_ANYTIME, outs))
    BY <1>1, RefreshedOne
  <2>. QED  BY <2>1, <2>2, BecomesOne DEF Operate
<1>5. ASSUME NEW s \in Slot, NEW out, MetaUnload(s, out)  PROVE OneOfEach(List)'
  <2> DEFINE U == unload([List EXCEPT !.plist[s].action = PA_UNLOAD], s,
                         PT_ANYTIME, "command", out)
  <2>1. Becomes(U, "command", PT_ANYTIME)
    BY <1>5 DEF MetaUnload, Operate
  <2>2. Shrinks(List, U)
    BY <1>1, ShrinksAsked
  <2>. HIDE DEF U
  <2>. QED  BY <1>1, <2>1, <2>2, OneOfFewer, BecomesOne
<1>6. CASE EditIni \/ UNCHANGED vars
  <2>1. plist' = plist /\ endlist' = endlist
    BY <1>6 DEF EditIni, listVars, vars
  <2>2. List'.plist = List.plist /\ List'.endlist = List.endlist
    BY <2>1 DEF List
  <2>3. Listed(List)' = Listed(List)
    BY <2>2 DEF Listed, Valid
  <2>. QED  BY <2>2, <2>3 DEF OneOfEach
<1>. QED  BY <1>2, <1>3, <1>4, <1>5, <1>6 DEF IniNext

(***************************************************************************)
(* As long as no plugin is loaded by name, no two variants of one are      *)
(* listed together: not from plugins.ini at startup (ini_startup), not     *)
(* from one edited and refreshed at any later time (ini_refresh), which    *)
(* lists a better variant only in the place of the one it has.             *)
(***************************************************************************)
THEOREM OneVariantStays == IniSpec => []OneVariant
<1>1. Init => StateInv /\ OneOfEach(List)
  <2>. SUFFICES ASSUME Init  PROVE OneOfEach(List)
    BY InitStateInv
  <2>1. Listed(List) = {}
    BY ListIs DEF Init, Listed
  <2>. QED  BY <2>1 DEF OneOfEach
<1>2. [IniNext]_vars => [Next]_vars
  BY DEF IniNext, Next, Command
<1>3. StateInv /\ OneOfEach(List) /\ [IniNext]_vars => (StateInv /\ OneOfEach(List))'
  BY <1>2, StepStateInv, StepOneOfEach
<1>4. OneOfEach(List) => OneVariant
  BY ListIs DEF OneOfEach, OneVariant
<1>. QED  BY <1>1, <1>3, <1>4, PTL DEF IniSpec
=============================================================================
