------------------------- MODULE HookDispatchProofs -------------------------
(***************************************************************************)
(* Proofs about the hook dispatcher, for every number of plugins, every    *)
(* set of API groups, every nesting depth: the lists rebuild_hook_lists    *)
(* leaves, the position find_plugin_after_rebuild returns, the inductive   *)
(* invariant IInv and what follows from it.                                *)
(***************************************************************************)
EXTENDS HookDispatch, FiniteSetTheorems, SequenceTheorems, TLAPS

\* A function on an initial segment is a sequence.
LEMMA FunctionIsSeq ==
  ASSUME NEW n \in Nat, NEW T, NEW f \in [1 .. n -> T]
  PROVE  f \in Seq(T) /\ Len(f) = n
OBVIOUS

(***************************************************************************)
(* The second pass of rebuild_hook_lists writes each plugin of a set to    *)
(* one entry, in slot order: Fill(S) enumerates S.                         *)
(***************************************************************************)
LEMMA FillEnumerates ==
  ASSUME NEW N \in Nat, NEW S \in SUBSET (1 .. N)
  PROVE  Fill(S) \in Seq(1 .. N) /\ Enumerates(Fill(S), S)
<1> DEFINE n == Cardinality(S)
           UpTo(s) == {t \in S : t <= s}
           rank == [s \in S |-> Cardinality(UpTo(s))]
           q == [k \in 1 .. n |-> CHOOSE s \in S : Cardinality(UpTo(s)) = k]
<1>1. IsFiniteSet(S) /\ n \in Nat /\ S \subseteq Nat
  <2>1. IsFiniteSet(1 .. N)
    BY FS_Interval
  <2>2. IsFiniteSet(S)
    BY <2>1, FS_Subset
  <2>. QED  BY <2>2, FS_CardinalityType
<1>2. \A s \in S : rank[s] \in 1 .. n
  <2> TAKE s \in S
  <2>1. IsFiniteSet(UpTo(s)) /\ Cardinality(UpTo(s)) <= n
    BY <1>1, FS_Subset
  <2>2. Cardinality(UpTo(s)) \in Nat
    BY <2>1, FS_CardinalityType
  <2>3. s \in UpTo(s)
    BY <1>1
  <2>4. Cardinality(UpTo(s)) # 0
    BY <2>1, <2>3, FS_EmptySet
  <2>. QED  BY <2>1, <2>2, <2>4, <1>1
<1>3. \A s, u \in S : s < u => rank[s] < rank[u]
  <2> SUFFICES ASSUME NEW s \in S, NEW u \in S, s < u
               PROVE  rank[s] < rank[u]
    OBVIOUS
  <2>1. UpTo(s) \subseteq UpTo(u)
    <3>1. s \in Nat /\ u \in Nat /\ \A t \in S : t \in Nat
      BY <1>1
    <3>2. \A t \in S : t <= s => t <= u
      BY <3>1
    <3>. QED  BY <3>2
  <2>2. u \in UpTo(u) /\ u \notin UpTo(s)
    BY <1>1
  <2>3. IsFiniteSet(UpTo(u))
    BY <1>1, FS_Subset
  <2>4. /\ Cardinality(UpTo(s)) <= Cardinality(UpTo(u))
        /\ Cardinality(UpTo(s)) # Cardinality(UpTo(u))
    BY <2>1, <2>2, <2>3, FS_Subset
  <2>. QED  BY <2>4, <1>1, <1>2
<1>4. \A k \in 1 .. n : \E s \in S : rank[s] = k
  <2>1. rank \in [S -> 1 .. n]
    BY <1>2
  <2>2. \A s, u \in S : rank[s] = rank[u] => s = u
    <3> SUFFICES ASSUME NEW s \in S, NEW u \in S, s # u
                 PROVE  rank[s] # rank[u]
      OBVIOUS
    <3>1. s < u \/ u < s
      BY <1>1
    <3>2. rank[s] \in Nat /\ rank[u] \in Nat
      BY <1>2
    <3>. QED  BY <1>3, <3>1, <3>2
  <2>3. rank \in Injection(S, 1 .. n)
    BY <2>1, <2>2 DEF Injection, IsInjective
  <2>4. IsFiniteSet(1 .. n) /\ Cardinality(1 .. n) = n
    <3>1. 0 <= n /\ 1 \in Int /\ n \in Int
      BY <1>1
    <3>2. Cardinality(1 .. n) = IF 1 > n THEN 0 ELSE n - 1 + 1
      BY <3>1, FS_Interval
    <3>3. IsFiniteSet(1 .. n)
      BY <3>1, FS_Interval
    <3>. QED  BY <3>1, <3>2, <3>3
  <2>5. rank \in Surjection(S, 1 .. n)
    BY <2>3, <2>4, FS_Injection
  <2>. QED  BY <2>5 DEF Surjection
<1>5. \A k \in 1 .. n : q[k] \in S /\ rank[q[k]] = k
  BY <1>4
<1>6. Fill(S) = q
  BY DEF Fill
<1>7. q \in Seq(1 .. N) /\ Len(q) = n
  <2>1. q \in [1 .. n -> 1 .. N]
    BY <1>5
  <2>. QED  BY <1>1, <2>1, FunctionIsSeq
<1>. HIDE DEF UpTo, rank, q
<1>8. Sorted(q)
  <2> SUFFICES ASSUME NEW i \in 1 .. n, NEW j \in 1 .. n, i < j
               PROVE  q[i] < q[j]
    BY <1>7 DEF Sorted
  <2>1. q[i] \in S /\ q[j] \in S /\ rank[q[i]] = i /\ rank[q[j]] = j
    BY <1>5
  <2>2. CASE q[j] < q[i]
    <3>1. rank[q[j]] < rank[q[i]]
      BY <1>3, <2>1, <2>2
    <3>. QED  BY <3>1, <2>1, <1>1
  <2>3. CASE q[j] = q[i]
    BY <2>1, <2>3, <1>1
  <2>4. q[i] \in Nat /\ q[j] \in Nat
    BY <2>1, <1>1
  <2>. QED  BY <2>2, <2>3, <2>4
<1>9. \A s \in S : \E k \in 1 .. n : q[k] = s
  <2> TAKE s \in S
  <2>1. rank[s] \in 1 .. n
    BY <1>2
  <2>2. PICK u \in S : u = q[rank[s]] /\ rank[u] = rank[s]
    BY <1>5, <2>1
  <2>3. rank[s] \in Nat /\ s \in Nat /\ u \in Nat
    BY <1>1, <1>2
  <2>4. s < u => rank[s] < rank[u]
    BY <1>3
  <2>5. u < s => rank[u] < rank[s]
    BY <1>3
  <2>6. u = s
    BY <2>2, <2>3, <2>4, <2>5
  <2>. QED  BY <2>1, <2>2, <2>6
<1>. QED  BY <1>5, <1>6, <1>7, <1>8, <1>9 DEF Enumerates

\* The first entry of such an enumeration is the least element.
LEMMA LeastExists ==
  ASSUME NEW N \in Nat, NEW S \in SUBSET (1 .. N), S # {}
  PROVE  \E s \in S : \A t \in S : s <= t
<1> DEFINE q == Fill(S)
<1>1. q \in Seq(1 .. N) /\ Enumerates(q, S)
  BY FillEnumerates
<1>. HIDE DEF q
<1>2. Len(q) \in Nat /\ \A j \in 1 .. Len(q) : q[j] \in 1 .. N
  BY <1>1
<1>3. Len(q) >= 1
  <2>1. PICK t : t \in S
    OBVIOUS
  <2>2. PICK j \in 1 .. Len(q) : q[j] = t
    BY <1>1, <2>1 DEF Enumerates
  <2>. QED  BY <1>2, <2>2
<1>4. q[1] \in S
  BY <1>1, <1>2, <1>3 DEF Enumerates
<1>5. \A t \in S : q[1] <= t
  <2> TAKE t \in S
  <2>1. PICK j \in 1 .. Len(q) : q[j] = t
    BY <1>1 DEF Enumerates
  <2>2. j = 1 \/ q[1] < q[j]
    BY <1>1, <1>2, <1>3 DEF Enumerates, Sorted
  <2>. QED  BY <2>1, <2>2, <1>2, <1>3
<1>. QED  BY <1>4, <1>5

(***************************************************************************)
(* find_plugin_after_rebuild: the position it returns splits the new list  *)
(* into the plugins up to the current one and those after it, whether or   *)
(* not the current plugin is still listed.  (0: none was taken up yet.)    *)
(***************************************************************************)
LEMMA RebuildPosition ==
  ASSUME NEW q \in Seq(Slot), Sorted(q), NEW p \in 0 .. MaxPlugins
  PROVE  LET r == find_plugin_after_rebuild(q, p)
         IN  /\ r \in 0 .. Len(q)
             /\ \A j \in 1 .. Len(q) : j <= r <=> q[j] <= p
<1> DEFINE n == Len(q)
           reached == {j \in 1 .. n : q[j] >= p}
           first == CHOOSE j \in reached : \A k \in reached : j <= k
<1>1. n \in Nat /\ p \in Nat /\ \A j \in 1 .. n : q[j] \in Nat
  BY MaxPluginsAssumption DEF Slot
<1>2. \A i, j \in 1 .. n : i < j => q[i] < q[j]
  BY DEF Sorted
<1>3. CASE reached = {}
  <2>1. find_plugin_after_rebuild(q, p) = n
    BY <1>3 DEF find_plugin_after_rebuild
  <2>2. \A j \in 1 .. n : ~ (q[j] >= p)
    BY <1>3
  <2>. QED  BY <2>1, <2>2, <1>1
<1>4. CASE reached # {}
  <2>1. reached \in SUBSET (1 .. n)
    OBVIOUS
  <2>2. \E j \in reached : \A k \in reached : j <= k
    BY <2>1, <1>1, <1>4, LeastExists
  <2>3. first \in reached /\ \A k \in reached : first <= k
    BY <2>2
  <2>4. find_plugin_after_rebuild(q, p) =
          IF q[first] = p THEN first ELSE first - 1
    BY <1>4 DEF find_plugin_after_rebuild
  <2>5. first \in 1 .. n /\ q[first] >= p
    BY <2>3
  <2>6. \A j \in 1 .. n : j < first => q[j] < p
    <3> TAKE j \in 1 .. n
    <3> HAVE j < first
    <3>1. j \notin reached
      BY <2>3, <2>5, <1>1
    <3>. QED  BY <3>1, <1>1
  <2>7. \A j \in 1 .. n : j > first => q[j] > q[first]
    BY <1>2, <2>5
  <2>. HIDE DEF first
  <2>8. CASE q[first] = p
    BY <2>4, <2>5, <2>6, <2>7, <2>8, <1>1
  <2>9. CASE q[first] # p
    BY <2>4, <2>5, <2>6, <2>7, <2>9, <1>1
  <2>. QED  BY <2>8, <2>9
<1>. QED  BY <1>3, <1>4
\* In any list, sorted or not, it is a number of entries.
LEMMA RebuildPositionType ==
  ASSUME NEW q \in Seq(Slot), NEW p
  PROVE  find_plugin_after_rebuild(q, p) \in Nat
<1> DEFINE reached == {j \in 1 .. Len(q) : q[j] >= p}
           first == CHOOSE j \in reached : \A k \in reached : j <= k
<1>1. Len(q) \in Nat /\ reached \in SUBSET (1 .. Len(q))
  OBVIOUS
<1>2. CASE reached = {}
  BY <1>1, <1>2 DEF find_plugin_after_rebuild
<1>3. CASE reached # {}
  <2>1. first \in reached
    BY <1>1, <1>3, LeastExists
  <2>2. find_plugin_after_rebuild(q, p) \in {first, first - 1}
    BY <1>3 DEF find_plugin_after_rebuild
  <2>. HIDE DEF first
  <2>3. first \in Nat /\ first - 1 \in Nat
    BY <1>1, <2>1
  <2>. QED  BY <2>2, <2>3
<1>. QED  BY <1>2, <1>3
-----------------------------------------------------------------------------
(***************************************************************************)
(* Types.                                                                  *)
(***************************************************************************)
LEMMA TopType ==
  ASSUME stack \in Seq(Frame), stack # <<>>
  PROVE  Len(stack) \in Nat \ {0} /\ Len(stack) \in 1 .. Len(stack)
         /\ Top \in Frame
BY DEF Top

\* Dropping the last element of a sequence.
LEMMA FrontOfSeq ==
  ASSUME NEW T, NEW s \in Seq(T), s # <<>>
  PROVE  /\ Len(SubSeq(s, 1, Len(s) - 1)) = Len(s) - 1
         /\ \A k \in 1 .. Len(s) - 1 : SubSeq(s, 1, Len(s) - 1)[k] = s[k]
<1> DEFINE m == Len(s) - 1
<1>1. m \in Nat
  OBVIOUS
<1>2. \A k \in 1 .. m : s[k] \in T
  OBVIOUS
<1>. HIDE DEF m
<1>3. /\ Len(SubSeq(s, 1, m)) = IF 1 <= m THEN m - 1 + 1 ELSE 0
      /\ \A k \in 1 .. m - 1 + 1 : SubSeq(s, 1, m)[k] = s[1 + k - 1]
  BY <1>1, <1>2, SubSeqProperties
<1>4. Len(SubSeq(s, 1, m)) = m
  BY <1>1, <1>3
<1>5. \A k \in 1 .. m : SubSeq(s, 1, m)[k] = s[k]
  <2> TAKE k \in 1 .. m
  <2>1. k \in 1 .. m - 1 + 1 /\ 1 + k - 1 = k
    BY <1>1
  <2>2. SubSeq(s, 1, m)[k] = s[1 + k - 1]
    BY <1>3, <2>1
  <2>. QED  BY <2>1, <2>2
<1>. QED  BY <1>4, <1>5, Zenon DEF m

\* Replacing the running frame changes that frame and nothing else.
LEMMA SetTopEffect ==
  ASSUME stack \in Seq(Frame), stack # <<>>, NEW fr \in Frame, SetTop(fr)
  PROVE  /\ stack' \in Seq(Frame)
         /\ Len(stack') = Len(stack)
         /\ stack' # <<>>
         /\ Top' = fr
         /\ \A k \in 1 .. Len(stack) - 1 : stack'[k] = stack[k]
<1>1. Len(stack) \in Nat \ {0} /\ Len(stack) \in 1 .. Len(stack)
  BY TopType
<1>2. stack' \in Seq(Frame) /\ Len(stack') = Len(stack)
  BY <1>1 DEF SetTop
<1>3. stack' # <<>>
  BY <1>1, <1>2
<1>4. Top' = fr
  BY <1>1, <1>2 DEF SetTop, Top
<1>5. \A k \in 1 .. Len(stack) - 1 : stack'[k] = stack[k]
  <2> TAKE k \in 1 .. Len(stack) - 1
  <2>1. k \in 1 .. Len(stack) /\ k # Len(stack)
    BY <1>1
  <2>. QED  BY <2>1 DEF SetTop
<1>. QED  BY <1>2, <1>3, <1>4, <1>5

\* The globals keep their shape, whatever result or status is put in.
LEMMA MetaGlobalsType ==
  /\ NoGlobals \in MetaGlobals
  /\ MRES_UNSET \in META_RES
  /\ \A g \in MetaGlobals : \A m, st \in META_RES :
       /\ [g EXCEPT !.mres = m] \in MetaGlobals
       /\ [g EXCEPT !.prev_mres = m] \in MetaGlobals
       /\ [g EXCEPT !.mres = m, !.status = st] \in MetaGlobals
       /\ g.mres \in META_RES
<1>1. MRES_UNSET \in META_RES
  BY DEF META_RES, MRES_UNSET
<1>2. NoGlobals \in MetaGlobals
  BY <1>1 DEF NoGlobals, MetaGlobals
<1>3. ASSUME NEW g \in MetaGlobals, NEW m \in META_RES, NEW st \in META_RES
      PROVE  /\ [g EXCEPT !.mres = m] \in MetaGlobals
             /\ [g EXCEPT !.prev_mres = m] \in MetaGlobals
             /\ [g EXCEPT !.mres = m, !.status = st] \in MetaGlobals
             /\ g.mres \in META_RES
  BY DEF MetaGlobals
<1>. QED  BY <1>1, <1>2, <1>3

\* rebuild_hook_lists leaves well-typed lists; unless the allocation failed they
\* enumerate the hooking plugins and the flag is up.
LEMMA RebuildEffect ==
  ASSUME NEW st, NEW tb, hook_list_data \in Pointer,
         hook_list_tables_updated \in BOOLEAN, rebuild_hook_lists(st, tb)
  PROVE  /\ hook_lists' \in [List -> Seq(Slot)]
         /\ hook_list_data' \in Pointer
         /\ hook_list_tables_updated' \in BOOLEAN
         /\ \A l \in List : Sorted(hook_lists'[l])
         /\ ~ AllocMayFail =>
              /\ hook_list_tables_updated' = TRUE
              /\ \A l \in List : Enumerates(hook_lists'[l], Hooking(st, tb, l))
<1>1. \A l \in List : /\ Fill(Hooking(st, tb, l)) \in Seq(Slot)
                      /\ Enumerates(Fill(Hooking(st, tb, l)), Hooking(st, tb, l))
  <2> TAKE l \in List
  <2>1. Hooking(st, tb, l) \in SUBSET (1 .. MaxPlugins)
    BY DEF Hooking, Slot
  <2>. QED  BY <2>1, MaxPluginsAssumption, FillEnumerates DEF Slot
<1>2. CASE hook_lists' = [l \in List |-> Fill(Hooking(st, tb, l))]
           /\ hook_list_data' \in Pointer /\ hook_list_tables_updated' = TRUE
  BY <1>1, <1>2 DEF Enumerates
<1>3. CASE AllocMayFail /\ hook_lists' = [l \in List |-> <<>>]
           /\ UNCHANGED <<hook_list_data, hook_list_tables_updated>>
  BY <1>3 DEF Sorted
<1>. QED  BY <1>2, <1>3 DEF rebuild_hook_lists, Pointer

LEMMA InitType == Init => TypeOK
<1> SUFFICES ASSUME Init PROVE TypeOK
  OBVIOUS
<1>1. hook_lists \in [List -> Seq(Slot)]
  BY DEF Init
<1>2. stack \in Seq(Frame)
  BY DEF Init
<1>. QED  BY <1>1, <1>2, MetaGlobalsType DEF Init, TypeOK, Pointer

LEMMA SetPluginType ==
  ASSUME TypeOK, NEW s \in Slot, NEW st \in {"empty", "running", "paused"},
         NEW tb \in SUBSET List, SetPlugin(s, st, tb)
  PROVE  TypeOK'
<1>1. rebuild_hook_lists(status', tables')
  BY DEF SetPlugin
<1>2. /\ hook_lists' \in [List -> Seq(Slot)]
      /\ hook_list_data' \in Pointer
      /\ hook_list_tables_updated' \in BOOLEAN
  BY <1>1, RebuildEffect DEF TypeOK
<1>. QED  BY <1>2 DEF SetPlugin, TypeOK

LEMMA BeginCallType ==
  ASSUME TypeOK, NEW api \in Apis, NEW clears \in BOOLEAN,
         BeginCall(api, clears)
  PROVE  TypeOK'
<1> DEFINE updated == IF stack = <<>> THEN FALSE ELSE hook_list_tables_updated
           pre == hook_lists[<<api, "pre">>]
           saved == IF stack = <<>> THEN NoGlobals ELSE PublicMetaGlobals
           fr == [api |-> api, phase |-> "pre", pc |-> "loop",
                  plugs |-> pre, block |-> hook_list_data,
                  i |-> 0, plug |-> 0, status |-> MRES_UNSET,
                  rebuild_happened |-> updated, saved_meta_globals |-> saved]
<1>1. updated \in BOOLEAN
  BY DEF TypeOK
<1>2. pre \in Seq(Slot)
  BY DEF TypeOK, List, Phases
<1>3. saved \in MetaGlobals
  BY MetaGlobalsType DEF TypeOK
<1>4. stack' = Append(stack, fr)
  BY DEF BeginCall
<1>5. /\ hook_list_tables_updated' \in BOOLEAN
      /\ UNCHANGED <<status, tables, hook_lists, hook_list_data>>
  BY <1>1 DEF BeginCall, pluginVars, listVars
<1>6. PublicMetaGlobals' \in MetaGlobals
  BY MetaGlobalsType DEF BeginCall, TypeOK
<1>7. fr \in Frame
  <2>1. hook_list_data \in Pointer /\ 0 \in 0 .. MaxPlugins
    BY MaxPluginsAssumption DEF TypeOK
  <2>. HIDE DEF updated, pre, saved
  <2>. QED  BY <1>1, <1>2, <1>3, <2>1, MetaGlobalsType DEF Frame, Phases
<1>8. stack' \in Seq(Frame)
  <2>. HIDE DEF fr
  <2>. QED  BY <1>4, <1>7 DEF TypeOK
<1>. QED  BY <1>5, <1>6, <1>8 DEF TypeOK

LEMMA PluginReturnsType ==
  ASSUME TypeOK, PluginReturns
  PROVE  TypeOK'
<1> DEFINE current == hook_lists[ListOf(Top)]
           position == find_plugin_after_rebuild(current, Top.plug)
           refreshed == [Top EXCEPT !.plugs = current, !.block = hook_list_data,
                          !.i = position, !.rebuild_happened = TRUE]
           fr == IF hook_list_tables_updated THEN refreshed ELSE Top
           returned == [fr EXCEPT !.pc = "loop",
                          !.status = Max2(@, PublicMetaGlobals.mres)]
<1>1. stack # <<>> /\ Top \in Frame
  BY TopType DEF PluginReturns, TypeOK
<1>2. current \in Seq(Slot)
  BY <1>1 DEF ListOf, List, Frame, TypeOK
<1>3. position \in Nat
  BY <1>2, RebuildPositionType
<1>4. fr \in Frame
  <2>. HIDE DEF current, position
  <2>. QED  BY <1>1, <1>2, <1>3 DEF Frame, TypeOK
<1>5. PublicMetaGlobals.mres \in META_RES
  BY DEF TypeOK, MetaGlobals
<1>6. Max2(fr.status, PublicMetaGlobals.mres) \in META_RES
  <2>. HIDE DEF fr
  <2>. QED  BY <1>4, <1>5 DEF Max2, Frame
<1>7. returned \in Frame
  <2>. HIDE DEF fr
  <2>. QED  BY <1>4, <1>6 DEF Frame
<1>8. SetTop(returned)
  BY DEF PluginReturns
<1>9. stack' \in Seq(Frame)
  <2>. HIDE DEF returned
  <2>. QED  BY <1>1, <1>7, <1>8, SetTopEffect DEF TypeOK
<1>10. hook_list_tables_updated' \in BOOLEAN
  BY DEF PluginReturns
<1>11. PublicMetaGlobals' \in MetaGlobals
  <2>1. PublicMetaGlobals' = [PublicMetaGlobals EXCEPT
                               !.prev_mres = PublicMetaGlobals.mres]
    BY DEF PluginReturns
  <2>. QED  BY <2>1 DEF TypeOK, MetaGlobals
<1>12. UNCHANGED <<status, tables, hook_lists, hook_list_data>>
  BY DEF PluginReturns, pluginVars, listVars
<1>. QED  BY <1>9, <1>10, <1>11, <1>12 DEF TypeOK

LEMMA StartPostType ==
  ASSUME TypeOK, stack # <<>>, NEW st \in META_RES, StartPost(st)
  PROVE  TypeOK'
<1> DEFINE fr == [Top EXCEPT !.phase = "post", !.pc = "loop",
                    !.plugs = hook_lists[<<Top.api, "post">>],
                    !.block = hook_list_data, !.i = 0, !.plug = 0, !.status = st,
                    !.rebuild_happened = @ \/ hook_list_tables_updated]
<1>1. Top \in Frame
  BY TopType DEF TypeOK
<1>2. hook_lists[<<Top.api, "post">>] \in Seq(Slot)
  BY <1>1 DEF Frame, TypeOK, List, Phases
<1>3. (Top.rebuild_happened \/ hook_list_tables_updated) \in BOOLEAN
  OBVIOUS
<1>4. fr \in Frame
  <2> DEFINE post == hook_lists[<<Top.api, "post">>]
             happened == Top.rebuild_happened \/ hook_list_tables_updated
  <2>1. hook_list_data \in Pointer /\ 0 \in 0 .. MaxPlugins
    BY MaxPluginsAssumption DEF TypeOK
  <2>. HIDE DEF post, happened
  <2>. QED  BY <1>1, <1>2, <1>3, <2>1 DEF Frame, Phases, post, happened
<1>5. SetTop(fr)
  BY DEF StartPost
<1>6. stack' \in Seq(Frame)
  <2>. HIDE DEF fr
  <2>. QED  BY <1>4, <1>5, SetTopEffect DEF TypeOK
<1>7. PublicMetaGlobals' \in MetaGlobals
  BY MetaGlobalsType DEF StartPost, TypeOK
<1>8. /\ hook_list_tables_updated' = FALSE
      /\ UNCHANGED <<status, tables, hook_lists, hook_list_data>>
  BY DEF StartPost, pluginVars, listVars
<1>. QED  BY <1>6, <1>7, <1>8 DEF TypeOK

LEMMA NextType == TypeOK /\ [Next]_vars => TypeOK'
<1> SUFFICES ASSUME TypeOK, [Next]_vars PROVE TypeOK'
  OBVIOUS
<1>1. ASSUME NEW s \in Slot, Administer(s) PROVE TypeOK'
  <2>1. CASE Load(s)
    BY <2>1, TableSetsAssumption, SetPluginType DEF Load
  <2>2. CASE Unload(s)
    BY <2>2, SetPluginType DEF Unload
  <2>3. CASE Pause(s)
    BY <2>3, SetPluginType DEF Pause, TypeOK
  <2>4. CASE Unpause(s)
    BY <2>4, SetPluginType DEF Unpause, TypeOK
  <2>. QED  BY <1>1, <2>1, <2>2, <2>3, <2>4 DEF Administer
<1>2. ASSUME NEW m \in Results, SetMetaResult(m) PROVE TypeOK'
  BY <1>2, ResultsAssumption, MetaGlobalsType
  DEF SetMetaResult, TypeOK, pluginVars, listVars
<1>3. ASSUME NEW api \in Apis, NEW clears \in BOOLEAN, BeginCall(api, clears)
      PROVE  TypeOK'
  BY <1>3, BeginCallType
<1>4. CASE SkipPlugin
  <2>1. stack # <<>> /\ Top \in Frame
    BY <1>4, TopType DEF SkipPlugin, InLoop, TypeOK
  <2>2. Top.plugs[Top.i + 1] \in Slot
    BY <1>4, <2>1 DEF SkipPlugin, Frame
  <2>3. [Top EXCEPT !.i = @ + 1, !.plug = Top.plugs[Top.i + 1]] \in Frame
    <3> DEFINE next == Top.plugs[Top.i + 1]
    <3>1. next \in 0 .. MaxPlugins /\ Top.i + 1 \in Nat
      BY <2>1, <2>2, MaxPluginsAssumption DEF Frame, Slot
    <3>. HIDE DEF next
    <3>. QED  BY <2>1, <3>1 DEF Frame, next
  <2>4. stack' \in Seq(Frame)
    BY <1>4, <2>1, <2>3, SetTopEffect DEF SkipPlugin, TypeOK
  <2>. QED  BY <1>4, <2>4 DEF SkipPlugin, TypeOK, pluginVars, listVars
<1>5. CASE CallPlugin
  <2>1. stack # <<>> /\ Top \in Frame
    BY <1>5, TopType DEF CallPlugin, InLoop, TypeOK
  <2>2. Top.plugs[Top.i + 1] \in Slot
    BY <1>5, <2>1 DEF CallPlugin, Frame
  <2>3. [Top EXCEPT !.i = @ + 1, !.plug = Top.plugs[Top.i + 1],
                    !.pc = "plugin"] \in Frame
    <3> DEFINE next == Top.plugs[Top.i + 1]
    <3>1. next \in 0 .. MaxPlugins /\ Top.i + 1 \in Nat
      BY <2>1, <2>2, MaxPluginsAssumption DEF Frame, Slot
    <3>. HIDE DEF next
    <3>. QED  BY <2>1, <3>1 DEF Frame, next
  <2>4. stack' \in Seq(Frame)
    BY <1>5, <2>1, <2>3, SetTopEffect DEF CallPlugin, TypeOK
  <2>5. PublicMetaGlobals' \in MetaGlobals
    BY <1>5, <2>1, MetaGlobalsType DEF CallPlugin, TypeOK, Frame
  <2>. QED  BY <1>5, <2>4, <2>5 DEF CallPlugin, TypeOK, pluginVars, listVars
<1>6. CASE PluginReturns
  BY <1>6, PluginReturnsType
<1>7. CASE CallRoutine
  <2>1. stack # <<>> /\ Top \in Frame
    BY <1>7, TopType DEF CallRoutine, PreDone, InLoop, TypeOK
  <2>2. [Top EXCEPT !.pc = "routine"] \in Frame
    BY <2>1 DEF Frame
  <2>3. stack' \in Seq(Frame)
    BY <1>7, <2>1, <2>2, SetTopEffect DEF CallRoutine, TypeOK
  <2>. QED  BY <1>7, <2>3 DEF CallRoutine, TypeOK, pluginVars, listVars
<1>8. CASE RoutineMissing
  <2>1. stack # <<>> /\ StartPost(MRES_UNSET)
    BY <1>8 DEF RoutineMissing, PreDone, InLoop
  <2>. QED  BY <2>1, MetaGlobalsType, StartPostType
<1>9. CASE RoutineSuperceded
  <2>1. stack # <<>> /\ StartPost(Top.status)
    BY <1>9 DEF RoutineSuperceded, PreDone, InLoop
  <2>2. Top.status \in META_RES
    BY <2>1, TopType DEF TypeOK, Frame
  <2>. QED  BY <2>1, <2>2, StartPostType
<1>10. CASE EndCall
  <2>1. stack # <<>> /\ Top \in Frame
    BY <1>10, TopType DEF EndCall, InLoop, TypeOK
  <2>2. stack' \in Seq(Frame)
    BY <1>10, <2>1 DEF EndCall, TypeOK
  <2>3. hook_list_tables_updated' \in BOOLEAN
    BY <1>10, <2>1 DEF EndCall, TypeOK, Frame
  <2>4. PublicMetaGlobals' \in MetaGlobals
    BY <1>10, <2>1 DEF EndCall, TypeOK, Frame
  <2>. QED  BY <1>10, <2>2, <2>3, <2>4 DEF EndCall, TypeOK, pluginVars, listVars
<1>11. CASE RoutineReturns
  <2>1. stack # <<>> /\ Top \in Frame
    BY <1>11, TopType DEF RoutineReturns, TypeOK
  <2>. QED  BY <1>11, <2>1, StartPostType DEF RoutineReturns, Frame
<1>12. CASE UNCHANGED vars
  BY <1>12 DEF TypeOK, vars
<1>. QED  BY <1>1, <1>2, <1>3, <1>4, <1>5, <1>6, <1>7, <1>8, <1>9, <1>10, <1>11,
             <1>12 DEF Next, Dispatch

\* Type correctness: whatever the plugins do, the state keeps its shape.
THEOREM TypeCorrect == Spec => []TypeOK
BY InitType, NextType, PTL DEF Spec
-----------------------------------------------------------------------------
(***************************************************************************)
(* The inductive invariant, when the reallocation does not fail.           *)
(***************************************************************************)
\* Taking up the next entry moves the split by one.
LEMMA NextEntryPlaced ==
  ASSUME NEW q \in Seq(Slot), Sorted(q), NEW i \in Nat, i < Len(q)
  PROVE  /\ i + 1 <= Len(q)
         /\ \A j \in 1 .. Len(q) : j <= i + 1 <=> q[j] <= q[i + 1]
<1>1. Len(q) \in Nat /\ i + 1 \in 1 .. Len(q)
  OBVIOUS
<1>2. \A j \in 1 .. Len(q) : q[j] \in Nat
  BY MaxPluginsAssumption DEF Slot
<1>3. ASSUME NEW j \in 1 .. Len(q) PROVE j <= i + 1 <=> q[j] <= q[i + 1]
  <2>1. j < i + 1 => q[j] < q[i + 1]
    BY <1>1 DEF Sorted
  <2>2. i + 1 < j => q[i + 1] < q[j]
    BY <1>1 DEF Sorted
  <2>. QED  BY <1>1, <1>2, <2>1, <2>2
<1>. QED  BY <1>1, <1>3

\* At the start of a loop nothing is passed.
LEMMA StartPlaced ==
  ASSUME NEW q \in Seq(Slot), Sorted(q)
  PROVE  0 <= Len(q) /\ \A j \in 1 .. Len(q) : j <= 0 <=> q[j] <= 0
BY MaxPluginsAssumption DEF Slot

LEMMA InitIInv == Init => IInv
<1> SUFFICES ASSUME Init PROVE IInv
  OBVIOUS
<1>1. \A l \in List : Hooking(status, tables, l) = {}
  BY DEF Init, Hooking
<1>2. ListsExact
  <2>1. \A l \in List : hook_lists[l] = <<>>
    BY DEF Init
  <2>. QED  BY <1>1, <2>1 DEF ListsExact, Enumerates, Sorted
<1>3. Len(stack) = 0 /\ stack = <<>>
  BY DEF Init
<1>. QED  BY <1>2, <1>3, InitType
          DEF IInv, OthersSuspended, StaleIsSignalled, InLoop

(***************************************************************************)
(* A step that only replaces the running frame keeps the invariant when    *)
(* the new frame is well placed, is current if it is at a loop head, and   *)
(* passes on what the old one and the flag signalled.                      *)
(***************************************************************************)
LEMMA SetTopIInv ==
  ASSUME IInv, stack # <<>>, TypeOK', NEW fr \in Frame, SetTop(fr),
         UNCHANGED <<status, tables, hook_lists, hook_list_data>>,
         Placed(fr), fr.pc = "loop" => ~ Stale(fr),
         fr.pc = "plugin" => ~ Stale(fr),
         hook_list_tables_updated \/ Top.rebuild_happened =>
           hook_list_tables_updated' \/ fr.rebuild_happened
  PROVE  IInv'
<1>1. /\ Len(stack) \in Nat \ {0}
      /\ Len(stack') = Len(stack)
      /\ stack' # <<>>
      /\ Top' = fr
      /\ \A k \in 1 .. Len(stack) - 1 : stack'[k] = stack[k]
  BY TopType, SetTopEffect DEF IInv, TypeOK
<1>2. stack'[Len(stack)] = fr
  BY <1>1 DEF Top
<1>3. \A k \in 1 .. Len(stack) : k = Len(stack) \/ k \in 1 .. Len(stack) - 1
  BY <1>1
<1>4. ListsExact'
  BY DEF IInv, ListsExact
<1>5. OthersSuspended'
  BY <1>1 DEF IInv, OthersSuspended
<1>6. (\A k \in 1 .. Len(stack) : Placed(stack[k]))'
  <2> SUFFICES ASSUME NEW k \in 1 .. Len(stack) PROVE Placed(stack'[k])
    BY <1>1 DEF Placed, Sorted
  <2>1. CASE k = Len(stack)
    BY <2>1, <1>2
  <2>2. CASE k \in 1 .. Len(stack) - 1
    <3>1. stack'[k] = stack[k] /\ Placed(stack[k])
      BY <2>2, <1>1 DEF IInv
    <3>. QED  BY <3>1
  <2>. QED  BY <2>1, <2>2, <1>3
<1>7. (InLoop => ~ Stale(Top))'
  BY <1>1 DEF InLoop, Stale, ListOf
<1>8. StaleIsSignalled'
  <2> SUFFICES ASSUME NEW k \in 1 .. Len(stack), stack'[k].pc = "plugin",
                      Stale(stack[k])'
               PROVE  \/ hook_list_tables_updated'
                      \/ \E j \in k + 1 .. Len(stack) : stack'[j].rebuild_happened
    BY <1>1 DEF StaleIsSignalled
  <2>1. k \in 1 .. Len(stack) - 1
    BY <1>2, <1>3 DEF Stale, ListOf
  <2>2. stack[k].pc = "plugin" /\ Stale(stack[k])
    BY <1>1, <2>1 DEF Stale, ListOf
  <2>3. CASE hook_list_tables_updated
    <3>1. Len(stack) \in k + 1 .. Len(stack)
      BY <1>1, <2>1
    <3>. QED  BY <2>3, <3>1, <1>2
  <2>4. ASSUME NEW j \in k + 1 .. Len(stack), stack[j].rebuild_happened
        PROVE  \/ hook_list_tables_updated'
               \/ \E n \in k + 1 .. Len(stack) : stack'[n].rebuild_happened
    <3>1. CASE j = Len(stack)
      BY <2>4, <3>1, <1>2 DEF Top
    <3>2. CASE j # Len(stack)
      <4>1. j \in 1 .. Len(stack) - 1
        BY <3>2, <2>1, <1>1
      <4>. QED  BY <2>4, <4>1, <1>1
    <3>. QED  BY <3>1, <3>2
  <2>. QED  BY <2>2, <2>3, <2>4 DEF IInv, StaleIsSignalled
<1>. QED  BY <1>4, <1>5, <1>6, <1>7, <1>8 DEF IInv

\* Neither a result nor a stuttering step touches what the invariant is about.
LEMMA StutterIInv ==
  ASSUME IInv, TypeOK',
         UNCHANGED <<status, tables, hook_lists, hook_list_data,
                     hook_list_tables_updated, stack>>
  PROVE  IInv'
<1>1. ListsExact' /\ OthersSuspended'
  BY DEF IInv, ListsExact, OthersSuspended
<1>2. StaleIsSignalled'
  BY DEF IInv, StaleIsSignalled, Stale, ListOf
<1>3. (InLoop => ~ Stale(Top))'
  BY DEF IInv, InLoop, Top, Stale, ListOf
<1>4. (\A k \in 1 .. Len(stack) : Placed(stack[k]))'
  BY DEF IInv, Placed, Sorted
<1>. QED  BY <1>1, <1>2, <1>3, <1>4 DEF IInv

\* MPlugin::load, unload, pause and unpause rebuild the lists and raise the flag.
LEMMA SetPluginIInv ==
  ASSUME ~ AllocMayFail, IInv, TypeOK', NEW s \in Slot, NEW st, NEW tb,
         SetPlugin(s, st, tb)
  PROVE  IInv'
<1>1. /\ rebuild_hook_lists(status', tables')
      /\ UNCHANGED stack
      /\ Outside
  BY DEF SetPlugin
<1>2. /\ hook_list_tables_updated' = TRUE
      /\ \A l \in List : Enumerates(hook_lists'[l], Hooking(status', tables', l))
  BY <1>1, RebuildEffect DEF IInv, TypeOK
<1>3. ListsExact'
  BY <1>2 DEF ListsExact, Enumerates, Hooking
<1>4. OthersSuspended' /\ StaleIsSignalled'
  BY <1>1, <1>2 DEF IInv, OthersSuspended, StaleIsSignalled
<1>5. ~ InLoop'
  BY <1>1 DEF Outside, InLoop, Top
<1>6. (\A k \in 1 .. Len(stack) : Placed(stack[k]))'
  BY <1>1 DEF IInv, Placed, Sorted
<1>. QED  BY <1>3, <1>4, <1>5, <1>6 DEF IInv

\* A new call starts at a current list; the flag it consumes it passes on.
LEMMA BeginCallIInv ==
  ASSUME IInv, TypeOK', NEW api \in Apis, NEW clears \in BOOLEAN,
         BeginCall(api, clears)
  PROVE  IInv'
<1> DEFINE updated == IF stack = <<>> THEN FALSE ELSE hook_list_tables_updated
           pre == hook_lists[<<api, "pre">>]
           n == Len(stack)
           fr == [api |-> api, phase |-> "pre", pc |-> "loop",
                  plugs |-> pre, block |-> hook_list_data,
                  i |-> 0, plug |-> 0, status |-> MRES_UNSET,
                  rebuild_happened |-> updated,
                  saved_meta_globals |-> IF stack = <<>> THEN NoGlobals
                                                   ELSE PublicMetaGlobals]
<1>1. /\ stack' = Append(stack, fr)
      /\ Outside
      /\ UNCHANGED <<status, tables, hook_lists, hook_list_data>>
  BY DEF BeginCall, pluginVars, listVars
<1>2. <<api, "pre">> \in List /\ pre \in Seq(Slot)
  BY DEF IInv, TypeOK, List, Phases
<1>3. Sorted(pre)
  BY <1>2 DEF IInv, ListsExact, Enumerates
<1>4. /\ fr.plugs = pre /\ fr.i = 0 /\ fr.plug = 0 /\ fr.block = hook_list_data
      /\ fr.pc = "loop" /\ fr.rebuild_happened = updated
      /\ ListOf(fr) = <<api, "pre">>
  BY DEF ListOf
<1>5. Placed(fr)
  BY <1>2, <1>3, <1>4, StartPlaced DEF Placed
<1>. HIDE DEF fr, updated
<1>6. /\ n \in Nat /\ Len(stack') = n + 1 /\ stack'[n + 1] = fr
      /\ \A k \in 1 .. n : stack'[k] = stack[k]
      /\ Top' = fr
  BY <1>1 DEF IInv, TypeOK, Top
<1>. HIDE DEF n
<1>7. \A k \in 1 .. n + 1 : k = n + 1 \/ k \in 1 .. n
  BY <1>6
<1>8. ListsExact'
  BY <1>1 DEF IInv, ListsExact
<1>9. OthersSuspended'
  <2> SUFFICES ASSUME NEW k \in 1 .. n PROVE stack[k].pc # "loop"
    BY <1>6 DEF OthersSuspended
  <2>1. CASE k = n
    BY <2>1, <1>1, <1>6 DEF Outside, InLoop, Top, n
  <2>2. CASE k \in 1 .. n - 1
    BY <2>2 DEF IInv, OthersSuspended, n
  <2>. QED  BY <2>1, <2>2, <1>6
<1>10. StaleIsSignalled'
  <2> SUFFICES ASSUME NEW k \in 1 .. n + 1, stack'[k].pc = "plugin",
                      Stale(stack[k])'
               PROVE  \/ hook_list_tables_updated'
                      \/ \E j \in k + 1 .. n + 1 : stack'[j].rebuild_happened
    BY <1>6 DEF StaleIsSignalled
  <2>1. k \in 1 .. n /\ n + 1 \in k + 1 .. n + 1
    BY <1>4, <1>6, <1>7
  <2>2. stack[k].pc = "plugin" /\ Stale(stack[k])
    BY <1>1, <1>6, <2>1 DEF Stale, ListOf
  <2>3. CASE hook_list_tables_updated
    <3>1. updated
      BY <2>1, <2>3, <1>6 DEF updated, n
    <3>. QED  BY <3>1, <2>1, <1>4, <1>6
  <2>4. ASSUME NEW j \in k + 1 .. n, stack[j].rebuild_happened
        PROVE  \E m \in k + 1 .. n + 1 : stack'[m].rebuild_happened
    <3>1. j \in 1 .. n /\ j \in k + 1 .. n + 1
      BY <2>1, <1>6
    <3>. QED  BY <3>1, <2>4, <1>6
  <2>. QED  BY <2>1, <2>2, <2>3, <2>4 DEF IInv, StaleIsSignalled, n
<1>11. (InLoop => ~ Stale(Top))'
  BY <1>1, <1>4, <1>6 DEF Stale, ListOf
<1>12. (\A k \in 1 .. Len(stack) : Placed(stack[k]))'
  <2> SUFFICES ASSUME NEW k \in 1 .. n + 1 PROVE Placed(stack'[k])
    BY <1>6 DEF Placed, Sorted
  <2>1. CASE k = n + 1
    BY <2>1, <1>5, <1>6
  <2>2. CASE k \in 1 .. n
    <3>1. stack'[k] = stack[k] /\ Placed(stack[k])
      BY <2>2, <1>6 DEF IInv, n
    <3>. QED  BY <3>1
  <2>. QED  BY <2>1, <2>2, <1>7
<1>. QED  BY <1>8, <1>9, <1>10, <1>11, <1>12 DEF IInv

\* A call that ends passes what it consumed on to the calls below it.
LEMMA EndCallIInv ==
  ASSUME IInv, TypeOK', EndCall
  PROVE  IInv'
<1> DEFINE n == Len(stack)
<1>1. /\ stack' = SubSeq(stack, 1, n - 1)
      /\ stack # <<>>
      /\ UNCHANGED <<status, tables, hook_lists, hook_list_data>>
      /\ n # 1 => hook_list_tables_updated' =
                    (Top.rebuild_happened \/ hook_list_tables_updated)
  BY DEF EndCall, InLoop, pluginVars, listVars
<1>2. /\ n \in Nat \ {0} /\ Len(stack') = n - 1
      /\ \A k \in 1 .. n - 1 : stack'[k] = stack[k]
  <2>1. stack \in Seq(Frame)
    BY DEF IInv, TypeOK
  <2>2. n \in Nat \ {0}
    BY <2>1, <1>1
  <2>4. Len(stack') = n - 1 /\ \A k \in 1 .. n - 1 : stack'[k] = stack[k]
    BY <2>1, <1>1, FrontOfSeq
  <2>. QED  BY <2>2, <2>4
<1>. HIDE DEF n
<1>3. \A k \in 1 .. n - 1 : k \in 1 .. n /\ stack[k].pc # "loop"
  BY <1>2 DEF IInv, OthersSuspended, n
<1>4. ListsExact'
  BY <1>1 DEF IInv, ListsExact
<1>5. OthersSuspended'
  BY <1>2, <1>3 DEF OthersSuspended
<1>6. StaleIsSignalled'
  <2> SUFFICES ASSUME NEW k \in 1 .. n - 1, stack'[k].pc = "plugin",
                      Stale(stack[k])'
               PROVE  \/ hook_list_tables_updated'
                      \/ \E j \in k + 1 .. n - 1 : stack'[j].rebuild_happened
    BY <1>2 DEF StaleIsSignalled
  <2>1. stack[k].pc = "plugin" /\ Stale(stack[k]) /\ n # 1
    BY <1>1, <1>2 DEF Stale, ListOf
  <2>2. CASE hook_list_tables_updated \/ Top.rebuild_happened
    BY <2>1, <2>2, <1>1
  <2>3. ASSUME NEW j \in k + 1 .. n, stack[j].rebuild_happened
        PROVE  \/ hook_list_tables_updated'
               \/ \E m \in k + 1 .. n - 1 : stack'[m].rebuild_happened
    <3>1. CASE j = n
      BY <2>1, <2>3, <3>1, <1>1 DEF Top, n
    <3>2. CASE j # n
      <4>1. j \in k + 1 .. n - 1 /\ j \in 1 .. n - 1
        BY <3>2, <1>2
      <4>. QED  BY <4>1, <2>3, <1>2
    <3>. QED  BY <3>1, <3>2
  <2>. QED  BY <2>1, <2>2, <2>3, <1>3 DEF IInv, StaleIsSignalled, n
<1>7. ~ InLoop'
  <2> SUFFICES ASSUME stack' # <<>> PROVE Top'.pc # "loop"
    BY DEF InLoop
  <2>1. n - 1 \in 1 .. n - 1
    BY <1>1, <1>2 DEF IInv, TypeOK
  <2>. QED  BY <2>1, <1>2, <1>3 DEF Top
<1>8. (\A k \in 1 .. Len(stack) : Placed(stack[k]))'
  <2> SUFFICES ASSUME NEW k \in 1 .. n - 1 PROVE Placed(stack'[k])
    BY <1>2 DEF Placed, Sorted
  <2>1. stack'[k] = stack[k] /\ Placed(stack[k])
    BY <1>2, <1>3 DEF IInv, n
  <2>. QED  BY <2>1
<1>. QED  BY <1>4, <1>5, <1>6, <1>7, <1>8 DEF IInv

\* The post loop starts at a current list; the flag goes into rebuild_happened.
LEMMA StartPostIInv ==
  ASSUME IInv, TypeOK', stack # <<>>, NEW st \in META_RES, StartPost(st)
  PROVE  IInv'
<1> DEFINE post == hook_lists[<<Top.api, "post">>]
           fr == [Top EXCEPT !.phase = "post", !.pc = "loop",
                    !.plugs = post, !.block = hook_list_data,
                    !.i = 0, !.plug = 0, !.status = st,
                    !.rebuild_happened = @ \/ hook_list_tables_updated]
<1>1. Top \in Frame
  BY TopType DEF IInv, TypeOK
<1>2. /\ SetTop(fr)
      /\ UNCHANGED <<status, tables, hook_lists, hook_list_data>>
  BY DEF StartPost, pluginVars, listVars
<1>3. <<Top.api, "post">> \in List /\ post \in Seq(Slot)
  BY <1>1 DEF IInv, TypeOK, List, Phases, Frame
<1>4. Sorted(post)
  BY <1>3 DEF IInv, ListsExact, Enumerates
<1>5. /\ fr.plugs = post /\ fr.i = 0 /\ fr.plug = 0 /\ fr.block = hook_list_data
      /\ fr.pc = "loop" /\ ListOf(fr) = <<Top.api, "post">>
      /\ fr.rebuild_happened = (Top.rebuild_happened \/ hook_list_tables_updated)
  BY <1>1 DEF ListOf, Frame
<1>6. ~ Stale(fr)
  BY <1>5 DEF Stale
<1>7. Placed(fr)
  <2>. HIDE DEF fr, post
  <2>. QED  BY <1>3, <1>4, <1>5, StartPlaced DEF Placed
<1>8. fr \in Frame
  <2>1. fr = stack'[Len(stack)] /\ Len(stack) \in 1 .. Len(stack')
    BY <1>2, TopType DEF SetTop, IInv, TypeOK
  <2>. QED  BY <2>1 DEF TypeOK
<1>. HIDE DEF fr
<1>. QED  BY <1>2, <1>5, <1>6, <1>7, <1>8, SetTopIInv

\* The plugin returns: a raised flag refreshes the cache, and without the flag
\* the innermost call cannot be stale.
LEMMA PluginReturnsIInv ==
  ASSUME IInv, TypeOK', PluginReturns
  PROVE  IInv'
<1> DEFINE current == hook_lists[ListOf(Top)]
           position == find_plugin_after_rebuild(current, Top.plug)
           refreshed == [Top EXCEPT !.plugs = current, !.block = hook_list_data,
                          !.i = position, !.rebuild_happened = TRUE]
           fr == IF hook_list_tables_updated THEN refreshed ELSE Top
           returned == [fr EXCEPT !.pc = "loop",
                          !.status = Max2(@, PublicMetaGlobals.mres)]
<1>1. /\ stack # <<>> /\ Top \in Frame
      /\ Len(stack) \in Nat \ {0} /\ Len(stack) \in 1 .. Len(stack)
  BY TopType DEF PluginReturns, IInv, TypeOK
<1>2. /\ SetTop(returned)
      /\ Top.pc = "plugin"
      /\ UNCHANGED <<status, tables, hook_lists, hook_list_data>>
  BY DEF PluginReturns, pluginVars, listVars
<1>3. ListOf(Top) \in List /\ current \in Seq(Slot) /\ Top.plug \in 0 .. MaxPlugins
  BY <1>1 DEF IInv, TypeOK, List, Frame, ListOf
<1>4. Sorted(current)
  BY <1>3 DEF IInv, ListsExact, Enumerates
<1>5. /\ position \in 0 .. Len(current)
      /\ \A j \in 1 .. Len(current) : j <= position <=> current[j] <= Top.plug
  BY <1>3, <1>4, RebuildPosition
<1>6. Placed(Top)
  BY <1>1 DEF IInv, Top
<1>. HIDE DEF position, current
<1>7. /\ refreshed.plugs = current /\ refreshed.block = hook_list_data
      /\ refreshed.i = position /\ refreshed.plug = Top.plug
      /\ refreshed.rebuild_happened = TRUE
      /\ refreshed.api = Top.api /\ refreshed.phase = Top.phase
  BY <1>1 DEF Frame
<1>8. refreshed \in [api : Apis, phase : Phases, pc : {"loop", "plugin", "routine"},
                     plugs : {current}, block : {hook_list_data}, i : {position},
                     plug : {Top.plug}, status : META_RES,
                     rebuild_happened : BOOLEAN, saved_meta_globals : MetaGlobals]
  BY <1>1 DEF Frame
<1>. HIDE DEF refreshed
<1>9. Placed(refreshed) /\ ~ Stale(refreshed)
  <2>1. ListOf(refreshed) = ListOf(Top) /\ current = hook_lists[ListOf(Top)]
    BY <1>7 DEF ListOf, current
  <2>2. Len(current) \in Nat
    BY <1>3
  <2>. QED  BY <1>4, <1>5, <1>7, <2>1, <2>2 DEF Placed, Stale
<1>10. ~ hook_list_tables_updated => ~ Stale(Top)
  <2>1. \A j \in Len(stack) + 1 .. Len(stack) : FALSE
    BY <1>1
  <2>. QED  BY <1>1, <1>2, <2>1 DEF IInv, StaleIsSignalled, Top
<1>11. /\ Placed(fr) /\ ~ Stale(fr)
       /\ hook_list_tables_updated \/ Top.rebuild_happened => fr.rebuild_happened
  BY <1>6, <1>7, <1>9, <1>10
<1>12. /\ returned.api = fr.api /\ returned.phase = fr.phase
       /\ returned.plugs = fr.plugs /\ returned.block = fr.block
       /\ returned.i = fr.i /\ returned.plug = fr.plug
       /\ returned.rebuild_happened = fr.rebuild_happened
       /\ returned.pc = "loop"
  BY <1>1, <1>8 DEF Frame
<1>13. returned \in Frame
  <2>1. returned = stack'[Len(stack)] /\ Len(stack) \in 1 .. Len(stack')
    BY <1>1, <1>2 DEF SetTop, IInv, TypeOK
  <2>. QED  BY <2>1 DEF TypeOK
<1>. HIDE DEF returned, fr
<1>14. Placed(returned) /\ ~ Stale(returned)
  BY <1>11, <1>12 DEF Placed, Stale, ListOf
<1>. QED  BY <1>1, <1>2, <1>11, <1>12, <1>13, <1>14, SetTopIInv

\* Taking up the next entry, called or not.
LEMMA TakeUpIInv ==
  ASSUME IInv, TypeOK', InLoop, Top.i < Len(Top.plugs), NEW pc,
         SetTop([Top EXCEPT !.i = @ + 1, !.plug = Top.plugs[Top.i + 1], !.pc = pc]),
         UNCHANGED <<status, tables, hook_lists, hook_list_data,
                     hook_list_tables_updated>>
  PROVE  IInv'
<1> DEFINE next == Top.plugs[Top.i + 1]
           fr == [Top EXCEPT !.i = @ + 1, !.plug = next, !.pc = pc]
<1>1. /\ stack # <<>> /\ Top \in Frame
      /\ Len(stack) \in Nat \ {0} /\ Len(stack) \in 1 .. Len(stack)
  BY TopType DEF InLoop, IInv, TypeOK
<1>2. Top.plugs \in Seq(Slot) /\ Top.i \in Nat
  BY <1>1 DEF Frame
<1>3. Placed(Top) /\ ~ Stale(Top)
  BY <1>1 DEF IInv, Top
<1>4. /\ Top.i + 1 <= Len(Top.plugs)
      /\ \A j \in 1 .. Len(Top.plugs) : j <= Top.i + 1 <=> Top.plugs[j] <= next
  BY <1>2, <1>3, NextEntryPlaced DEF Placed
<1>5. fr \in Frame
  <2>1. fr = stack'[Len(stack)] /\ Len(stack) \in 1 .. Len(stack')
    BY <1>1 DEF SetTop, IInv, TypeOK
  <2>. QED  BY <2>1 DEF TypeOK
<1>. HIDE DEF next
<1>6. /\ fr.api = Top.api /\ fr.phase = Top.phase
      /\ fr.plugs = Top.plugs /\ fr.block = Top.block
      /\ fr.i = Top.i + 1 /\ fr.plug = next
      /\ fr.rebuild_happened = Top.rebuild_happened
  BY <1>1 DEF Frame
<1>7. SetTop(fr)
  BY DEF next
<1>. HIDE DEF fr
<1>8. Placed(fr) /\ ~ Stale(fr)
  BY <1>3, <1>4, <1>6 DEF Placed, Stale, ListOf
<1>. QED  BY <1>1, <1>5, <1>6, <1>7, <1>8, SetTopIInv

\* The real routine is called; the frame's cache is left alone.
LEMMA CallRoutineIInv ==
  ASSUME IInv, TypeOK', CallRoutine
  PROVE  IInv'
<1> DEFINE fr == [Top EXCEPT !.pc = "routine"]
<1>1. /\ stack # <<>> /\ Top \in Frame
      /\ Len(stack) \in Nat \ {0} /\ Len(stack) \in 1 .. Len(stack)
  BY TopType DEF CallRoutine, PreDone, InLoop, IInv, TypeOK
<1>2. /\ SetTop(fr)
      /\ UNCHANGED <<status, tables, hook_lists, hook_list_data,
                     hook_list_tables_updated>>
  BY DEF CallRoutine, pluginVars, listVars
<1>3. /\ fr.plugs = Top.plugs /\ fr.i = Top.i /\ fr.plug = Top.plug
      /\ fr.rebuild_happened = Top.rebuild_happened
      /\ fr.pc = "routine"
  BY <1>1 DEF Frame
<1>4. fr \in Frame
  BY <1>1 DEF Frame
<1>5. Placed(Top)
  BY <1>1 DEF IInv, Top
<1>. HIDE DEF fr
<1>6. Placed(fr)
  BY <1>3, <1>5 DEF Placed
<1>. QED  BY <1>1, <1>2, <1>3, <1>4, <1>6, SetTopIInv

LEMMA NextIInv ==
  ASSUME ~ AllocMayFail, IInv, [Next]_vars
  PROVE  IInv'
<1>1. TypeOK'
  BY NextType DEF IInv
<1>2. ASSUME NEW s \in Slot, Administer(s) PROVE IInv'
  BY <1>1, <1>2, SetPluginIInv DEF Administer, Load, Unload, Pause, Unpause
<1>3. ASSUME NEW m \in Results, SetMetaResult(m) PROVE IInv'
  <2>1. /\ UNCHANGED <<status, tables, hook_lists, hook_list_data,
                       hook_list_tables_updated, stack>>
    BY <1>3 DEF SetMetaResult, pluginVars, listVars
  <2>. QED  BY <1>1, <2>1, StutterIInv
<1>4. ASSUME NEW api \in Apis, NEW clears \in BOOLEAN, BeginCall(api, clears)
      PROVE  IInv'
  BY <1>1, <1>4, BeginCallIInv
<1>5. CASE SkipPlugin
  <2>1. Top \in Frame
    BY <1>5, TopType DEF SkipPlugin, InLoop, IInv, TypeOK
  <2>2. [Top EXCEPT !.i = @ + 1, !.plug = Top.plugs[Top.i + 1]] =
        [Top EXCEPT !.i = @ + 1, !.plug = Top.plugs[Top.i + 1], !.pc = "loop"]
    BY <1>5, <2>1 DEF SkipPlugin, InLoop, Frame
  <2>. QED  BY <1>1, <1>5, <2>2, TakeUpIInv DEF SkipPlugin, pluginVars, listVars
<1>6. CASE CallPlugin
  BY <1>1, <1>6, TakeUpIInv DEF CallPlugin, pluginVars, listVars
<1>7. CASE PluginReturns
  BY <1>1, <1>7, PluginReturnsIInv
<1>8. CASE CallRoutine
  BY <1>1, <1>8, CallRoutineIInv
<1>9. CASE RoutineMissing
  <2>1. stack # <<>> /\ StartPost(MRES_UNSET)
    BY <1>9 DEF RoutineMissing, PreDone, InLoop
  <2>. QED  BY <1>1, <2>1, MetaGlobalsType, StartPostIInv
<1>10. CASE RoutineSuperceded
  <2>1. stack # <<>> /\ StartPost(Top.status)
    BY <1>10 DEF RoutineSuperceded, PreDone, InLoop
  <2>2. Top.status \in META_RES
    BY <2>1, TopType DEF IInv, TypeOK, Frame
  <2>. QED  BY <1>1, <2>1, <2>2, StartPostIInv
<1>11. CASE RoutineReturns
  <2>1. stack # <<>> /\ StartPost(Top.status)
    BY <1>11 DEF RoutineReturns
  <2>2. Top.status \in META_RES
    BY <2>1, TopType DEF IInv, TypeOK, Frame
  <2>. QED  BY <1>1, <2>1, <2>2, StartPostIInv
<1>12. CASE EndCall
  BY <1>1, <1>12, EndCallIInv
<1>13. CASE UNCHANGED vars
  BY <1>1, <1>13, StutterIInv DEF vars
<1>. QED  BY <1>2, <1>3, <1>4, <1>5, <1>6, <1>7, <1>8, <1>9, <1>10, <1>11, <1>12,
             <1>13 DEF Next, Dispatch

LEMMA IInvHolds ==
  ASSUME ~ AllocMayFail
  PROVE  Spec => []IInv
<1>1. IInv /\ [Next]_vars => IInv'
  BY NextIInv
<1>. QED  BY <1>1, InitIInv, PTL DEF Spec

(***************************************************************************)
(* A suspended call whose cached list went stale always learns of it, for  *)
(* any number of plugins and any depth of nesting, unless the reallocation *)
(* of the lists fails.                                                     *)
(***************************************************************************)
THEOREM StaleSignalled ==
  ASSUME ~ AllocMayFail
  PROVE  Spec => []StaleIsSignalled
<1>1. IInv => StaleIsSignalled
  BY DEF IInv
<1>. QED  BY <1>1, IInvHolds, PTL

(***************************************************************************)
(* The dispatcher reads only current lists, and takes up only plugins that *)
(* are running and provide the table of the call.                          *)
(***************************************************************************)
THEOREM CurrentListRead ==
  ASSUME ~ AllocMayFail
  PROVE  Spec => []ReadsCurrentList
<1>1. IInv => ReadsCurrentList
  <2> SUFFICES ASSUME IInv, InLoop, Top.i < Len(Top.plugs)
               PROVE  Top.plugs[Top.i + 1] \in Hooking(status, tables, ListOf(Top))
    BY DEF ReadsCurrentList, IInv
  <2>1. Top \in Frame
    BY TopType DEF InLoop, IInv, TypeOK
  <2>2. Top.plugs = hook_lists[ListOf(Top)] /\ ListOf(Top) \in List
    BY <2>1 DEF IInv, Stale, ListOf, List, Frame
  <2>3. Top.i + 1 \in 1 .. Len(Top.plugs)
    BY <2>1 DEF Frame
  <2>. QED  BY <2>2, <2>3 DEF IInv, ListsExact, Enumerates
<1>. QED  BY <1>1, IInvHolds, PTL
-----------------------------------------------------------------------------
(***************************************************************************)
(* The globals.  A call suspended in a plugin has its status kept by the   *)
(* call it nests, as what that one saved and puts back when it ends.       *)
(***************************************************************************)
SavedByNext ==
  \A k \in 1 .. Len(stack) - 1 :
    stack[k].pc = "plugin" => stack[k + 1].saved_meta_globals.status = stack[k].status

StatusKept == StatusIsOwnCalls /\ SavedByNext

\* Replacing the running frame keeps this when what it saved stays and, if a
\* plugin now has control, its status is in the globals.
LEMMA SetTopStatus ==
  ASSUME TypeOK, TypeOK', StatusKept, stack # <<>>, NEW fr, SetTop(fr),
         fr.saved_meta_globals = Top.saved_meta_globals,
         fr.pc = "plugin" => PublicMetaGlobals'.status = fr.status
  PROVE  StatusKept'
<1>1. Len(stack) \in Nat \ {0} /\ Len(stack') = Len(stack) /\ Top' = fr
      /\ \A k \in 1 .. Len(stack) : stack'[k] = IF k = Len(stack) THEN fr ELSE stack[k]
  <2>1. stack \in Seq(Frame) /\ Len(stack) \in Nat \ {0} /\ Len(stack) \in 1 .. Len(stack)
    BY TopType DEF TypeOK
  <2>2. fr = stack'[Len(stack)] /\ Len(stack') = Len(stack)
    BY <2>1 DEF SetTop
  <2>3. fr \in Frame
    BY <2>1, <2>2 DEF TypeOK
  <2>. QED  BY <2>1, <2>3, SetTopEffect DEF Top
<1>2. StatusIsOwnCalls'
  BY <1>1 DEF StatusIsOwnCalls
<1>3. SavedByNext'
  <2> SUFFICES ASSUME NEW k \in 1 .. Len(stack) - 1, stack'[k].pc = "plugin"
               PROVE  stack'[k + 1].saved_meta_globals.status = stack'[k].status
    BY <1>1 DEF SavedByNext
  <2>1. k \in 1 .. Len(stack) /\ k # Len(stack) /\ k + 1 \in 1 .. Len(stack)
    BY <1>1
  <2>2. stack'[k] = stack[k]
    BY <1>1, <2>1
  <2>3. stack'[k + 1].saved_meta_globals = stack[k + 1].saved_meta_globals
    BY <1>1, <2>1 DEF Top
  <2>. QED  BY <2>2, <2>3 DEF StatusKept, SavedByNext
<1>. QED  BY <1>2, <1>3 DEF StatusKept

LEMMA StartPostStatus ==
  ASSUME TypeOK, TypeOK', StatusKept, stack # <<>>, NEW st \in META_RES, StartPost(st)
  PROVE  StatusKept'
<1> DEFINE fr == [Top EXCEPT !.phase = "post", !.pc = "loop",
                    !.plugs = hook_lists[<<Top.api, "post">>],
                    !.block = hook_list_data, !.i = 0, !.plug = 0, !.status = st,
                    !.rebuild_happened = @ \/ hook_list_tables_updated]
<1>1. Top \in Frame
  BY TopType DEF TypeOK
<1>2. SetTop(fr)
  BY DEF StartPost
<1>3. fr.saved_meta_globals = Top.saved_meta_globals /\ fr.pc = "loop"
  BY <1>1 DEF Frame
<1>. HIDE DEF fr
<1>. QED  BY <1>2, <1>3, SetTopStatus

LEMMA PluginReturnsStatus ==
  ASSUME TypeOK, TypeOK', StatusKept, PluginReturns
  PROVE  StatusKept'
<1> DEFINE refreshed == [Top EXCEPT !.plugs = hook_lists[ListOf(Top)],
                          !.block = hook_list_data,
                          !.i = find_plugin_after_rebuild(hook_lists[ListOf(Top)], Top.plug),
                          !.rebuild_happened = TRUE]
           fr == IF hook_list_tables_updated THEN refreshed ELSE Top
           returned == [fr EXCEPT !.pc = "loop",
                          !.status = Max2(@, PublicMetaGlobals.mres)]
<1>1. stack # <<>> /\ Top \in Frame
  BY TopType DEF PluginReturns, TypeOK
<1>2. SetTop(returned)
  BY DEF PluginReturns
<1>3. /\ refreshed.saved_meta_globals = Top.saved_meta_globals
      /\ DOMAIN refreshed = DOMAIN Top /\ "pc" \in DOMAIN Top
  BY <1>1 DEF Frame
<1>. HIDE DEF refreshed
<1>4. /\ fr.saved_meta_globals = Top.saved_meta_globals
      /\ "pc" \in DOMAIN fr
  BY <1>3
<1>. HIDE DEF fr
<1>5. returned.saved_meta_globals = Top.saved_meta_globals /\ returned.pc = "loop"
  BY <1>4
<1>. HIDE DEF returned
<1>. QED  BY <1>1, <1>2, <1>5, SetTopStatus

\* A nested call saves the globals of the plugin that made it.
LEMMA BeginCallStatus ==
  ASSUME TypeOK, StatusKept, NEW api \in Apis, NEW clears \in BOOLEAN,
         BeginCall(api, clears)
  PROVE  StatusKept'
<1> DEFINE fr == [api |-> api, phase |-> "pre", pc |-> "loop",
                  plugs |-> hook_lists[<<api, "pre">>], block |-> hook_list_data,
                  i |-> 0, plug |-> 0, status |-> MRES_UNSET,
                  rebuild_happened |-> IF stack = <<>> THEN FALSE
                                       ELSE hook_list_tables_updated,
                  saved_meta_globals |-> IF stack = <<>> THEN NoGlobals
                                                   ELSE PublicMetaGlobals]
           n == Len(stack)
<1>1. stack' = Append(stack, fr)
  BY DEF BeginCall
<1>2. fr.pc = "loop" /\ (stack # <<>> => fr.saved_meta_globals = PublicMetaGlobals)
  OBVIOUS
<1>. HIDE DEF fr
<1>3. /\ n \in Nat /\ Len(stack') = n + 1 /\ stack'[n + 1] = fr
      /\ \A k \in 1 .. n : stack'[k] = stack[k]
      /\ Top' = fr
  BY <1>1 DEF TypeOK, Top
<1>4. StatusIsOwnCalls'
  BY <1>2, <1>3 DEF StatusIsOwnCalls
<1>5. SavedByNext'
  <2> SUFFICES ASSUME NEW k \in 1 .. n, stack'[k].pc = "plugin"
               PROVE  stack'[k + 1].saved_meta_globals.status = stack'[k].status
    BY <1>3 DEF SavedByNext
  <2>1. stack'[k] = stack[k]
    BY <1>3
  <2>2. CASE k = n
    BY <1>2, <1>3, <2>1, <2>2 DEF StatusKept, StatusIsOwnCalls, Top
  <2>3. CASE k # n
    <3>1. k \in 1 .. n - 1 /\ k + 1 \in 1 .. n
      BY <1>3, <2>3
    <3>. QED  BY <1>3, <2>1, <3>1 DEF StatusKept, SavedByNext
  <2>. QED  BY <2>2, <2>3
<1>. QED  BY <1>4, <1>5 DEF StatusKept

\* And puts them back.
LEMMA EndCallStatus ==
  ASSUME TypeOK, StatusKept, EndCall
  PROVE  StatusKept'
<1> DEFINE n == Len(stack)
<1>1. stack \in Seq(Frame) /\ stack # <<>> /\ n \in Nat \ {0}
  BY TopType DEF EndCall, InLoop, TypeOK
<1>2. Len(stack') = n - 1 /\ \A k \in 1 .. n - 1 : stack'[k] = stack[k]
  BY <1>1, FrontOfSeq DEF EndCall
<1>3. n # 1 => PublicMetaGlobals' = stack[n].saved_meta_globals
  BY DEF EndCall, Top
<1>4. StatusIsOwnCalls'
  <2> SUFFICES ASSUME stack' # <<>>, Top'.pc = "plugin"
               PROVE  PublicMetaGlobals'.status = Top'.status
    BY DEF StatusIsOwnCalls
  <2>1. stack' \in Seq(Frame)
    BY <1>1 DEF EndCall
  <2>2. n - 1 \in 1 .. n - 1 /\ n # 1
    BY <1>1, <1>2, <2>1
  <2>3. Top' = stack[n - 1]
    BY <1>2, <2>2 DEF Top
  <2>4. stack[(n - 1) + 1].saved_meta_globals.status = stack[n - 1].status
    BY <2>2, <2>3 DEF StatusKept, SavedByNext
  <2>. QED  BY <1>1, <1>3, <2>2, <2>3, <2>4
<1>5. SavedByNext'
  <2> SUFFICES ASSUME NEW k \in 1 .. n - 1 - 1, stack'[k].pc = "plugin"
               PROVE  stack'[k + 1].saved_meta_globals.status = stack'[k].status
    BY <1>2 DEF SavedByNext
  <2>1. k \in 1 .. n - 1 /\ k + 1 \in 1 .. n - 1
    BY <1>1
  <2>. QED  BY <1>2, <2>1 DEF StatusKept, SavedByNext
<1>. QED  BY <1>4, <1>5 DEF StatusKept

LEMMA NextStatus ==
  ASSUME TypeOK, TypeOK', StatusKept, [Next]_vars
  PROVE  StatusKept'
<1>1. ASSUME UNCHANGED stack, PublicMetaGlobals'.status = PublicMetaGlobals.status
      PROVE  StatusKept'
  BY <1>1 DEF StatusKept, StatusIsOwnCalls, SavedByNext, Top
<1>2. ASSUME NEW s \in Slot, Administer(s) PROVE StatusKept'
  BY <1>1, <1>2 DEF Administer, Load, Unload, Pause, Unpause, SetPlugin
<1>3. ASSUME NEW m \in Results, SetMetaResult(m) PROVE StatusKept'
  BY <1>1, <1>3 DEF SetMetaResult, TypeOK, MetaGlobals
<1>4. ASSUME NEW api \in Apis, NEW clears \in BOOLEAN, BeginCall(api, clears)
      PROVE  StatusKept'
  BY <1>4, BeginCallStatus
<1>5. CASE SkipPlugin
  <2> DEFINE fr == [Top EXCEPT !.i = @ + 1, !.plug = Top.plugs[Top.i + 1]]
  <2>1. stack # <<>> /\ Top \in Frame /\ SetTop(fr) /\ Top.pc = "loop"
    BY <1>5, TopType DEF SkipPlugin, InLoop, TypeOK
  <2>2. fr.saved_meta_globals = Top.saved_meta_globals /\ fr.pc = "loop"
    BY <2>1 DEF Frame
  <2>. HIDE DEF fr
  <2>. QED  BY <2>1, <2>2, SetTopStatus
<1>6. CASE CallPlugin
  <2> DEFINE fr == [Top EXCEPT !.i = @ + 1, !.plug = Top.plugs[Top.i + 1], !.pc = "plugin"]
  <2>1. stack # <<>> /\ Top \in Frame /\ SetTop(fr)
    BY <1>6, TopType DEF CallPlugin, InLoop, TypeOK
  <2>2. fr.saved_meta_globals = Top.saved_meta_globals /\ fr.status = Top.status
    BY <2>1 DEF Frame
  <2>3. PublicMetaGlobals'.status = Top.status
    BY <1>6 DEF CallPlugin, TypeOK, MetaGlobals
  <2>. HIDE DEF fr
  <2>. QED  BY <2>1, <2>2, <2>3, SetTopStatus
<1>7. CASE CallRoutine
  <2> DEFINE fr == [Top EXCEPT !.pc = "routine"]
  <2>1. stack # <<>> /\ Top \in Frame /\ SetTop(fr)
    BY <1>7, TopType DEF CallRoutine, PreDone, InLoop, TypeOK
  <2>2. fr.saved_meta_globals = Top.saved_meta_globals /\ fr.pc = "routine"
    BY <2>1 DEF Frame
  <2>. HIDE DEF fr
  <2>. QED  BY <2>1, <2>2, SetTopStatus
<1>8. ASSUME RoutineMissing \/ RoutineSuperceded \/ RoutineReturns PROVE StatusKept'
  <2>1. stack # <<>> /\ \E st \in {MRES_UNSET, Top.status} : StartPost(st)
    BY <1>8 DEF RoutineMissing, RoutineSuperceded, RoutineReturns, PreDone, InLoop
  <2>2. {MRES_UNSET, Top.status} \subseteq META_RES
    BY <2>1, TopType, MetaGlobalsType DEF TypeOK, Frame
  <2>. QED  BY <2>1, <2>2, StartPostStatus
<1>9. CASE UNCHANGED vars
  BY <1>1, <1>9 DEF vars
<1>. QED  BY <1>2, <1>3, <1>4, <1>5, <1>6, <1>7, <1>8, <1>9, PluginReturnsStatus,
             EndCallStatus DEF Next, Dispatch

(***************************************************************************)
(* A plugin reads in META_RESULT_STATUS the status of its own call, to any *)
(* depth of nested calls, and also when an allocation fails.               *)
(***************************************************************************)
THEOREM OwnStatusRead == Spec => []StatusIsOwnCalls
<1>1. Init => StatusKept
  <2> SUFFICES ASSUME Init PROVE StatusKept
    OBVIOUS
  <2>1. stack = <<>> /\ Len(stack) = 0
    BY DEF Init
  <2>. QED  BY <2>1 DEF StatusKept, StatusIsOwnCalls, SavedByNext
<1>2. TypeOK /\ TypeOK' /\ StatusKept /\ [Next]_vars => StatusKept'
  BY NextStatus
<1>3. StatusKept => StatusIsOwnCalls
  BY DEF StatusKept
<1>. QED  BY <1>1, <1>2, <1>3, TypeCorrect, PTL DEF Spec
-----------------------------------------------------------------------------
(***************************************************************************)
(* The block.  When realloc fails the lists are emptied and the flag is    *)
(* not raised, so StaleIsSignalled is lost; but the old block stays, and a *)
(* call whose entries are in another one has been signalled.               *)
(***************************************************************************)
BlockSignalled ==
  \A k \in 1 .. Len(stack) :
    stack[k].pc = "plugin" /\ stack[k].block # hook_list_data =>
      \/ hook_list_tables_updated
      \/ \E j \in k + 1 .. Len(stack) : stack[j].rebuild_happened

BlockKept == /\ OthersSuspended
             /\ BlockSignalled
             /\ InLoop => Top.block = hook_list_data

LEMMA SetTopBlock ==
  ASSUME TypeOK, TypeOK', BlockKept, stack # <<>>, NEW fr, SetTop(fr),
         UNCHANGED hook_list_data,
         fr.pc # "routine" => fr.block = hook_list_data,
         hook_list_tables_updated \/ Top.rebuild_happened =>
           hook_list_tables_updated' \/ fr.rebuild_happened
  PROVE  BlockKept'
<1> DEFINE n == Len(stack)
<1>1. /\ n \in Nat \ {0} /\ Len(stack') = n /\ Top' = fr
      /\ \A k \in 1 .. n : stack'[k] = IF k = n THEN fr ELSE stack[k]
  <2>1. stack \in Seq(Frame) /\ n \in Nat \ {0} /\ n \in 1 .. n
    BY TopType DEF TypeOK
  <2>2. fr = stack'[n] /\ Len(stack') = n
    BY <2>1 DEF SetTop
  <2>3. fr \in Frame
    BY <2>1, <2>2 DEF TypeOK
  <2>. QED  BY <2>1, <2>3, SetTopEffect DEF Top
<1>. HIDE DEF n
<1>2. OthersSuspended'
  BY <1>1 DEF BlockKept, OthersSuspended, n
<1>3. InLoop' => Top'.block = hook_list_data'
  BY <1>1 DEF InLoop
<1>4. BlockSignalled'
  <2> SUFFICES ASSUME NEW k \in 1 .. n, stack'[k].pc = "plugin",
                      stack'[k].block # hook_list_data, ~ hook_list_tables_updated'
               PROVE  \E j \in k + 1 .. n : stack'[j].rebuild_happened
    BY <1>1 DEF BlockSignalled
  <2>1. k # n /\ stack'[k] = stack[k] /\ n \in k + 1 .. n
    BY <1>1
  <2>2. CASE hook_list_tables_updated \/ Top.rebuild_happened
    BY <1>1, <2>1, <2>2
  <2>3. ASSUME NEW j \in k + 1 .. n, stack[j].rebuild_happened, ~ Top.rebuild_happened
        PROVE  stack'[j].rebuild_happened
    <3>1. j # n /\ j \in 1 .. n
      BY <1>1, <2>3 DEF Top, n
    <3>. QED  BY <1>1, <2>3, <3>1
  <2>. QED  BY <2>1, <2>2, <2>3 DEF BlockKept, BlockSignalled, n
<1>. QED  BY <1>2, <1>3, <1>4 DEF BlockKept

LEMMA StartPostBlock ==
  ASSUME TypeOK, TypeOK', BlockKept, stack # <<>>, NEW st \in META_RES, StartPost(st)
  PROVE  BlockKept'
<1> DEFINE fr == [Top EXCEPT !.phase = "post", !.pc = "loop",
                    !.plugs = hook_lists[<<Top.api, "post">>],
                    !.block = hook_list_data, !.i = 0, !.plug = 0, !.status = st,
                    !.rebuild_happened = @ \/ hook_list_tables_updated]
<1>1. Top \in Frame
  BY TopType DEF TypeOK
<1>2. SetTop(fr) /\ UNCHANGED hook_list_data
  BY DEF StartPost, listVars
<1>3. /\ fr.block = hook_list_data
      /\ fr.rebuild_happened = (Top.rebuild_happened \/ hook_list_tables_updated)
  BY <1>1 DEF Frame
<1>. HIDE DEF fr
<1>. QED  BY <1>2, <1>3, SetTopBlock

LEMMA PluginReturnsBlock ==
  ASSUME TypeOK, TypeOK', BlockKept, PluginReturns
  PROVE  BlockKept'
<1> DEFINE refreshed == [Top EXCEPT !.plugs = hook_lists[ListOf(Top)],
                          !.block = hook_list_data,
                          !.i = find_plugin_after_rebuild(hook_lists[ListOf(Top)], Top.plug),
                          !.rebuild_happened = TRUE]
           fr == IF hook_list_tables_updated THEN refreshed ELSE Top
           returned == [fr EXCEPT !.pc = "loop",
                          !.status = Max2(@, PublicMetaGlobals.mres)]
<1>1. stack # <<>> /\ Top \in Frame /\ Len(stack) \in 1 .. Len(stack) /\ Top.pc = "plugin"
  BY TopType DEF PluginReturns, TypeOK
<1>2. SetTop(returned) /\ UNCHANGED hook_list_data
  BY DEF PluginReturns, listVars
<1>3. refreshed.block = hook_list_data /\ refreshed.rebuild_happened = TRUE
  BY <1>1 DEF Frame
<1>4. ~ hook_list_tables_updated => Top.block = hook_list_data
  <2>1. \A j \in Len(stack) + 1 .. Len(stack) : FALSE
    BY <1>1
  <2>. QED  BY <1>1, <2>1 DEF BlockKept, BlockSignalled, Top
<1>. HIDE DEF refreshed
<1>5. /\ fr.block = hook_list_data
      /\ hook_list_tables_updated \/ Top.rebuild_happened => fr.rebuild_happened
  BY <1>3, <1>4
<1>. HIDE DEF fr
<1>6. returned.block = fr.block /\ returned.rebuild_happened = fr.rebuild_happened
  OBVIOUS
<1>. HIDE DEF returned
<1>. QED  BY <1>1, <1>2, <1>5, <1>6, SetTopBlock

LEMMA BeginCallBlock ==
  ASSUME TypeOK, BlockKept, NEW api \in Apis, NEW clears \in BOOLEAN,
         BeginCall(api, clears)
  PROVE  BlockKept'
<1> DEFINE fr == [api |-> api, phase |-> "pre", pc |-> "loop",
                  plugs |-> hook_lists[<<api, "pre">>], block |-> hook_list_data,
                  i |-> 0, plug |-> 0, status |-> MRES_UNSET,
                  rebuild_happened |-> IF stack = <<>> THEN FALSE
                                       ELSE hook_list_tables_updated,
                  saved_meta_globals |-> IF stack = <<>> THEN NoGlobals
                                                   ELSE PublicMetaGlobals]
           n == Len(stack)
<1>1. stack' = Append(stack, fr) /\ Outside /\ UNCHANGED hook_list_data
  BY DEF BeginCall, listVars
<1>2. /\ fr.pc = "loop" /\ fr.block = hook_list_data
      /\ n # 0 /\ hook_list_tables_updated => fr.rebuild_happened
  OBVIOUS
<1>. HIDE DEF fr
<1>3. /\ n \in Nat /\ Len(stack') = n + 1 /\ stack'[n + 1] = fr
      /\ \A k \in 1 .. n : stack'[k] = stack[k]
      /\ Top' = fr
  BY <1>1 DEF TypeOK, Top
<1>. HIDE DEF n
<1>4. OthersSuspended'
  <2> SUFFICES ASSUME NEW k \in 1 .. n PROVE stack[k].pc # "loop"
    BY <1>3 DEF OthersSuspended
  <2>1. CASE k = n
    BY <2>1, <1>1, <1>3 DEF Outside, InLoop, Top, n
  <2>2. CASE k \in 1 .. n - 1
    BY <2>2 DEF BlockKept, OthersSuspended, n
  <2>. QED  BY <2>1, <2>2, <1>3
<1>5. BlockSignalled'
  <2> SUFFICES ASSUME NEW k \in 1 .. n + 1, stack'[k].pc = "plugin",
                      stack'[k].block # hook_list_data
               PROVE  \E j \in k + 1 .. n + 1 : stack'[j].rebuild_happened
    BY <1>1, <1>3 DEF BlockSignalled
  <2>1. k \in 1 .. n /\ n # 0 /\ n + 1 \in k + 1 .. n + 1
    BY <1>2, <1>3
  <2>2. CASE hook_list_tables_updated
    BY <1>2, <1>3, <2>1, <2>2
  <2>3. ASSUME NEW j \in k + 1 .. n, stack[j].rebuild_happened
        PROVE  j \in k + 1 .. n + 1 /\ stack'[j].rebuild_happened
    <3>1. j \in 1 .. n /\ j \in k + 1 .. n + 1
      BY <2>1, <1>3
    <3>. QED  BY <2>3, <3>1, <1>3
  <2>4. stack'[k] = stack[k]
    BY <1>3, <2>1
  <2>. QED  BY <2>1, <2>2, <2>3, <2>4 DEF BlockKept, BlockSignalled, n
<1>. QED  BY <1>1, <1>2, <1>3, <1>4, <1>5 DEF BlockKept

LEMMA EndCallBlock ==
  ASSUME TypeOK, BlockKept, EndCall
  PROVE  BlockKept'
<1> DEFINE n == Len(stack)
<1>1. stack \in Seq(Frame) /\ stack # <<>> /\ n \in Nat \ {0}
  BY TopType DEF EndCall, InLoop, TypeOK
<1>2. Len(stack') = n - 1 /\ \A k \in 1 .. n - 1 : stack'[k] = stack[k]
  BY <1>1, FrontOfSeq DEF EndCall
<1>3. /\ UNCHANGED hook_list_data
      /\ n # 1 => hook_list_tables_updated' =
                    (stack[n].rebuild_happened \/ hook_list_tables_updated)
  BY DEF EndCall, Top, listVars
<1>4. \A k \in 1 .. n - 1 : stack[k].pc # "loop"
  BY DEF BlockKept, OthersSuspended
<1>5. stack' \in Seq(Frame)
  BY <1>1 DEF EndCall
<1>. HIDE DEF n
<1>6. ~ InLoop'
  <2> SUFFICES ASSUME stack' # <<>> PROVE Top'.pc # "loop"
    BY DEF InLoop
  <2>1. n - 1 \in 1 .. n - 1
    BY <1>1, <1>2, <1>5
  <2>. QED  BY <1>2, <1>4, <2>1 DEF Top
<1>7. OthersSuspended'
  BY <1>1, <1>2, <1>4 DEF OthersSuspended
<1>8. BlockSignalled'
  <2> SUFFICES ASSUME NEW k \in 1 .. n - 1, stack'[k].pc = "plugin",
                      stack'[k].block # hook_list_data, ~ hook_list_tables_updated'
               PROVE  \E j \in k + 1 .. n - 1 : stack'[j].rebuild_happened
    BY <1>2, <1>3 DEF BlockSignalled
  <2>1. k \in 1 .. n /\ n # 1 /\ stack'[k] = stack[k]
    BY <1>1, <1>2
  <2>2. hook_list_tables_updated' = (stack[n].rebuild_happened \/ hook_list_tables_updated)
    BY <1>3, <2>1
  <2>3. ~ hook_list_tables_updated /\ ~ stack[n].rebuild_happened
    BY <2>2, Zenon
  <2>4. PICK j \in k + 1 .. n : stack[j].rebuild_happened
    BY <1>3, <2>1, <2>3 DEF BlockKept, BlockSignalled, n
  <2>5. j # n /\ j \in 1 .. n - 1 /\ j \in k + 1 .. n - 1
    BY <1>1, <2>1, <2>3, <2>4
  <2>. QED  BY <1>2, <2>4, <2>5
<1>. QED  BY <1>6, <1>7, <1>8 DEF BlockKept

\* A rebuild that moves the entries raises the flag.
LEMMA SetPluginBlock ==
  ASSUME BlockKept, NEW s, NEW st, NEW tb, SetPlugin(s, st, tb)
  PROVE  BlockKept'
<1>1. UNCHANGED stack /\ ~ InLoop
  BY DEF SetPlugin, Outside
<1>2. \/ hook_list_tables_updated' = TRUE
      \/ UNCHANGED <<hook_list_data, hook_list_tables_updated>>
  BY DEF SetPlugin, rebuild_hook_lists
<1>3. OthersSuspended' /\ ~ InLoop'
  BY <1>1 DEF BlockKept, OthersSuspended, InLoop, Top
<1>4. BlockSignalled'
  BY <1>1, <1>2 DEF BlockKept, BlockSignalled
<1>. QED  BY <1>3, <1>4 DEF BlockKept

LEMMA NextBlock ==
  ASSUME TypeOK, TypeOK', BlockKept, [Next]_vars
  PROVE  BlockKept'
<1>1. ASSUME UNCHANGED <<stack, hook_list_data, hook_list_tables_updated>>
      PROVE  BlockKept'
  BY <1>1 DEF BlockKept, OthersSuspended, BlockSignalled, InLoop, Top
<1>2. ASSUME NEW s \in Slot, Administer(s) PROVE BlockKept'
  BY <1>2, SetPluginBlock DEF Administer, Load, Unload, Pause, Unpause
<1>3. ASSUME NEW m \in Results, SetMetaResult(m) PROVE BlockKept'
  BY <1>1, <1>3 DEF SetMetaResult, listVars
<1>4. ASSUME NEW api \in Apis, NEW clears \in BOOLEAN, BeginCall(api, clears)
      PROVE  BlockKept'
  BY <1>4, BeginCallBlock
<1>5. ASSUME InLoop, NEW fr, SetTop(fr), UNCHANGED <<hook_list_data, hook_list_tables_updated>>,
             fr.block = Top.block, fr.rebuild_happened = Top.rebuild_happened
      PROVE  BlockKept'
  BY <1>5, SetTopBlock DEF BlockKept, InLoop
<1>6. InLoop => Top \in Frame
  BY TopType DEF InLoop, TypeOK
<1>7. CASE SkipPlugin
  <2> DEFINE fr == [Top EXCEPT !.i = @ + 1, !.plug = Top.plugs[Top.i + 1]]
  <2>1. /\ InLoop /\ SetTop(fr)
        /\ UNCHANGED <<hook_list_data, hook_list_tables_updated>>
    BY <1>7 DEF SkipPlugin, listVars
  <2>2. fr.block = Top.block /\ fr.rebuild_happened = Top.rebuild_happened
    BY <1>6, <2>1 DEF Frame
  <2>. HIDE DEF fr
  <2>. QED  BY <1>5, <2>1, <2>2
<1>8. CASE CallPlugin
  <2> DEFINE fr == [Top EXCEPT !.i = @ + 1, !.plug = Top.plugs[Top.i + 1], !.pc = "plugin"]
  <2>1. /\ InLoop /\ SetTop(fr)
        /\ UNCHANGED <<hook_list_data, hook_list_tables_updated>>
    BY <1>8 DEF CallPlugin, listVars
  <2>2. fr.block = Top.block /\ fr.rebuild_happened = Top.rebuild_happened
    BY <1>6, <2>1 DEF Frame
  <2>. HIDE DEF fr
  <2>. QED  BY <1>5, <2>1, <2>2
<1>9. CASE CallRoutine
  <2> DEFINE fr == [Top EXCEPT !.pc = "routine"]
  <2>1. /\ InLoop /\ SetTop(fr)
        /\ UNCHANGED <<hook_list_data, hook_list_tables_updated>>
    BY <1>9 DEF CallRoutine, PreDone, listVars
  <2>2. fr.block = Top.block /\ fr.rebuild_happened = Top.rebuild_happened
    BY <1>6, <2>1 DEF Frame
  <2>. HIDE DEF fr
  <2>. QED  BY <1>5, <2>1, <2>2
<1>10. ASSUME RoutineMissing \/ RoutineSuperceded \/ RoutineReturns PROVE BlockKept'
  <2>1. stack # <<>> /\ \E st \in {MRES_UNSET, Top.status} : StartPost(st)
    BY <1>10 DEF RoutineMissing, RoutineSuperceded, RoutineReturns, PreDone, InLoop
  <2>2. {MRES_UNSET, Top.status} \subseteq META_RES
    BY <2>1, TopType, MetaGlobalsType DEF TypeOK, Frame
  <2>. QED  BY <2>1, <2>2, StartPostBlock
<1>11. CASE UNCHANGED vars
  BY <1>1, <1>11 DEF vars
<1>. QED  BY <1>2, <1>3, <1>4, <1>7, <1>8, <1>9, <1>10, <1>11, PluginReturnsBlock,
             EndCallBlock DEF Next, Dispatch

(***************************************************************************)
(* The entries the dispatcher reads are in the block that is allocated,    *)
(* whether or not an allocation has failed.                                *)
(***************************************************************************)
THEOREM FreedNeverRead == Spec => []NoFreedRead
<1>1. Init => BlockKept
  <2> SUFFICES ASSUME Init PROVE BlockKept
    OBVIOUS
  <2>1. stack = <<>> /\ Len(stack) = 0
    BY DEF Init
  <2>. QED  BY <2>1 DEF BlockKept, OthersSuspended, BlockSignalled, InLoop
<1>2. TypeOK /\ TypeOK' /\ BlockKept /\ [Next]_vars => BlockKept'
  BY NextBlock
<1>3. BlockKept => NoFreedRead
  BY DEF BlockKept, NoFreedRead
<1>. QED  BY <1>1, <1>2, <1>3, TypeCorrect, PTL DEF Spec
=============================================================================
