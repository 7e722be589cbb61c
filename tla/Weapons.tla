------------------------------- MODULE Weapons -------------------------------
(***************************************************************************)
(* Prediction of weapons in the game client (vcs16).  Each command the     *)
(* player sends is run by the server and, before the answer comes, by the  *)
(* client itself: the engine restarts from the last state the server has   *)
(* acknowledged and calls HUD_PostRunCmd() for every command since, again  *)
(* and again until they are acknowledged.  local_state_t goes through      *)
(* those calls; what the weapon objects keep besides (their statics) does  *)
(* not, so it comes from whichever command was predicted last.             *)
(*                                                                         *)
(* Modelled are the weapons with a magazine, automatic, semi-automatic or  *)
(* with a silencer, and the shotguns, loaded shell by shell: firing,       *)
(* reloading and switching by a player who is alive, on dry land, without  *)
(* a shield and allowed to shoot (m_bCanShoot is taken to be true, so the  *)
(* freeze time at the start of a round is left out).  Left out as well:    *)
(* spread, recoil, zooming, sounds and animations; which way the silencer  *)
(* is, as it changes nothing else; knife, C4 and grenades; burst fire; the *)
(* UMP45, which HasSecondaryAttack() does not name, so that its secondary  *)
(* button keeps the primary one from firing.  A command lasts one tick;    *)
(* delays are counted in ticks.                                            *)
(***************************************************************************)
EXTENDS Integers, Sequences

CONSTANTS
  Weapon,       \* the weapons
  Inventories,  \* the sets of weapons the player may carry
  AmmoType,     \* kinds of ammunition
  ammoType,     \* the kind each weapon takes (ItemInfo::pszAmmo1)
  maxClip,      \* ItemInfo::iMaxClip of each weapon
  Semi,         \* pistols: one shot for each pull of the trigger
  Silencer,     \* weapons whose secondary attack screws a silencer on or off
  Shells,       \* the shotguns
  Miscounted,   \* weapons that take a fired round off the reserve too (M4A1)
  delay,        \* the delays, in ticks
  reserve,      \* the rounds of each kind the player has in reserve at first
  Commands,     \* the commands the player sends
  Settling,     \* ticks after which any reload has ended
  MaxUnacked    \* bound on the commands the server has not acknowledged

Delays == {"draw", "cycle", "dry", "reload", "start", "shell", "pump", "hold", "click", "close", "silencer"}

ASSUME WeaponAssumption ==
  /\ Inventories \subseteq (SUBSET Weapon) \ {{}}
  /\ ammoType \in [Weapon -> AmmoType]
  /\ maxClip \in [Weapon -> Nat \ {0}]
  /\ Semi \subseteq Weapon /\ Silencer \subseteq Weapon
  /\ Shells \subseteq Weapon \ (Semi \cup Silencer \cup Miscounted)
  /\ Miscounted \subseteq Weapon
ASSUME DelayAssumption == delay \in [Delays -> Nat]

\* A weapon is drawn for longer than it takes the server to answer.
ASSUME LagAssumption == /\ MaxUnacked \in Nat \ {0} /\ reserve \in [AmmoType -> Nat]
                        /\ MaxUnacked < delay["draw"]

Buttons == {"attack", "attack2", "reload"}

\* usercmd_t: the buttons held and weaponselect, {} for none.
Command == [buttons : SUBSET Buttons, select : {{}} \cup {{w} : w \in Weapon}]

ASSUME CommandsAssumption == Commands \subseteq Command

\* Only the shotguns take buckshot, and a player carries one of them: both go
\* into the slot of primary weapons.
ASSUME InventoryAssumption ==
  \A carried \in Inventories : \A v, w \in carried :
    v \in Shells /\ v # w => ammoType[v] # ammoType[w]

(***************************************************************************)
(* The longest that weapon w goes on once its timers have run out: it      *)
(* reloads or, a shotgun, raises the gun, loads shell by shell, and closes *)
(* it.  Settling is enough for that after the longest timer; a weapon that *)
(* is drawn has its m_flTimeWeaponIdle put off for twice the time it takes.*)
(***************************************************************************)
Longest(w) == IF w \in Shells
              THEN delay["start"] + 2 + maxClip[w] * (delay["shell"] + 2)
              ELSE delay["reload"] + 2

ASSUME SettlingAssumption ==
  /\ Settling \in Nat
  /\ \A w \in Weapon : /\ \A d \in Delays : delay[d] + Longest(w) <= Settling
                       /\ 2 * delay["draw"] + Longest(w) <= Settling

VARIABLES
  acked,        \* the last state the server has acknowledged
  cmds,         \* the commands since, oldest first
  server,       \* the states the server is in after each of them
  from,         \* the client's state in the present frame
  statics,      \* what the client's weapon objects keep
  at            \* how many of cmds this frame has predicted

vars == <<acked, cmds, server, from, statics, at>>

(***************************************************************************)
(* weapon_data_t: special is m_fInSpecialReload, fired whether             *)
(* m_iShotsFired is above 0 (it is kept for pistols), idle                 *)
(* m_flTimeWeaponIdle (which only paces animations but for shotguns, and   *)
(* is kept for those).  client_data_t: type and count are vuser4, the kind *)
(* of ammunition of the weapon in hand and its reserve; ammo is ammo_9mm,  *)
(* ammo_556nato and the like.  has are the weapons whose weapon_data_t     *)
(* carries their m_iId.  Of statics only m_fFireOnEmpty matters.           *)
(***************************************************************************)
Timer == {-1} \cup Nat

WeaponData == [clip : Int, inReload : BOOLEAN, special : 0 .. 2, fired : BOOLEAN,
               nextPrimary : Timer, nextSecondary : Timer, idle : Timer]

Client == [has : SUBSET Weapon, id : Weapon, nextAttack : Timer, type : AmmoType, count : Int,
           ammo : [AmmoType -> Int], wpn : [Weapon -> WeaponData]]

Min2(a, b) == IF a < b THEN a ELSE b
-----------------------------------------------------------------------------
(***************************************************************************)
(* The code of the weapon in hand.  A hand h is its data h.w, its          *)
(* m_fFireOnEmpty, the player's m_flNextAttack and the two counters of its *)
(* ammunition: m_rgAmmo (count) and the one named after it (ammo).         *)
(***************************************************************************)
DefaultReload(w, h) ==
  IF h.count <= 0 \/ Min2(maxClip[w] - h.w.clip, h.count) = 0 THEN h
  ELSE [h EXCEPT !.nextAttack = delay["reload"], !.w.inReload = TRUE]

MagazineReload(w, h) == IF h.ammo <= 0 THEN h ELSE DefaultReload(w, h)

\* A reload that has run its time (in ItemPostFrame).
\* Mutants: the rounds stay in the reserve; the clip is filled whatever there is.
Reloaded_kept(w, h) == [h EXCEPT !.w.clip = @ + Min2(maxClip[w] - @, h.count),
                                 !.w.inReload = FALSE]
Reloaded_full(w, h) == [h EXCEPT !.w.clip = maxClip[w], !.count = @ + h.w.clip - maxClip[w],
                                 !.w.inReload = FALSE]
Reloaded(w, h) ==
  LET j == Min2(maxClip[w] - h.w.clip, h.count)
  IN  [h EXCEPT !.w.clip = @ + j, !.count = @ - j, !.w.inReload = FALSE]

\* A shell at a time: raise the gun, take a shell, put it in.
ShellReload(w, h) ==
  IF h.count <= 0 \/ h.w.clip = maxClip[w] \/ h.w.nextPrimary > 0 THEN h
  ELSE CASE h.w.special = 0 ->
              [h EXCEPT !.w.special = 1, !.nextAttack = delay["start"],
                        !.w.idle = delay["start"], !.w.nextPrimary = delay["start"],
                        !.w.nextSecondary = delay["start"]]
         [] h.w.special = 1 ->
              IF h.w.idle > 0 THEN h
              ELSE [h EXCEPT !.w.special = 2, !.w.idle = delay["shell"]]
         [] h.w.special = 2 ->
              [h EXCEPT !.w.special = 1, !.w.clip = @ + 1, !.count = @ - 1, !.ammo = @ - 1]

Reload(w, h) == IF w \in Shells THEN ShellReload(w, h) ELSE MagazineReload(w, h)

MagazineFire(w, h) ==
  CASE w \in Semi /\ h.w.fired -> h
    [] ~ (w \in Semi /\ h.w.fired) /\ h.w.clip <= 0 ->
         [h EXCEPT !.w.fired = w \in Semi,
                   !.w.nextPrimary = IF h.fireOnEmpty THEN delay["dry"] ELSE @]
    [] ~ (w \in Semi /\ h.w.fired) /\ h.w.clip > 0 ->
         [h EXCEPT !.w.fired = w \in Semi, !.w.clip = @ - 1,
                   !.ammo = IF w \in Miscounted THEN @ - 1 ELSE @,
                   !.w.nextPrimary = delay["cycle"], !.w.nextSecondary = delay["cycle"]]

ShotgunFire(w, h) ==
  IF h.w.clip <= 0
  THEN [ShellReload(w, h) EXCEPT !.w.nextPrimary = delay["click"]]
  ELSE [h EXCEPT !.w.clip = @ - 1, !.w.special = 0,
                 !.w.idle = IF h.w.clip > 1 THEN delay["hold"] ELSE delay["pump"],
                 !.w.nextPrimary = delay["pump"], !.w.nextSecondary = delay["pump"]]

PrimaryAttack(w, h) == IF w \in Shells THEN ShotgunFire(w, h) ELSE MagazineFire(w, h)

\* The silencer takes its time; neither attack works meanwhile.
SecondaryAttack(h) == [h EXCEPT !.w.nextPrimary = delay["silencer"],
                                !.w.nextSecondary = delay["silencer"]]

\* A shotgun's WeaponIdle() goes on loading until it is full.
WeaponIdle(w, h) ==
  CASE w \notin Shells \/ h.w.idle >= 0 -> h
    [] w \in Shells /\ h.w.idle < 0 /\ h.w.special = 0 ->
         IF h.w.clip = 0 /\ h.count # 0 THEN ShellReload(w, h) ELSE h
    [] w \in Shells /\ h.w.idle < 0 /\ h.w.special # 0 ->
         IF h.w.clip # maxClip[w] /\ h.count # 0 THEN ShellReload(w, h)
         ELSE [h EXCEPT !.w.special = 0, !.w.idle = delay["close"]]

\* No button is held: the trigger is released, an empty weapon loads itself.
\* Mutant: an empty weapon does not load itself.
Released_bare(w, h) == WeaponIdle(w, [h EXCEPT !.fireOnEmpty = FALSE, !.w.fired = FALSE])
Released(w, h) ==
  LET r == [h EXCEPT !.fireOnEmpty = FALSE, !.w.fired = FALSE]
  IN  IF h.w.clip = 0 /\ h.w.nextPrimary < 0 THEN Reload(w, r) ELSE WeaponIdle(w, r)

\* Mutant: m_fFireOnEmpty is set after the attack.
ItemPostFrame_late(w, h, buttons) ==
  LET r == IF h.w.inReload THEN Reloaded(w, h) ELSE h
      held == IF w \in Silencer THEN buttons ELSE buttons \ {"attack2"}
  IN  CASE "attack2" \in held /\ r.w.nextSecondary <= 0 -> SecondaryAttack(r)
        [] "attack" \in held /\ r.w.nextPrimary <= 0 ->
             [PrimaryAttack(w, r) EXCEPT !.fireOnEmpty = @ \/ r.w.clip = 0]
        [] OTHER ->
             IF "reload" \in held /\ ~ r.w.inReload
             THEN IF r.w.nextPrimary < 0 THEN Reload(w, r) ELSE r
             ELSE IF held \cap {"attack", "attack2"} = {} THEN Released(w, r) ELSE r

ItemPostFrame(w, h, buttons) ==
  LET r == IF h.w.inReload THEN Reloaded(w, h) ELSE h
      held == IF w \in Silencer THEN buttons ELSE buttons \ {"attack2"}
      attack2 == "attack2" \in held /\ r.w.nextSecondary <= 0
      attack == "attack" \in held /\ r.w.nextPrimary <= 0
      reload == "reload" \in held /\ ~ r.w.inReload
  IN  CASE attack2 -> SecondaryAttack(r)
        [] ~ attack2 /\ attack ->
             PrimaryAttack(w, [r EXCEPT !.fireOnEmpty = @ \/ r.w.clip = 0])
        [] ~ attack2 /\ ~ attack /\ reload ->
             IF r.w.nextPrimary < 0 THEN Reload(w, r) ELSE r
        [] ~ attack2 /\ ~ attack /\ ~ reload ->
             IF held \cap {"attack", "attack2"} = {} THEN Released(w, r) ELSE r
-----------------------------------------------------------------------------
\* One command off a timer, which stops just below 0.
\* Mutant: the timer runs on below 0.
Less_unclamped(t) == t - 1
Less(t) == IF t <= 0 THEN -1 ELSE t - 1

Elapsed(d) == [d EXCEPT !.nextPrimary = Less(@), !.nextSecondary = Less(@),
                        !.idle = Less(@)]

Holster(d) == [d EXCEPT !.inReload = FALSE]

\* Deploy(), with DefaultDeploy().
Deploy(d) == [d EXCEPT !.idle = 2 * delay["draw"]]

(***************************************************************************)
(* HUD_WeaponsPostThink(): the state after command cmd, and the weapon     *)
(* objects' statics.  After a switch the state has the new weapon's id but *)
(* still the old one's ammunition.                                         *)
(***************************************************************************)
HUD_WeaponsPostThink(c, s, cmd) ==
  LET w == c.id
      h == [w |-> c.wpn[w], fireOnEmpty |-> s[w], nextAttack |-> c.nextAttack,
            count |-> c.count, ammo |-> c.ammo[ammoType[w]]]
      r == IF c.nextAttack <= 0 THEN ItemPostFrame(w, h, cmd.buttons) ELSE h
      switch == cmd.select \notin {{}, {w}} /\ cmd.select \subseteq c.has
      wpn == [v \in Weapon |->
                CASE v = w -> IF switch THEN Holster(r.w) ELSE r.w
                  [] v # w /\ switch /\ v \in cmd.select -> Deploy(c.wpn[v])
                  [] v # w /\ ~ (switch /\ v \in cmd.select) -> c.wpn[v]]
  IN  [to |-> [c EXCEPT
                 !.id = IF switch THEN CHOOSE v \in cmd.select : TRUE ELSE @,
                 !.nextAttack = Less(IF switch THEN delay["draw"] ELSE r.nextAttack),
                 !.count = r.count,
                 !.ammo[ammoType[w]] = r.ammo,
                 !.wpn = [v \in Weapon |-> Elapsed(wpn[v])]],
       statics |-> [s EXCEPT ![w] = r.fireOnEmpty]]

(***************************************************************************)
(* The server runs the same weapon code on the player's whole inventory.   *)
(* Its m_fFireOnEmpty starts at FALSE here for every command: the code     *)
(* sets it for an empty weapon just before the only place that reads it.   *)
(***************************************************************************)
InHand(c) == [c EXCEPT !.type = ammoType[c.id], !.count = c.ammo[ammoType[c.id]]]

Served(c, cmd) ==
  LET r == HUD_WeaponsPostThink(c, [w \in Weapon |-> FALSE], cmd).to
  IN  InHand([r EXCEPT !.ammo[c.type] = r.count])

Last == IF cmds = <<>> THEN acked ELSE server[Len(server)]
-----------------------------------------------------------------------------
Fresh(clip) == [clip |-> clip, inReload |-> FALSE, special |-> 0, fired |-> FALSE,
                nextPrimary |-> -1, nextSecondary |-> -1, idle |-> -1]

\* The first state the server sends: full clips.
Loadout(carried, w) ==
  [has |-> carried, id |-> w, nextAttack |-> -1, type |-> ammoType[w], count |-> reserve[ammoType[w]],
   ammo |-> reserve, wpn |-> [v \in Weapon |-> Fresh(maxClip[v])]]

Init == /\ \E carried \in Inventories : \E w \in carried : acked = Loadout(carried, w)
        /\ cmds = <<>> /\ server = <<>>
        /\ from = acked /\ at = 0
        /\ statics = [w \in Weapon |-> FALSE]

\* The player sends a command.
Send(cmd) == /\ Len(cmds) < MaxUnacked
             /\ cmds' = Append(cmds, cmd)
             /\ server' = Append(server, Served(Last, cmd))
             /\ UNCHANGED <<acked, from, statics, at>>

\* HUD_PostRunCmd(): the next command is predicted.
Predict == /\ at < Len(cmds)
           /\ LET r == HUD_WeaponsPostThink(from, statics, cmds[at + 1])
              IN  from' = r.to /\ statics' = r.statics
           /\ at' = at + 1
           /\ UNCHANGED <<acked, cmds, server>>

\* A new frame, from the last state that was acknowledged.
Frame == /\ at > 0
         /\ from' = acked /\ at' = 0
         /\ UNCHANGED <<acked, cmds, server, statics>>

\* The server's answer to the oldest command; a new frame starts from it.
Acknowledge == /\ cmds # <<>>
               /\ acked' = Head(server)
               /\ cmds' = Tail(cmds) /\ server' = Tail(server)
               /\ from' = acked' /\ at' = 0
               /\ UNCHANGED statics

Next == \/ \E cmd \in Commands : Send(cmd)
        \/ Predict \/ Frame \/ Acknowledge

Spec == Init /\ [][Next]_vars
-----------------------------------------------------------------------------
TypeOK == /\ acked \in Client /\ from \in Client
          /\ cmds \in Seq(Commands) /\ server \in Seq(Client)
          /\ Len(server) = Len(cmds)
          /\ statics \in [Weapon -> BOOLEAN]
          /\ at \in 0 .. Len(cmds)

(***************************************************************************)
(* "Update weapon id so we can predict things correctly": however often    *)
(* the commands are predicted, and whatever the statics remember of later  *)
(* ones, the client sees what the server will answer: the weapon in hand,  *)
(* its timers, every clip, and the reserve as soon as the weapon is drawn. *)
(* The last few rounds of an M4A1's reserve are the exception: firing      *)
(* takes ammo_556nato down with the clip, and at 0 the client refuses a    *)
(* reload that the server, which counts its reserve anew, goes through     *)
(* with.                                                                   *)
(***************************************************************************)
Truth == IF at = 0 THEN acked ELSE server[at]

LowReserve == \E w \in Miscounted : acked.ammo[ammoType[w]] \in 1 .. MaxUnacked

PredictionAgrees == ~ LowReserve =>
  /\ from.id = Truth.id /\ from.nextAttack = Truth.nextAttack /\ from.wpn = Truth.wpn
  /\ from.nextAttack <= 0 => from.type = Truth.type /\ from.count = Truth.count

(***************************************************************************)
(* Rounds are fired, or move from the reserve to the clip of the weapon in *)
(* hand; no sequence of reloads, shots and switches makes one, overfills a *)
(* clip or overdraws a reserve.                                            *)
(***************************************************************************)
ClipsFit == /\ \A w \in Weapon : from.wpn[w].clip \in 0 .. maxClip[w]
            /\ from.count >= 0

NoRoundFromNowhere ==
  [][at' = at + 1 =>
       \A w \in Weapon :
         IF w = from.id
         THEN from'.wpn[w].clip + from'.count <= from.wpn[w].clip + from.count
         ELSE from'.wpn[w].clip = from.wpn[w].clip]_vars

(***************************************************************************)
(* A player who touches nothing for Settling ticks has a weapon that is    *)
(* ready: an empty one has reloaded if there is ammunition, and a shotgun  *)
(* that was being loaded is loaded to the end.                             *)
(***************************************************************************)
Untouched == [buttons |-> {}, select |-> {}]

After[n \in 0 .. Settling] == IF n = 0 THEN acked ELSE Served(After[n - 1], Untouched)

Ready(c) == LET d == c.wpn[c.id]
            IN  d.special = 0 /\ ~ d.inReload /\ (d.clip > 0 \/ c.count = 0)

EndsReady == cmds = <<>> => Ready(After[Settling])
=============================================================================
