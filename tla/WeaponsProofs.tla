---------------------------- MODULE WeaponsProofs ----------------------------
(***************************************************************************)
(* Proofs about the prediction of weapons, for any weapons, inventories,   *)
(* clips, delays, reserves and commands, as far as the server's answer     *)
(* takes less time than drawing a weapon: that the client sees what the    *)
(* server will answer, that no round is made, and that a weapon that is    *)
(* left alone ends ready.                                                  *)
(***************************************************************************)
EXTENDS Weapons, WellFoundedInduction, TLAPS

(***************************************************************************)
(* The hand.  Fits says that its clip holds what it can hold, and that no  *)
(* counter is overdrawn; Moves, that rounds only left, or went from the    *)
(* reserve to the clip.                                                    *)
(***************************************************************************)
Hand == [w : WeaponData, fireOnEmpty : BOOLEAN, nextAttack : Timer, count : Int, ammo : Int]

Fits(w, h) == h \in Hand /\ h.w.clip \in 0 .. maxClip[w] /\ h.count >= 0

Moves(h, r) == r.w.clip + r.count <= h.w.clip + h.count /\ r.count <= h.count

\* What the client and the server agree on; ammo and fireOnEmpty they may not.
Alike(h, g) == h.w = g.w /\ h.nextAttack = g.nextAttack /\ h.count = g.count

LEMMA Constants == /\ \A d \in Delays : delay[d] \in Nat
                   /\ \A w \in Weapon : maxClip[w] \in Nat \ {0}
BY WeaponAssumption, DelayAssumption

LEMMA HandFields ==
  ASSUME NEW h \in Hand
  PROVE  /\ h.w \in WeaponData /\ h.fireOnEmpty \in BOOLEAN /\ h.nextAttack \in Timer
         /\ h.count \in Int /\ h.ammo \in Int
         /\ h.w.clip \in Int /\ h.w.inReload \in BOOLEAN /\ h.w.special \in 0 .. 2
         /\ h.w.fired \in BOOLEAN /\ h.w.nextPrimary \in Timer
         /\ h.w.nextSecondary \in Timer /\ h.w.idle \in Timer
BY DEF Hand, WeaponData

LEMMA RaisedData ==
  ASSUME NEW d \in WeaponData, NEW n \in 0 .. 2, NEW t \in Timer
  PROVE  /\ [d EXCEPT !.special = n, !.idle = t, !.nextPrimary = t, !.nextSecondary = t]
              \in WeaponData
         /\ [d EXCEPT !.special = n, !.idle = t, !.nextPrimary = t,
                      !.nextSecondary = t].clip = d.clip
BY DEF WeaponData

LEMMA PacedData ==
  ASSUME NEW d \in WeaponData, NEW n \in 0 .. 2, NEW t \in Timer
  PROVE  /\ [d EXCEPT !.special = n, !.idle = t] \in WeaponData
         /\ [d EXCEPT !.special = n, !.idle = t].clip = d.clip
BY DEF WeaponData

LEMMA MovesTwice ==
  ASSUME NEW h \in Hand, NEW g \in Hand, NEW r \in Hand, Moves(h, g), Moves(g, r)
  PROVE  Moves(h, r)
BY HandFields DEF Moves
-----------------------------------------------------------------------------
(***************************************************************************)
(* Reloading.                                                              *)
(***************************************************************************)
LEMMA DefaultReloadMoves ==
  ASSUME NEW w \in Weapon, NEW h, Fits(w, h)
  PROVE  LET r == DefaultReload(w, h)
         IN  Fits(w, r) /\ Moves(h, r) /\ r.ammo = h.ammo
<1> DEFINE r == DefaultReload(w, h)
<1>1. h \in Hand /\ delay["reload"] \in Timer
  BY Constants DEF Fits, Timer, Delays
<1>2. \/ r = h
      \/ r = [h EXCEPT !.nextAttack = delay["reload"], !.w.inReload = TRUE]
  BY DEF DefaultReload
<1>. HIDE DEF r
<1>3. r \in Hand /\ r.w.clip = h.w.clip /\ r.count = h.count /\ r.ammo = h.ammo
  <2>1. CASE r = h
    BY <1>1, <2>1
  <2>2. CASE r = [h EXCEPT !.nextAttack = delay["reload"], !.w.inReload = TRUE]
    <3> DEFINE d == [h.w EXCEPT !.inReload = TRUE]
    <3>1. d \in WeaponData /\ d.clip = h.w.clip
      BY <1>1, HandFields DEF WeaponData
    <3>2. r = [h EXCEPT !.nextAttack = delay["reload"], !.w = d]
      BY <2>2
    <3>. HIDE DEF d
    <3>3. /\ r \in Hand /\ r.w = d /\ r.count = h.count /\ r.ammo = h.ammo
      BY <1>1, <3>1, <3>2 DEF Hand
    <3>. QED  BY <3>1, <3>3
  <2>. QED  BY <1>2, <2>1, <2>2
<1>4. Fits(w, r) /\ Moves(h, r) /\ r.ammo = h.ammo
  BY <1>1, <1>3, HandFields DEF Fits, Moves
<1>. QED  BY <1>4 DEF r

LEMMA DefaultReloadAlike ==
  ASSUME NEW w \in Weapon, NEW h \in Hand, NEW g \in Hand, Alike(h, g)
  PROVE  Alike(DefaultReload(w, h), DefaultReload(w, g))
BY DEF DefaultReload, Alike, Hand

\* A reload that is through takes from the reserve what it puts into the clip.
LEMMA ReloadedFields ==
  ASSUME NEW w \in Weapon, NEW h \in Hand
  PROVE  LET j == Min2(maxClip[w] - h.w.clip, h.count)
             r == Reloaded(w, h)
         IN  /\ r \in Hand /\ j \in Int
             /\ r.w = [h.w EXCEPT !.clip = h.w.clip + j, !.inReload = FALSE]
             /\ r.w.clip = h.w.clip + j /\ r.count = h.count - j
             /\ r.ammo = h.ammo /\ r.nextAttack = h.nextAttack
             /\ r.fireOnEmpty = h.fireOnEmpty /\ ~ r.w.inReload
<1> DEFINE j == Min2(maxClip[w] - h.w.clip, h.count)
           clip == h.w.clip + j
           count == h.count - j
           r == [h EXCEPT !.w.clip = clip, !.count = count, !.w.inReload = FALSE]
<1>1. j \in Int
  BY Constants, HandFields DEF Min2
<1>2. Reloaded(w, h) = r
  BY DEF Reloaded
<1>. HIDE DEF j
<1>3. clip \in Int /\ count \in Int
  BY <1>1, HandFields
<1>. HIDE DEF clip, count
<1>4. /\ r \in Hand /\ r.w = [h.w EXCEPT !.clip = clip, !.inReload = FALSE]
      /\ r.w.clip = clip /\ r.count = count /\ r.ammo = h.ammo
      /\ r.nextAttack = h.nextAttack /\ r.fireOnEmpty = h.fireOnEmpty /\ ~ r.w.inReload
  BY <1>3 DEF Hand, WeaponData
<1>. QED  BY <1>1, <1>2, <1>4 DEF clip, count, j

LEMMA ReloadedMoves ==
  ASSUME NEW w \in Weapon, NEW h, Fits(w, h)
  PROVE  LET r == Reloaded(w, h)
         IN  Fits(w, r) /\ Moves(h, r) /\ r.ammo = h.ammo
<1> DEFINE j == Min2(maxClip[w] - h.w.clip, h.count)
           r == Reloaded(w, h)
<1>1. h \in Hand /\ h.w.clip \in 0 .. maxClip[w] /\ h.count \in Nat
  BY HandFields DEF Fits
<1>2. j \in 0 .. h.count /\ h.w.clip + j \in 0 .. maxClip[w]
  BY <1>1, Constants DEF Min2
<1>3. /\ r \in Hand /\ r.w.clip = h.w.clip + j /\ r.count = h.count - j
      /\ r.ammo = h.ammo
  BY <1>1, ReloadedFields
<1>. HIDE DEF j, r
<1>4. Fits(w, r) /\ Moves(h, r) /\ r.ammo = h.ammo
  BY <1>1, <1>2, <1>3 DEF Fits, Moves
<1>. QED  BY <1>4 DEF r

LEMMA ReloadedAlike ==
  ASSUME NEW w \in Weapon, NEW h \in Hand, NEW g \in Hand, Alike(h, g)
  PROVE  Alike(Reloaded(w, h), Reloaded(w, g))
<1>1. h.w = g.w /\ h.count = g.count /\ h.nextAttack = g.nextAttack
  BY DEF Alike
<1> DEFINE j == Min2(maxClip[w] - h.w.clip, h.count)
<1>2. j = Min2(maxClip[w] - g.w.clip, g.count)
  BY <1>1
<1>. HIDE DEF j
<1>3. /\ Reloaded(w, h) = [h EXCEPT !.w.clip = @ + j, !.count = @ - j, !.w.inReload = FALSE]
      /\ Reloaded(w, g) = [g EXCEPT !.w.clip = @ + j, !.count = @ - j, !.w.inReload = FALSE]
  BY <1>2 DEF Reloaded, j
<1>. QED  BY <1>1, <1>3 DEF Alike, Hand

\* Shell by shell, ammo and reserve go down together.
LEMMA ShellReloadFields ==
  ASSUME NEW w \in Weapon, NEW h \in Hand
  PROVE  LET r == ShellReload(w, h)
         IN  /\ r \in Hand
             /\ \/ r = h
                \/ r.w.clip = h.w.clip /\ r.count = h.count
                \/ /\ h.count > 0 /\ h.w.clip # maxClip[w]
                   /\ r.w.clip = h.w.clip + 1 /\ r.count = h.count - 1
<1> DEFINE r == ShellReload(w, h)
<1>0. delay["start"] \in Timer /\ delay["shell"] \in Timer
  BY Constants DEF Timer, Delays
<1>1. CASE h.count <= 0 \/ h.w.clip = maxClip[w] \/ h.w.nextPrimary > 0
  <2>1. r = h
    BY <1>1 DEF ShellReload
  <2>. QED  BY <2>1
<1>2. CASE ~ (h.count <= 0 \/ h.w.clip = maxClip[w] \/ h.w.nextPrimary > 0)
  <2>1. CASE h.w.special = 0
    <3>1. r = [h EXCEPT !.w.special = 1, !.nextAttack = delay["start"],
                        !.w.idle = delay["start"], !.w.nextPrimary = delay["start"],
                        !.w.nextSecondary = delay["start"]]
      BY <1>2, <2>1 DEF ShellReload
    <3> DEFINE d == [h.w EXCEPT !.special = 1, !.idle = delay["start"],
                       !.nextPrimary = delay["start"], !.nextSecondary = delay["start"]]
    <3>2. d \in WeaponData /\ d.clip = h.w.clip
      <4>1. h.w \in WeaponData /\ 1 \in 0 .. 2 /\ 2 \in 0 .. 2
        BY HandFields
      <4>. QED  BY <1>0, <4>1, RaisedData
    <3>3. r = [h EXCEPT !.w = d, !.nextAttack = delay["start"]]
      BY <3>1 DEF Hand
    <3>. HIDE DEF r, d
    <3>4. r \in Hand /\ r.w = d /\ r.count = h.count
      BY <1>0, <3>2, <3>3 DEF Hand
    <3>. QED  BY <3>2, <3>4 DEF r
  <2>2. CASE h.w.special = 1
    <3>1. r = h \/ r = [h EXCEPT !.w.special = 2, !.w.idle = delay["shell"]]
      BY <1>2, <2>2 DEF ShellReload
    <3> DEFINE d == [h.w EXCEPT !.special = 2, !.idle = delay["shell"]]
    <3>2. d \in WeaponData /\ d.clip = h.w.clip
      <4>1. h.w \in WeaponData /\ 1 \in 0 .. 2 /\ 2 \in 0 .. 2
        BY HandFields
      <4>. QED  BY <1>0, <4>1, PacedData
    <3>3. r = h \/ r = [h EXCEPT !.w = d]
      BY <3>1 DEF Hand
    <3>. HIDE DEF r, d
    <3>4. r = h \/ (r \in Hand /\ r.w = d /\ r.count = h.count)
      BY <3>2, <3>3 DEF Hand
    <3>. QED  BY <3>2, <3>4 DEF r
  <2>3. CASE h.w.special = 2
    <3> DEFINE clip == h.w.clip + 1
               count == h.count - 1
               ammo == h.ammo - 1
    <3>1. r = [h EXCEPT !.w.special = 1, !.w.clip = clip, !.count = count, !.ammo = ammo]
      BY <1>2, <2>3 DEF ShellReload
    <3>2. clip \in Int /\ count \in Int /\ ammo \in Int
      BY HandFields
    <3>. HIDE DEF clip, count, ammo
    <3> DEFINE d == [h.w EXCEPT !.special = 1, !.clip = clip]
    <3>3. d \in WeaponData /\ d.clip = clip
      <4>1. h.w \in WeaponData /\ 1 \in 0 .. 2 /\ 2 \in 0 .. 2
        BY HandFields
      <4>2. clip \in Int
        BY <3>2
      <4>3. \A n \in 0 .. 2 :
              LET e == [h.w EXCEPT !.special = n, !.clip = clip]
              IN  e \in WeaponData /\ e.clip = clip
        BY <4>1, <4>2 DEF WeaponData
      <4>. HIDE DEF clip
      <4>. QED  BY <4>1, <4>3
    <3>4. r = [h EXCEPT !.w = d, !.count = count, !.ammo = ammo]
      BY <3>1 DEF Hand
    <3>. HIDE DEF r, d
    <3>5. r \in Hand /\ r.w = d /\ r.count = count
      BY <3>2, <3>3, <3>4 DEF Hand
    <3>6. h.count > 0 /\ h.w.clip # maxClip[w]
      BY <1>2, HandFields
    <3>. QED  BY <3>3, <3>5, <3>6 DEF r, clip, count
  <2>. QED  BY <2>1, <2>2, <2>3, HandFields
<1>. QED  BY <1>1, <1>2

LEMMA ShellReloadMoves ==
  ASSUME NEW w \in Weapon, NEW h, Fits(w, h)
  PROVE  LET r == ShellReload(w, h) IN Fits(w, r) /\ Moves(h, r)
<1> DEFINE r == ShellReload(w, h)
<1>1. h \in Hand /\ h.w.clip \in 0 .. maxClip[w] /\ h.count \in Nat
  BY HandFields DEF Fits
<1>2. /\ r \in Hand
      /\ \/ r = h
         \/ r.w.clip = h.w.clip /\ r.count = h.count
         \/ /\ h.count > 0 /\ h.w.clip # maxClip[w]
            /\ r.w.clip = h.w.clip + 1 /\ r.count = h.count - 1
  BY <1>1, ShellReloadFields
<1>. HIDE DEF r
<1>3. Fits(w, r) /\ Moves(h, r)
  BY <1>1, <1>2, Constants DEF Fits, Moves
<1>. QED  BY <1>3 DEF r

LEMMA ShellReloadAlike ==
  ASSUME NEW w \in Weapon, NEW h \in Hand, NEW g \in Hand, Alike(h, g)
  PROVE  Alike(ShellReload(w, h), ShellReload(w, g))
<1>0. h.w = g.w /\ h.nextAttack = g.nextAttack /\ h.count = g.count
  BY DEF Alike
<1>1. CASE h.count <= 0 \/ h.w.clip = maxClip[w] \/ h.w.nextPrimary > 0
  BY <1>0, <1>1 DEF ShellReload, Alike
<1>2. CASE ~ (h.count <= 0 \/ h.w.clip = maxClip[w] \/ h.w.nextPrimary > 0)
  <2>1. CASE h.w.special = 0
    <3>1. /\ ShellReload(w, h) = [h EXCEPT
               !.w.special = 1, !.nextAttack = delay["start"], !.w.idle = delay["start"],
               !.w.nextPrimary = delay["start"], !.w.nextSecondary = delay["start"]]
          /\ ShellReload(w, g) = [g EXCEPT
               !.w.special = 1, !.nextAttack = delay["start"], !.w.idle = delay["start"],
               !.w.nextPrimary = delay["start"], !.w.nextSecondary = delay["start"]]
      BY <1>0, <1>2, <2>1 DEF ShellReload
    <3>. QED  BY <1>0, <3>1 DEF Alike, Hand
  <2>2. CASE h.w.special = 1
    BY <1>0, <1>2, <2>2 DEF ShellReload, Alike, Hand
  <2>3. CASE h.w.special = 2
    <3>1. /\ ShellReload(w, h) = [h EXCEPT !.w.special = 1, !.w.clip = @ + 1,
                                           !.count = @ - 1, !.ammo = @ - 1]
          /\ ShellReload(w, g) = [g EXCEPT !.w.special = 1, !.w.clip = @ + 1,
                                           !.count = @ - 1, !.ammo = @ - 1]
      BY <1>0, <1>2, <2>3 DEF ShellReload
    <3>. QED  BY <1>0, <3>1 DEF Alike, Hand
  <2>. QED  BY <2>1, <2>2, <2>3, HandFields
<1>. QED  BY <1>1, <1>2

\* A client whose reserve is above 0 sees ammunition.
Stocked(w, h) == w \notin Shells /\ h.count > 0 => h.ammo > 0

\* What an attack may take off a magazine weapon's ammo.
Spent(w) == IF w \in Miscounted THEN 1 ELSE 0

Result(w, h, r) == /\ Fits(w, r) /\ Moves(h, r)
                   /\ w \notin Shells => r.ammo >= h.ammo - Spent(w)

LEMMA ReloadMoves ==
  ASSUME NEW w \in Weapon, NEW h, Fits(w, h)
  PROVE  /\ Fits(w, Reload(w, h)) /\ Moves(h, Reload(w, h))
         /\ w \notin Shells => Reload(w, h).ammo = h.ammo
<1>1. CASE w \in Shells
  BY <1>1, ShellReloadMoves DEF Reload
<1>2. CASE w \notin Shells
  <2>1. Reload(w, h) = h \/ Reload(w, h) = DefaultReload(w, h)
    BY <1>2 DEF Reload, MagazineReload
  <2>2. Moves(h, h)
    BY HandFields DEF Moves, Fits
  <2>. QED  BY <2>1, <2>2, DefaultReloadMoves
<1>. QED  BY <1>1, <1>2

LEMMA ReloadAlike ==
  ASSUME NEW w \in Weapon, NEW h \in Hand, NEW g \in Hand, Alike(h, g),
         Stocked(w, h), Stocked(w, g)
  PROVE  Alike(Reload(w, h), Reload(w, g))
<1>1. CASE w \in Shells
  BY <1>1, ShellReloadAlike DEF Reload
<1>2. CASE w \notin Shells /\ h.count <= 0
  <2>1. g.count <= 0
    BY <1>2 DEF Alike
  <2>2. Reload(w, h) = h /\ Reload(w, g) = g
    BY <1>2, <2>1 DEF Reload, MagazineReload, DefaultReload
  <2>. QED  BY <2>2
<1>3. CASE w \notin Shells /\ h.count > 0
  <2>1. ~ h.ammo <= 0 /\ ~ g.ammo <= 0
    BY <1>3, HandFields DEF Alike, Stocked
  <2>2. /\ Reload(w, h) = DefaultReload(w, h)
        /\ Reload(w, g) = DefaultReload(w, g)
    BY <1>3, <2>1 DEF Reload, MagazineReload
  <2>. QED  BY <2>2, DefaultReloadAlike
<1>. QED  BY <1>1, <1>2, <1>3, HandFields
-----------------------------------------------------------------------------
(***************************************************************************)
(* Firing.                                                                 *)
(***************************************************************************)
LEMMA FiredData ==
  ASSUME NEW d \in WeaponData, NEW b \in BOOLEAN, NEW t \in Timer
  PROVE  /\ [d EXCEPT !.fired = b, !.nextPrimary = t] \in WeaponData
         /\ [d EXCEPT !.fired = b, !.nextPrimary = t].clip = d.clip
BY DEF WeaponData

LEMMA MagazineFireMoves ==
  ASSUME NEW w \in Weapon, NEW h, Fits(w, h)
  PROVE  Result(w, h, MagazineFire(w, h))
<1> DEFINE r == MagazineFire(w, h)
           held == w \in Semi
<1>1. h \in Hand /\ h.w.clip \in 0 .. maxClip[w] /\ h.count \in Nat /\ held \in BOOLEAN
  BY HandFields DEF Fits
<1>2. /\ h.w \in WeaponData /\ h.w.nextPrimary \in Timer /\ h.ammo \in Int
      /\ delay["dry"] \in Timer /\ delay["cycle"] \in Timer
  BY <1>1, HandFields, Constants DEF Timer, Delays
<1>3. CASE held /\ h.w.fired
  <2>1. r = h
    BY <1>3 DEF MagazineFire
  <2>. QED  BY <1>1, <1>2, <2>1 DEF Result, Moves, Fits, Spent
<1>4. CASE ~ (held /\ h.w.fired) /\ h.w.clip <= 0
  <2> DEFINE t == IF h.fireOnEmpty THEN delay["dry"] ELSE h.w.nextPrimary
             d == [h.w EXCEPT !.fired = held, !.nextPrimary = t]
  <2>1. r = [h EXCEPT !.w.fired = held, !.w.nextPrimary = t]
    <3>1. r = [h EXCEPT !.w.fired = held,
                        !.w.nextPrimary = IF h.fireOnEmpty THEN delay["dry"] ELSE @]
      BY <1>1, <1>4 DEF MagazineFire
    <3>. HIDE DEF r, held
    <3>2. CASE h.fireOnEmpty
      BY <3>1, <3>2
    <3>3. CASE ~ h.fireOnEmpty
      BY <1>1, <3>1, <3>3 DEF Hand, WeaponData
    <3>. QED  BY <3>2, <3>3
  <2>2. t \in Timer
    BY <1>2
  <2>. HIDE DEF t, held
  <2>3. r = [h EXCEPT !.w = d]
    BY <1>1, <2>1 DEF Hand
  <2>4. d \in WeaponData /\ d.clip = h.w.clip
    BY <1>1, <1>2, <2>2, FiredData
  <2>. HIDE DEF d, r
  <2>5. r \in Hand /\ r.w = d /\ r.count = h.count /\ r.ammo = h.ammo
    BY <1>1, <2>3, <2>4 DEF Hand
  <2>6. Result(w, h, r)
    BY <1>1, <1>2, <2>4, <2>5 DEF Result, Moves, Fits, Spent
  <2>. QED  BY <2>6 DEF r
<1>5. CASE ~ (held /\ h.w.fired) /\ h.w.clip > 0
  <2> DEFINE clip == h.w.clip - 1
             ammo == IF w \in Miscounted THEN h.ammo - 1 ELSE h.ammo
             t == delay["cycle"]
             d == [h.w EXCEPT !.fired = held, !.clip = clip, !.nextPrimary = t,
                              !.nextSecondary = t]
  <2>1. r = [h EXCEPT !.w.fired = held, !.w.clip = clip, !.ammo = ammo,
                      !.w.nextPrimary = t, !.w.nextSecondary = t]
    BY <1>5 DEF MagazineFire
  <2>2. /\ clip \in Int /\ clip \in 0 .. maxClip[w] /\ clip + h.count <= h.w.clip + h.count
        /\ ammo \in Int /\ ammo >= h.ammo - Spent(w) /\ t \in Timer
    BY <1>1, <1>2, <1>5, Constants DEF Spent
  <2>. HIDE DEF t, held, clip, ammo
  <2>3. r = [h EXCEPT !.w = d, !.ammo = ammo]
    BY <1>1, <2>1 DEF Hand
  <2>4. d \in WeaponData /\ d.clip = clip
    <3>1. \A b \in BOOLEAN, x \in Timer, c \in Int :
            LET e == [h.w EXCEPT !.fired = b, !.clip = c, !.nextPrimary = x,
                                 !.nextSecondary = x]
            IN  e \in WeaponData /\ e.clip = c
      BY <1>2 DEF WeaponData
    <3>. QED  BY <1>1, <2>2, <3>1 DEF d
  <2>. HIDE DEF d, r
  <2>5. r \in Hand /\ r.w = d /\ r.count = h.count /\ r.ammo = ammo
    BY <1>1, <2>2, <2>3, <2>4 DEF Hand
  <2>6. Result(w, h, r)
    BY <1>1, <2>2, <2>4, <2>5 DEF Result, Moves, Fits
  <2>. QED  BY <2>6 DEF r
<1>. QED  BY <1>1, <1>3, <1>4, <1>5

\* An empty weapon clicks the same whatever was remembered: see PrimaryAttackAlike.
LEMMA MagazineFireAlike ==
  ASSUME NEW w \in Weapon, NEW h \in Hand, NEW g \in Hand, Alike(h, g),
         h.w.clip <= 0 => h.fireOnEmpty /\ g.fireOnEmpty
  PROVE  Alike(MagazineFire(w, h), MagazineFire(w, g))
<1>0. h.w = g.w /\ h.nextAttack = g.nextAttack /\ h.count = g.count
  BY DEF Alike
<1> DEFINE held == w \in Semi
<1>1. CASE held /\ h.w.fired
  BY <1>0, <1>1 DEF MagazineFire, Alike
<1>2. CASE ~ (held /\ h.w.fired) /\ h.w.clip <= 0
  <2>1. /\ MagazineFire(w, h) = [h EXCEPT !.w.fired = held, !.w.nextPrimary = delay["dry"]]
        /\ MagazineFire(w, g) = [g EXCEPT !.w.fired = held, !.w.nextPrimary = delay["dry"]]
    <3>1. h.fireOnEmpty /\ g.fireOnEmpty /\ g.w = h.w
      BY <1>0, <1>2
    <3>2. MagazineFire(w, h) = [h EXCEPT !.w.fired = held, !.w.nextPrimary = delay["dry"]]
      BY <1>2, <3>1, HandFields DEF MagazineFire
    <3>3. MagazineFire(w, g) = [g EXCEPT !.w.fired = held, !.w.nextPrimary = delay["dry"]]
      BY <1>2, <3>1, HandFields DEF MagazineFire
    <3>. QED  BY <3>2, <3>3
  <2>. HIDE DEF held
  <2>. QED  BY <1>0, <2>1 DEF Alike, Hand
<1>3. CASE ~ (held /\ h.w.fired) /\ h.w.clip > 0
  <2> DEFINE a(x) == IF w \in Miscounted THEN x.ammo - 1 ELSE x.ammo
  <2>1. /\ MagazineFire(w, h) = [h EXCEPT !.w.fired = held, !.w.clip = @ - 1, !.ammo = a(h),
              !.w.nextPrimary = delay["cycle"], !.w.nextSecondary = delay["cycle"]]
        /\ MagazineFire(w, g) = [g EXCEPT !.w.fired = held, !.w.clip = @ - 1, !.ammo = a(g),
              !.w.nextPrimary = delay["cycle"], !.w.nextSecondary = delay["cycle"]]
    BY <1>0, <1>3 DEF MagazineFire
  <2>. HIDE DEF held, a
  <2>. QED  BY <1>0, <2>1 DEF Alike, Hand
<1>. QED  BY <1>1, <1>2, <1>3, HandFields

LEMMA ShotgunFireMoves ==
  ASSUME NEW w \in Weapon, NEW h, Fits(w, h)
  PROVE  Fits(w, ShotgunFire(w, h)) /\ Moves(h, ShotgunFire(w, h))
<1> DEFINE r == ShotgunFire(w, h)
<1>1. h \in Hand /\ h.w.clip \in 0 .. maxClip[w] /\ h.count \in Nat
  BY HandFields DEF Fits
<1>2. /\ h.w \in WeaponData /\ 0 \in 0 .. 2
      /\ delay["click"] \in Timer /\ delay["pump"] \in Timer /\ delay["hold"] \in Timer
  BY <1>1, HandFields, Constants DEF Timer, Delays
<1>3. CASE h.w.clip <= 0
  <2> DEFINE g == ShellReload(w, h)
             t == delay["click"]
             d == [g.w EXCEPT !.nextPrimary = t]
  <2>1. r = [g EXCEPT !.w.nextPrimary = t]
    BY <1>3 DEF ShotgunFire
  <2>2. Fits(w, g) /\ Moves(h, g) /\ t \in Timer
    BY <1>2, ShellReloadMoves
  <2>. HIDE DEF g, t
  <2>3. g \in Hand /\ g.w \in WeaponData
    BY <2>2, HandFields DEF Fits
  <2>4. d \in WeaponData /\ d.clip = g.w.clip
    BY <2>2, <2>3 DEF WeaponData
  <2>5. r = [g EXCEPT !.w = d]
    BY <2>1
  <2>. HIDE DEF d, r
  <2>6. r \in Hand /\ r.w = d /\ r.count = g.count
    BY <2>3, <2>4, <2>5 DEF Hand
  <2>7. Fits(w, r) /\ Moves(h, r)
    BY <2>2, <2>4, <2>6 DEF Fits, Moves
  <2>. QED  BY <2>7 DEF r
<1>4. CASE ~ h.w.clip <= 0
  <2> DEFINE clip == h.w.clip - 1
             t == IF h.w.clip > 1 THEN delay["hold"] ELSE delay["pump"]
             p == delay["pump"]
             d == [h.w EXCEPT !.clip = clip, !.special = 0, !.idle = t,
                              !.nextPrimary = p, !.nextSecondary = p]
  <2>1. r = [h EXCEPT !.w.clip = clip, !.w.special = 0, !.w.idle = t,
                      !.w.nextPrimary = p, !.w.nextSecondary = p]
    BY <1>4 DEF ShotgunFire
  <2>2. /\ clip \in Int /\ clip \in 0 .. maxClip[w] /\ clip + h.count <= h.w.clip + h.count
        /\ t \in Timer /\ p \in Timer
    BY <1>1, <1>2, <1>4, Constants
  <2>. HIDE DEF clip, t, p
  <2>3. r = [h EXCEPT !.w = d]
    BY <1>1, <2>1 DEF Hand
  <2>4. d \in WeaponData /\ d.clip = clip
    <3>1. \A n \in 0 .. 2 :
            LET e == [h.w EXCEPT !.clip = clip, !.special = n, !.idle = t,
                                 !.nextPrimary = p, !.nextSecondary = p]
            IN  e \in WeaponData /\ e.clip = clip
      BY <1>2, <2>2 DEF WeaponData
    <3>. QED  BY <1>2, <3>1
  <2>. HIDE DEF d, r
  <2>5. r \in Hand /\ r.w = d /\ r.count = h.count
    BY <1>1, <2>3, <2>4 DEF Hand
  <2>6. Fits(w, r) /\ Moves(h, r)
    BY <1>1, <2>2, <2>4, <2>5 DEF Fits, Moves
  <2>. QED  BY <2>6 DEF r
<1>. QED  BY <1>3, <1>4

LEMMA ShotgunFireAlike ==
  ASSUME NEW w \in Weapon, NEW h \in Hand, NEW g \in Hand, Alike(h, g)
  PROVE  Alike(ShotgunFire(w, h), ShotgunFire(w, g))
<1>0. h.w = g.w /\ h.nextAttack = g.nextAttack /\ h.count = g.count
  BY DEF Alike
<1>1. CASE h.w.clip <= 0
  <2> DEFINE a == ShellReload(w, h)
             b == ShellReload(w, g)
  <2>1. /\ ShotgunFire(w, h) = [a EXCEPT !.w.nextPrimary = delay["click"]]
        /\ ShotgunFire(w, g) = [b EXCEPT !.w.nextPrimary = delay["click"]]
    BY <1>0, <1>1 DEF ShotgunFire
  <2>2. Alike(a, b) /\ a \in Hand /\ b \in Hand
    BY ShellReloadAlike, ShellReloadFields
  <2>. HIDE DEF a, b
  <2>. QED  BY <2>1, <2>2 DEF Alike, Hand
<1>2. CASE ~ h.w.clip <= 0
  <2> DEFINE t == IF h.w.clip > 1 THEN delay["hold"] ELSE delay["pump"]
  <2>1. /\ ShotgunFire(w, h) = [h EXCEPT !.w.clip = @ - 1, !.w.special = 0, !.w.idle = t,
              !.w.nextPrimary = delay["pump"], !.w.nextSecondary = delay["pump"]]
        /\ ShotgunFire(w, g) = [g EXCEPT !.w.clip = @ - 1, !.w.special = 0, !.w.idle = t,
              !.w.nextPrimary = delay["pump"], !.w.nextSecondary = delay["pump"]]
    BY <1>0, <1>2 DEF ShotgunFire
  <2>. HIDE DEF t
  <2>. QED  BY <1>0, <2>1 DEF Alike, Hand
<1>. QED  BY <1>1, <1>2

LEMMA PrimaryAttackMoves ==
  ASSUME NEW w \in Weapon, NEW h, Fits(w, h)
  PROVE  Result(w, h, PrimaryAttack(w, h))
<1>1. CASE w \in Shells
  BY <1>1, ShotgunFireMoves DEF PrimaryAttack, Result
<1>2. CASE w \notin Shells
  BY <1>2, MagazineFireMoves DEF PrimaryAttack
<1>. QED  BY <1>1, <1>2

LEMMA PrimaryAttackAlike ==
  ASSUME NEW w \in Weapon, NEW h \in Hand, NEW g \in Hand, Alike(h, g),
         h.w.clip <= 0 => h.fireOnEmpty /\ g.fireOnEmpty
  PROVE  Alike(PrimaryAttack(w, h), PrimaryAttack(w, g))
<1>1. CASE w \in Shells
  BY <1>1, ShotgunFireAlike DEF PrimaryAttack
<1>2. CASE w \notin Shells
  BY <1>2, MagazineFireAlike DEF PrimaryAttack
<1>. QED  BY <1>1, <1>2

LEMMA SecondaryAttackMoves ==
  ASSUME NEW w \in Weapon, NEW h, Fits(w, h)
  PROVE  Result(w, h, SecondaryAttack(h))
<1> DEFINE t == delay["silencer"]
           r == SecondaryAttack(h)
           d == [h.w EXCEPT !.nextPrimary = t, !.nextSecondary = t]
<1>1. /\ h \in Hand /\ h.w.clip \in 0 .. maxClip[w] /\ h.count \in Nat /\ h.ammo \in Int
      /\ h.w \in WeaponData /\ t \in Timer
  BY HandFields, Constants DEF Fits, Timer, Delays
<1>2. r = [h EXCEPT !.w.nextPrimary = t, !.w.nextSecondary = t]
  BY DEF SecondaryAttack
<1>. HIDE DEF t
<1>3. d \in WeaponData /\ d.clip = h.w.clip
  BY <1>1 DEF WeaponData
<1>4. r = [h EXCEPT !.w = d]
  BY <1>1, <1>2 DEF Hand
<1>. HIDE DEF d, r
<1>5. r \in Hand /\ r.w = d /\ r.count = h.count /\ r.ammo = h.ammo
  BY <1>1, <1>3, <1>4 DEF Hand
<1>6. Result(w, h, r)
  BY <1>1, <1>3, <1>5 DEF Result, Fits, Moves, Spent
<1>. QED  BY <1>6 DEF r

LEMMA SecondaryAttackAlike ==
  ASSUME NEW h \in Hand, NEW g \in Hand, Alike(h, g)
  PROVE  Alike(SecondaryAttack(h), SecondaryAttack(g))
BY DEF SecondaryAttack, Alike, Hand
-----------------------------------------------------------------------------
(***************************************************************************)
(* No button.                                                              *)
(***************************************************************************)
LEMMA WeaponIdleMoves ==
  ASSUME NEW w \in Weapon, NEW h, Fits(w, h)
  PROVE  /\ Fits(w, WeaponIdle(w, h)) /\ Moves(h, WeaponIdle(w, h))
         /\ w \notin Shells => WeaponIdle(w, h) = h
<1> DEFINE r == WeaponIdle(w, h)
           t == delay["close"]
<1>1. /\ h \in Hand /\ h.w.clip \in 0 .. maxClip[w] /\ h.count \in Nat
      /\ h.w \in WeaponData /\ t \in Timer /\ 0 \in 0 .. 2 /\ h.w.idle \in Timer
  BY HandFields, Constants DEF Fits, Timer, Delays
<1>2. Moves(h, h)
  BY <1>1 DEF Moves
<1>3. /\ \/ r = h \/ r = ShellReload(w, h)
         \/ r = [h EXCEPT !.w.special = 0, !.w.idle = t]
      /\ w \notin Shells => r = h
  BY <1>1 DEF WeaponIdle, Timer
<1>4. CASE r = h \/ r = ShellReload(w, h)
  BY <1>2, <1>3, <1>4, ShellReloadMoves
<1>5. CASE r = [h EXCEPT !.w.special = 0, !.w.idle = t]
  <2> DEFINE d == [h.w EXCEPT !.special = 0, !.idle = t]
  <2>. HIDE DEF r, t
  <2>1. d \in WeaponData /\ d.clip = h.w.clip
    BY <1>1, PacedData
  <2>2. r = [h EXCEPT !.w = d]
    BY <1>1, <1>5 DEF Hand
  <2>. HIDE DEF d
  <2>3. r \in Hand /\ r.w = d /\ r.count = h.count
    BY <1>1, <2>1, <2>2 DEF Hand
  <2>4. Fits(w, r) /\ Moves(h, r)
    BY <1>1, <2>1, <2>3 DEF Fits, Moves
  <2>. QED  BY <1>3, <2>4 DEF r
<1>. QED  BY <1>3, <1>4, <1>5

LEMMA WeaponIdleAlike ==
  ASSUME NEW w \in Weapon, NEW h \in Hand, NEW g \in Hand, Alike(h, g)
  PROVE  Alike(WeaponIdle(w, h), WeaponIdle(w, g))
<1>0. h.w = g.w /\ h.nextAttack = g.nextAttack /\ h.count = g.count
  BY DEF Alike
<1>1. Alike(ShellReload(w, h), ShellReload(w, g))
  BY ShellReloadAlike
<1>2. Alike([h EXCEPT !.w.special = 0, !.w.idle = delay["close"]],
            [g EXCEPT !.w.special = 0, !.w.idle = delay["close"]])
  BY <1>0 DEF Alike, Hand
<1>3. h.w.idle \in Timer
  BY HandFields
<1>4. CASE w \notin Shells \/ h.w.idle >= 0
  <2>1. WeaponIdle(w, h) = h /\ WeaponIdle(w, g) = g
    BY <1>0, <1>3, <1>4 DEF WeaponIdle, Timer
  <2>. QED  BY <2>1
<1>5. CASE w \in Shells /\ ~ h.w.idle >= 0 /\ h.w.special = 0
  <2>1. /\ WeaponIdle(w, h) = IF h.w.clip = 0 /\ h.count # 0 THEN ShellReload(w, h) ELSE h
        /\ WeaponIdle(w, g) = IF h.w.clip = 0 /\ h.count # 0 THEN ShellReload(w, g) ELSE g
    BY <1>0, <1>3, <1>5 DEF WeaponIdle, Timer
  <2>. QED  BY <1>1, <2>1
<1>6. CASE w \in Shells /\ ~ h.w.idle >= 0 /\ h.w.special # 0
  <2> DEFINE more == h.w.clip # maxClip[w] /\ h.count # 0
  <2>1. WeaponIdle(w, h) = IF more THEN ShellReload(w, h)
                           ELSE [h EXCEPT !.w.special = 0, !.w.idle = delay["close"]]
    BY <1>3, <1>6 DEF WeaponIdle, Timer
  <2>2. WeaponIdle(w, g) = IF more THEN ShellReload(w, g)
                           ELSE [g EXCEPT !.w.special = 0, !.w.idle = delay["close"]]
    BY <1>0, <1>3, <1>6 DEF WeaponIdle, Timer
  <2>. HIDE DEF more
  <2>. QED  BY <1>1, <1>2, <2>1, <2>2
<1>. QED  BY <1>4, <1>5, <1>6

\* The trigger is released.
LetGo(h) == [h EXCEPT !.fireOnEmpty = FALSE, !.w.fired = FALSE]

LEMMA LetGoMoves ==
  ASSUME NEW w \in Weapon, NEW h, Fits(w, h)
  PROVE  Fits(w, LetGo(h)) /\ Moves(h, LetGo(h)) /\ LetGo(h).ammo = h.ammo
<1> DEFINE r == LetGo(h)
           d == [h.w EXCEPT !.fired = FALSE]
<1>1. /\ h \in Hand /\ h.w.clip \in 0 .. maxClip[w] /\ h.count \in Nat /\ h.w \in WeaponData
  BY HandFields DEF Fits
<1>2. d \in WeaponData /\ d.clip = h.w.clip
  BY <1>1 DEF WeaponData
<1>3. r = [h EXCEPT !.fireOnEmpty = FALSE, !.w = d]
  BY DEF LetGo
<1>. HIDE DEF d, r
<1>4. r \in Hand /\ r.w = d /\ r.count = h.count /\ r.ammo = h.ammo
  BY <1>1, <1>2, <1>3 DEF Hand
<1>5. Fits(w, r) /\ Moves(h, r) /\ r.ammo = h.ammo
  BY <1>1, <1>2, <1>4 DEF Fits, Moves
<1>. QED  BY <1>5 DEF r

LEMMA LetGoAlike ==
  ASSUME NEW h \in Hand, NEW g \in Hand, Alike(h, g)
  PROVE  Alike(LetGo(h), LetGo(g))
BY DEF LetGo, Alike, Hand

LEMMA ReleasedByLetGo ==
  ASSUME NEW w, NEW h
  PROVE  Released(w, h) = IF h.w.clip = 0 /\ h.w.nextPrimary < 0 THEN Reload(w, LetGo(h))
                          ELSE WeaponIdle(w, LetGo(h))
BY DEF Released, LetGo

LEMMA ReleasedMoves ==
  ASSUME NEW w \in Weapon, NEW h, Fits(w, h)
  PROVE  /\ Fits(w, Released(w, h)) /\ Moves(h, Released(w, h))
         /\ w \notin Shells => Released(w, h).ammo = h.ammo
<1> DEFINE g == LetGo(h)
           r == Released(w, h)
<1>1. Fits(w, g) /\ Moves(h, g) /\ g.ammo = h.ammo
  BY LetGoMoves
<1>2. r = Reload(w, g) \/ r = WeaponIdle(w, g)
  BY ReleasedByLetGo
<1>. HIDE DEF g, r
<1>3. /\ Fits(w, r) /\ Moves(g, r)
      /\ w \notin Shells => r.ammo = g.ammo
  BY <1>1, <1>2, ReloadMoves, WeaponIdleMoves
<1>4. h \in Hand /\ g \in Hand /\ r \in Hand
  BY <1>1, <1>3 DEF Fits
<1>5. Moves(h, r)
  BY <1>1, <1>3, <1>4, MovesTwice
<1>. QED  BY <1>1, <1>3, <1>5 DEF r

LEMMA ReleasedAlike ==
  ASSUME NEW w \in Weapon, NEW h, NEW g, Fits(w, h), Fits(w, g), Alike(h, g),
         Stocked(w, h), Stocked(w, g)
  PROVE  Alike(Released(w, h), Released(w, g))
<1>0. h \in Hand /\ g \in Hand /\ h.w = g.w
  BY DEF Fits, Alike
<1> DEFINE a == LetGo(h)
           b == LetGo(g)
<1>1. Alike(a, b)
  BY <1>0, LetGoAlike
<1>2. /\ a \in Hand /\ b \in Hand /\ a.count <= h.count /\ b.count <= g.count
      /\ a.ammo = h.ammo /\ b.ammo = g.ammo
  BY LetGoMoves DEF Fits, Moves
<1>3. Stocked(w, a) /\ Stocked(w, b)
  <2>. HIDE DEF a, b
  <2>. QED  BY <1>0, <1>2, HandFields DEF Stocked
<1>4. Alike(Reload(w, a), Reload(w, b)) /\ Alike(WeaponIdle(w, a), WeaponIdle(w, b))
  BY <1>1, <1>2, <1>3, ReloadAlike, WeaponIdleAlike
<1> DEFINE bare == h.w.clip = 0 /\ h.w.nextPrimary < 0
<1>5. /\ Released(w, h) = IF bare THEN Reload(w, a) ELSE WeaponIdle(w, a)
      /\ Released(w, g) = IF bare THEN Reload(w, b) ELSE WeaponIdle(w, b)
  BY <1>0, ReleasedByLetGo
<1>. HIDE DEF a, b, bare
<1>. QED  BY <1>4, <1>5
-----------------------------------------------------------------------------
(***************************************************************************)
(* ItemPostFrame(), in its parts: a reload that is through first, then     *)
(* what the buttons ask for.                                               *)
(***************************************************************************)
Due(w, h) == IF h.w.inReload THEN Reloaded(w, h) ELSE h

Pulled(h) == [h EXCEPT !.fireOnEmpty = @ \/ h.w.clip = 0]

Asked(w, r, held) ==
  IF "attack2" \in held /\ r.w.nextSecondary <= 0 THEN SecondaryAttack(r)
  ELSE IF "attack" \in held /\ r.w.nextPrimary <= 0 THEN PrimaryAttack(w, Pulled(r))
  ELSE IF "reload" \in held /\ ~ r.w.inReload
       THEN IF r.w.nextPrimary < 0 THEN Reload(w, r) ELSE r
  ELSE IF held \cap {"attack", "attack2"} = {} THEN Released(w, r) ELSE r

Held(w, buttons) == IF w \in Silencer THEN buttons ELSE buttons \ {"attack2"}

LEMMA ItemPostFrameParts ==
  ASSUME NEW w, NEW h, NEW buttons
  PROVE  ItemPostFrame(w, h, buttons) = Asked(w, Due(w, h), Held(w, buttons))
<1> DEFINE r == IF h.w.inReload THEN Reloaded(w, h) ELSE h
           held == IF w \in Silencer THEN buttons ELSE buttons \ {"attack2"}
           attack2 == "attack2" \in held /\ r.w.nextSecondary <= 0
           attack == "attack" \in held /\ r.w.nextPrimary <= 0
           reload == "reload" \in held /\ ~ r.w.inReload
           secondary == SecondaryAttack(r)
           primary == PrimaryAttack(w, [r EXCEPT !.fireOnEmpty = @ \/ r.w.clip = 0])
           reloaded == IF r.w.nextPrimary < 0 THEN Reload(w, r) ELSE r
           idle == IF held \cap {"attack", "attack2"} = {} THEN Released(w, r) ELSE r
<1>1. ItemPostFrame(w, h, buttons)
        = CASE attack2 -> secondary
            [] ~ attack2 /\ attack -> primary
            [] ~ attack2 /\ ~ attack /\ reload -> reloaded
            [] ~ attack2 /\ ~ attack /\ ~ reload -> idle
  BY Zenon DEF ItemPostFrame
<1>2. Asked(w, Due(w, h), Held(w, buttons))
        = IF attack2 THEN secondary ELSE IF attack THEN primary
          ELSE IF reload THEN reloaded ELSE idle
  BY Zenon DEF Asked, Due, Held, Pulled
<1>. HIDE DEF attack2, attack, reload, secondary, primary, reloaded, idle
<1>. QED  BY <1>1, <1>2

LEMMA DueMoves ==
  ASSUME NEW w \in Weapon, NEW h, Fits(w, h)
  PROVE  Fits(w, Due(w, h)) /\ Moves(h, Due(w, h)) /\ Due(w, h).ammo = h.ammo
<1>1. Moves(h, h)
  BY HandFields DEF Fits, Moves
<1>. QED  BY <1>1, ReloadedMoves DEF Due

LEMMA DueAlike ==
  ASSUME NEW w \in Weapon, NEW h \in Hand, NEW g \in Hand, Alike(h, g)
  PROVE  Alike(Due(w, h), Due(w, g))
<1>1. h.w.inReload = g.w.inReload
  BY DEF Alike
<1>. QED  BY <1>1, ReloadedAlike DEF Due

LEMMA PulledMoves ==
  ASSUME NEW w \in Weapon, NEW h, Fits(w, h)
  PROVE  /\ Fits(w, Pulled(h)) /\ Moves(h, Pulled(h)) /\ Pulled(h).ammo = h.ammo
         /\ Pulled(h).w = h.w /\ Pulled(h).count = h.count
         /\ Pulled(h).nextAttack = h.nextAttack
         /\ h.w.clip <= 0 => Pulled(h).fireOnEmpty
<1> DEFINE b == h.fireOnEmpty \/ h.w.clip = 0
           r == Pulled(h)
<1>1. /\ h \in Hand /\ h.w.clip \in 0 .. maxClip[w] /\ h.count \in Nat /\ b \in BOOLEAN
  BY HandFields DEF Fits
<1>2. h.w.clip <= 0 => b
  BY <1>1, Constants
<1>3. r = [h EXCEPT !.fireOnEmpty = b]
  BY Zenon DEF Pulled
<1>. HIDE DEF b, r
<1>4. /\ r \in Hand /\ r.w = h.w /\ r.count = h.count /\ r.ammo = h.ammo
      /\ r.nextAttack = h.nextAttack /\ r.fireOnEmpty = b
  BY <1>1, <1>3 DEF Hand
<1>5. Fits(w, r) /\ Moves(h, r)
  BY <1>1, <1>4 DEF Fits, Moves
<1>. QED  BY <1>2, <1>4, <1>5 DEF r

LEMMA AskedMoves ==
  ASSUME NEW w \in Weapon, NEW h, Fits(w, h), NEW held
  PROVE  Result(w, h, Asked(w, h, held))
<1> DEFINE p == Pulled(h)
<1>1. Result(w, h, SecondaryAttack(h))
  BY SecondaryAttackMoves
<1>2. Result(w, h, PrimaryAttack(w, p))
  <2>1. Fits(w, p) /\ Moves(h, p) /\ p.ammo = h.ammo
    BY PulledMoves
  <2>. HIDE DEF p
  <2> DEFINE r == PrimaryAttack(w, p)
  <2>2. Result(w, p, r)
    BY <2>1, PrimaryAttackMoves
  <2>. HIDE DEF r
  <2>3. Moves(h, r)
    BY <2>1, <2>2, MovesTwice DEF Result, Fits
  <2>4. Result(w, h, r)
    BY <2>1, <2>2, <2>3 DEF Result
  <2>. QED  BY <2>4 DEF r
<1>3. h.ammo \in Int /\ Spent(w) \in {0, 1} /\ Moves(h, h)
  BY HandFields DEF Fits, Spent, Moves
<1>4. Result(w, h, h)
  BY <1>3 DEF Result
<1>5. Result(w, h, Reload(w, h)) /\ Result(w, h, Released(w, h))
  BY <1>3, ReloadMoves, ReleasedMoves DEF Result
<1>. QED  BY <1>1, <1>2, <1>4, <1>5, Zenon DEF Asked

LEMMA AskedAlike ==
  ASSUME NEW w \in Weapon, NEW h, NEW g, Fits(w, h), Fits(w, g), Alike(h, g),
         Stocked(w, h), Stocked(w, g), NEW held
  PROVE  Alike(Asked(w, h, held), Asked(w, g, held))
<1>0. h \in Hand /\ g \in Hand /\ h.w = g.w
  BY DEF Fits, Alike
<1> DEFINE p == Pulled(h)
           q == Pulled(g)
<1>1. Alike(SecondaryAttack(h), SecondaryAttack(g))
  BY <1>0, SecondaryAttackAlike
<1>2. Alike(PrimaryAttack(w, p), PrimaryAttack(w, q))
  <2>1. /\ p \in Hand /\ q \in Hand /\ Alike(p, q)
        /\ p.w.clip <= 0 => p.fireOnEmpty /\ q.fireOnEmpty
    BY <1>0, PulledMoves DEF Alike, Fits
  <2>. HIDE DEF p, q
  <2>. QED  BY <2>1, PrimaryAttackAlike
<1>3. Alike(Reload(w, h), Reload(w, g)) /\ Alike(Released(w, h), Released(w, g))
  BY <1>0, ReloadAlike, ReleasedAlike
<1> DEFINE attack2 == "attack2" \in held /\ h.w.nextSecondary <= 0
           attack == "attack" \in held /\ h.w.nextPrimary <= 0
           reload == "reload" \in held /\ ~ h.w.inReload
           ready == h.w.nextPrimary < 0
           none == held \cap {"attack", "attack2"} = {}
<1>4. Asked(w, h, held) = IF attack2 THEN SecondaryAttack(h)
                          ELSE IF attack THEN PrimaryAttack(w, p)
                          ELSE IF reload THEN IF ready THEN Reload(w, h) ELSE h
                          ELSE IF none THEN Released(w, h) ELSE h
  BY Zenon DEF Asked
<1>5. Asked(w, g, held) = IF attack2 THEN SecondaryAttack(g)
                          ELSE IF attack THEN PrimaryAttack(w, q)
                          ELSE IF reload THEN IF ready THEN Reload(w, g) ELSE g
                          ELSE IF none THEN Released(w, g) ELSE g
  BY <1>0, Zenon DEF Asked
<1>. HIDE DEF attack2, attack, reload, ready, none, p, q
<1>. QED  BY <1>1, <1>2, <1>3, <1>4, <1>5

LEMMA ItemPostFrameMoves ==
  ASSUME NEW w \in Weapon, NEW h, Fits(w, h), NEW buttons
  PROVE  Result(w, h, ItemPostFrame(w, h, buttons))
<1> DEFINE g == Due(w, h)
           r == Asked(w, g, Held(w, buttons))
<1>1. Fits(w, g) /\ Moves(h, g) /\ g.ammo = h.ammo
  BY DueMoves
<1>. HIDE DEF g
<1>2. Result(w, g, r)
  BY <1>1, AskedMoves
<1>3. ItemPostFrame(w, h, buttons) = r
  BY ItemPostFrameParts DEF g
<1>. HIDE DEF r
<1>4. Moves(h, r)
  BY <1>1, <1>2, MovesTwice DEF Fits, Result
<1>. QED  BY <1>1, <1>2, <1>3, <1>4 DEF Result

LEMMA ItemPostFrameAlike ==
  ASSUME NEW w \in Weapon, NEW h, NEW g, Fits(w, h), Fits(w, g), Alike(h, g),
         Stocked(w, h), Stocked(w, g), NEW buttons
  PROVE  Alike(ItemPostFrame(w, h, buttons), ItemPostFrame(w, g, buttons))
<1> DEFINE a == Due(w, h)
           b == Due(w, g)
<1>1. h \in Hand /\ g \in Hand
  BY DEF Fits
<1>2. Alike(a, b) /\ Fits(w, a) /\ Fits(w, b)
  BY <1>1, DueMoves, DueAlike
<1>3. Stocked(w, a) /\ Stocked(w, b)
  <2>1. /\ a.count <= h.count /\ a.ammo = h.ammo /\ a \in Hand
        /\ b.count <= g.count /\ b.ammo = g.ammo /\ b \in Hand
    BY DueMoves DEF Moves, Fits
  <2>. HIDE DEF a, b
  <2>. QED  BY <1>1, <2>1, HandFields DEF Stocked
<1>4. /\ ItemPostFrame(w, h, buttons) = Asked(w, a, Held(w, buttons))
      /\ ItemPostFrame(w, g, buttons) = Asked(w, b, Held(w, buttons))
  BY ItemPostFrameParts
<1>. HIDE DEF a, b
<1>. QED  BY <1>2, <1>3, <1>4, AskedAlike
-----------------------------------------------------------------------------
(***************************************************************************)
(* A state of the client or the server.  Sound: every clip holds what it   *)
(* can, nothing is overdrawn, only the weapon in hand is reloading.  Own:  *)
(* it counts the ammunition of its own weapon, as the server's do.         *)
(***************************************************************************)
Sound(c) == /\ c \in Client /\ c.count >= 0
            /\ \A v \in Weapon : /\ c.wpn[v].clip \in 0 .. maxClip[v]
                                 /\ c.wpn[v].inReload => c.id = v

Own(c) == /\ c.type = ammoType[c.id] /\ c.count = c.ammo[c.type]
          /\ \A t \in AmmoType : c.ammo[t] >= 0

LEMMA LessIsTimer ==
  ASSUME NEW t \in Timer
  PROVE  Less(t) \in Timer
BY DEF Less, Timer

LEMMA ElapsedData ==
  ASSUME NEW d \in WeaponData
  PROVE  /\ Elapsed(d) \in WeaponData /\ Elapsed(d).clip = d.clip
         /\ Elapsed(d).inReload = d.inReload
<1> DEFINE x == Less(d.nextPrimary)
           y == Less(d.nextSecondary)
           z == Less(d.idle)
<1>1. x \in Timer /\ y \in Timer /\ z \in Timer
  BY LessIsTimer DEF WeaponData
<1>2. Elapsed(d) = [d EXCEPT !.nextPrimary = x, !.nextSecondary = y, !.idle = z]
  BY DEF Elapsed
<1>. HIDE DEF x, y, z
<1>. QED  BY <1>1, <1>2 DEF WeaponData

LEMMA HolsterData ==
  ASSUME NEW d \in WeaponData
  PROVE  /\ Holster(d) \in WeaponData /\ Holster(d).clip = d.clip
         /\ ~ Holster(d).inReload
BY DEF Holster, WeaponData

LEMMA DeployData ==
  ASSUME NEW d \in WeaponData
  PROVE  /\ Deploy(d) \in WeaponData /\ Deploy(d).clip = d.clip
         /\ Deploy(d).inReload = d.inReload
<1> DEFINE t == 2 * delay["draw"]
<1>1. t \in Timer
  BY Constants DEF Timer, Delays
<1>2. Deploy(d) = [d EXCEPT !.idle = t]
  BY DEF Deploy
<1>. HIDE DEF t
<1>. QED  BY <1>1, <1>2 DEF WeaponData
-----------------------------------------------------------------------------
(***************************************************************************)
(* HUD_WeaponsPostThink(), in its parts.                                   *)
(***************************************************************************)
HandOf(c, s) == [w |-> c.wpn[c.id], fireOnEmpty |-> s[c.id], nextAttack |-> c.nextAttack,
                 count |-> c.count, ammo |-> c.ammo[ammoType[c.id]]]

Ran(c, s, cmd) == IF c.nextAttack <= 0 THEN ItemPostFrame(c.id, HandOf(c, s), cmd.buttons)
                  ELSE HandOf(c, s)

Switches(c, cmd) == cmd.select \notin {{}, {c.id}} /\ cmd.select \subseteq c.has

Drawn(cmd) == CHOOSE v \in cmd.select : TRUE

\* The data of the weapons, before a tick elapses.
Carried(c, d, cmd) ==
  [v \in Weapon |->
     CASE v = c.id -> IF Switches(c, cmd) THEN Holster(d) ELSE d
       [] v # c.id /\ Switches(c, cmd) /\ v \in cmd.select -> Deploy(c.wpn[v])
       [] v # c.id /\ ~ (Switches(c, cmd) /\ v \in cmd.select) -> c.wpn[v]]

LEMMA ClientFields ==
  ASSUME NEW c \in Client
  PROVE  /\ c.has \in SUBSET Weapon /\ c.id \in Weapon /\ c.nextAttack \in Timer
         /\ c.type \in AmmoType /\ c.count \in Int /\ c.ammo \in [AmmoType -> Int]
         /\ c.wpn \in [Weapon -> WeaponData]
         /\ ammoType[c.id] \in AmmoType /\ c.ammo[ammoType[c.id]] \in Int
         /\ \A v \in Weapon : c.wpn[v] \in WeaponData
BY WeaponAssumption DEF Client

LEMMA HandOfFits ==
  ASSUME NEW c, Sound(c), NEW s \in [Weapon -> BOOLEAN]
  PROVE  /\ Fits(c.id, HandOf(c, s))
         /\ HandOf(c, s).w = c.wpn[c.id] /\ HandOf(c, s).count = c.count
         /\ HandOf(c, s).nextAttack = c.nextAttack
         /\ HandOf(c, s).ammo = c.ammo[ammoType[c.id]]
<1>1. c \in Client /\ c.count >= 0
  BY DEF Sound
<1>2. c.id \in Weapon /\ c.wpn[c.id].clip \in 0 .. maxClip[c.id]
  BY <1>1, ClientFields DEF Sound
<1>3. s[c.id] \in BOOLEAN
  BY <1>2
<1>4. HandOf(c, s) \in Hand
  BY <1>1, <1>2, <1>3, ClientFields DEF HandOf, Hand
<1>5. /\ HandOf(c, s).w = c.wpn[c.id] /\ HandOf(c, s).count = c.count
      /\ HandOf(c, s).nextAttack = c.nextAttack
      /\ HandOf(c, s).ammo = c.ammo[ammoType[c.id]]
  BY DEF HandOf
<1>. QED  BY <1>1, <1>2, <1>4, <1>5 DEF Fits

LEMMA RanMoves ==
  ASSUME NEW c, Sound(c), NEW s \in [Weapon -> BOOLEAN], NEW cmd
  PROVE  Result(c.id, HandOf(c, s), Ran(c, s, cmd))
<1> DEFINE h == HandOf(c, s)
<1>1. c.id \in Weapon /\ Fits(c.id, h)
  BY HandOfFits, ClientFields DEF Sound
<1>. HIDE DEF h
<1>2. Result(c.id, h, ItemPostFrame(c.id, h, cmd.buttons))
  BY <1>1, ItemPostFrameMoves
<1>3. h.ammo \in Int /\ Spent(c.id) \in {0, 1} /\ Moves(h, h)
  BY <1>1, HandFields DEF Fits, Spent, Moves
<1>4. Result(c.id, h, h)
  BY <1>1, <1>3 DEF Result
<1>. QED  BY <1>2, <1>4 DEF Ran, h

LEMMA DrawnWeapon ==
  ASSUME NEW c, NEW cmd \in Command, Switches(c, cmd)
  PROVE  Drawn(cmd) \in Weapon /\ cmd.select = {Drawn(cmd)} /\ Drawn(cmd) # c.id
<1>1. PICK v \in Weapon : cmd.select = {v}
  BY DEF Switches, Command
<1>2. Drawn(cmd) = v
  BY <1>1 DEF Drawn
<1>. QED  BY <1>1, <1>2 DEF Switches

LEMMA CarriedData ==
  ASSUME NEW c, Sound(c), NEW d \in WeaponData, NEW cmd \in Command, NEW v \in Weapon
  PROVE  /\ Elapsed(Carried(c, d, cmd)[v]) \in WeaponData
         /\ Elapsed(Carried(c, d, cmd)[v]).clip = IF v = c.id THEN d.clip
                                                 ELSE c.wpn[v].clip
         /\ Elapsed(Carried(c, d, cmd)[v]).inReload => v = c.id /\ ~ Switches(c, cmd)
<1> DEFINE e == Carried(c, d, cmd)[v]
           sw == Switches(c, cmd)
           drawn == sw /\ v \in cmd.select
<1>1. c.wpn[v] \in WeaponData /\ (c.wpn[v].inReload => c.id = v)
  BY ClientFields DEF Sound
<1>2. /\ v = c.id => e = IF sw THEN Holster(d) ELSE d
      /\ v # c.id /\ drawn => e = Deploy(c.wpn[v])
      /\ v # c.id /\ ~ drawn => e = c.wpn[v]
  BY DEF Carried
<1>. HIDE DEF e, drawn, sw
<1>3. CASE v = c.id
  <2>1. /\ e \in WeaponData /\ e.clip = d.clip
        /\ sw => ~ e.inReload
    BY <1>2, <1>3, HolsterData
  <2>. QED  BY <1>3, <2>1, ElapsedData DEF e, sw
<1>4. CASE v # c.id
  <2>1. e \in WeaponData /\ e.clip = c.wpn[v].clip /\ ~ e.inReload
    BY <1>1, <1>2, <1>4, DeployData
  <2>. QED  BY <1>4, <2>1, ElapsedData DEF e
<1>. QED  BY <1>3, <1>4

\* The state after a command, field by field: r is the hand, t the state.
Becomes(c, cmd, r, t) ==
  /\ t \in Client /\ t.has = c.has /\ t.type = c.type /\ t.count = r.count
  /\ t.id = IF Switches(c, cmd) THEN Drawn(cmd) ELSE c.id
  /\ t.nextAttack = Less(IF Switches(c, cmd) THEN delay["draw"] ELSE r.nextAttack)
  /\ \A v \in Weapon : t.wpn[v] = Elapsed(Carried(c, r.w, cmd)[v])
  /\ t.ammo = [c.ammo EXCEPT ![ammoType[c.id]] = r.ammo]

LEMMA PostThinkFields ==
  ASSUME NEW c, Sound(c), NEW s \in [Weapon -> BOOLEAN], NEW cmd \in Command
  PROVE  /\ Becomes(c, cmd, Ran(c, s, cmd), HUD_WeaponsPostThink(c, s, cmd).to)
         /\ HUD_WeaponsPostThink(c, s, cmd).statics \in [Weapon -> BOOLEAN]
<1> DEFINE r == Ran(c, s, cmd)
           t == HUD_WeaponsPostThink(c, s, cmd).to
           id == IF Switches(c, cmd) THEN Drawn(cmd) ELSE c.id
           next == Less(IF Switches(c, cmd) THEN delay["draw"] ELSE r.nextAttack)
           wpn == [v \in Weapon |-> Elapsed(Carried(c, r.w, cmd)[v])]
           ammo == [c.ammo EXCEPT ![ammoType[c.id]] = r.ammo]
<1>1. c \in Client
  BY DEF Sound
<1>2. r \in Hand
  <2>1. Result(c.id, HandOf(c, s), r)
    BY RanMoves
  <2>. HIDE DEF r
  <2>. QED  BY <2>1 DEF Result, Fits
<1>3. /\ t = [c EXCEPT !.id = id, !.nextAttack = next, !.count = r.count,
                       !.ammo[ammoType[c.id]] = r.ammo, !.wpn = wpn]
      /\ HUD_WeaponsPostThink(c, s, cmd).statics = [s EXCEPT ![c.id] = r.fireOnEmpty]
  BY Zenon DEF HUD_WeaponsPostThink, Ran, HandOf, Switches, Drawn, Carried
<1>. HIDE DEF r
<1>4. id \in Weapon
  BY <1>1, DrawnWeapon, ClientFields
<1>5. next \in Timer
  <2>1. delay["draw"] \in Timer /\ r.nextAttack \in Timer
    BY <1>2, HandFields, Constants DEF Timer, Delays
  <2>2. (IF Switches(c, cmd) THEN delay["draw"] ELSE r.nextAttack) \in Timer
    BY <2>1
  <2>. QED  BY <2>2, LessIsTimer
<1>6. wpn \in [Weapon -> WeaponData]
  BY <1>2, HandFields, CarriedData
<1>7. ammo \in [AmmoType -> Int] /\ r.count \in Int /\ r.fireOnEmpty \in BOOLEAN
  BY <1>1, <1>2, HandFields, ClientFields
<1>. HIDE DEF id, next, wpn, t
<1>8. t = [c EXCEPT !.id = id, !.nextAttack = next, !.count = r.count, !.ammo = ammo,
                    !.wpn = wpn]
  BY <1>1, <1>3 DEF Client
<1>. HIDE DEF ammo
<1>9. /\ t \in Client /\ t.has = c.has /\ t.type = c.type /\ t.count = r.count
      /\ t.id = id /\ t.nextAttack = next /\ t.wpn = wpn /\ t.ammo = ammo
  BY <1>1, <1>4, <1>5, <1>6, <1>7, <1>8 DEF Client
<1>11. \A v \in Weapon : t.wpn[v] = Elapsed(Carried(c, r.w, cmd)[v])
  BY <1>9 DEF wpn
<1>10. HUD_WeaponsPostThink(c, s, cmd).statics \in [Weapon -> BOOLEAN]
  BY <1>1, <1>3, <1>7, ClientFields
<1>. QED  BY <1>9, <1>10, <1>11 DEF Becomes, t, id, next, ammo, r

\* A command keeps a state sound; its rounds only leave or move.
LEMMA PostThinkSound ==
  ASSUME NEW c, Sound(c), NEW s \in [Weapon -> BOOLEAN], NEW cmd \in Command
  PROVE  LET t == HUD_WeaponsPostThink(c, s, cmd).to
         IN  /\ Sound(t)
             /\ t.wpn[c.id].clip + t.count <= c.wpn[c.id].clip + c.count
             /\ \A v \in Weapon : v # c.id => t.wpn[v].clip = c.wpn[v].clip
<1> DEFINE h == HandOf(c, s)
           r == Ran(c, s, cmd)
           t == HUD_WeaponsPostThink(c, s, cmd).to
<1>1. /\ t \in Client /\ t.count = r.count
      /\ t.id = IF Switches(c, cmd) THEN Drawn(cmd) ELSE c.id
      /\ \A v \in Weapon : t.wpn[v] = Elapsed(Carried(c, r.w, cmd)[v])
  <2>1. Becomes(c, cmd, r, t)
    BY PostThinkFields
  <2>. HIDE DEF r, t
  <2>. QED  BY <2>1 DEF Becomes
<1>2. Result(c.id, h, r) /\ h.w = c.wpn[c.id] /\ h.count = c.count
  BY HandOfFits, RanMoves
<1>. HIDE DEF h, r, t
<1>3. /\ r.w \in WeaponData /\ r.w.clip \in 0 .. maxClip[c.id] /\ r.count >= 0
      /\ r.w.clip + r.count <= c.wpn[c.id].clip + c.count
  BY <1>2, HandFields DEF Result, Fits, Moves
<1>4. \A v \in Weapon :
        /\ t.wpn[v].clip = IF v = c.id THEN r.w.clip ELSE c.wpn[v].clip
        /\ t.wpn[v].inReload => v = c.id /\ ~ Switches(c, cmd)
  <2>. SUFFICES ASSUME NEW v \in Weapon
                PROVE  /\ t.wpn[v].clip = IF v = c.id THEN r.w.clip ELSE c.wpn[v].clip
                       /\ t.wpn[v].inReload => v = c.id /\ ~ Switches(c, cmd)
    OBVIOUS
  <2> DEFINE d == r.w
             e == Elapsed(Carried(c, d, cmd)[v])
  <2>1. t.wpn[v] = e
    BY <1>1
  <2>2. d \in WeaponData
    BY <1>3
  <2>. HIDE DEF d
  <2>3. /\ e.clip = IF v = c.id THEN d.clip ELSE c.wpn[v].clip
        /\ e.inReload => v = c.id /\ ~ Switches(c, cmd)
    BY <2>2, CarriedData
  <2>. HIDE DEF e
  <2>. QED  BY <2>1, <2>3 DEF d
<1>5. c.id \in Weapon /\ \A v \in Weapon : c.wpn[v].clip \in 0 .. maxClip[v]
  BY ClientFields DEF Sound
<1>6. Sound(t)
  BY <1>1, <1>3, <1>4, <1>5 DEF Sound
<1>7. /\ t.wpn[c.id].clip + t.count <= c.wpn[c.id].clip + c.count
      /\ \A v \in Weapon : v # c.id => t.wpn[v].clip = c.wpn[v].clip
  BY <1>1, <1>3, <1>4, <1>5
<1>. QED  BY <1>6, <1>7 DEF t
-----------------------------------------------------------------------------
(***************************************************************************)
(* The server's answer.                                                    *)
(***************************************************************************)
Off == [w \in Weapon |-> FALSE]

LEMMA ServedFields ==
  ASSUME NEW c, Sound(c), Own(c), NEW cmd \in Command
  PROVE  LET r == HUD_WeaponsPostThink(c, Off, cmd).to
             t == Served(c, cmd)
         IN  /\ Sound(t) /\ Own(t)
             /\ t.has = r.has /\ t.id = r.id /\ t.nextAttack = r.nextAttack /\ t.wpn = r.wpn
             /\ r.id = c.id => t.type = c.type /\ t.count = r.count
<1> DEFINE r == HUD_WeaponsPostThink(c, Off, cmd).to
           g == [r EXCEPT !.ammo[c.type] = r.count]
           t == Served(c, cmd)
<1>0. Off \in [Weapon -> BOOLEAN]
  BY DEF Off
<1>1. /\ Sound(r) /\ r \in Client
      /\ r.ammo = [c.ammo EXCEPT ![ammoType[c.id]] = Ran(c, Off, cmd).ammo]
  <2>1. Sound(r) /\ Becomes(c, cmd, Ran(c, Off, cmd), r)
    BY <1>0, PostThinkSound, PostThinkFields
  <2>. HIDE DEF r
  <2>. QED  BY <2>1 DEF Becomes
<1>2. t = InHand(g)
  BY DEF Served, Off
<1>3. c \in Client /\ c.type = ammoType[c.id] /\ \A x \in AmmoType : c.ammo[x] >= 0
  BY DEF Sound, Own
<1>4. c.type \in AmmoType /\ c.ammo \in [AmmoType -> Int]
  BY <1>3, ClientFields
<1>. HIDE DEF r
<1>5. r.count \in Int /\ r.count >= 0 /\ r.ammo \in [AmmoType -> Int]
  BY <1>1, ClientFields DEF Sound
<1> DEFINE ammo == [r.ammo EXCEPT ![c.type] = r.count]
<1>6. /\ ammo \in [AmmoType -> Int] /\ ammo[c.type] = r.count
      /\ \A x \in AmmoType : ammo[x] >= 0
  BY <1>1, <1>3, <1>4, <1>5
<1>7. g = [r EXCEPT !.ammo = ammo]
  OBVIOUS
<1>. HIDE DEF g, ammo
<1>8. /\ g \in Client /\ g.ammo = ammo /\ g.has = r.has /\ g.id = r.id /\ g.wpn = r.wpn
      /\ g.nextAttack = r.nextAttack
  BY <1>1, <1>6, <1>7 DEF Client
<1> DEFINE own == ammoType[r.id]
           count == ammo[own]
<1>9. own \in AmmoType /\ count \in Int /\ count >= 0
  BY <1>1, <1>6, ClientFields
<1>10. t = [g EXCEPT !.type = own, !.count = count]
  BY <1>2, <1>8 DEF InHand
<1>. HIDE DEF own, count, t
<1>11. /\ t \in Client /\ t.ammo = ammo /\ t.has = r.has /\ t.id = r.id /\ t.wpn = r.wpn
       /\ t.nextAttack = r.nextAttack /\ t.type = own /\ t.count = count
  BY <1>8, <1>9, <1>10 DEF Client
<1>12. Sound(t)
  BY <1>1, <1>9, <1>11 DEF Sound
<1>13. Own(t)
  BY <1>6, <1>11 DEF Own, own, count
<1>14. r.id = c.id => t.type = c.type /\ t.count = r.count
  BY <1>3, <1>6, <1>11 DEF own, count
<1>. QED  BY <1>11, <1>12, <1>13, <1>14 DEF t, r
-----------------------------------------------------------------------------
(***************************************************************************)
(* One command, predicted and served.  Two states are Alike for the code   *)
(* when the weapons and the timers are the same, whatever they think of    *)
(* the ammunition.                                                         *)
(***************************************************************************)
SameWeapons(c, g) == /\ c.has = g.has /\ c.id = g.id /\ c.nextAttack = g.nextAttack
                     /\ c.wpn = g.wpn

LEMMA SameCarried ==
  ASSUME NEW c, NEW g, SameWeapons(c, g), NEW d, NEW cmd
  PROVE  /\ Switches(c, cmd) <=> Switches(g, cmd)
         /\ Carried(c, d, cmd) = Carried(g, d, cmd)
<1>1. c.has = g.has /\ c.id = g.id /\ c.wpn = g.wpn
  BY DEF SameWeapons
<1>2. Switches(c, cmd) <=> Switches(g, cmd)
  BY <1>1 DEF Switches
<1>3. Carried(c, d, cmd) = Carried(g, d, cmd)
  BY <1>1, <1>2, Zenon DEF Carried
<1>. QED  BY <1>2, <1>3

LEMMA BecomeSame ==
  ASSUME NEW c, NEW g, SameWeapons(c, g), NEW cmd,
         NEW r, NEW q, r.w = q.w, r.nextAttack = q.nextAttack,
         NEW t, NEW u, Becomes(c, cmd, r, t), Becomes(g, cmd, q, u)
  PROVE  SameWeapons(t, u)
<1>1. /\ c.has = g.has /\ c.id = g.id
      /\ Switches(c, cmd) <=> Switches(g, cmd)
      /\ Carried(c, r.w, cmd) = Carried(g, q.w, cmd)
  BY SameCarried DEF SameWeapons
<1>2. t.has = u.has
  BY <1>1 DEF Becomes
<1>3. t.id = u.id
  BY <1>1 DEF Becomes
<1>4. t.nextAttack = u.nextAttack
  BY <1>1 DEF Becomes
<1>5. t.wpn = u.wpn
  <2>1. t.wpn \in [Weapon -> WeaponData] /\ u.wpn \in [Weapon -> WeaponData]
    BY ClientFields DEF Becomes
  <2>2. \A v \in Weapon : t.wpn[v] = u.wpn[v]
    <3>. DEFINE C == Carried(c, r.w, cmd)
                D == Carried(g, q.w, cmd)
    <3>1. C = D
      BY <1>1
    <3>2. /\ \A v \in Weapon : t.wpn[v] = Elapsed(C[v])
          /\ \A v \in Weapon : u.wpn[v] = Elapsed(D[v])
      BY Zenon DEF Becomes
    <3>. HIDE DEF C, D
    <3>. QED  BY <3>1, <3>2
  <2>. QED  BY <2>1, <2>2
<1>. QED  BY <1>2, <1>3, <1>4, <1>5 DEF SameWeapons

\* The hand the client runs a command on and the one the server does.
LEMMA RunAlike ==
  ASSUME NEW c, NEW g, Sound(c), Sound(g), SameWeapons(c, g),
         NEW s \in [Weapon -> BOOLEAN], NEW z \in [Weapon -> BOOLEAN], NEW cmd,
         \/ c.nextAttack > 0
         \/ c.count = g.count /\ Stocked(c.id, HandOf(c, s)) /\ Stocked(g.id, HandOf(g, z))
  PROVE  /\ Ran(c, s, cmd).w = Ran(g, z, cmd).w
         /\ Ran(c, s, cmd).nextAttack = Ran(g, z, cmd).nextAttack
         /\ c.count = g.count => Ran(c, s, cmd).count = Ran(g, z, cmd).count
<1> DEFINE h == HandOf(c, s)
           k == HandOf(g, z)
<1>1. /\ c.id = g.id /\ c.nextAttack = g.nextAttack /\ c.nextAttack \in Timer
      /\ c.id \in Weapon
  BY ClientFields DEF SameWeapons, Sound
<1>2. /\ Fits(c.id, h) /\ Fits(c.id, k) /\ h.w = k.w /\ h.nextAttack = k.nextAttack
      /\ h.count = c.count /\ k.count = g.count
  BY <1>1, HandOfFits DEF SameWeapons
<1>. HIDE DEF h, k
<1>3. CASE c.nextAttack > 0
  <2>1. ~ c.nextAttack <= 0 /\ ~ g.nextAttack <= 0
    BY <1>1, <1>3 DEF Timer
  <2>2. Ran(c, s, cmd) = h /\ Ran(g, z, cmd) = k
    BY <2>1 DEF Ran, h, k
  <2>. QED  BY <1>2, <2>2
<1>4. CASE ~ c.nextAttack > 0
  <2>1. c.nextAttack <= 0 /\ g.nextAttack <= 0
    BY <1>1, <1>4 DEF Timer
  <2>2. /\ Ran(c, s, cmd) = ItemPostFrame(c.id, h, cmd.buttons)
        /\ Ran(g, z, cmd) = ItemPostFrame(c.id, k, cmd.buttons)
    BY <1>1, <2>1 DEF Ran, h, k
  <2>3. Alike(h, k) /\ Stocked(c.id, h) /\ Stocked(c.id, k)
    BY <1>1, <1>2, <1>4 DEF Alike, h, k
  <2>4. Alike(ItemPostFrame(c.id, h, cmd.buttons), ItemPostFrame(c.id, k, cmd.buttons))
    BY <1>1, <1>2, <2>3, ItemPostFrameAlike
  <2>. QED  BY <2>2, <2>4 DEF Alike
<1>. QED  BY <1>3, <1>4
-----------------------------------------------------------------------------
(***************************************************************************)
(* The inductive invariant: the states are sound and the server's count    *)
(* their own ammunition; the server has run the commands in order; and,    *)
(* unless an M4A1's reserve is low, the client's state has the weapons of  *)
(* the server's, and agrees on the reserve until it switches.  It may have *)
(* taken one round per command off an M4A1's ammo, so that this is above 0 *)
(* as long as the reserve is.  After a switch the weapon is being drawn    *)
(* for the rest of the frame.                                              *)
(***************************************************************************)
StatesSound == /\ Sound(acked) /\ Own(acked) /\ Sound(from)
               /\ \A i \in 1 .. Len(server) : Sound(server[i]) /\ Own(server[i])

Before(i) == IF i = 1 THEN acked ELSE server[i - 1]

ServerRuns == /\ Len(cmds) <= MaxUnacked
              /\ \A i \in 1 .. Len(cmds) : server[i] = Served(Before(i), cmds[i])

MagazineLeft == from.id \notin Shells =>
                  from.ammo[ammoType[from.id]]
                    >= acked.ammo[ammoType[from.id]] - (IF from.id \in Miscounted THEN at ELSE 0)

Level == /\ from.type = Truth.type /\ from.count = Truth.count
         /\ from.count <= acked.ammo[ammoType[from.id]]
         /\ MagazineLeft

Drawing == from.nextAttack >= delay["draw"] - at

Agrees == SameWeapons(from, Truth) /\ (Level \/ Drawing)

IInv == TypeOK /\ StatesSound /\ ServerRuns /\ (~ LowReserve => Agrees)

LEMMA TruthSound ==
  ASSUME TypeOK, StatesSound
  PROVE  Sound(Truth) /\ Own(Truth)
BY DEF TypeOK, StatesSound, Truth

LEMMA NextTruth ==
  ASSUME TypeOK, ServerRuns, at < Len(cmds)
  PROVE  server[at + 1] = Served(Truth, cmds[at + 1]) /\ cmds[at + 1] \in Command
<1>1. at \in Nat /\ at + 1 \in 1 .. Len(cmds)
  BY DEF TypeOK
<1>2. Truth = Before(at + 1)
  BY <1>1 DEF Truth, Before
<1>3. server[at + 1] = Served(Truth, cmds[at + 1])
  BY <1>1, <1>2 DEF ServerRuns
<1>4. cmds[at + 1] \in Commands
  BY <1>1 DEF TypeOK
<1>. QED  BY <1>3, <1>4, CommandsAssumption
-----------------------------------------------------------------------------
(***************************************************************************)
(* A prediction.                                                           *)
(***************************************************************************)
LEMMA OwnIsStocked ==
  ASSUME NEW g, Sound(g), Own(g), NEW s
  PROVE  Stocked(g.id, HandOf(g, s))
BY DEF Sound, Own, Stocked, HandOf

LEMMA ServedAlike ==
  ASSUME NEW c, NEW g, Sound(c), Sound(g), Own(g), SameWeapons(c, g),
         NEW s \in [Weapon -> BOOLEAN], NEW cmd \in Command,
         c.nextAttack > 0 \/ (c.count = g.count /\ Stocked(c.id, HandOf(c, s)))
  PROVE  /\ SameWeapons(HUD_WeaponsPostThink(c, s, cmd).to, Served(g, cmd))
         /\ c.count = g.count /\ ~ Switches(c, cmd)
              => /\ Served(g, cmd).type = g.type
                 /\ Served(g, cmd).count = HUD_WeaponsPostThink(c, s, cmd).to.count
<1> DEFINE r == Ran(c, s, cmd)
           q == Ran(g, Off, cmd)
           t == HUD_WeaponsPostThink(c, s, cmd).to
           u == HUD_WeaponsPostThink(g, Off, cmd).to
           v == Served(g, cmd)
<1>0. Off \in [Weapon -> BOOLEAN]
  BY DEF Off
<1>1. Becomes(c, cmd, r, t) /\ Becomes(g, cmd, q, u)
  BY <1>0, PostThinkFields
<1>2. /\ v.has = u.has /\ v.id = u.id /\ v.nextAttack = u.nextAttack /\ v.wpn = u.wpn
      /\ u.id = g.id => v.type = g.type /\ v.count = u.count
  BY ServedFields
<1>3. /\ r.w = q.w /\ r.nextAttack = q.nextAttack
      /\ c.count = g.count => r.count = q.count
  <2>1. Stocked(g.id, HandOf(g, Off))
    BY OwnIsStocked
  <2>2. \/ c.nextAttack > 0
        \/ c.count = g.count /\ Stocked(c.id, HandOf(c, s)) /\ Stocked(g.id, HandOf(g, Off))
    BY <2>1
  <2>. QED  BY <1>0, <2>2, RunAlike
<1>. HIDE DEF r, q, t, u, v
<1>4. SameWeapons(t, u)
  BY <1>1, <1>3, BecomeSame
<1>5. SameWeapons(t, v)
  BY <1>2, <1>4 DEF SameWeapons
<1>6. ASSUME c.count = g.count, ~ Switches(c, cmd)
      PROVE  v.type = g.type /\ v.count = t.count
  <2>1. ~ Switches(g, cmd)
    BY <1>6, SameCarried
  <2>2. u.id = g.id /\ u.count = q.count /\ t.count = r.count
    BY <1>1, <2>1 DEF Becomes
  <2>. QED  BY <1>2, <1>3, <1>6, <2>2
<1>. QED  BY <1>5, <1>6 DEF t, v

\* A client whose reserve is level with the server's has not used up its own
\* count of an M4A1's rounds.
LEMMA LevelIsStocked ==
  ASSUME TypeOK, StatesSound, ServerRuns, ~ LowReserve, at < Len(cmds), Level,
         NEW s
  PROVE  Stocked(from.id, HandOf(from, s))
<1> DEFINE kind == ammoType[from.id]
           left == from.ammo[kind]
           had == acked.ammo[kind]
<1>1. /\ from.id \in Weapon /\ left \in Int /\ from.count \in Int
  BY ClientFields DEF TypeOK
<1>2. kind \in AmmoType /\ had \in Int
  BY <1>1, ClientFields, WeaponAssumption DEF TypeOK
<1>3. at \in Nat /\ at < MaxUnacked /\ MaxUnacked \in Nat
  BY LagAssumption DEF TypeOK, ServerRuns
<1>4. from.count <= had
  BY DEF Level
<1>5. from.id \notin Shells => left >= had - (IF from.id \in Miscounted THEN at ELSE 0)
  BY DEF Level, MagazineLeft
<1>6. from.id \in Miscounted => had \notin 1 .. MaxUnacked
  BY DEF LowReserve
<1>7. HandOf(from, s).count = from.count /\ HandOf(from, s).ammo = left
  BY DEF HandOf
<1>. HIDE DEF kind, left, had
<1>8. from.id \notin Shells /\ from.count > 0 => left > 0
  BY <1>1, <1>2, <1>3, <1>4, <1>5, <1>6
<1>. QED  BY <1>7, <1>8 DEF Stocked

LEMMA DrawingTimer ==
  ASSUME TypeOK, ServerRuns, Drawing, at < Len(cmds)
  PROVE  from.nextAttack \in Nat /\ from.nextAttack > 0
<1>1. delay["draw"] \in Nat /\ MaxUnacked \in Nat /\ MaxUnacked < delay["draw"]
  BY Constants, LagAssumption DEF Delays
<1>2. at \in Nat /\ at < MaxUnacked /\ from.nextAttack \in Timer
  BY <1>1, ClientFields DEF TypeOK, ServerRuns
<1>. QED  BY <1>1, <1>2 DEF Drawing, Timer

LEMMA LessByOne ==
  ASSUME NEW t \in Int
  PROVE  Less(t) >= t - 1
BY DEF Less

\* Level or drawing: how the ammunition of the state after the command stands.
LEMMA PredictStaysLevel ==
  ASSUME IInv, Predict, ~ LowReserve, Level, ~ Switches(from, cmds[at + 1])
  PROVE  Level'
<1> DEFINE cmd == cmds[at + 1]
           h == HandOf(from, statics)
           r == Ran(from, statics, cmd)
           t == HUD_WeaponsPostThink(from, statics, cmd).to
           kind == ammoType[from.id]
<1>1. /\ Sound(from) /\ Sound(Truth) /\ Own(Truth) /\ statics \in [Weapon -> BOOLEAN]
      /\ at < Len(cmds) /\ cmd \in Command /\ server[at + 1] = Served(Truth, cmd)
  BY TruthSound, NextTruth DEF IInv, StatesSound, TypeOK, Predict
<1>2. /\ from' = t /\ at' = at + 1 /\ at \in Nat /\ Truth' = Served(Truth, cmd)
      /\ acked' = acked
  BY <1>1 DEF IInv, TypeOK, Predict, Truth
<1>3. /\ Served(Truth, cmd).type = Truth.type
      /\ Served(Truth, cmd).count = t.count
  <2>1. Stocked(from.id, HandOf(from, statics))
    BY <1>1, LevelIsStocked DEF IInv
  <2>2. SameWeapons(from, Truth) /\ from.count = Truth.count
    BY DEF IInv, Agrees, Level
  <2>. QED  BY <1>1, <2>1, <2>2, ServedAlike
<1>4. /\ t.type = from.type /\ t.count = r.count /\ t.id = from.id
      /\ t.ammo = [from.ammo EXCEPT ![kind] = r.ammo]
  <2>1. Becomes(from, cmd, r, t)
    BY <1>1, PostThinkFields
  <2>. HIDE DEF r, t
  <2>. QED  BY <2>1 DEF Becomes
<1>5. /\ Result(from.id, h, r) /\ h.count = from.count /\ h.ammo = from.ammo[kind]
      /\ h \in Hand
  BY <1>1, HandOfFits, RanMoves DEF Fits
<1>6. kind \in AmmoType /\ from.ammo \in [AmmoType -> Int] /\ acked.ammo[kind] \in Int
  BY <1>1, ClientFields DEF IInv, TypeOK, Sound, Client
<1>. HIDE DEF cmd, h, r, t
<1>7. /\ r \in Hand /\ r.count \in Int /\ r.ammo \in Int /\ from.count \in Int
      /\ r.count <= from.count
      /\ from.id \notin Shells => r.ammo >= from.ammo[kind] - Spent(from.id)
  <2>1. r \in Hand /\ r.count <= h.count
    BY <1>5 DEF Result, Fits, Moves
  <2>. QED  BY <1>5, <2>1, HandFields DEF Result
<1>8. t.ammo[kind] = r.ammo
  BY <1>4, <1>6
<1>9. from'.type = Truth'.type /\ from'.count = Truth'.count
  BY <1>2, <1>3, <1>4 DEF Level
<1>. HIDE DEF kind
<1>10. from.count <= acked.ammo[kind]
  BY DEF Level, kind
<1>11. from.id \notin Shells =>
         from.ammo[kind] >= acked.ammo[kind] - (IF from.id \in Miscounted THEN at ELSE 0)
  BY DEF Level, MagazineLeft, kind
<1>12. from'.id = from.id /\ from'.count <= acked'.ammo[kind]
  BY <1>2, <1>4, <1>6, <1>7, <1>10
<1>13. from'.id \notin Shells =>
         from'.ammo[kind] >= acked'.ammo[kind] - (IF from'.id \in Miscounted THEN at' ELSE 0)
  <2>1. from'.ammo[kind] = r.ammo /\ from'.id = from.id
    BY <1>2, <1>4, <1>8
  <2>2. from.ammo[kind] \in Int
    BY <1>6
  <2>. HIDE DEF t
  <2>. QED  BY <1>2, <1>6, <1>7, <1>11, <2>1, <2>2 DEF Spent
<1>. QED  BY <1>9, <1>12, <1>13 DEF Level, MagazineLeft, kind

LEMMA PredictIsDrawing ==
  ASSUME IInv, Predict, Drawing \/ Switches(from, cmds[at + 1])
  PROVE  Drawing'
<1> DEFINE cmd == cmds[at + 1]
           r == Ran(from, statics, cmd)
           t == HUD_WeaponsPostThink(from, statics, cmd).to
           draw == delay["draw"]
<1>1. /\ Sound(from) /\ statics \in [Weapon -> BOOLEAN] /\ at < Len(cmds)
      /\ cmd \in Command /\ from' = t /\ at' = at + 1 /\ at \in Nat
  BY NextTruth DEF IInv, StatesSound, TypeOK, Predict
<1>2. t.nextAttack = Less(IF Switches(from, cmd) THEN draw ELSE r.nextAttack)
  <2>1. Becomes(from, cmd, r, t)
    BY <1>1, PostThinkFields
  <2>. HIDE DEF r, t
  <2>. QED  BY <2>1 DEF Becomes
<1>3. draw \in Nat
  BY Constants DEF Delays
<1>4. CASE Switches(from, cmd)
  <2>. HIDE DEF r, t
  <2>1. t.nextAttack = Less(draw)
    BY <1>2, <1>4
  <2>2. t.nextAttack >= draw - 1 /\ t.nextAttack \in Int
    BY <1>3, <2>1, LessByOne DEF Less
  <2>. QED  BY <1>1, <1>3, <2>2 DEF Drawing
<1>5. CASE ~ Switches(from, cmd)
  <2>1. Drawing
    BY <1>5
  <2>2. from.nextAttack \in Nat /\ from.nextAttack > 0
    BY <1>1, <2>1, DrawingTimer DEF IInv
  <2>3. r.nextAttack = from.nextAttack
    BY <2>2 DEF Ran, HandOf
  <2>. HIDE DEF r, t
  <2>4. t.nextAttack = Less(from.nextAttack)
    BY <1>2, <1>5, <2>3
  <2>5. t.nextAttack >= from.nextAttack - 1
    BY <2>2, <2>4, LessByOne
  <2>6. t.nextAttack \in Int
    BY <2>2, <2>4 DEF Less
  <2>. QED  BY <1>1, <1>3, <2>1, <2>2, <2>5, <2>6 DEF Drawing
<1>. QED  BY <1>4, <1>5

LEMMA PredictAgrees ==
  ASSUME IInv, Predict, ~ LowReserve
  PROVE  Agrees'
<1> DEFINE cmd == cmds[at + 1]
           t == HUD_WeaponsPostThink(from, statics, cmd).to
<1>1. /\ Sound(from) /\ Sound(Truth) /\ Own(Truth) /\ statics \in [Weapon -> BOOLEAN]
      /\ at < Len(cmds) /\ cmd \in Command /\ server[at + 1] = Served(Truth, cmd)
  BY TruthSound, NextTruth DEF IInv, StatesSound, TypeOK, Predict
<1>2. from' = t /\ Truth' = Served(Truth, cmd)
  BY <1>1 DEF IInv, TypeOK, Predict, Truth
<1>3. SameWeapons(from, Truth) /\ (Level \/ Drawing)
  BY DEF IInv, Agrees
<1>4. from.nextAttack > 0 \/ (from.count = Truth.count /\ Stocked(from.id, HandOf(from, statics)))
  <2>1. CASE Level
    <3>1. Stocked(from.id, HandOf(from, statics))
      BY <1>1, <2>1, LevelIsStocked DEF IInv
    <3>. QED  BY <2>1, <3>1 DEF Level
  <2>2. CASE Drawing
    BY <1>1, <2>2, DrawingTimer DEF IInv
  <2>. QED  BY <1>3, <2>1, <2>2
<1>5. SameWeapons(t, Served(Truth, cmd))
  BY <1>1, <1>3, <1>4, ServedAlike
<1>6. SameWeapons(from, Truth)'
  <2>. HIDE DEF t
  <2>. QED  BY <1>2, <1>5 DEF SameWeapons
<1>7. Level' \/ Drawing'
  BY <1>3, PredictStaysLevel, PredictIsDrawing
<1>. QED  BY <1>6, <1>7 DEF Agrees
-----------------------------------------------------------------------------
(***************************************************************************)
(* The invariant through the actions.                                      *)
(***************************************************************************)
LEMMA FreshLoadout ==
  ASSUME NEW carried \in Inventories, NEW w \in carried
  PROVE  Sound(Loadout(carried, w)) /\ Own(Loadout(carried, w))
<1> DEFINE c == Loadout(carried, w)
<1>1. carried \in SUBSET Weapon /\ w \in Weapon /\ ammoType[w] \in AmmoType
  BY WeaponAssumption
<1>2. reserve \in [AmmoType -> Nat] /\ \A v \in Weapon : maxClip[v] \in Nat \ {0}
  BY LagAssumption, Constants
<1>3. \A v \in Weapon : /\ Fresh(maxClip[v]) \in WeaponData
                        /\ Fresh(maxClip[v]).clip = maxClip[v]
                        /\ Fresh(maxClip[v]).inReload = FALSE
  <2>1. \A n \in Int, z \in 0 .. 2, t \in Timer :
          LET d == [clip |-> n, inReload |-> FALSE, special |-> z, fired |-> FALSE,
                    nextPrimary |-> t, nextSecondary |-> t, idle |-> t]
          IN  d \in WeaponData /\ d.clip = n /\ d.inReload = FALSE
    BY DEF WeaponData
  <2>2. 0 \in 0 .. 2 /\ -1 \in Timer /\ \A v \in Weapon : maxClip[v] \in Int
    BY <1>2 DEF Timer
  <2>. QED  BY <2>1, <2>2 DEF Fresh
<1> DEFINE wpn == [v \in Weapon |-> Fresh(maxClip[v])]
<1>4. wpn \in [Weapon -> WeaponData]
  BY <1>3
<1>5. \A v \in Weapon : wpn[v].clip = maxClip[v] /\ wpn[v].inReload = FALSE
  BY <1>3
<1>6. c = [has |-> carried, id |-> w, nextAttack |-> -1, type |-> ammoType[w],
           count |-> reserve[ammoType[w]], ammo |-> reserve, wpn |-> wpn]
  BY DEF Loadout
<1>. HIDE DEF wpn, c
<1>7. -1 \in Timer /\ reserve \in [AmmoType -> Int] /\ reserve[ammoType[w]] \in Nat
  BY <1>1, <1>2 DEF Timer
<1>8. c \in Client
  BY <1>1, <1>4, <1>6, <1>7 DEF Client
<1>9. /\ c.wpn = wpn /\ c.count = reserve[ammoType[w]] /\ c.id = w /\ c.ammo = reserve
      /\ c.type = ammoType[w]
  BY <1>6
<1>10. Sound(c)
  BY <1>2, <1>5, <1>7, <1>8, <1>9 DEF Sound
<1>11. Own(c)
  BY <1>2, <1>9 DEF Own
<1>. QED  BY <1>10, <1>11 DEF c

\* A frame begins level with the state it begins from.
LEMMA OwnIsLevel ==
  ASSUME NEW c, Sound(c), Own(c)
  PROVE  /\ SameWeapons(c, c) /\ c.count <= c.ammo[ammoType[c.id]]
         /\ c.ammo[ammoType[c.id]]
              >= c.ammo[ammoType[c.id]] - (IF c.id \in Miscounted THEN 0 ELSE 0)
<1>1. c.ammo[ammoType[c.id]] = c.count /\ c.count \in Int
  BY ClientFields DEF Sound, Own
<1>. QED  BY <1>1 DEF SameWeapons

LEMMA Begins == Init => IInv
<1>. SUFFICES ASSUME Init PROVE IInv
  OBVIOUS
<1>0. PICK carried \in Inventories : \E w \in carried : acked = Loadout(carried, w)
  BY DEF Init
<1>1. PICK w \in carried : acked = Loadout(carried, w)
  BY <1>0
<1>2. Sound(acked) /\ Own(acked)
  BY <1>1, FreshLoadout
<1>3. from = acked /\ at = 0 /\ cmds = <<>> /\ server = <<>>
      /\ statics = [v \in Weapon |-> FALSE]
  BY DEF Init
<1>4. TypeOK
  BY <1>2, <1>3 DEF TypeOK, Sound
<1>5. StatesSound /\ ServerRuns
  BY <1>2, <1>3, LagAssumption DEF StatesSound, ServerRuns
<1>6. Agrees
  <2>1. Truth = from
    BY <1>3 DEF Truth
  <2>. QED  BY <1>2, <1>3, <2>1, OwnIsLevel DEF Agrees, Level, MagazineLeft
<1>. QED  BY <1>4, <1>5, <1>6 DEF IInv

LEMMA LastSound ==
  ASSUME TypeOK, StatesSound
  PROVE  Sound(Last) /\ Own(Last)
<1>1. CASE cmds = <<>>
  BY <1>1 DEF Last, StatesSound
<1>2. CASE cmds # <<>>
  <2>1. Len(server) \in 1 .. Len(server)
    BY <1>2 DEF TypeOK
  <2>. QED  BY <1>2, <2>1 DEF Last, StatesSound
<1>. QED  BY <1>1, <1>2

LEMMA SendKeeps ==
  ASSUME IInv, NEW cmd \in Commands, Send(cmd)
  PROVE  IInv'
<1> DEFINE g == Served(Last, cmd)
<1>0. PICK n : n = Len(cmds)
  OBVIOUS
<1>1. Sound(g) /\ Own(g) /\ g \in Client
  <2>1. Sound(Last) /\ Own(Last) /\ cmd \in Command
    BY LastSound, CommandsAssumption DEF IInv
  <2>2. Sound(g) /\ Own(g)
    BY <2>1, ServedFields
  <2>. QED  BY <2>2 DEF Sound
<1>2. /\ cmds \in Seq(Commands) /\ server \in Seq(Client) /\ Len(server) = n /\ n \in Nat
      /\ cmds' = Append(cmds, cmd) /\ server' = Append(server, g)
      /\ n < MaxUnacked /\ at \in 0 .. n
  BY <1>0 DEF IInv, TypeOK, Send
<1>. HIDE DEF g
<1>3. /\ cmds' \in Seq(Commands) /\ server' \in Seq(Client)
      /\ Len(cmds') = n + 1 /\ Len(server') = n + 1
      /\ \A i \in 1 .. n : cmds'[i] = cmds[i] /\ server'[i] = server[i]
      /\ cmds'[n + 1] = cmd /\ server'[n + 1] = g
  BY <1>0, <1>1, <1>2
<1>4. UNCHANGED <<acked, from, statics, at>>
  BY DEF Send
<1>5. TypeOK'
  BY <1>2, <1>3, <1>4 DEF IInv, TypeOK
<1>6. StatesSound'
  <2>1. \A i \in 1 .. n + 1 : Sound(server'[i]) /\ Own(server'[i])
    BY <1>1, <1>2, <1>3 DEF IInv, StatesSound
  <2>. QED  BY <1>3, <1>4, <2>1 DEF IInv, StatesSound
<1>7. ServerRuns'
  <2>1. \A i \in 1 .. n : Before(i)' = Before(i)
    <3>1. \A i \in 1 .. n : i = 1 \/ i - 1 \in 1 .. n
      BY <1>2
    <3>. QED  BY <1>3, <1>4, <3>1 DEF Before
  <2>4. \A i \in 1 .. n : server[i] = Served(Before(i), cmds[i])
    BY <1>0, Zenon DEF IInv, ServerRuns
  <2>2. Before(n + 1)' = Last
    <3>1. CASE n = 0
      <4>1. n + 1 = 1
        BY <3>1
      <4>2. cmds = <<>>
        <5>1. cmds \in Seq(Commands) /\ Len(cmds) = 0
          BY <1>0, <1>2, <3>1
        <5>. QED  BY <5>1
      <4>. QED  BY <1>4, <4>1, <4>2 DEF Before, Last
    <3>2. CASE n # 0
      <4>1. n \in 1 .. n /\ n + 1 # 1 /\ (n + 1) - 1 = n /\ cmds # <<>>
        BY <1>0, <1>2, <3>2
      <4>2. Before(n + 1)' = server[n]
        BY <1>3, <4>1 DEF Before
      <4>3. Last = server[n]
        BY <1>0, <1>2, <4>1 DEF Last
      <4>. QED  BY <4>2, <4>3
    <3>. QED  BY <3>1, <3>2
  <2>3. \A i \in 1 .. n + 1 : server'[i] = Served(Before(i)', cmds'[i])
    <3>. SUFFICES ASSUME NEW i \in 1 .. n + 1
                  PROVE  server'[i] = Served(Before(i)', cmds'[i])
      OBVIOUS
    <3>1. CASE i \in 1 .. n
      BY <1>3, <2>1, <2>4, <3>1
    <3>2. CASE i = n + 1
      <4>1. server'[i] = g /\ cmds'[i] = cmd /\ Before(i)' = Last
        BY <1>3, <2>2, <3>2
      <4>. QED  BY <4>1 DEF g
    <3>3. i \in 1 .. n \/ i = n + 1
      BY <1>2
    <3>. QED  BY <3>1, <3>2, <3>3
  <2>5. MaxUnacked \in Nat
    BY LagAssumption
  <2>6. Len(cmds') = n + 1 /\ n + 1 <= MaxUnacked
    BY <1>2, <1>3, <2>5
  <2>. QED  BY <2>3, <2>6 DEF ServerRuns
<1>8. Truth' = Truth
  BY <1>2, <1>3, <1>4 DEF Truth
<1>9. LowReserve' = LowReserve
  BY <1>4 DEF LowReserve
<1>10. (~ LowReserve => Agrees)'
  BY <1>4, <1>8, <1>9 DEF IInv, Agrees, Level, MagazineLeft, Drawing
<1>. QED  BY <1>5, <1>6, <1>7, <1>10 DEF IInv

LEMMA PredictKeeps ==
  ASSUME IInv, Predict
  PROVE  IInv'
<1> DEFINE cmd == cmds[at + 1]
           t == HUD_WeaponsPostThink(from, statics, cmd).to
           z == HUD_WeaponsPostThink(from, statics, cmd).statics
<1>1. /\ Sound(from) /\ statics \in [Weapon -> BOOLEAN] /\ at < Len(cmds)
      /\ cmd \in Command /\ at \in Nat
  BY NextTruth DEF IInv, StatesSound, TypeOK, Predict
<1>2. from' = t /\ statics' = z /\ at' = at + 1 /\ UNCHANGED <<acked, cmds, server>>
  BY DEF Predict
<1>3. Sound(t) /\ z \in [Weapon -> BOOLEAN]
  BY <1>1, PostThinkSound, PostThinkFields
<1>. HIDE DEF t, z
<1>4. TypeOK'
  BY <1>1, <1>2, <1>3 DEF IInv, TypeOK, Sound
<1>5. StatesSound'
  BY <1>2, <1>3 DEF IInv, StatesSound
<1>6. ServerRuns'
  BY <1>2 DEF IInv, ServerRuns, Before
<1>7. (~ LowReserve => Agrees)'
  <2>1. LowReserve' = LowReserve
    BY <1>2 DEF LowReserve
  <2>. QED  BY <2>1, PredictAgrees
<1>. QED  BY <1>4, <1>5, <1>6, <1>7 DEF IInv

\* A new frame, whether or not an answer has come.
LEMMA StartsLevel ==
  ASSUME Sound(acked'), Own(acked'), from' = acked', at' = 0
  PROVE  Agrees'
<1>1. Truth' = from'
  BY DEF Truth
<1>. QED  BY <1>1, OwnIsLevel DEF Agrees, Level, MagazineLeft

LEMMA FrameKeeps ==
  ASSUME IInv, Frame
  PROVE  IInv'
<1>1. from' = acked /\ at' = 0 /\ UNCHANGED <<acked, cmds, server, statics>>
  BY DEF Frame
<1>2. Sound(acked) /\ Own(acked) /\ acked \in Client
  BY DEF IInv, StatesSound, Sound
<1>3. TypeOK'
  BY <1>1, <1>2 DEF IInv, TypeOK
<1>4. StatesSound'
  BY <1>1 DEF IInv, StatesSound
<1>5. ServerRuns'
  BY <1>1 DEF IInv, ServerRuns, Before
<1>6. Agrees'
  BY <1>1, <1>2, StartsLevel
<1>. QED  BY <1>3, <1>4, <1>5, <1>6 DEF IInv

LEMMA AcknowledgeKeeps ==
  ASSUME IInv, Acknowledge
  PROVE  IInv'
<1> DEFINE n == Len(cmds)
<1>1. /\ acked' = Head(server) /\ cmds' = Tail(cmds) /\ server' = Tail(server)
      /\ from' = acked' /\ at' = 0 /\ statics' = statics /\ cmds # <<>>
  BY DEF Acknowledge
<1>2. /\ cmds \in Seq(Commands) /\ server \in Seq(Client) /\ Len(server) = n
      /\ n \in Nat /\ n > 0
  BY <1>1 DEF IInv, TypeOK
<1>3. /\ acked' = server[1] /\ cmds' \in Seq(Commands) /\ server' \in Seq(Client)
      /\ Len(cmds') = n - 1 /\ Len(server') = n - 1
      /\ \A i \in 1 .. n - 1 : cmds'[i] = cmds[i + 1] /\ server'[i] = server[i + 1]
  BY <1>1, <1>2
<1>. HIDE DEF n
<1>4. Sound(acked') /\ Own(acked')
  BY <1>2, <1>3 DEF IInv, StatesSound
<1>5. TypeOK'
  BY <1>1, <1>2, <1>3, <1>4 DEF IInv, TypeOK, Sound
<1>6. StatesSound'
  <2>1. \A i \in 1 .. n - 1 : Sound(server'[i]) /\ Own(server'[i])
    BY <1>2, <1>3 DEF IInv, StatesSound
  <2>. QED  BY <1>1, <1>3, <1>4, <2>1 DEF StatesSound
<1>7. ServerRuns'
  <2>1. \A i \in 1 .. n - 1 : server'[i] = Served(Before(i)', cmds'[i])
    <3>. SUFFICES ASSUME NEW i \in 1 .. n - 1
                  PROVE  server'[i] = Served(Before(i)', cmds'[i])
      OBVIOUS
    <3>1. i + 1 \in 1 .. n /\ i + 1 # 1 /\ (i + 1) - 1 = i /\ i \in Nat
      BY <1>2
    <3>2. server[i + 1] = Served(Before(i + 1), cmds[i + 1])
      BY <3>1 DEF IInv, ServerRuns, n
    <3>3. Before(i + 1) = server[i]
      BY <3>1 DEF Before
    <3>4. Before(i)' = server[i]
      <4>1. CASE i = 1
        BY <1>3, <4>1 DEF Before
      <4>2. CASE i # 1
        <5>1. i - 1 \in 1 .. n - 1 /\ (i - 1) + 1 = i
          BY <1>2, <4>2
        <5>. QED  BY <1>3, <4>2, <5>1 DEF Before
      <4>. QED  BY <4>1, <4>2
    <3>. QED  BY <1>3, <3>2, <3>3, <3>4
  <2>2. n <= MaxUnacked /\ MaxUnacked \in Nat
    BY LagAssumption DEF IInv, ServerRuns, n
  <2>. QED  BY <1>2, <1>3, <2>1, <2>2 DEF ServerRuns
<1>8. Agrees'
  BY <1>1, <1>4, StartsLevel
<1>. QED  BY <1>5, <1>6, <1>7, <1>8 DEF IInv

LEMMA Kept ==
  ASSUME IInv, [Next]_vars
  PROVE  IInv'
<1>1. CASE \E cmd \in Commands : Send(cmd)
  BY <1>1, SendKeeps
<1>2. CASE Predict
  BY <1>2, PredictKeeps
<1>3. CASE Frame
  BY <1>3, FrameKeeps
<1>4. CASE Acknowledge
  BY <1>4, AcknowledgeKeeps
<1>5. CASE UNCHANGED vars
  <2>1. UNCHANGED <<acked, cmds, server, from, statics, at>>
    BY <1>5 DEF vars
  <2>2. Truth' = Truth /\ LowReserve' = LowReserve
    BY <2>1 DEF Truth, LowReserve
  <2>3. (~ LowReserve => Agrees)'
    BY <2>1, <2>2 DEF IInv, Agrees, Level, MagazineLeft, Drawing
  <2>. QED  BY <2>1, <2>3 DEF IInv, TypeOK, StatesSound, ServerRuns, Before
<1>. QED  BY <1>1, <1>2, <1>3, <1>4, <1>5 DEF Next
-----------------------------------------------------------------------------
(***************************************************************************)
(* Timers.  One that lasts t ticks more leaves time for the longest reload *)
(* of any weapon; what the code sets a timer to does, and so does what is  *)
(* left of it a tick later.                                                *)
(***************************************************************************)
Lasting == {t \in Timer : \A v \in Weapon : t + Longest(v) <= Settling}

LEMMA LongestIsInt == \A v \in Weapon : Longest(v) \in Int
<1>. SUFFICES ASSUME NEW v \in Weapon PROVE Longest(v) \in Int
  OBVIOUS
<1> DEFINE n == maxClip[v] * (delay["shell"] + 2)
<1>1. /\ delay["start"] \in Nat /\ delay["shell"] \in Nat /\ delay["reload"] \in Nat
      /\ maxClip[v] \in Nat
  BY Constants DEF Delays
<1>2. n \in Int
  <2>1. \A m, s \in Nat : m * (s + 2) \in Int
    OBVIOUS
  <2>. QED  BY <1>1, <2>1
<1>3. Longest(v) = IF v \in Shells THEN delay["start"] + 2 + n ELSE delay["reload"] + 2
  BY DEF Longest
<1>. HIDE DEF n
<1>. QED  BY <1>1, <1>2, <1>3

LEMMA DelaysLast == /\ \A d \in Delays : delay[d] \in Lasting
                    /\ 2 * delay["draw"] \in Lasting /\ 0 \in Lasting
<1>1. /\ \A d \in Delays : delay[d] \in Nat
      /\ delay["draw"] \in Nat /\ delay["draw"] \in Timer /\ 2 * delay["draw"] \in Timer
  BY Constants DEF Delays, Timer
<1>2. \A v \in Weapon : Longest(v) \in Int
  BY LongestIsInt
<1>3. "draw" \in Delays
  BY DEF Delays
<1>4. \A v \in Weapon : 0 + Longest(v) <= Settling
  <2>. SUFFICES ASSUME NEW v \in Weapon PROVE 0 + Longest(v) <= Settling
    OBVIOUS
  <2>1. delay["draw"] + Longest(v) <= Settling
    BY <1>3, SettlingAssumption
  <2>. QED  BY <1>1, <1>2, <2>1, SettlingAssumption
<1>. QED  BY <1>1, <1>4, SettlingAssumption DEF Lasting, Timer

LEMMA ShorterLasts ==
  ASSUME NEW u \in Lasting, NEW t \in Timer, t <= u
  PROVE  t \in Lasting
BY LongestIsInt, SettlingAssumption DEF Lasting, Timer

LEMMA LessLasts ==
  ASSUME NEW t \in Lasting
  PROVE  Less(t) \in Timer /\ Less(t) + 1 \in Lasting
<1>1. t \in Timer /\ 0 \in Lasting
  BY DelaysLast DEF Lasting
<1>. QED  BY <1>1 DEF Less, Timer

LEMMA LastsShorter ==
  ASSUME NEW t \in Timer, t + 1 \in Lasting
  PROVE  t \in Lasting /\ Less(t) + 1 \in Lasting
<1>1. t \in Lasting
  BY ShorterLasts DEF Timer
<1>. QED  BY <1>1, LessLasts
-----------------------------------------------------------------------------
(***************************************************************************)
(* A hand whose timers are in time; only a magazine is reloaded at once,   *)
(* only a shotgun shell by shell, and that has a shell in the gun or one   *)
(* to put in.                                                              *)
(***************************************************************************)
InTime(d) == d.nextPrimary \in Lasting /\ d.idle \in Lasting

Whole(w, d, n) == /\ d.inReload => w \notin Shells
                  /\ d.special # 0 => w \in Shells /\ (d.clip > 0 \/ n > 0)

Fine(w, h) == Fits(w, h) /\ h.nextAttack \in Lasting /\ InTime(h.w) /\ Whole(w, h.w, h.count)

\* What a step leaves as it is: the timers, and the rounds.
SameTimes(h, r) == /\ r.nextAttack = h.nextAttack /\ r.w.nextPrimary = h.w.nextPrimary
                   /\ r.w.idle = h.w.idle

SameLoad(h, r) == /\ r.w.clip = h.w.clip /\ r.w.inReload = h.w.inReload
                  /\ r.w.special = h.w.special /\ r.count = h.count

LEMMA SameIsFine ==
  ASSUME NEW w, NEW h, NEW r, Fine(w, h), Fits(w, r), SameTimes(h, r), SameLoad(h, r)
  PROVE  Fine(w, r)
BY DEF Fine, InTime, Whole, SameTimes, SameLoad

LEMMA DefaultReloadSteps ==
  ASSUME NEW w \in Weapon, NEW h \in Hand
  PROVE  LET r == DefaultReload(w, h)
         IN  /\ h.count > 0 /\ Min2(maxClip[w] - h.w.clip, h.count) # 0
                  => /\ r.nextAttack = delay["reload"] /\ r.w.inReload
                     /\ r.w.nextPrimary = h.w.nextPrimary /\ r.w.idle = h.w.idle
                     /\ r.w.clip = h.w.clip /\ r.w.special = h.w.special
                     /\ r.count = h.count
             /\ ~ (h.count > 0 /\ Min2(maxClip[w] - h.w.clip, h.count) # 0) => r = h
<1> DEFINE j == Min2(maxClip[w] - h.w.clip, h.count)
           t == delay["reload"]
           r == [h EXCEPT !.nextAttack = t, !.w.inReload = TRUE]
<1>1. DefaultReload(w, h) = IF h.count <= 0 \/ j = 0 THEN h ELSE r
  BY DEF DefaultReload
<1>. HIDE DEF j, t
<1>2. /\ r.nextAttack = t /\ r.w.inReload /\ r.w.nextPrimary = h.w.nextPrimary
      /\ r.w.idle = h.w.idle /\ r.w.clip = h.w.clip /\ r.w.special = h.w.special
      /\ r.count = h.count
  BY DEF Hand, WeaponData
<1>3. h.count \in Int
  BY HandFields
<1>. HIDE DEF r
<1>. QED  BY <1>1, <1>2, <1>3 DEF j, t

LEMMA ShellReloadSteps ==
  ASSUME NEW w \in Weapon, NEW h \in Hand
  PROVE  LET r == ShellReload(w, h)
             start == delay["start"]
         IN  \/ r = h /\ (h.count <= 0 \/ h.w.clip = maxClip[w] \/ h.w.nextPrimary > 0)
             \/ r = h /\ h.w.special = 1 /\ h.w.idle > 0
             \/ /\ h.count > 0 /\ h.w.clip # maxClip[w]
                /\ r.w.inReload = h.w.inReload
                /\ \/ /\ h.w.special = 0 /\ r.w.special = 1
                      /\ r.nextAttack = start /\ r.w.idle = start /\ r.w.nextPrimary = start
                      /\ r.w.clip = h.w.clip /\ r.count = h.count
                   \/ /\ h.w.special = 1 /\ r.w.special = 2
                      /\ r.nextAttack = h.nextAttack /\ r.w.idle = delay["shell"]
                      /\ r.w.nextPrimary = h.w.nextPrimary
                      /\ r.w.clip = h.w.clip /\ r.count = h.count
                   \/ /\ h.w.special = 2 /\ r.w.special = 1 /\ SameTimes(h, r)
                      /\ r.w.clip = h.w.clip + 1 /\ r.count = h.count - 1
<1> DEFINE t == delay["start"]
           u == delay["shell"]
           r == ShellReload(w, h)
<1>0. /\ h.count \in Int /\ h.w.nextPrimary \in Int /\ h.w.special \in 0 .. 2 /\ h.w.idle \in Int
      /\ h.w.clip \in Int
  BY HandFields DEF Timer
<1>1. CASE h.count <= 0 \/ h.w.clip = maxClip[w] \/ h.w.nextPrimary > 0
  <2>1. r = h
    BY <1>1 DEF ShellReload
  <2>. QED  BY <1>1, <2>1
<1>2. CASE ~ (h.count <= 0 \/ h.w.clip = maxClip[w] \/ h.w.nextPrimary > 0)
  <2>0. h.count > 0 /\ h.w.clip # maxClip[w]
    BY <1>0, <1>2
  <2>1. CASE h.w.special = 0
    <3>1. r = [h EXCEPT !.w.special = 1, !.nextAttack = t, !.w.idle = t, !.w.nextPrimary = t,
                        !.w.nextSecondary = t]
      BY <1>2, <2>1 DEF ShellReload
    <3>. HIDE DEF r, t
    <3>2. /\ r.w.special = 1 /\ r.nextAttack = t /\ r.w.idle = t /\ r.w.nextPrimary = t
          /\ r.w.clip = h.w.clip /\ r.count = h.count /\ r.w.inReload = h.w.inReload
      BY <3>1 DEF Hand, WeaponData
    <3>. QED  BY <2>0, <2>1, <3>2 DEF r, t
  <2>2. CASE h.w.special = 1 /\ ~ h.w.idle > 0
    <3>1. r = [h EXCEPT !.w.special = 2, !.w.idle = u]
      BY <1>2, <2>2 DEF ShellReload
    <3>. HIDE DEF r, u
    <3>2. /\ r.w.special = 2 /\ r.nextAttack = h.nextAttack /\ r.w.idle = u
          /\ r.w.nextPrimary = h.w.nextPrimary
          /\ r.w.clip = h.w.clip /\ r.count = h.count /\ r.w.inReload = h.w.inReload
      BY <3>1 DEF Hand, WeaponData
    <3>. QED  BY <2>0, <2>2, <3>2 DEF r, u
  <2>3. CASE h.w.special = 1 /\ h.w.idle > 0
    <3>1. r = h
      BY <1>2, <2>3 DEF ShellReload
    <3>. QED  BY <2>3, <3>1
  <2>4. CASE h.w.special = 2
    <3> DEFINE clip == h.w.clip + 1
               count == h.count - 1
               ammo == h.ammo - 1
    <3>1. r = [h EXCEPT !.w.special = 1, !.w.clip = clip, !.count = count, !.ammo = ammo]
      BY <1>2, <2>4 DEF ShellReload
    <3>. HIDE DEF r, clip, count, ammo
    <3>2. /\ r.w.special = 1 /\ r.nextAttack = h.nextAttack /\ r.w.idle = h.w.idle
          /\ r.w.nextPrimary = h.w.nextPrimary
          /\ r.w.clip = clip /\ r.count = count /\ r.w.inReload = h.w.inReload
      BY <3>1 DEF Hand, WeaponData
    <3>. QED  BY <2>0, <2>4, <3>2 DEF SameTimes, r, clip, count
  <2>. QED  BY <1>0, <2>1, <2>2, <2>3, <2>4
<1>. QED  BY <1>1, <1>2

\* A hand is Fine again when its timers are old ones or delays.
LEMMA FineAgain ==
  ASSUME NEW w \in Weapon, NEW h, NEW r, Fine(w, h), Fits(w, r), Whole(w, r.w, r.count),
         \/ r.nextAttack = h.nextAttack
         \/ \E d \in Delays : r.nextAttack = delay[d],
         \/ r.w.nextPrimary = h.w.nextPrimary
         \/ \E d \in Delays : r.w.nextPrimary = delay[d],
         \/ r.w.idle = h.w.idle
         \/ \E d \in Delays : r.w.idle = delay[d]
  PROVE  Fine(w, r)
BY DelaysLast DEF Fine, InTime

LEMMA ReloadFine ==
  ASSUME NEW w \in Weapon, NEW h, Fine(w, h)
  PROVE  Fine(w, Reload(w, h))
<1> DEFINE r == Reload(w, h)
<1>1. h \in Hand /\ Fits(w, r)
  BY ReloadMoves DEF Fine, Fits
<1>2. CASE w \in Shells
  <2>1. r = ShellReload(w, h)
    BY <1>2 DEF Reload
  <2>. HIDE DEF r
  <2>2. \/ r = h
        \/ /\ h.count > 0 /\ r.w.inReload = h.w.inReload
           /\ \/ /\ r.nextAttack = delay["start"] /\ r.w.idle = delay["start"]
                 /\ r.w.nextPrimary = delay["start"] /\ r.count = h.count
              \/ /\ r.nextAttack = h.nextAttack /\ r.w.idle = delay["shell"]
                 /\ r.w.nextPrimary = h.w.nextPrimary /\ r.count = h.count
              \/ SameTimes(h, r) /\ r.w.clip = h.w.clip + 1
    BY <1>1, <2>1, ShellReloadSteps
  <2>3. "start" \in Delays /\ "shell" \in Delays
    BY DEF Delays
  <2>4. h.w.clip \in Nat
    BY <1>1, HandFields, Constants DEF Fine, Fits
  <2>5. r # h => Whole(w, r.w, r.count)
    BY <1>2, <2>2, <2>4 DEF Whole, Fine
  <2>6. Fine(w, r)
    BY <1>1, <2>2, <2>3, <2>5, FineAgain DEF SameTimes
  <2>. QED  BY <2>6 DEF r
<1>3. CASE w \notin Shells
  <2>1. r = h \/ r = DefaultReload(w, h)
    BY <1>3 DEF Reload, MagazineReload
  <2>. HIDE DEF r
  <2>2. \/ r = h
        \/ /\ r.nextAttack = delay["reload"] /\ r.w.nextPrimary = h.w.nextPrimary
           /\ r.w.idle = h.w.idle /\ r.w.special = h.w.special
    BY <1>1, <2>1, DefaultReloadSteps
  <2>3. "reload" \in Delays
    BY DEF Delays
  <2>4. r # h => Whole(w, r.w, r.count)
    BY <1>3, <2>2 DEF Whole, Fine
  <2>5. Fine(w, r)
    BY <1>1, <2>2, <2>3, <2>4, FineAgain
  <2>. QED  BY <2>5 DEF r
<1>. QED  BY <1>2, <1>3

LEMMA DueFine ==
  ASSUME NEW w \in Weapon, NEW h, Fine(w, h)
  PROVE  Fine(w, Due(w, h))
<1> DEFINE r == Reloaded(w, h)
<1>1. CASE ~ h.w.inReload
  BY <1>1 DEF Due
<1>2. CASE h.w.inReload
  <2>1. h \in Hand /\ Fits(w, r)
    BY ReloadedMoves DEF Fine, Fits
  <2> DEFINE j == Min2(maxClip[w] - h.w.clip, h.count)
             clip == h.w.clip + j
  <2>2. r.w = [h.w EXCEPT !.clip = clip, !.inReload = FALSE] /\ r.nextAttack = h.nextAttack
    BY <2>1, ReloadedFields
  <2>. HIDE DEF r, clip
  <2>3. /\ r.w.special = h.w.special /\ r.w.nextPrimary = h.w.nextPrimary
        /\ r.w.idle = h.w.idle /\ r.w.inReload = FALSE
    BY <2>1, <2>2 DEF Hand, WeaponData
  <2>4. Whole(w, r.w, r.count)
    BY <1>2, <2>3 DEF Whole, Fine
  <2>5. Fine(w, r)
    BY <2>1, <2>2, <2>3, <2>4, FineAgain
  <2>. QED  BY <1>2, <2>5 DEF Due, r
<1>. QED  BY <1>1, <1>2

LEMMA MagazineFireFine ==
  ASSUME NEW w \in Weapon, w \notin Shells, NEW h, Fine(w, h)
  PROVE  Fine(w, MagazineFire(w, h))
<1> DEFINE r == MagazineFire(w, h)
           held == w \in Semi
<1>1. /\ h \in Hand /\ Fits(w, r) /\ "dry" \in Delays /\ "cycle" \in Delays
      /\ h.w.clip \in Int
  BY MagazineFireMoves, HandFields DEF Fine, Fits, Result, Delays
<1>2. /\ r.nextAttack = h.nextAttack /\ r.w.idle = h.w.idle /\ r.w.special = h.w.special
      /\ \/ r.w.nextPrimary = h.w.nextPrimary
         \/ r.w.nextPrimary = delay["dry"] \/ r.w.nextPrimary = delay["cycle"]
  <2>1. CASE held /\ h.w.fired
    BY <2>1 DEF MagazineFire
  <2>2. CASE ~ (held /\ h.w.fired) /\ h.w.clip <= 0
    <3> DEFINE t == IF h.fireOnEmpty THEN delay["dry"] ELSE h.w.nextPrimary
    <3>1. r = [h EXCEPT !.w.fired = held,
                        !.w.nextPrimary = IF h.fireOnEmpty THEN delay["dry"] ELSE @]
      BY <1>1, <2>2 DEF MagazineFire
    <3>. HIDE DEF r, held
    <3>2. r.nextAttack = h.nextAttack /\ r.w.idle = h.w.idle /\ r.w.special = h.w.special
      BY <1>1, <3>1 DEF Hand, WeaponData
    <3>3. r.w.nextPrimary = t
      BY <1>1, <3>1 DEF Hand, WeaponData
    <3>. QED  BY <3>2, <3>3 DEF r
  <2>3. CASE ~ (held /\ h.w.fired) /\ h.w.clip > 0
    <3> DEFINE clip == h.w.clip - 1
               ammo == IF w \in Miscounted THEN h.ammo - 1 ELSE h.ammo
               t == delay["cycle"]
    <3>1. r = [h EXCEPT !.w.fired = held, !.w.clip = clip, !.ammo = ammo,
                        !.w.nextPrimary = t, !.w.nextSecondary = t]
      BY <2>3 DEF MagazineFire
    <3>. HIDE DEF r, held, clip, ammo, t
    <3>2. /\ r.nextAttack = h.nextAttack /\ r.w.idle = h.w.idle /\ r.w.special = h.w.special
          /\ r.w.nextPrimary = t
      BY <1>1, <3>1 DEF Hand, WeaponData
    <3>. QED  BY <3>2 DEF r, t
  <2>. QED  BY <1>1, <2>1, <2>2, <2>3
<1>. HIDE DEF r
<1>3. Whole(w, r.w, r.count)
  BY <1>2 DEF Whole, Fine
<1>4. Fine(w, r)
  BY <1>1, <1>2, <1>3, FineAgain
<1>. QED  BY <1>4 DEF r

LEMMA ShotgunFireFine ==
  ASSUME NEW w \in Weapon, w \in Shells, NEW h, Fine(w, h)
  PROVE  Fine(w, ShotgunFire(w, h))
<1> DEFINE r == ShotgunFire(w, h)
<1>1. /\ h \in Hand /\ Fits(w, r) /\ {"click", "hold", "pump"} \subseteq Delays
      /\ h.w.clip \in Int
  BY ShotgunFireMoves, HandFields DEF Fine, Fits, Delays
<1>2. CASE h.w.clip <= 0
  <2> DEFINE g == ShellReload(w, h)
             t == delay["click"]
  <2>1. r = [g EXCEPT !.w.nextPrimary = t]
    BY <1>2 DEF ShotgunFire
  <2>2. Fine(w, g)
    <3>1. Reload(w, h) = g
      BY DEF Reload
    <3>. QED  BY <3>1, ReloadFine
  <2>. HIDE DEF g, t, r
  <2>3. g \in Hand
    BY <2>2 DEF Fine, Fits
  <2>4. /\ r.nextAttack = g.nextAttack /\ r.w.nextPrimary = t /\ r.w.idle = g.w.idle
        /\ SameLoad(g, r)
    BY <2>1, <2>3 DEF SameLoad, Hand, WeaponData
  <2>5. Whole(w, r.w, r.count)
    BY <2>2, <2>4 DEF Whole, SameLoad, Fine
  <2>6. Fine(w, r)
    BY <1>1, <2>2, <2>4, <2>5, FineAgain DEF t
  <2>. QED  BY <2>6 DEF r
<1>3. CASE ~ h.w.clip <= 0
  <2> DEFINE clip == h.w.clip - 1
             t == IF h.w.clip > 1 THEN delay["hold"] ELSE delay["pump"]
             p == delay["pump"]
  <2>1. r = [h EXCEPT !.w.clip = clip, !.w.special = 0, !.w.idle = t,
                      !.w.nextPrimary = p, !.w.nextSecondary = p]
    BY <1>3 DEF ShotgunFire
  <2>2. t = delay["hold"] \/ t = delay["pump"]
    OBVIOUS
  <2>. HIDE DEF clip, t, p, r
  <2>3. /\ r.nextAttack = h.nextAttack /\ r.w.nextPrimary = p /\ r.w.idle = t
        /\ r.w.special = 0 /\ r.w.inReload = h.w.inReload
    BY <1>1, <2>1 DEF Hand, WeaponData
  <2>4. Whole(w, r.w, r.count)
    BY <2>3 DEF Whole, Fine
  <2>5. Fine(w, r)
    BY <1>1, <2>2, <2>3, <2>4, FineAgain DEF p
  <2>. QED  BY <2>5 DEF r
<1>. QED  BY <1>2, <1>3

LEMMA SecondaryAttackFine ==
  ASSUME NEW w \in Weapon, NEW h, Fine(w, h)
  PROVE  Fine(w, SecondaryAttack(h))
<1> DEFINE t == delay["silencer"]
           r == SecondaryAttack(h)
<1>1. h \in Hand /\ Fits(w, r) /\ "silencer" \in Delays
  BY SecondaryAttackMoves DEF Fine, Fits, Result, Delays
<1>2. r = [h EXCEPT !.w.nextPrimary = t, !.w.nextSecondary = t]
  BY DEF SecondaryAttack
<1>. HIDE DEF t, r
<1>3. /\ r.nextAttack = h.nextAttack /\ r.w.nextPrimary = t /\ r.w.idle = h.w.idle
      /\ SameLoad(h, r)
  BY <1>1, <1>2 DEF SameLoad, Hand, WeaponData
<1>4. Whole(w, r.w, r.count)
  BY <1>3 DEF Whole, SameLoad, Fine
<1>5. Fine(w, r)
  BY <1>1, <1>3, <1>4, FineAgain DEF t
<1>. QED  BY <1>5 DEF r

LEMMA WeaponIdleFine ==
  ASSUME NEW w \in Weapon, NEW h, Fine(w, h)
  PROVE  Fine(w, WeaponIdle(w, h))
<1> DEFINE r == WeaponIdle(w, h)
           t == delay["close"]
<1>1. h \in Hand /\ Fits(w, r) /\ "close" \in Delays /\ h.w.idle \in Timer
  BY WeaponIdleMoves, HandFields DEF Fine, Fits, Delays
<1>2. \/ r = h \/ (w \in Shells /\ r = ShellReload(w, h))
      \/ r = [h EXCEPT !.w.special = 0, !.w.idle = t]
  BY <1>1 DEF WeaponIdle, Timer
<1>3. CASE r = h \/ (w \in Shells /\ r = ShellReload(w, h))
  <2>1. r = h \/ r = Reload(w, h)
    BY <1>3 DEF Reload
  <2>. QED  BY <2>1, ReloadFine
<1>4. CASE r = [h EXCEPT !.w.special = 0, !.w.idle = t]
  <2>. HIDE DEF r, t
  <2>1. /\ r.nextAttack = h.nextAttack /\ r.w.nextPrimary = h.w.nextPrimary
        /\ r.w.idle = t /\ r.w.special = 0 /\ r.w.inReload = h.w.inReload
    BY <1>1, <1>4 DEF Hand, WeaponData
  <2>2. Whole(w, r.w, r.count)
    BY <2>1 DEF Whole, Fine
  <2>3. Fine(w, r)
    BY <1>1, <2>1, <2>2, FineAgain DEF t
  <2>. QED  BY <2>3 DEF r
<1>. QED  BY <1>2, <1>3, <1>4

LEMMA LetGoSame ==
  ASSUME NEW h \in Hand
  PROVE  SameTimes(h, LetGo(h)) /\ SameLoad(h, LetGo(h))
BY DEF LetGo, SameTimes, SameLoad, Hand, WeaponData

LEMMA ReleasedFine ==
  ASSUME NEW w \in Weapon, NEW h, Fine(w, h)
  PROVE  Fine(w, Released(w, h))
<1> DEFINE g == LetGo(h)
<1>1. h \in Hand /\ Fits(w, h)
  BY DEF Fine, Fits
<1>2. Fits(w, g) /\ SameTimes(h, g) /\ SameLoad(h, g)
  BY <1>1, LetGoMoves, LetGoSame
<1>3. Released(w, h) = Reload(w, g) \/ Released(w, h) = WeaponIdle(w, g)
  BY ReleasedByLetGo
<1>. HIDE DEF g
<1>4. Fine(w, g)
  BY <1>2, SameIsFine
<1>. QED  BY <1>3, <1>4, ReloadFine, WeaponIdleFine

LEMMA ItemPostFrameFine ==
  ASSUME NEW w \in Weapon, NEW h, Fine(w, h), NEW buttons
  PROVE  Fine(w, ItemPostFrame(w, h, buttons))
<1> DEFINE g == Due(w, h)
           p == Pulled(g)
           held == Held(w, buttons)
<1>1. Fine(w, g)
  BY DueFine
<1>2. ItemPostFrame(w, h, buttons) = Asked(w, g, held)
  BY ItemPostFrameParts
<1>. HIDE DEF g, held
<1>3. g \in Hand /\ Fits(w, g)
  BY <1>1 DEF Fine, Fits
<1>4. Fits(w, p) /\ SameTimes(g, p) /\ SameLoad(g, p)
  BY <1>3, PulledMoves DEF SameTimes, SameLoad
<1>5. \/ Asked(w, g, held) = SecondaryAttack(g)
      \/ Asked(w, g, held) = PrimaryAttack(w, p)
      \/ Asked(w, g, held) = Reload(w, g)
      \/ Asked(w, g, held) = Released(w, g)
      \/ Asked(w, g, held) = g
  BY Zenon DEF Asked
<1>. HIDE DEF p
<1>6. Fine(w, p)
  BY <1>1, <1>4, SameIsFine
<1>7. Fine(w, PrimaryAttack(w, p))
  <2>1. CASE w \in Shells
    BY <1>6, <2>1, ShotgunFireFine DEF PrimaryAttack
  <2>2. CASE w \notin Shells
    BY <1>6, <2>2, MagazineFireFine DEF PrimaryAttack
  <2>. QED  BY <2>1, <2>2
<1>. QED  BY <1>1, <1>2, <1>5, <1>7, SecondaryAttackFine, ReloadFine, ReleasedFine
-----------------------------------------------------------------------------
(***************************************************************************)
(* The ticks that are left once the timers have run out.  A shotgun takes  *)
(* two and the delay for each shell it loads, and one to close.            *)
(***************************************************************************)
Loads(w, d, n) == Min2(maxClip[w] - d.clip, n)

Loading(n) == n * (delay["shell"] + 2)

Left(w, d, n) ==
  CASE w \notin Shells ->
         IF d.inReload THEN 1 ELSE IF d.clip = 0 /\ n > 0 THEN delay["reload"] + 2 ELSE 0
    [] w \in Shells /\ d.special = 0 ->
         IF d.clip = 0 /\ n > 0 THEN delay["start"] + 2 + Loading(Loads(w, d, n)) ELSE 0
    [] w \in Shells /\ d.special = 1 -> 1 + Loading(Loads(w, d, n))
    [] w \in Shells /\ d.special = 2 ->
         IF Loads(w, d, n) = 0 THEN 1 ELSE 2 + Loading(Loads(w, d, n) - 1)

LEMMA LoadingUp ==
  /\ Loading(0) = 0
  /\ \A n \in Nat : /\ Loading(n) \in Nat
                    /\ Loading(n + 1) = Loading(n) + delay["shell"] + 2
                    /\ \A m \in Nat : m <= n => Loading(m) <= Loading(n)
<1>1. delay["shell"] \in Nat
  BY Constants DEF Delays
<1>2. \A s \in Nat, n \in Nat, m \in Nat :
        /\ 0 * (s + 2) = 0 /\ n * (s + 2) \in Nat
        /\ (n + 1) * (s + 2) = n * (s + 2) + s + 2
        /\ m <= n => m * (s + 2) <= n * (s + 2)
  OBVIOUS
<1>. QED  BY <1>1, <1>2 DEF Loading

LEMMA LeftOfMagazine ==
  ASSUME NEW w \in Weapon, w \notin Shells, NEW d, NEW n
  PROVE  Left(w, d, n) = IF d.inReload THEN 1
                         ELSE IF d.clip = 0 /\ n > 0 THEN delay["reload"] + 2 ELSE 0
BY DEF Left

LEMMA LeftOfShotgun ==
  ASSUME NEW w \in Weapon, w \in Shells, NEW d, NEW n
  PROVE  /\ d.special = 0 =>
              Left(w, d, n) = IF d.clip = 0 /\ n > 0
                              THEN delay["start"] + 2 + Loading(Loads(w, d, n)) ELSE 0
         /\ d.special = 1 => Left(w, d, n) = 1 + Loading(Loads(w, d, n))
         /\ d.special = 2 => Left(w, d, n) = IF Loads(w, d, n) = 0 THEN 1
                                             ELSE 2 + Loading(Loads(w, d, n) - 1)
BY DEF Left

LEMMA LoadsIsNat ==
  ASSUME NEW w \in Weapon, NEW h, Fits(w, h)
  PROVE  /\ Loads(w, h.w, h.count) \in 0 .. maxClip[w]
         /\ h.count > 0 /\ h.w.clip # maxClip[w] => Loads(w, h.w, h.count) > 0
<1>1. h.w.clip \in 0 .. maxClip[w] /\ h.count \in Nat /\ maxClip[w] \in Nat
  BY HandFields, Constants DEF Fits
<1>. QED  BY <1>1 DEF Loads, Min2

LEMMA LeftIsNat ==
  ASSUME NEW w \in Weapon, NEW h, Fits(w, h)
  PROVE  Left(w, h.w, h.count) \in Nat
<1>1. h.w.special \in {0, 1, 2}
  BY HandFields DEF Fits
<1>2. /\ Loads(w, h.w, h.count) \in Nat /\ delay["start"] \in Nat /\ delay["reload"] \in Nat
      /\ Loads(w, h.w, h.count) # 0 => Loads(w, h.w, h.count) - 1 \in Nat
  BY LoadsIsNat, Constants DEF Delays
<1>3. /\ Loading(Loads(w, h.w, h.count)) \in Nat
      /\ Loads(w, h.w, h.count) # 0 => Loading(Loads(w, h.w, h.count) - 1) \in Nat
  BY <1>2, LoadingUp
<1>4. CASE w \notin Shells
  BY <1>2, <1>4, LeftOfMagazine
<1>5. CASE w \in Shells
  BY <1>1, <1>2, <1>3, <1>5, LeftOfShotgun
<1>. QED  BY <1>4, <1>5

LEMMA LeftOfSame ==
  ASSUME NEW w, NEW h, NEW r, SameLoad(h, r)
  PROVE  Left(w, r.w, r.count) = Left(w, h.w, h.count)
BY DEF SameLoad, Left, Loads

(***************************************************************************)
(* A tick without a button gets nearer to the end: nothing is left, or a   *)
(* timer still runs and all is as it was, or a delay x begins that the     *)
(* ticks that are left have to spare.                                      *)
(***************************************************************************)
Runs(h) == h.nextAttack > 0 \/ h.w.nextPrimary >= 0 \/ h.w.idle >= 0

Nearer(w, h, r) ==
  LET l == Left(w, h.w, h.count)
      m == Left(w, r.w, r.count)
  IN  \/ m = 0
      \/ m = l /\ SameTimes(h, r) /\ Runs(h)
      \/ \E x \in Nat : /\ m + x + 1 <= l
                        /\ r.nextAttack \in {h.nextAttack, x}
                        /\ r.w.nextPrimary \in {h.w.nextPrimary, x}
                        /\ r.w.idle \in {h.w.idle, x}

LEMMA NearerFromSame ==
  ASSUME NEW w, NEW h, NEW g, NEW r, SameTimes(h, g), SameLoad(h, g), Nearer(w, g, r)
  PROVE  Nearer(w, h, r)
<1>1. Left(w, g.w, g.count) = Left(w, h.w, h.count)
  BY LeftOfSame
<1>. QED  BY <1>1, Zenon DEF Nearer, Runs, SameTimes

LEMMA ShellReloadNearer ==
  ASSUME NEW w \in Weapon, w \in Shells, NEW h, Fits(w, h),
         h.count > 0, h.w.clip # maxClip[w], h.w.special = 0 => h.w.clip = 0
  PROVE  Nearer(w, h, ShellReload(w, h))
<1> DEFINE r == ShellReload(w, h)
           start == delay["start"]
           shell == delay["shell"]
           n == Loads(w, h.w, h.count)
           m == Loads(w, r.w, r.count)
           l == Left(w, h.w, h.count)
           k == Left(w, r.w, r.count)
<1>0. /\ h \in Hand /\ start \in Nat /\ shell \in Nat /\ n \in Nat /\ n > 0
      /\ h.count \in Int /\ h.w.clip \in 0 .. maxClip[w] /\ maxClip[w] \in Nat
  BY LoadsIsNat, HandFields, Constants DEF Fits, Delays
<1>1. \/ r = h /\ h.w.nextPrimary > 0
      \/ r = h /\ h.w.idle > 0
      \/ /\ h.w.special = 0 /\ r.w.special = 1
         /\ r.nextAttack = start /\ r.w.idle = start /\ r.w.nextPrimary = start
         /\ r.w.clip = h.w.clip /\ r.count = h.count
      \/ /\ h.w.special = 1 /\ r.w.special = 2
         /\ r.nextAttack = h.nextAttack /\ r.w.idle = shell
         /\ r.w.nextPrimary = h.w.nextPrimary
         /\ r.w.clip = h.w.clip /\ r.count = h.count
      \/ /\ h.w.special = 2 /\ r.w.special = 1 /\ SameTimes(h, r)
         /\ r.w.clip = h.w.clip + 1 /\ r.count = h.count - 1
  BY <1>0, ShellReloadSteps
<1>2. Loading(n) \in Nat /\ Loading(n - 1) \in Nat /\ Loading(n) = Loading(n - 1) + shell + 2
  <2>1. n - 1 \in Nat /\ (n - 1) + 1 = n
    BY <1>0
  <2>. HIDE DEF n
  <2>2. Loading((n - 1) + 1) = Loading(n - 1) + delay["shell"] + 2
    BY <2>1, LoadingUp
  <2>. QED  BY <1>0, <2>1, <2>2, LoadingUp
<1>3. /\ h.w.special = 0 => l = start + 2 + Loading(n)
      /\ h.w.special = 1 => l = 1 + Loading(n)
      /\ h.w.special = 2 => l = 2 + Loading(n - 1)
  BY <1>0, LeftOfShotgun
<1>4. r.w.special = 1 => k = 1 + Loading(m)
  BY LeftOfShotgun
<1>5. r.w.special = 2 => k = IF m = 0 THEN 1 ELSE 2 + Loading(m - 1)
  BY LeftOfShotgun
<1>6. /\ r.w.clip = h.w.clip /\ r.count = h.count => m = n
      /\ r.w.clip = h.w.clip + 1 /\ r.count = h.count - 1 => m = n - 1
  BY <1>0 DEF Loads, Min2
<1>. HIDE DEF r, start, shell, n, m
<1>7. ASSUME r = h /\ (h.w.nextPrimary > 0 \/ h.w.idle > 0)
      PROVE  Nearer(w, h, r)
  <2>1. h.w.nextPrimary \in Int /\ h.w.idle \in Int
    BY <1>0, HandFields DEF Timer
  <2>. QED  BY <1>7, <2>1 DEF Nearer, SameTimes, Runs, r
<1>8. ASSUME NEW x \in Nat, k + x + 1 <= l, r.nextAttack \in {h.nextAttack, x},
             r.w.nextPrimary \in {h.w.nextPrimary, x}, r.w.idle \in {h.w.idle, x}
      PROVE  Nearer(w, h, r)
  BY <1>8 DEF Nearer
<1>9. ASSUME /\ h.w.special = 0 /\ r.w.special = 1
             /\ r.nextAttack = start /\ r.w.idle = start /\ r.w.nextPrimary = start
             /\ r.w.clip = h.w.clip /\ r.count = h.count
      PROVE  Nearer(w, h, r)
  <2>1. k + start + 1 <= l
    BY <1>0, <1>2, <1>3, <1>4, <1>6, <1>9
  <2>. HIDE DEF k, l
  <2>. QED  BY <1>0, <1>8, <1>9, <2>1
<1>10. ASSUME /\ h.w.special = 1 /\ r.w.special = 2
              /\ r.nextAttack = h.nextAttack /\ r.w.idle = shell
              /\ r.w.nextPrimary = h.w.nextPrimary
              /\ r.w.clip = h.w.clip /\ r.count = h.count
       PROVE  Nearer(w, h, r)
  <2>1. k + shell + 1 <= l
    BY <1>0, <1>2, <1>3, <1>5, <1>6, <1>10
  <2>. HIDE DEF k, l
  <2>. QED  BY <1>0, <1>8, <1>10, <2>1
<1>11. ASSUME /\ h.w.special = 2 /\ r.w.special = 1 /\ SameTimes(h, r)
              /\ r.w.clip = h.w.clip + 1 /\ r.count = h.count - 1
       PROVE  Nearer(w, h, r)
  <2>1. k + 0 + 1 <= l
    BY <1>0, <1>2, <1>3, <1>4, <1>6, <1>11
  <2>. HIDE DEF k, l
  <2>. QED  BY <1>8, <1>11, <2>1 DEF SameTimes
<1>12. Nearer(w, h, r)
  BY <1>1, <1>7, <1>9, <1>10, <1>11, Zenon DEF r, start, shell
<1>. QED  BY <1>12 DEF r

LEMMA ReleasedShotgunNearer ==
  ASSUME NEW w \in Weapon, w \in Shells, NEW h, Fine(w, h)
  PROVE  Nearer(w, h, Released(w, h))
<1> DEFINE g == LetGo(h)
<1>1. h \in Hand /\ Fits(w, h) /\ g \in Hand /\ Fits(w, g)
  BY LetGoMoves DEF Fine, Fits
<1>2. SameTimes(h, g) /\ SameLoad(h, g)
  BY <1>1, LetGoSame
<1>3. Released(w, h) = IF h.w.clip = 0 /\ h.w.nextPrimary < 0 THEN ShellReload(w, g)
                       ELSE WeaponIdle(w, g)
  BY ReleasedByLetGo DEF Reload
<1>. HIDE DEF g
<1>4. Fine(w, g)
  BY <1>1, <1>2, SameIsFine
<1>5. /\ g.w.clip \in 0 .. maxClip[w] /\ g.count \in Nat /\ maxClip[w] \in Nat \ {0}
      /\ g.w.special \in {0, 1, 2} /\ g.w.idle \in Int /\ g.w.nextPrimary \in Int
      /\ g.w.special # 0 => g.w.clip > 0 \/ g.count > 0
  BY <1>1, <1>4, HandFields, Constants DEF Fits, Fine, Whole, Timer
<1>6. CASE h.w.clip = 0 /\ h.w.nextPrimary < 0
  <2>1. g.w.clip = 0 /\ Released(w, h) = ShellReload(w, g)
    BY <1>2, <1>3, <1>6 DEF SameLoad
  <2>2. CASE g.count = 0
    <3>1. g.w.special = 0 /\ ShellReload(w, g) = g
      BY <1>5, <2>1, <2>2 DEF ShellReload
    <3>2. Left(w, g.w, g.count) = 0
      BY <2>2, <3>1, LeftOfShotgun
    <3>3. Nearer(w, g, ShellReload(w, g))
      BY <3>1, <3>2 DEF Nearer
    <3>. QED  BY <1>2, <2>1, <3>3, NearerFromSame
  <2>3. CASE g.count # 0
    <3>1. g.count > 0 /\ g.w.clip # maxClip[w]
      BY <1>5, <2>1, <2>3
    <3>2. Nearer(w, g, ShellReload(w, g))
      BY <1>1, <2>1, <3>1, ShellReloadNearer
    <3>. QED  BY <1>2, <2>1, <3>2, NearerFromSame
  <2>. QED  BY <2>2, <2>3
<1>7. CASE ~ (h.w.clip = 0 /\ h.w.nextPrimary < 0)
  <2> DEFINE r == WeaponIdle(w, g)
  <2>0. Released(w, h) = r
    BY <1>3, <1>7
  <2>1. ASSUME g.w.idle >= 0
        PROVE  Nearer(w, g, r)
    <3>1. r = g
      BY <1>5, <2>1 DEF WeaponIdle
    <3>. QED  BY <2>1, <3>1 DEF Nearer, SameTimes, Runs
  <2>2. ASSUME g.w.idle < 0 /\ g.w.special = 0 /\ g.w.clip = 0 /\ g.count # 0
        PROVE  Nearer(w, g, r)
    <3>1. r = ShellReload(w, g) /\ g.count > 0 /\ g.w.clip # maxClip[w]
      BY <1>5, <2>2 DEF WeaponIdle
    <3>. QED  BY <1>1, <2>2, <3>1, ShellReloadNearer
  <2>3. ASSUME g.w.idle < 0 /\ g.w.special = 0 /\ ~ (g.w.clip = 0 /\ g.count # 0)
        PROVE  Nearer(w, g, r)
    <3>1. r = g
      BY <1>5, <2>3 DEF WeaponIdle
    <3>2. Left(w, g.w, g.count) = 0
      BY <1>5, <2>3, LeftOfShotgun
    <3>. QED  BY <3>1, <3>2 DEF Nearer
  <2>4. ASSUME g.w.idle < 0 /\ g.w.special # 0 /\ g.w.clip # maxClip[w] /\ g.count # 0
        PROVE  Nearer(w, g, r)
    <3>1. r = ShellReload(w, g) /\ g.count > 0
      BY <1>5, <2>4 DEF WeaponIdle
    <3>. QED  BY <1>1, <2>4, <3>1, ShellReloadNearer
  <2>5. ASSUME g.w.idle < 0 /\ g.w.special # 0 /\ ~ (g.w.clip # maxClip[w] /\ g.count # 0)
        PROVE  Nearer(w, g, r)
    <3> DEFINE t == delay["close"]
    <3>1. r = [g EXCEPT !.w.special = 0, !.w.idle = t]
      BY <1>5, <2>5 DEF WeaponIdle
    <3>. HIDE DEF r, t
    <3>2. r.w.special = 0 /\ r.w.clip = g.w.clip /\ r.count = g.count
      BY <1>1, <3>1 DEF Hand, WeaponData
    <3>3. ~ (r.w.clip = 0 /\ r.count > 0)
      BY <1>5, <2>5, <3>2
    <3>4. Left(w, r.w, r.count) = 0
      BY <3>2, <3>3, LeftOfShotgun
    <3>. QED  BY <3>4 DEF Nearer
  <2>6. Nearer(w, g, r)
    BY <1>5, <2>1, <2>2, <2>3, <2>4, <2>5
  <2>. HIDE DEF r
  <2>. QED  BY <1>2, <2>0, <2>6, NearerFromSame
<1>. QED  BY <1>6, <1>7

LEMMA ReleasedMagazineNearer ==
  ASSUME NEW w \in Weapon, w \notin Shells, NEW h, Fits(w, h), ~ h.w.inReload,
         h.count > 0 => h.ammo > 0
  PROVE  Nearer(w, h, Released(w, h))
<1> DEFINE g == LetGo(h)
           r == Released(w, h)
           t == delay["reload"]
<1>1. h \in Hand /\ Fits(w, g) /\ g \in Hand /\ g.ammo = h.ammo
  BY LetGoMoves DEF Fits
<1>2. SameTimes(h, g) /\ SameLoad(h, g)
  BY <1>1, LetGoSame
<1>3. WeaponIdle(w, g) = g
  BY DEF WeaponIdle
<1>4. r = IF h.w.clip = 0 /\ h.w.nextPrimary < 0 THEN MagazineReload(w, g) ELSE g
  BY <1>3, ReleasedByLetGo DEF Reload
<1>5. /\ h.w.clip \in Nat /\ h.count \in Nat /\ h.ammo \in Int /\ h.w.nextPrimary \in Timer
      /\ maxClip[w] \in Nat \ {0} /\ t \in Nat
  BY <1>1, HandFields, Constants DEF Fits, Delays
<1>6. Left(w, h.w, h.count) = IF h.w.clip = 0 /\ h.count > 0 THEN t + 2 ELSE 0
  BY LeftOfMagazine
<1>7. Left(w, g.w, g.count) = Left(w, h.w, h.count)
  BY <1>2, LeftOfSame
<1>8. g.w.clip = h.w.clip /\ g.count = h.count /\ g.w.inReload = h.w.inReload
  BY <1>2 DEF SameLoad
<1>. HIDE DEF g, r, t
<1>9. CASE h.w.clip = 0 /\ h.count > 0 /\ h.w.nextPrimary < 0
  <2>1. r = DefaultReload(w, g)
    BY <1>1, <1>4, <1>5, <1>9 DEF MagazineReload
  <2>2. Min2(maxClip[w] - g.w.clip, g.count) # 0 /\ g.count > 0
    BY <1>5, <1>8, <1>9 DEF Min2
  <2>3. /\ r.nextAttack = t /\ r.w.inReload /\ r.w.nextPrimary = g.w.nextPrimary
        /\ r.w.idle = g.w.idle
    BY <1>1, <2>1, <2>2, DefaultReloadSteps DEF t
  <2>4. Left(w, r.w, r.count) = 1
    BY <2>3, LeftOfMagazine
  <2>5. 1 + t + 1 <= Left(w, h.w, h.count)
    BY <1>5, <1>6, <1>9
  <2>6. /\ r.nextAttack \in {h.nextAttack, t} /\ r.w.nextPrimary \in {h.w.nextPrimary, t}
        /\ r.w.idle \in {h.w.idle, t}
    BY <1>2, <2>3 DEF SameTimes
  <2>7. Nearer(w, h, r)
    BY <1>5, <2>4, <2>5, <2>6 DEF Nearer
  <2>. QED  BY <2>7 DEF r
<1>10. CASE ~ (h.w.clip = 0 /\ h.count > 0)
  <2>1. h.w.clip = 0 => MagazineReload(w, g) = g
    BY <1>5, <1>8, <1>10 DEF MagazineReload, DefaultReload
  <2>2. r = g
    BY <1>4, <2>1
  <2>3. Left(w, r.w, r.count) = 0
    BY <1>6, <1>7, <1>10, <2>2
  <2>. QED  BY <2>3 DEF Nearer, r
<1>11. CASE h.w.clip = 0 /\ h.count > 0 /\ ~ h.w.nextPrimary < 0
  <2>1. r = g /\ h.w.nextPrimary >= 0
    BY <1>4, <1>5, <1>11 DEF Timer
  <2>. QED  BY <1>2, <1>7, <2>1 DEF Nearer, Runs, r
<1>. QED  BY <1>9, <1>10, <1>11

LEMMA UntouchedCommand == Untouched \in Command /\ Untouched.buttons = {} /\ Untouched.select = {}
<1>1. Untouched.buttons = {} /\ Untouched.select = {}
  BY DEF Untouched
<1>2. \A b \in SUBSET Buttons : \A s \in {{}} \cup {{w} : w \in Weapon} :
        [buttons |-> b, select |-> s] \in Command
  BY DEF Command
<1>3. {} \in SUBSET Buttons /\ {} \in {{}} \cup {{w} : w \in Weapon}
  OBVIOUS
<1>. QED  BY <1>1, <1>2, <1>3 DEF Untouched

LEMMA ItemPostFrameNearer ==
  ASSUME NEW w \in Weapon, NEW h, Fine(w, h), h.ammo = h.count
  PROVE  Nearer(w, h, ItemPostFrame(w, h, {}))
<1> DEFINE g == Due(w, h)
           r == Released(w, g)
<1>1. ItemPostFrame(w, h, {}) = r
  <2>1. Held(w, {}) = {}
    BY DEF Held
  <2>2. Asked(w, g, {}) = r
    BY Zenon DEF Asked
  <2>. QED  BY <2>1, <2>2, ItemPostFrameParts
<1>2. /\ h \in Hand /\ Fits(w, h) /\ h.count \in Nat /\ maxClip[w] \in Nat \ {0}
      /\ h.w.clip \in 0 .. maxClip[w]
  BY HandFields, Constants DEF Fine, Fits
<1>3. CASE w \in Shells
  <2>1. g = h
    BY <1>3 DEF Due, Fine, Whole
  <2>. HIDE DEF g
  <2>. QED  BY <1>1, <1>3, <2>1, ReleasedShotgunNearer
<1>4. CASE w \notin Shells /\ ~ h.w.inReload
  <2>1. g = h
    BY <1>4 DEF Due
  <2>. HIDE DEF g
  <2>. QED  BY <1>1, <1>2, <1>4, <2>1, ReleasedMagazineNearer
<1>5. CASE w \notin Shells /\ h.w.inReload
  <2> DEFINE j == Min2(maxClip[w] - h.w.clip, h.count)
  <2>1. g = Reloaded(w, h)
    BY <1>5 DEF Due
  <2>2. Fits(w, g) /\ g.ammo = h.ammo
    BY <1>2, <2>1, ReloadedMoves
  <2>3. g.w.clip = h.w.clip + j /\ g.count = h.count - j /\ ~ g.w.inReload
    BY <1>2, <2>1, ReloadedFields
  <2>4. /\ j \in 0 .. h.count
        /\ h.w.clip + j = 0 => h.count - j = 0
    BY <1>2 DEF Min2
  <2>. HIDE DEF g, j, r
  <2>5. g.count \in Nat /\ (g.count > 0 => g.ammo > 0)
    BY <1>2, <2>2, <2>3, <2>4
  <2>6. Left(w, g.w, g.count) = 0
    BY <1>5, <2>3, <2>4, <2>5, LeftOfMagazine
  <2>7. Nearer(w, g, r) /\ Fits(w, r)
    BY <1>5, <2>2, <2>3, <2>5, ReleasedMagazineNearer, ReleasedMoves DEF r
  <2>8. Left(w, r.w, r.count) \in Nat
    BY <2>7, LeftIsNat
  <2>9. Left(w, r.w, r.count) = 0
    BY <2>6, <2>7, <2>8 DEF Nearer
  <2>. QED  BY <1>1, <2>9 DEF Nearer
<1>. QED  BY <1>3, <1>4, <1>5
-----------------------------------------------------------------------------
(***************************************************************************)
(* The states of the server.  They are calm: no timer of theirs leaves too *)
(* little time, every weapon's data is whole, and a weapon that is being   *)
(* loaded shell by shell is one the player carries.                        *)
(***************************************************************************)
Calm(c) == /\ c.has \in Inventories /\ c.id \in c.has /\ c.nextAttack + 1 \in Lasting
           /\ \A v \in Weapon : /\ c.wpn[v].nextPrimary + 1 \in Lasting
                                /\ c.wpn[v].idle + 1 \in Lasting
                                /\ Whole(v, c.wpn[v], c.ammo[ammoType[v]])
                                /\ c.wpn[v].special # 0 => v \in c.has

LEMMA CalmHand ==
  ASSUME NEW c, Sound(c), Own(c), Calm(c)
  PROVE  /\ Fine(c.id, HandOf(c, Off))
         /\ HandOf(c, Off).ammo = HandOf(c, Off).count
<1> DEFINE h == HandOf(c, Off)
           w == c.id
<1>1. Off \in [Weapon -> BOOLEAN]
  BY DEF Off
<1>2. /\ Fits(w, h) /\ h.w = c.wpn[w] /\ h.count = c.count /\ h.nextAttack = c.nextAttack
      /\ h.ammo = c.ammo[ammoType[w]]
  BY <1>1, HandOfFits
<1>. HIDE DEF h
<1>3. c \in Client /\ w \in Weapon /\ c.nextAttack \in Timer /\ c.wpn[w] \in WeaponData
  BY ClientFields DEF Sound
<1>4. c.wpn[w].nextPrimary \in Timer /\ c.wpn[w].idle \in Timer
  BY <1>3 DEF WeaponData
<1>5. c.count = c.ammo[ammoType[w]]
  BY DEF Own
<1>6. c.nextAttack \in Lasting /\ InTime(c.wpn[w])
  BY <1>3, <1>4, LastsShorter DEF Calm, InTime
<1>7. Whole(w, c.wpn[w], c.count)
  BY <1>3, <1>5 DEF Calm
<1>. QED  BY <1>2, <1>5, <1>6, <1>7 DEF Fine, h

LEMMA RanFine ==
  ASSUME NEW c, Sound(c), Own(c), Calm(c), NEW cmd
  PROVE  Fine(c.id, Ran(c, Off, cmd))
<1>1. Fine(c.id, HandOf(c, Off)) /\ c.id \in Weapon
  BY CalmHand, ClientFields DEF Sound
<1>. QED  BY <1>1, ItemPostFrameFine DEF Ran

LEMMA ElapsedFields ==
  ASSUME NEW d \in WeaponData
  PROVE  /\ Elapsed(d).special = d.special /\ Elapsed(d).inReload = d.inReload
         /\ Elapsed(d).clip = d.clip
         /\ Elapsed(d).nextPrimary = Less(d.nextPrimary) /\ Elapsed(d).idle = Less(d.idle)
<1> DEFINE x == Less(d.nextPrimary)
           y == Less(d.nextSecondary)
           z == Less(d.idle)
<1>1. Elapsed(d) = [d EXCEPT !.nextPrimary = x, !.nextSecondary = y, !.idle = z]
  BY DEF Elapsed
<1>. HIDE DEF x, y, z
<1>2. /\ Elapsed(d).special = d.special /\ Elapsed(d).inReload = d.inReload
      /\ Elapsed(d).clip = d.clip /\ Elapsed(d).nextPrimary = x /\ Elapsed(d).idle = z
  BY <1>1 DEF WeaponData
<1>. QED  BY <1>2 DEF x, z

LEMMA CarriedCalm ==
  ASSUME NEW c, Sound(c), Calm(c), NEW d \in WeaponData, InTime(d), NEW cmd,
         NEW v \in Weapon
  PROVE  LET e == Elapsed(Carried(c, d, cmd)[v])
         IN  /\ e.nextPrimary + 1 \in Lasting /\ e.idle + 1 \in Lasting
             /\ e.special = IF v = c.id THEN d.special ELSE c.wpn[v].special
             /\ e.clip = IF v = c.id THEN d.clip ELSE c.wpn[v].clip
             /\ e.inReload => IF v = c.id THEN d.inReload ELSE c.wpn[v].inReload
<1> DEFINE a == c.wpn[v]
           b == Carried(c, d, cmd)[v]
           drawn == Switches(c, cmd) /\ v \in cmd.select
           twice == 2 * delay["draw"]
<1>1. a \in WeaponData /\ a.nextPrimary \in Timer /\ a.idle \in Timer
  BY ClientFields DEF Sound, WeaponData
<1>2. InTime(a)
  BY <1>1, LastsShorter DEF Calm, InTime
<1>3. /\ v = c.id => b = d \/ b = [d EXCEPT !.inReload = FALSE]
      /\ v # c.id => b = a \/ b = [a EXCEPT !.idle = twice]
  BY DEF Carried, Holster, Deploy
<1>4. twice \in Timer /\ twice \in Lasting
  BY DelaysLast DEF Lasting
<1>. HIDE DEF a, b, twice
<1> DEFINE f == IF v = c.id THEN d ELSE a
<1>5. f \in WeaponData /\ InTime(f)
  BY <1>1, <1>2
<1>6. b = f \/ b = [f EXCEPT !.inReload = FALSE] \/ b = [f EXCEPT !.idle = twice]
  BY <1>3
<1>. HIDE DEF f
<1>7. /\ b \in WeaponData /\ b.special = f.special /\ b.clip = f.clip
      /\ b.nextPrimary = f.nextPrimary /\ b.idle \in {f.idle, twice}
      /\ b.inReload => f.inReload
  BY <1>4, <1>5, <1>6 DEF WeaponData
<1>8. b.nextPrimary \in Lasting /\ b.idle \in Lasting
  BY <1>4, <1>5, <1>7 DEF InTime
<1>9. Less(b.nextPrimary) + 1 \in Lasting /\ Less(b.idle) + 1 \in Lasting
  BY <1>8, LessLasts
<1>10. LET e == Elapsed(b)
       IN  /\ e.nextPrimary + 1 \in Lasting /\ e.idle + 1 \in Lasting
           /\ e.special = f.special /\ e.clip = f.clip /\ (e.inReload => f.inReload)
  BY <1>7, <1>9, ElapsedFields
<1>. QED  BY <1>10 DEF b, f, a

\* The server counts the rounds of the weapon that was in hand, and no others.
LEMMA ServedAmmo ==
  ASSUME NEW c, Sound(c), Own(c), NEW cmd \in Command
  PROVE  /\ Served(c, cmd).ammo[ammoType[c.id]] = Ran(c, Off, cmd).count
         /\ \A x \in AmmoType : x # ammoType[c.id] => Served(c, cmd).ammo[x] = c.ammo[x]
<1> DEFINE q == Ran(c, Off, cmd)
           r == HUD_WeaponsPostThink(c, Off, cmd).to
           own == ammoType[c.id]
           g == [r EXCEPT !.ammo[c.type] = r.count]
           t == Served(c, cmd)
<1>0. Off \in [Weapon -> BOOLEAN]
  BY DEF Off
<1>1. Becomes(c, cmd, q, r)
  BY <1>0, PostThinkFields
<1>2. t = InHand(g)
  BY DEF Served, Off
<1>3. c \in Client /\ c.type = own /\ own \in AmmoType /\ c.ammo \in [AmmoType -> Int]
  BY ClientFields DEF Sound, Own
<1>. HIDE DEF r, q
<1>4. r \in Client /\ r.count = q.count /\ r.ammo = [c.ammo EXCEPT ![own] = q.ammo]
  BY <1>1 DEF Becomes
<1>5. r.ammo \in [AmmoType -> Int] /\ \A x \in AmmoType : x # own => r.ammo[x] = c.ammo[x]
  BY <1>3, <1>4, ClientFields
<1>. HIDE DEF own
<1> DEFINE ammo == [r.ammo EXCEPT ![own] = r.count]
<1>6. /\ ammo[own] = q.count
      /\ \A x \in AmmoType : x # own => ammo[x] = c.ammo[x]
  BY <1>3, <1>4, <1>5
<1>7. g = [r EXCEPT !.ammo = ammo]
  BY <1>3
<1>. HIDE DEF g, ammo
<1>8. g.ammo = ammo
  BY <1>4, <1>7 DEF Client
<1>9. t.ammo = ammo
  <2> DEFINE x == ammoType[g.id]
             y == g.ammo[ammoType[g.id]]
  <2>1. t = [g EXCEPT !.type = x, !.count = y]
    BY <1>2 DEF InHand
  <2>2. g = [r EXCEPT !.ammo = ammo]
    BY <1>7
  <2>. HIDE DEF x, y, t
  <2>. QED  BY <1>4, <1>8, <2>1, <2>2 DEF Client
<1>. QED  BY <1>6, <1>9 DEF own, q

LEMMA ServedBecomes ==
  ASSUME NEW c, Sound(c), Own(c), NEW cmd \in Command
  PROVE  LET r == Ran(c, Off, cmd)
             t == Served(c, cmd)
         IN  /\ Sound(t) /\ Own(t) /\ t.has = c.has
             /\ t.id = IF Switches(c, cmd) THEN Drawn(cmd) ELSE c.id
             /\ t.nextAttack = Less(IF Switches(c, cmd) THEN delay["draw"] ELSE r.nextAttack)
             /\ \A v \in Weapon : t.wpn[v] = Elapsed(Carried(c, r.w, cmd)[v])
             /\ ~ Switches(c, cmd) => t.count = r.count
<1> DEFINE q == Ran(c, Off, cmd)
           r == HUD_WeaponsPostThink(c, Off, cmd).to
           t == Served(c, cmd)
<1>0. Off \in [Weapon -> BOOLEAN]
  BY DEF Off
<1>1. Becomes(c, cmd, q, r)
  BY <1>0, PostThinkFields
<1>2. /\ Sound(t) /\ Own(t)
      /\ t.has = r.has /\ t.id = r.id /\ t.nextAttack = r.nextAttack /\ t.wpn = r.wpn
      /\ r.id = c.id => t.count = r.count
  BY ServedFields
<1>. HIDE DEF q, r, t
<1>3. /\ t.has = c.has /\ t.id = IF Switches(c, cmd) THEN Drawn(cmd) ELSE c.id
      /\ t.nextAttack = Less(IF Switches(c, cmd) THEN delay["draw"] ELSE q.nextAttack)
      /\ \A v \in Weapon : t.wpn[v] = Elapsed(Carried(c, q.w, cmd)[v])
      /\ ~ Switches(c, cmd) => t.count = q.count
  BY <1>1, <1>2 DEF Becomes
<1>. QED  BY <1>2, <1>3 DEF t, q

LEMMA ServedCalm ==
  ASSUME NEW c, Sound(c), Own(c), Calm(c), NEW cmd \in Command
  PROVE  Calm(Served(c, cmd))
<1> DEFINE q == Ran(c, Off, cmd)
           t == Served(c, cmd)
           w == c.id
<1>1. /\ t.has = c.has /\ t.id = IF Switches(c, cmd) THEN Drawn(cmd) ELSE w
      /\ t.nextAttack = Less(IF Switches(c, cmd) THEN delay["draw"] ELSE q.nextAttack)
      /\ \A v \in Weapon : t.wpn[v] = Elapsed(Carried(c, q.w, cmd)[v])
  BY ServedBecomes
<1>2. /\ t.ammo[ammoType[w]] = q.count
      /\ \A x \in AmmoType : x # ammoType[w] => t.ammo[x] = c.ammo[x]
  BY ServedAmmo
<1>3. Fine(w, q)
  BY RanFine
<1>. HIDE DEF q, t
<1>4. /\ q.w \in WeaponData /\ InTime(q.w) /\ q.nextAttack \in Lasting
      /\ Whole(w, q.w, q.count)
  BY <1>3, HandFields DEF Fine, Fits
<1>5. c.has \in Inventories /\ w \in c.has /\ c.has \in SUBSET Weapon /\ w \in Weapon
  BY WeaponAssumption DEF Calm
<1>6. t.id \in t.has
  <2>1. Switches(c, cmd) => cmd.select = {Drawn(cmd)} /\ cmd.select \subseteq c.has
    BY DrawnWeapon DEF Switches
  <2>. QED  BY <1>1, <1>5, <2>1
<1>7. t.nextAttack + 1 \in Lasting
  <2>1. delay["draw"] \in Lasting
    BY DelaysLast DEF Delays
  <2>2. (IF Switches(c, cmd) THEN delay["draw"] ELSE q.nextAttack) \in Lasting
    BY <1>4, <2>1
  <2>. QED  BY <1>1, <2>2, LessLasts
<1>8. ASSUME NEW v \in Weapon
      PROVE  /\ t.wpn[v].nextPrimary + 1 \in Lasting
             /\ t.wpn[v].idle + 1 \in Lasting
             /\ Whole(v, t.wpn[v], t.ammo[ammoType[v]])
             /\ t.wpn[v].special # 0 => v \in t.has
  <2> DEFINE e == Elapsed(Carried(c, q.w, cmd)[v])
  <2>1. /\ e.nextPrimary + 1 \in Lasting /\ e.idle + 1 \in Lasting
        /\ e.special = IF v = w THEN q.w.special ELSE c.wpn[v].special
        /\ e.clip = IF v = w THEN q.w.clip ELSE c.wpn[v].clip
        /\ e.inReload => IF v = w THEN q.w.inReload ELSE c.wpn[v].inReload
    BY <1>4, CarriedCalm
  <2>2. t.wpn[v] = e
    BY <1>1
  <2>. HIDE DEF e
  <2>3. e.special # 0 => v \in c.has
    BY <1>5, <2>1 DEF Calm
  <2>4. Whole(v, e, t.ammo[ammoType[v]])
    <3>1. CASE v = w
      BY <1>2, <1>4, <2>1, <3>1 DEF Whole
    <3>2. CASE v # w
      <4>1. Whole(v, c.wpn[v], c.ammo[ammoType[v]])
        BY DEF Calm
      <4>2. e.special # 0 => ammoType[v] # ammoType[w]
        BY <1>5, <2>1, <2>3, <3>2, <4>1, InventoryAssumption DEF Whole
      <4>3. e.special # 0 => t.ammo[ammoType[v]] = c.ammo[ammoType[v]]
        BY <1>2, <4>2, WeaponAssumption
      <4>. QED  BY <2>1, <3>2, <4>1, <4>3 DEF Whole
    <3>. QED  BY <3>1, <3>2
  <2>. QED  BY <1>1, <2>1, <2>2, <2>3, <2>4
<1>9. Calm(t)
  BY <1>1, <1>5, <1>6, <1>7, <1>8 DEF Calm
<1>. QED  BY <1>9 DEF t
-----------------------------------------------------------------------------
(***************************************************************************)
(* A weapon that is left alone.  It is ready k ticks from now when none of *)
(* its timers and what is left after them take longer.                     *)
(***************************************************************************)
ReadyBy(c, k) ==
  LET d == c.wpn[c.id]
      l == Left(c.id, d, c.count)
  IN  \/ l = 0
      \/ /\ l <= k /\ c.nextAttack + l <= k
         /\ d.nextPrimary + 1 + l <= k /\ d.idle + 1 + l <= k

LEMMA LeftAtMost ==
  ASSUME NEW w \in Weapon, NEW h, Fits(w, h)
  PROVE  Left(w, h.w, h.count) <= Longest(w)
<1> DEFINE n == Loads(w, h.w, h.count)
           start == delay["start"]
           most == Loading(maxClip[w])
<1>1. /\ h.w.special \in {0, 1, 2} /\ n \in 0 .. maxClip[w] /\ maxClip[w] \in Nat
      /\ start \in Nat /\ delay["reload"] \in Nat
  BY LoadsIsNat, HandFields, Constants DEF Fits, Delays
<1>. HIDE DEF n
<1>2. n \in Nat /\ n <= maxClip[w] /\ (n # 0 => n - 1 \in Nat /\ n - 1 <= maxClip[w])
  BY <1>1
<1>3. /\ most \in Nat /\ Loading(n) \in Nat /\ Loading(n) <= most
      /\ n # 0 => Loading(n - 1) \in Nat /\ Loading(n - 1) <= most
  BY <1>1, <1>2, LoadingUp
<1>4. CASE w \notin Shells
  <2>1. Longest(w) = delay["reload"] + 2
    BY <1>4 DEF Longest
  <2>. QED  BY <1>1, <1>4, <2>1, LeftOfMagazine
<1>5. CASE w \in Shells
  <2>1. Longest(w) = start + 2 + most
    BY <1>5 DEF Longest, Loading
  <2>2. \/ Left(w, h.w, h.count) = 0
        \/ Left(w, h.w, h.count) = start + 2 + Loading(n)
        \/ Left(w, h.w, h.count) = 1 + Loading(n)
        \/ Left(w, h.w, h.count) = 1
        \/ n # 0 /\ Left(w, h.w, h.count) = 2 + Loading(n - 1)
    BY <1>1, <1>5, LeftOfShotgun DEF n
  <2>. HIDE DEF start, most
  <2>. QED  BY <1>1, <1>3, <2>1, <2>2
<1>. QED  BY <1>4, <1>5

\* Whatever state the server is in, Settling ticks are enough.
LEMMA CalmReadyBy ==
  ASSUME NEW c, Sound(c), Own(c), Calm(c)
  PROVE  ReadyBy(c, Settling)
<1> DEFINE w == c.id
           d == c.wpn[w]
           l == Left(w, d, c.count)
<1>1. Off \in [Weapon -> BOOLEAN]
  BY DEF Off
<1>2. /\ Fits(w, HandOf(c, Off)) /\ HandOf(c, Off).w = d /\ HandOf(c, Off).count = c.count
  BY <1>1, HandOfFits
<1>3. c \in Client /\ w \in Weapon /\ c.nextAttack \in Int /\ d \in WeaponData
  BY ClientFields DEF Sound, Timer
<1>4. d.nextPrimary \in Int /\ d.idle \in Int
  BY <1>3 DEF WeaponData, Timer
<1>5. l \in Nat /\ l <= Longest(w)
  <2>. HIDE DEF w, d
  <2>. QED  BY <1>2, <1>3, LeftIsNat, LeftAtMost
<1>6. /\ c.nextAttack + 1 + Longest(w) <= Settling
      /\ d.nextPrimary + 1 + Longest(w) <= Settling
      /\ d.idle + 1 + Longest(w) <= Settling /\ 0 + Longest(w) <= Settling
  BY <1>3, DelaysLast DEF Calm, Lasting
<1>7. Longest(w) \in Int /\ Settling \in Nat
  BY <1>3, LongestIsInt, SettlingAssumption
<1>. HIDE DEF l
<1>8. /\ l <= Settling /\ c.nextAttack + l <= Settling
      /\ d.nextPrimary + 1 + l <= Settling /\ d.idle + 1 + l <= Settling
  BY <1>3, <1>4, <1>5, <1>6, <1>7
<1>. QED  BY <1>8 DEF ReadyBy, l

LEMMA EndIsReady ==
  ASSUME NEW c, Sound(c), Own(c), Calm(c), ReadyBy(c, 0)
  PROVE  Ready(c)
<1> DEFINE w == c.id
           d == c.wpn[w]
           l == Left(w, d, c.count)
<1>1. Off \in [Weapon -> BOOLEAN]
  BY DEF Off
<1>2. /\ Fits(w, HandOf(c, Off)) /\ HandOf(c, Off).w = d /\ HandOf(c, Off).count = c.count
  BY <1>1, HandOfFits
<1>3. w \in Weapon /\ d \in WeaponData /\ c.count \in Nat /\ d.clip \in Nat
  BY ClientFields, Constants DEF Sound
<1>4. d.special \in {0, 1, 2} /\ d.inReload \in BOOLEAN
  BY <1>3 DEF WeaponData
<1>5. l \in Nat
  <2>. HIDE DEF w, d
  <2>. QED  BY <1>2, <1>3, LeftIsNat
<1>6. l = 0
  BY <1>5 DEF ReadyBy
<1>7. Whole(w, d, c.ammo[ammoType[w]])
  BY <1>3 DEF Calm
<1>8. delay["start"] \in Nat /\ delay["reload"] \in Nat
  BY Constants DEF Delays
<1>9. /\ Loads(w, d, c.count) \in Nat
      /\ Loads(w, d, c.count) # 0 => Loads(w, d, c.count) - 1 \in Nat
  <2>. HIDE DEF w, d
  <2>1. Loads(w, d, c.count) \in 0 .. maxClip[w]
    BY <1>2, <1>3, LoadsIsNat
  <2>. QED  BY <1>3, <2>1, Constants
<1>10. /\ Loading(Loads(w, d, c.count)) \in Nat
       /\ Loads(w, d, c.count) # 0 => Loading(Loads(w, d, c.count) - 1) \in Nat
  BY <1>9, LoadingUp
<1>. HIDE DEF w, d
<1>11. d.special = 0 /\ ~ d.inReload /\ (d.clip > 0 \/ c.count = 0)
  <2>1. CASE w \notin Shells
    BY <1>3, <1>4, <1>6, <1>7, <1>8, <2>1, LeftOfMagazine DEF Whole
  <2>2. CASE w \in Shells
    <3>1. ~ d.inReload
      BY <1>7, <2>2 DEF Whole
    <3>2. d.special = 0
      BY <1>3, <1>4, <1>6, <1>9, <1>10, <2>2, LeftOfShotgun
    <3>3. d.clip > 0 \/ c.count = 0
      BY <1>3, <1>6, <1>8, <1>10, <2>2, <3>2, LeftOfShotgun
    <3>. QED  BY <3>1, <3>2, <3>3
  <2>. QED  BY <2>1, <2>2
<1>. QED  BY <1>11 DEF Ready, w, d

LEMMA TickNearer ==
  ASSUME NEW c, Sound(c), Own(c), Calm(c), NEW k \in Nat, ReadyBy(c, k + 1)
  PROVE  ReadyBy(Served(c, Untouched), k)
<1> DEFINE w == c.id
           h == HandOf(c, Off)
           r == Ran(c, Off, Untouched)
           t == Served(c, Untouched)
           l == Left(w, h.w, h.count)
           m == Left(w, r.w, r.count)
<1>1. Untouched \in Command /\ Untouched.buttons = {} /\ ~ Switches(c, Untouched)
  BY UntouchedCommand DEF Switches
<1>2. Off \in [Weapon -> BOOLEAN] /\ w \in Weapon
  BY ClientFields DEF Sound, Off
<1>3. /\ Fine(w, h) /\ h.ammo = h.count /\ Fits(w, h) /\ h \in Hand
      /\ h.w = c.wpn[w] /\ h.count = c.count /\ h.nextAttack = c.nextAttack
  BY <1>2, CalmHand, HandOfFits DEF Fits
<1>4. Fine(w, r) /\ Fits(w, r) /\ r \in Hand
  BY RanFine DEF Fine, Fits
<1>5. Nearer(w, h, r)
  <2>1. CASE c.nextAttack <= 0
    <3>1. r = ItemPostFrame(w, h, {})
      BY <1>1, <2>1 DEF Ran
    <3>. HIDE DEF h, r
    <3>. QED  BY <1>2, <1>3, <3>1, ItemPostFrameNearer
  <2>2. CASE ~ c.nextAttack <= 0
    <3>1. r = h
      BY <2>2 DEF Ran
    <3>2. h.nextAttack > 0
      BY <1>3, <2>2, HandFields DEF Timer
    <3>. HIDE DEF h, r
    <3>. QED  BY <3>1, <3>2 DEF Nearer, Runs, SameTimes
  <2>. QED  BY <2>1, <2>2
<1>6. /\ t.id = w /\ t.nextAttack = Less(r.nextAttack) /\ t.count = r.count
      /\ t.wpn[w] = Elapsed(Carried(c, r.w, Untouched)[w])
  BY <1>1, <1>2, ServedBecomes
<1>7. Carried(c, r.w, Untouched)[w] = r.w
  BY <1>1, <1>2 DEF Carried
<1>. HIDE DEF h, r, t
<1>8. r.w \in WeaponData /\ t.wpn[w] = Elapsed(r.w)
  BY <1>4, <1>6, <1>7, HandFields
<1>9. /\ t.wpn[w].nextPrimary = Less(r.w.nextPrimary) /\ t.wpn[w].idle = Less(r.w.idle)
      /\ Left(w, t.wpn[w], t.count) = m
  <2>1. /\ Elapsed(r.w).special = r.w.special /\ Elapsed(r.w).inReload = r.w.inReload
        /\ Elapsed(r.w).clip = r.w.clip
    BY <1>8, ElapsedFields
  <2>2. Left(w, Elapsed(r.w), r.count) = m
    BY <2>1 DEF Left, Loads
  <2>. QED  BY <1>6, <1>8, <2>2, ElapsedFields
<1>10. /\ h.nextAttack \in Timer /\ h.w.nextPrimary \in Timer /\ h.w.idle \in Timer
       /\ r.nextAttack \in Timer /\ r.w.nextPrimary \in Timer /\ r.w.idle \in Timer
  BY <1>3, <1>4, HandFields
<1>11. l \in Nat /\ m \in Nat
  BY <1>2, <1>3, <1>4, LeftIsNat
<1>12. \/ l = 0
       \/ /\ l <= k + 1 /\ h.nextAttack + l <= k + 1
          /\ h.w.nextPrimary + 1 + l <= k + 1 /\ h.w.idle + 1 + l <= k + 1
  BY <1>3 DEF ReadyBy
<1>. HIDE DEF l, m
<1>13. \/ m = 0
       \/ /\ m <= k /\ Less(r.nextAttack) + m <= k
          /\ Less(r.w.nextPrimary) + 1 + m <= k /\ Less(r.w.idle) + 1 + m <= k
  <2>1. CASE m = 0
    BY <2>1
  <2>2. CASE m = l /\ SameTimes(h, r) /\ Runs(h)
    BY <1>10, <1>11, <1>12, <2>2 DEF SameTimes, Runs, Less, Timer
  <2>3. CASE \E x \in Nat : /\ m + x + 1 <= l
                            /\ r.nextAttack \in {h.nextAttack, x}
                            /\ r.w.nextPrimary \in {h.w.nextPrimary, x}
                            /\ r.w.idle \in {h.w.idle, x}
    <3>1. PICK x \in Nat : /\ m + x + 1 <= l
                           /\ r.nextAttack \in {h.nextAttack, x}
                           /\ r.w.nextPrimary \in {h.w.nextPrimary, x}
                           /\ r.w.idle \in {h.w.idle, x}
      BY <2>3
    <3>2. l # 0 /\ m <= k
      BY <1>11, <1>12, <3>1
    <3>3. Less(r.nextAttack) + m <= k
      BY <1>10, <1>11, <1>12, <3>1, <3>2 DEF Less, Timer
    <3>4. Less(r.w.nextPrimary) + 1 + m <= k
      BY <1>10, <1>11, <1>12, <3>1, <3>2 DEF Less, Timer
    <3>5. Less(r.w.idle) + 1 + m <= k
      BY <1>10, <1>11, <1>12, <3>1, <3>2 DEF Less, Timer
    <3>. QED  BY <3>2, <3>3, <3>4, <3>5
  <2>. QED  BY <1>5, <2>1, <2>2, <2>3 DEF Nearer, l, m
<1>14. ReadyBy(t, k)
  BY <1>6, <1>9, <1>13 DEF ReadyBy
<1>. QED  BY <1>14 DEF t

\* What holds at 0 and goes from each n to the next holds up to N.
LEMMA Upwards ==
  ASSUME NEW N \in Nat, NEW G, 0 \in G, \A n \in 1 .. N : n - 1 \in G => n \in G
  PROVE  \A n \in 0 .. N : n \in G
<1> DEFINE B == {n \in 0 .. N : n \notin G}
           R == {ss \in Nat \X Nat : ss[1] < ss[2]}
<1>. SUFFICES ASSUME B # {}  PROVE FALSE
  OBVIOUS
<1>1. IsWellFoundedOn(R, Nat)
  BY NatLessThanWellFounded DEF OpToRel
<1>2. PICK s \in B : \A t \in B : <<t, s>> \notin R
  <2>1. B \in SUBSET Nat
    OBVIOUS
  <2>. HIDE DEF B, R
  <2>. QED  BY <1>1, <2>1, WFMin
<1>3. s # 0 /\ s \in 1 .. N
  BY <1>2
<1>4. s - 1 \in B
  BY <1>2, <1>3
<1>5. <<s - 1, s>> \in R
  <2>1. s - 1 \in Nat /\ s \in Nat /\ s - 1 < s
    BY <1>3
  <2>. QED  BY <2>1
<1>. QED  BY <1>2, <1>4, <1>5

\* The ticks one by one: there is such a function, as each tick has a result.
LEMMA AfterSteps ==
  /\ After[0] = acked
  /\ \A n \in 1 .. Settling : After[n] = Served(After[n - 1], Untouched)
<1> DEFINE Run(n, f) == f = [i \in 0 .. n |-> IF i = 0 THEN acked
                                              ELSE Served(f[i - 1], Untouched)]
           G == {n \in 0 .. Settling : \E f : Run(n, f)}
<1>0. Settling \in Nat
  BY SettlingAssumption
<1>1. 0 \in G
  <2>1. Run(0, [i \in 0 .. 0 |-> acked])
    OBVIOUS
  <2>. HIDE DEF Run
  <2>. QED  BY <1>0, <2>1
<1>2. ASSUME NEW n \in 1 .. Settling, n - 1 \in G
      PROVE  n \in G
  <2>1. PICK f : Run(n - 1, f)
    BY <1>2
  <2> DEFINE g == [i \in 0 .. n |-> IF i < n THEN f[i] ELSE Served(f[n - 1], Untouched)]
  <2>2. \A i \in 0 .. n : g[i] = IF i = 0 THEN acked ELSE Served(g[i - 1], Untouched)
    BY <1>0, <2>1
  <2>3. Run(n, g)
    BY <2>2
  <2>. HIDE DEF Run, g
  <2>. QED  BY <1>0, <2>3
<1>. HIDE DEF G
<1>3. Settling \in G
  <2>1. \A n \in 1 .. Settling : n - 1 \in G => n \in G
    BY <1>2
  <2>2. \A n \in 0 .. Settling : n \in G
    BY <1>0, <1>1, <2>1, Upwards, Zenon
  <2>. QED  BY <1>0, <2>2
<1>. USE DEF G
<1>. HIDE DEF Run
<1>4. Run(Settling, CHOOSE f : Run(Settling, f))
  BY <1>3
<1>. USE DEF Run
<1>5. After = CHOOSE f : Run(Settling, f)
  BY DEF After
<1>6. After = [i \in 0 .. Settling |-> IF i = 0 THEN acked
                                       ELSE Served(After[i - 1], Untouched)]
  BY <1>4, <1>5
<1>7. \A i \in 0 .. Settling :
        After[i] = IF i = 0 THEN acked ELSE Served(After[i - 1], Untouched)
  BY <1>6
<1>8. /\ 0 \in 0 .. Settling
      /\ \A n \in 1 .. Settling : n \in 0 .. Settling /\ n # 0
  BY <1>0
<1>. HIDE DEF Run, G
<1>. QED  BY <1>7, <1>8

LEMMA AfterNearer ==
  ASSUME Sound(acked), Own(acked), Calm(acked)
  PROVE  Ready(After[Settling])
<1> DEFINE G == {n \in 0 .. Settling : /\ Sound(After[n]) /\ Own(After[n]) /\ Calm(After[n])
                                       /\ ReadyBy(After[n], Settling - n)}
<1>0. Settling \in Nat /\ Settling - 0 = Settling
  BY SettlingAssumption
<1>1. 0 \in G
  BY <1>0, AfterSteps, CalmReadyBy
<1>2. ASSUME NEW n \in 1 .. Settling, n - 1 \in G
      PROVE  n \in G
  <2> DEFINE c == After[n - 1]
             k == Settling - n
  <2>1. k \in Nat /\ Settling - (n - 1) = k + 1 /\ n \in 0 .. Settling
    BY <1>0
  <2>2. Sound(c) /\ Own(c) /\ Calm(c) /\ ReadyBy(c, k + 1)
    BY <1>2, <2>1
  <2>3. After[n] = Served(c, Untouched)
    BY AfterSteps
  <2>. HIDE DEF c, k
  <2>4. Sound(Served(c, Untouched)) /\ Own(Served(c, Untouched))
    BY <2>2, UntouchedCommand, ServedFields
  <2>5. Calm(Served(c, Untouched))
    BY <2>2, UntouchedCommand, ServedCalm
  <2>6. ReadyBy(Served(c, Untouched), k)
    BY <2>1, <2>2, TickNearer
  <2>. QED  BY <2>1, <2>3, <2>4, <2>5, <2>6 DEF k
<1>3. Settling \in G
  <2>. HIDE DEF G
  <2>1. \A n \in 1 .. Settling : n - 1 \in G => n \in G
    BY <1>2
  <2>2. \A n \in 0 .. Settling : n \in G
    BY <1>0, <1>1, <2>1, Upwards, Zenon
  <2>. QED  BY <1>0, <2>2
<1>4. Settling - Settling = 0
  BY <1>0
<1>. QED  BY <1>3, <1>4, EndIsReady
-----------------------------------------------------------------------------
(***************************************************************************)
(* The states of the server stay calm.                                     *)
(***************************************************************************)
ServerCalm == Calm(acked) /\ \A i \in 1 .. Len(server) : Calm(server[i])

LEMMA CalmLoadout ==
  ASSUME NEW carried \in Inventories, NEW w \in carried
  PROVE  Calm(Loadout(carried, w))
<1> DEFINE c == Loadout(carried, w)
<1>1. /\ c.has = carried /\ c.id = w /\ c.nextAttack = -1
      /\ \A v \in Weapon : c.wpn[v] = Fresh(maxClip[v])
  BY DEF Loadout
<1>2. \A v \in Weapon : /\ c.wpn[v].nextPrimary = -1 /\ c.wpn[v].idle = -1
                        /\ c.wpn[v].special = 0 /\ c.wpn[v].inReload = FALSE
  <2>1. \A n : /\ Fresh(n).nextPrimary = -1 /\ Fresh(n).idle = -1
               /\ Fresh(n).special = 0 /\ Fresh(n).inReload = FALSE
    BY DEF Fresh
  <2>. HIDE DEF c
  <2>. QED  BY <1>1, <2>1
<1>3. (-1) + 1 \in Lasting
  BY DelaysLast
<1>. HIDE DEF c
<1>4. Calm(c)
  BY <1>1, <1>2, <1>3 DEF Calm, Whole
<1>. QED  BY <1>4 DEF c

LEMMA CalmBegins == Init => ServerCalm
<1>. SUFFICES ASSUME Init PROVE ServerCalm
  OBVIOUS
<1>1. PICK carried \in Inventories : \E w \in carried : acked = Loadout(carried, w)
  BY DEF Init
<1>2. Calm(acked) /\ Len(server) = 0
  BY <1>1, CalmLoadout DEF Init
<1>. QED  BY <1>2 DEF ServerCalm

LEMMA CalmKept ==
  ASSUME IInv, ServerCalm, [Next]_vars
  PROVE  ServerCalm'
<1>0. server \in Seq(Client)
  BY DEF IInv, TypeOK
<1>1. ASSUME NEW cmd \in Commands, Send(cmd)
      PROVE  ServerCalm'
  <2> DEFINE g == Served(Last, cmd)
             n == Len(server)
  <2>1. Calm(Last)
    <3>1. CASE cmds = <<>>
      BY <3>1 DEF Last, ServerCalm
    <3>2. CASE cmds # <<>>
      <4>1. Len(server) \in 1 .. Len(server)
        BY <3>2 DEF IInv, TypeOK
      <4>. QED  BY <3>2, <4>1 DEF Last, ServerCalm
    <3>. QED  BY <3>1, <3>2
  <2>2. Sound(Last) /\ Own(Last) /\ cmd \in Command
    BY LastSound, CommandsAssumption DEF IInv
  <2>3. Calm(g) /\ g \in Client
    BY <2>1, <2>2, ServedCalm, ServedFields DEF Sound
  <2>4. server' = Append(server, g) /\ acked' = acked
    BY <1>1 DEF Send
  <2>. HIDE DEF g
  <2>5. /\ Len(server') = n + 1 /\ n \in Nat /\ server'[n + 1] = g
        /\ \A i \in 1 .. n : server'[i] = server[i]
    BY <1>0, <2>3, <2>4
  <2>6. \A i \in 1 .. n + 1 : Calm(server'[i])
    BY <2>3, <2>5 DEF ServerCalm
  <2>. QED  BY <2>4, <2>5, <2>6 DEF ServerCalm
<1>2. CASE Predict \/ Frame \/ UNCHANGED vars
  BY <1>2 DEF Predict, Frame, vars, ServerCalm
<1>3. CASE Acknowledge
  <2> DEFINE n == Len(server)
  <2>1. /\ acked' = Head(server) /\ server' = Tail(server) /\ n > 0
    BY <1>3 DEF Acknowledge, IInv, TypeOK
  <2>2. /\ acked' = server[1] /\ 1 \in 1 .. n /\ Len(server') = n - 1 /\ n \in Nat
        /\ \A i \in 1 .. n - 1 : server'[i] = server[i + 1] /\ i + 1 \in 1 .. n
    BY <1>0, <2>1
  <2>. HIDE DEF n
  <2>3. \A i \in 1 .. n : Calm(server[i])
    BY DEF ServerCalm, n
  <2>. QED  BY <2>2, <2>3 DEF ServerCalm
<1>. QED  BY <1>1, <1>2, <1>3 DEF Next
-----------------------------------------------------------------------------
(***************************************************************************)
(* The theorems.                                                           *)
(***************************************************************************)
LEMMA Invariant == Spec => []IInv
<1>1. IInv /\ [Next]_vars => IInv'
  BY Kept
<1>. QED  BY Begins, <1>1, PTL DEF Spec

\* Every variable keeps its type: in particular, no timer runs below -1, a
\* shotgun's m_fInSpecialReload is 0, 1 or 2, and no more commands are
\* predicted than were sent.
THEOREM TypeCorrect == Spec => []TypeOK
<1>1. IInv => TypeOK
  BY DEF IInv
<1>. QED  BY Invariant, <1>1, PTL

\* HUD_WeaponsPostThink() predicts, from what the server has acknowledged and
\* whatever the weapon objects remember of later commands, the weapon, the
\* timers and the clips the server will answer with, and the reserve once the
\* weapon is drawn, unless an M4A1's reserve is about to run out.
THEOREM AlwaysPredictionAgrees == Spec => []PredictionAgrees
<1>1. IInv => PredictionAgrees
  <2>. SUFFICES ASSUME IInv, ~ LowReserve
                PROVE  /\ from.id = Truth.id /\ from.nextAttack = Truth.nextAttack
                       /\ from.wpn = Truth.wpn
                       /\ from.nextAttack <= 0 =>
                            from.type = Truth.type /\ from.count = Truth.count
    BY DEF PredictionAgrees
  <2>1. SameWeapons(from, Truth) /\ (Level \/ Drawing)
    BY DEF IInv, Agrees
  <2>2. Drawing => ~ from.nextAttack <= 0
    <3>1. delay["draw"] \in Nat /\ MaxUnacked \in Nat /\ MaxUnacked < delay["draw"]
      BY Constants, LagAssumption DEF Delays
    <3>2. at \in Nat /\ at <= MaxUnacked /\ from.nextAttack \in Int
      BY <3>1, ClientFields DEF IInv, TypeOK, ServerRuns, Timer
    <3>. QED  BY <3>1, <3>2 DEF Drawing
  <2>. QED  BY <2>1, <2>2 DEF SameWeapons, Level
<1>. QED  BY Invariant, <1>1, PTL

\* No clip holds more than ItemInfo::iMaxClip rounds or less than none, and no
\* reserve is overdrawn.
THEOREM AlwaysClipsFit == Spec => []ClipsFit
<1>1. IInv => ClipsFit
  BY DEF IInv, StatesSound, Sound, ClipsFit
<1>. QED  BY Invariant, <1>1, PTL

\* A command that is predicted makes no round: what the clip of the weapon in
\* hand gains the reserve loses, and the other clips stay as they are.
THEOREM AlwaysNoRoundFromNowhere == Spec => NoRoundFromNowhere
<1> DEFINE Kind == at' = at + 1 =>
                     \A w \in Weapon :
                       IF w = from.id
                       THEN from'.wpn[w].clip + from'.count <= from.wpn[w].clip + from.count
                       ELSE from'.wpn[w].clip = from.wpn[w].clip
<1>1. IInv /\ [Next]_vars => [Kind]_vars
  <2>. SUFFICES ASSUME IInv, Next, at' = at + 1
                PROVE  Kind
    BY DEF vars
  <2>1. at \in Nat
    BY DEF IInv, TypeOK
  <2>2. Predict
    BY <2>1 DEF Next, Send, Frame, Acknowledge
  <2> DEFINE cmd == cmds[at + 1]
             t == HUD_WeaponsPostThink(from, statics, cmd).to
  <2>3. /\ Sound(from) /\ statics \in [Weapon -> BOOLEAN] /\ cmd \in Command /\ from' = t
    BY <2>2, NextTruth DEF IInv, StatesSound, TypeOK, Predict
  <2>4. /\ t.wpn[from.id].clip + t.count <= from.wpn[from.id].clip + from.count
        /\ \A v \in Weapon : v # from.id => t.wpn[v].clip = from.wpn[v].clip
    BY <2>3, PostThinkSound
  <2>. HIDE DEF t
  <2>. QED  BY <2>3, <2>4
<1>. QED  BY Invariant, <1>1, PTL DEF Spec, NoRoundFromNowhere

\* The player who touches nothing for Settling ticks, in any state the server
\* may have answered with: ItemPostFrame() has finished every reload, loaded an
\* empty weapon, and WeaponIdle() a shotgun to the end.
THEOREM AlwaysEndsReady == Spec => []EndsReady
<1>1. IInv /\ ServerCalm /\ [Next]_vars => ServerCalm'
  BY CalmKept
<1>2. IInv /\ ServerCalm => EndsReady
  BY AfterNearer DEF IInv, StatesSound, ServerCalm, EndsReady
<1>. QED  BY Invariant, CalmBegins, <1>1, <1>2, PTL DEF Spec
=============================================================================
