----------------------------- MODULE MCWeapons -----------------------------
(* An instance of Weapons for TLC: an M4A1 alone, or a USP and a shotgun. *)
EXTENDS Weapons, TLC

CONSTANTS rifle, pistol, shotgun

MCInventories == {{rifle}, {pistol, shotgun}}

\* The weapons take different ammunition.
OwnAmmo == [w \in Weapon |-> w]
MCMaxClip == rifle :> 2 @@ pistol :> 1 @@ shotgun :> 2
MCReserve == rifle :> 3 @@ pistol :> 1 @@ shotgun :> 1

MCDelay == [d \in Delays |->
              CASE d = "draw" -> 3
                [] d \in {"reload", "pump", "hold", "click", "close"} -> 2
                [] d \in {"dry", "start", "shell", "silencer"} -> 1
                [] d = "cycle" -> 0]

\* No button, one button, trigger and reload, a switch.
MCCommands == [buttons : {{}, {"attack"}, {"attack2"}, {"reload"}}, select : {{}}]
                \cup [buttons : {{}}, select : {{w} : w \in Weapon}]
=============================================================================
