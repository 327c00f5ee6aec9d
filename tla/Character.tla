----------------------------- MODULE Character -----------------------------
(***************************************************************************)
(* The character data of the simulation (src/sim/character.go) and the     *)
(* questions the simulation asks of it.  Nothing here is state: the roster *)
(* and the balance numbers are installed once, before the first match, and *)
(* are the constants of every module of the match.                         *)
(*                                                                         *)
(* A fixed-point number is an integer here.  Its scale is the constant     *)
(* One, which is 65536 in the program; the products by a facing (+1 or -1) *)
(* and the quotients of the program are exact at every scale.              *)
(***************************************************************************)
EXTENDS Integers, Sequences, FiniteSets

CONSTANTS
  Roster,        \* [0 .. n-1 -> character]: what LoadCharacters installed
  Balance,       \* the record LoadBalance installed
  One,           \* one whole unit of length as a fixed-point number
  BarUnits       \* one bar of a gauge

DriveBars == 6
SuperBars == 3
DriveMax == DriveBars * BarUnits
SuperMax == SuperBars * BarUnits

Lesser(a, b) == IF a <= b THEN a ELSE b
Greater(a, b) == IF a >= b THEN a ELSE b

\* Go's integer division, which truncates toward zero.
Quo(a, b) == IF a >= 0 THEN a \div b ELSE -((-a) \div b)

\* n percent of a number that is not negative.
Percent(a, n) == (a * n) \div 100

FromInt(n) == n * One

(***************************************************************************)
(* Boxes.                                                                  *)
(***************************************************************************)
Box == [x : Int, y : Int, w : Int, h : Int]

Empty(b) == b.w <= 0 \/ b.h <= 0

World(b, x, y, facing) ==
  [b EXCEPT !.x = IF facing < 0 THEN x - b.x - b.w ELSE x + b.x,
            !.y = y + b.y]

Overlaps(a, b) ==
  /\ ~Empty(a) /\ ~Empty(b)
  /\ a.x < b.x + b.w /\ b.x < a.x + a.w
  /\ a.y < b.y + b.h /\ b.y < a.y + a.h

(***************************************************************************)
(* Moves.  A button mask is the set of its buttons, a motion or a level is *)
(* a name, an attack's boxes are sets of boxes behind a keyframe.          *)
(***************************************************************************)
Buttons == {"LP", "MP", "HP", "LK", "MK", "HK"}
Directions == {"up", "down", "left", "right"}
Stances == {"stand", "crouch", "air"}
Levels == {"mid", "high", "low"}

IsSpecial(mv) == mv.motion # "none"
Total(mv) == mv.startup + mv.active + mv.recovery
SuperCost(mv) == mv.super * BarUnits
DriveCost(mv) == mv.drive * BarUnits
Armored(mv) == mv.armor > 0
Launches(mv) == mv.launchVX # 0 \/ mv.launchVY # 0
Invulnerable(mv, frame) == mv.invulnStart <= frame /\ frame < mv.invulnEnd
Fires(mv) == mv.proj.life > 0

superCancel == <<"super1", "super2", "super3">>

Category(mv) ==
  IF mv.super \in DOMAIN superCancel THEN superCancel[mv.super]
  ELSE IF IsSpecial(mv) THEN "special" ELSE "chain"

\* The keyframe in effect on a frame of the move: the last one of the leading
\* keyframes that are not past it.  The empty set is Go's nil.
BoxesAt(mv, frame) ==
  LET past == {k \in DOMAIN mv.keys : \A j \in 1 .. k : mv.keys[j].frame <= frame}
  IN  {mv.keys[k] : k \in {k \in past : k + 1 \notin past}}

\* The velocity a move gives the defender, away from the attacker.
KnockbackVX(mv, blocked) ==
  IF blocked THEN Balance.knockbackBlock
  ELSE IF mv.knockVX = 0 /\ mv.knockVY = 0 THEN Balance.knockbackHit
  ELSE mv.knockVX
KnockbackVY(mv, blocked) == IF blocked THEN 0 ELSE mv.knockVY

JuggleLimitOf(mv) ==
  IF mv.juggleLimit # 0 THEN mv.juggleLimit ELSE Balance.juggleLimit

\* The ordinary throw of a character, the first one without a motion: it is
\* the input that techs.  The empty set is a character without one.
ThrowOf(c) ==
  LET plain == {m \in DOMAIN Roster[c].moves :
                   Roster[c].moves[m].throw /\ ~IsSpecial(Roster[c].moves[m])}
  IN  {m \in plain : \A n \in plain : m <= n}

(***************************************************************************)
(* Damage (src/sim/damage.go).  All integers, every division after its     *)
(* multiplication.                                                         *)
(***************************************************************************)
starterScale(mv) ==
  IF mv.super > 0 \/ IsSpecial(mv) THEN Balance.starterHeavy
  ELSE IF mv.button \in {{"LP"}, {"LK"}} THEN Balance.starterLight
  ELSE IF mv.button \in {{"MP"}, {"MK"}} THEN Balance.starterMedium
  ELSE Balance.starterHeavy

comboScale(n) ==
  Balance.comboScale[Lesser(Greater(n, 1), Len(Balance.comboScale))]

scaledDamage(mv, starter, hit, counter) ==
  LET scaled == Percent(Percent(mv.damage, starter), comboScale(hit))
      floored == Greater(scaled, Percent(mv.damage, Balance.minDamagePercent))
  IN  IF counter = "none" THEN floored
      ELSE Percent(floored, Balance.counterHitPercent)

counterHitstun(counter) ==
  CASE counter = "counter" -> Balance.counterHitstun
    [] counter = "punish"  -> Balance.punishHitstun
    [] OTHER               -> 0
=============================================================================
