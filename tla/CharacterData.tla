---------------------------- MODULE CharacterData ----------------------------
(***************************************************************************)
(* What the loader accepts (src/data/data.go): the shapes of a character,  *)
(* a move, a projectile, a keyframe and of the balance numbers, and the    *)
(* checks that convert makes of each before the simulation sees it.  The   *)
(* simulation itself checks none of this again: the match is modelled, and *)
(* proved about, under the assumption that its data passed here.           *)
(*                                                                         *)
(* The literal bounds of the source are the fields of Limits; JSON and the *)
(* parsing of decimals are left out.                                       *)
(***************************************************************************)
EXTENDS Character

CONSTANT
  Limits  \* [fixed, moves, keyframes, boxes, health, jump, burnout, comboSteps, aiPlan, reaction]

\* What parseFix returns: a 16.16 number that fits 32 bits.
Fixed == Limits.fixed

\* parseBox refuses a box without an area, which would never collide.
LoadedBox == {b \in [x : Fixed, y : Fixed, w : Fixed, h : Fixed] : ~Empty(b)}

Motion == {"none", "qcf", "qcb", "dp", "qcfx2", "qcbx2", "hcf"}
Cancels == {"chain", "special", "super1", "super2", "super3"}

LoadedKeyframe ==
  {k \in [frame : Nat, hurt : SUBSET LoadedBox, hit : SUBSET LoadedBox] :
     Cardinality(k.hurt) <= Limits.boxes /\ Cardinality(k.hit) <= Limits.boxes}

\* A projectile has a speed, a life and a box; a move that fires none has life 0.
LoadedProjectile ==
  {pr \in [life : Nat, speed : Fixed, spawnX : Fixed, spawnY : Fixed, box : Box] :
     pr.life > 0 => pr.speed > 0 /\ pr.box \in LoadedBox}

(***************************************************************************)
(* A move.                                                                 *)
(***************************************************************************)
Percentage == 0 .. 100

MoveType ==
  [startup : Nat \ {0}, active : Nat \ {0}, recovery : Nat, damage : Nat,
   hitstun : Nat, blockstun : Nat, hitstop : Nat, level : Levels, stance : Stances,
   button : SUBSET Buttons \ {{}}, motion : Motion, launchVX : Fixed, launchVY : Fixed,
   knockVX : Fixed, knockVY : Fixed, juggleLimit : Nat, landing : Nat,
   invulnStart : Nat, invulnEnd : Nat, knockdown : BOOLEAN, throw : BOOLEAN,
   drive : 0 .. DriveBars, armor : Nat, super : 0 .. SuperBars,
   cancelInto : SUBSET Cancels, keys : Seq(LoadedKeyframe), proj : LoadedProjectile]

\* The frame data: an invulnerable window lies in the move, and so does every
\* keyframe, in ascending order, with its hitboxes in the active window.
FrameDataAgrees(mv) ==
  /\ mv.invulnEnd # 0 => mv.invulnStart < mv.invulnEnd /\ mv.invulnEnd <= Total(mv)
  /\ Len(mv.keys) \in 1 .. Limits.keyframes
  /\ \A k \in DOMAIN mv.keys :
       /\ mv.keys[k].frame < Total(mv)
       /\ k > 1 => mv.keys[k - 1].frame < mv.keys[k].frame
       /\ mv.keys[k].hit # {} =>
            mv.startup <= mv.keys[k].frame /\ mv.keys[k].frame < mv.startup + mv.active

\* A super and an armored move cost a motion or a meter, a throw holds on.
PaidFor(mv) ==
  /\ mv.super > 0 => mv.motion # "none"
  /\ mv.armor > 0 => mv.drive > 0 \/ mv.super > 0 \/ mv.motion # "none"
  /\ mv.throw => mv.hitstun > 0

LoadedMove(mv) == mv \in MoveType /\ FrameDataAgrees(mv) /\ PaidFor(mv)

(***************************************************************************)
(* A character.                                                            *)
(***************************************************************************)
CharacterType ==
  [health : 1 .. Limits.health, walkForward : Fixed, walkBack : Fixed,
   dashDistance : Fixed, dashFrames : Nat \ {0}, backdashFrames : Nat \ {0},
   jumpVelocity : Fixed, jumpForwardVX : Fixed, gravity : Fixed, preJumpFrames : Nat \ {0},
   pushbox : LoadedBox, standHurt : LoadedBox, crouchHurt : LoadedBox, airHurt : LoadedBox,
   moves : Seq(MoveType)]

\* A jump goes up, comes down, and takes a sensible time.
JumpLands(c) ==
  /\ c.gravity < 0 /\ c.jumpVelocity > 0
  /\ (2 * c.jumpVelocity) \div (-c.gravity) \in Limits.jump

\* At most one throw without a motion: it is the input that techs.
OneTech(c) ==
  \A m, n \in DOMAIN c.moves :
    /\ c.moves[m].throw /\ ~IsSpecial(c.moves[m])
    /\ c.moves[n].throw /\ ~IsSpecial(c.moves[n])
    => m = n

LoadedCharacter(c) ==
  /\ c \in CharacterType
  /\ JumpLands(c) /\ OneTech(c)
  /\ Len(c.moves) \in 1 .. Limits.moves
  /\ \A m \in DOMAIN c.moves : LoadedMove(c.moves[m])

(***************************************************************************)
(* The balance numbers.                                                    *)
(***************************************************************************)
AITier == [reaction : Limits.reaction, blockPercent : Percentage, randomPercent : Percentage]

BalanceType ==
  [driveRegen : Nat, driveRegenWalkF : Nat, driveRegenBurnout : Nat \ {0},
   pairFrames : 1 .. 8, driveBlockCost : Nat \ {0}, armorDamagePercent : Nat,
   burnoutBlockstun : Nat, burnoutChipPercent : Percentage,
   comboScale : Seq(1 .. 100), starterLight : 1 .. 100, starterMedium : 1 .. 100,
   starterHeavy : 1 .. 100, minDamagePercent : 1 .. 100, counterHitPercent : 100 .. 300,
   counterHitstun : Nat, punishHitstun : Nat,
   throwTechFrames : 1 .. 20, throwTechRecovery : Nat, throwTechPush : Nat,
   knockbackHit : Fixed, knockbackBlock : Fixed, knockbackDecay : 0 .. 99,
   juggleLimit : Nat \ {0}, juggleGravityPercent : Nat, knockdownFrames : Nat \ {0},
   stageHalfWidth : Int, cameraHalfWidth : Int, cameraMargin : Int,
   aiTiers : Seq(AITier), aiDecisionFrames : Limits.aiPlan,
   aiCloseRange : Int, aiMidRange : Int, aiAntiAirRange : Int,
   aiThrowPercent : Nat, aiProjectilePercent : Nat, aiReversalPercent : Nat,
   superDealtPercent : Nat, superTakenPercent : Nat, superOnSpecial : Nat]

\* The screen is inside the stage, its dead zone inside the screen.
StageFits(b) ==
  /\ 0 < b.cameraHalfWidth /\ b.cameraHalfWidth <= b.stageHalfWidth
  /\ 0 < b.cameraMargin /\ 2 * b.cameraMargin < b.cameraHalfWidth

\* Walking in refills faster than standing, a burnout lasts a sensible time.
DriveRefills(b) ==
  /\ b.driveRegen <= b.driveRegenWalkF
  /\ DriveMax \div b.driveRegenBurnout \in Limits.burnout

\* The tables and the orderings of the damage formula.
DamageOrdered(b) ==
  /\ Len(b.comboScale) = Limits.comboSteps
  /\ \A n \in DOMAIN b.comboScale : n > 1 => b.comboScale[n] <= b.comboScale[n - 1]
  /\ b.starterLight <= b.starterMedium /\ b.starterMedium <= b.starterHeavy
  /\ b.counterHitstun <= b.punishHitstun
  /\ b.knockbackHit > 0 /\ b.knockbackBlock > 0

\* convertAI: ranges and tiers are orderings.
OpponentOrdered(b) ==
  /\ 0 < b.aiCloseRange /\ b.aiCloseRange < b.aiMidRange
  /\ 0 < b.aiAntiAirRange /\ b.aiAntiAirRange <= b.aiMidRange
  /\ Len(b.aiTiers) = 3
  /\ \A t \in 2 .. 3 :
       /\ b.aiTiers[t].reaction <= b.aiTiers[t - 1].reaction
       /\ b.aiTiers[t].blockPercent >= b.aiTiers[t - 1].blockPercent
       /\ b.aiTiers[t].randomPercent <= b.aiTiers[t - 1].randomPercent

LoadedBalance(b) ==
  b \in BalanceType /\ StageFits(b) /\ DriveRefills(b) /\ DamageOrdered(b) /\ OpponentOrdered(b)

\* The bounds of the source: numbers that exist, and a jump of 20 to 90 frames.
ASSUME LimitsAssumption ==
  /\ Limits.fixed \subseteq Int /\ Limits.health \in Nat /\ Limits.jump \subseteq Nat \ 0 .. 2
  /\ Limits.comboSteps \in Nat \ {0} /\ Limits.aiPlan \subseteq Nat \ {0}

\* LoadCharacters and LoadBalance installed what the loader accepted.
ASSUME ScaleAssumption == One \in Nat \ {0} /\ BarUnits \in Nat \ {0}
ASSUME RosterAssumption ==
  /\ DOMAIN Roster = 0 .. Cardinality(DOMAIN Roster) - 1
  /\ \A c \in DOMAIN Roster : LoadedCharacter(Roster[c])
ASSUME BalanceAssumption == LoadedBalance(Balance)
=============================================================================
