------------------------------ MODULE MCFight ------------------------------
(***************************************************************************)
(* Small instances of Fight for TLC: a stage a few steps wide, moves of    *)
(* three or four frames, rounds of a dozen.                                *)
(***************************************************************************)
EXTENDS Fight, TLC

MCBox(x, y, w, h) == [x |-> x, y |-> y, w |-> w, h |-> h]

NoProjectile == [life |-> 0, speed |-> 0, spawnX |-> 0, spawnY |-> 0, box |-> MCBox(0, 0, 0, 0)]

\* A plain standing light; the other moves change what they differ in.
Jab ==
  [startup |-> 1, active |-> 1, recovery |-> 1, damage |-> 3, hitstun |-> 3, blockstun |-> 5,
   hitstop |-> 1, level |-> "mid", stance |-> "stand", button |-> {"LP"}, motion |-> "none",
   launchVX |-> 0, launchVY |-> 0, knockVX |-> 0, knockVY |-> 0, juggleLimit |-> 0,
   landing |-> 0, invulnStart |-> 0, invulnEnd |-> 0, knockdown |-> FALSE, throw |-> FALSE,
   drive |-> 0, armor |-> 0, super |-> 0, cancelInto |-> {"special", "super1"},
   keys |-> << [frame |-> 0, hurt |-> {MCBox(-2, 0, 4, 6)}, hit |-> {}],
               [frame |-> 1, hurt |-> {MCBox(-2, 0, 4, 6)}, hit |-> {MCBox(1, 2, 6, 3)}],
               [frame |-> 2, hurt |-> {MCBox(-2, 0, 4, 6)}, hit |-> {}] >>,
   proj |-> NoProjectile]

Throw == [Jab EXCEPT !.button = {"LP", "LK"}, !.throw = TRUE, !.knockdown = TRUE,
            !.damage = 4, !.hitstun = 2, !.cancelInto = {}]
Sweep == [Jab EXCEPT !.button = {"LK"}, !.stance = "crouch", !.level = "low",
            !.knockdown = TRUE, !.cancelInto = {}, !.hitstun = 1]
AirKick == [Jab EXCEPT !.button = {"LK"}, !.stance = "air", !.level = "high", !.landing = 1, !.active = 2,
              !.cancelInto = {}, !.keys = <<[frame |-> 1, hurt |-> {}, hit |-> {MCBox(0, -4, 6, 6)}]>>]
Uppercut == [Jab EXCEPT !.motion = "qcf", !.launchVX = 1, !.launchVY = 3, !.knockVX = 1,
               !.knockVY = 3, !.invulnEnd = 2, !.landing = 2, !.juggleLimit = 1,
               !.hitstun = 2, !.cancelInto = {}]
Advance == [Jab EXCEPT !.motion = "qcf", !.armor = 1, !.launchVX = 2, !.cancelInto = {},
              !.damage = 6, !.hitstun = 2, !.knockVX = 1, !.knockVY = 5]
Fireball == [Jab EXCEPT !.motion = "qcf", !.button = {"LK"}, !.cancelInto = {},
               !.keys = <<[frame |-> 0, hurt |-> {MCBox(-2, 0, 4, 6)}, hit |-> {}]>>,
               !.proj = [life |-> 4, speed |-> 3, spawnX |-> 2, spawnY |-> 3,
                         box |-> MCBox(-1, 0, 2, 1)]]
Flash == [Fireball EXCEPT !.button = {"LP", "LK"}, !.drive = 2, !.damage = 5]
Finisher == [Jab EXCEPT !.motion = "qcf", !.button = {"LK"}, !.super = 1, !.damage = 8]

Rising == [Uppercut EXCEPT !.motion = "dp"]
Poke == [Jab EXCEPT !.button = {"HP"}, !.damage = 4]
Trip == [Sweep EXCEPT !.button = {"HK"}]
Burst == [Jab EXCEPT !.drive = 5]

Striker ==
  [health |-> 9, walkForward |-> 2, walkBack |-> 2, dashDistance |-> 6, dashFrames |-> 2,
   backdashFrames |-> 2, jumpVelocity |-> 7, jumpForwardVX |-> 2, gravity |-> -2,
   preJumpFrames |-> 1, pushbox |-> MCBox(-2, 0, 4, 6), standHurt |-> MCBox(-2, 0, 4, 6),
   crouchHurt |-> MCBox(-2, 0, 4, 4), airHurt |-> MCBox(-2, 2, 4, 4),
   moves |-> <<Uppercut, Throw, Jab, Sweep, AirKick>>]
Zoner == [Striker EXCEPT !.health = 3, !.moves = <<Finisher, Flash, Advance, Fireball, Throw, Jab>>]
Sentinel == [Striker EXCEPT !.moves = <<Rising, Jab, Poke, Trip>>]

Leaper == [Striker EXCEPT !.dashFrames = 1]
Giant == [Striker EXCEPT !.pushbox = MCBox(-3, 0, 6, 6)]
Imp == [Striker EXCEPT !.pushbox = MCBox(-1, 0, 2, 6),
          !.moves = <<Uppercut, Throw, Burst, Sweep, AirKick>>]

MCRoster ==
  LET cast == 0 :> Striker @@ 1 :> Zoner @@ 2 :> Sentinel @@ 3 :> Leaper @@ 4 :> Giant @@ 5 :> Imp IN cast

MCBalance ==
  LET balance ==
      [driveRegen |-> 1, driveRegenWalkF |-> 2, driveRegenBurnout |-> 2, pairFrames |-> 2,
       driveBlockCost |-> 12, armorDamagePercent |-> 100, burnoutBlockstun |-> 1,
       burnoutChipPercent |-> 50, comboScale |-> <<100, 80, 50>>, starterLight |-> 80,
       starterMedium |-> 90, starterHeavy |-> 100, minDamagePercent |-> 20,
       counterHitPercent |-> 150, counterHitstun |-> 1, punishHitstun |-> 2,
       throwTechFrames |-> 2, throwTechRecovery |-> 2, throwTechPush |-> 2,
       knockbackHit |-> 2, knockbackBlock |-> 1, knockbackDecay |-> 50,
       juggleLimit |-> 2, juggleGravityPercent |-> 50, knockdownFrames |-> 2,
       stageHalfWidth |-> 14, cameraHalfWidth |-> 10, cameraMargin |-> 3,
       aiTiers |-> << [reaction |-> 2, blockPercent |-> 50, randomPercent |-> 0],
                      [reaction |-> 1, blockPercent |-> 100, randomPercent |-> 0],
                      [reaction |-> 1, blockPercent |-> 100, randomPercent |-> 0] >>,
       aiDecisionFrames |-> 4, aiCloseRange |-> 8, aiMidRange |-> 10, aiAntiAirRange |-> 8,
       aiThrowPercent |-> 50, aiProjectilePercent |-> 50, aiReversalPercent |-> 50,
       superDealtPercent |-> 50, superTakenPercent |-> 25, superOnSpecial |-> 1]
  IN  balance

MCLimits ==
  [fixed |-> -99 .. 99, moves |-> 6, keyframes |-> 3, boxes |-> 1, health |-> 9, jump |-> 3 .. 9,
   burnout |-> 2 .. 9, comboSteps |-> 3, aiPlan |-> 2 .. 6, reaction |-> 1 .. 3]

MCMotions ==
  LET motions ==
      << [motion |-> "dp", seq |-> <<6, 2, 6>>, window |-> 4, tight |-> TRUE],
         [motion |-> "qcf", seq |-> <<2, 6>>, window |-> 3, tight |-> FALSE] >>
  IN  motions

MCSetup(a, b, training, ai, n) ==
  [chars |-> (0 :> a @@ 1 :> b), training |-> training, ai |-> ai, changes |-> n]

\* Two strikers; a striker and a zoner; a zoner and a striker against the
\* scripted opponent; the lab; a giant and an imp, of different widths, whose
\* light costs most of the Drive gauge: it can be pressed again before it can be
\* paid for again.
MCSetups ==
  {MCSetup(0, 0, FALSE, AIOff, 2), MCSetup(0, 1, FALSE, AIOff, 2),
   MCSetup(1, 2, FALSE, AIHard, 1), MCSetup(0, 1, FALSE, AIHard, 2),
   MCSetup(1, 0, TRUE, AIOff, 2), MCSetup(4, 5, FALSE, AIOff, 3)}

\* Two fighters who jump, over a keyboard of two directions.
AirSetups == {MCSetup(3, 3, TRUE, AIOff, 5)}

MCKeys(fwd, back) ==
  0 :> {{}, {"LP", "LK"}, {"up"}, {back}, {back, "down"},
        {fwd, "LP"}, {back, "down", "LK"}} @@
  1 :> {{}, {"down"}, {fwd, "LP"}, {fwd, "LK"}, {fwd, "LP", "LK"}, {"up"}, {back}} @@
  2 :> {{}, {fwd}, {back}, {fwd, "LP"}} @@
  3 :> {{}, {"up"}, {fwd}} @@
  4 :> {{}, {back}, {fwd, "LP"}} @@
  5 :> {{}, {back}, {fwd, "LP"}}
MCKeyboard ==
  LET keys == 0 :> MCKeys("right", "left") @@ 1 :> MCKeys("left", "right") IN keys

\* The cast differs in width and fits the screen: OnScreen is as StayOnScreen
\* of FightProofs has it.
ASSUME MCScreenFits == ScreenFits
=============================================================================
