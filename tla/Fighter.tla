------------------------------ MODULE Fighter ------------------------------
(***************************************************************************)
(* One fighter of a match: the character state machine of                  *)
(* src/sim/fighter.go with the parts of resource.go, knockback.go and      *)
(* damage.go that touch a single player.  A player is a record; each       *)
(* function of the program that writes one is an operator that returns it. *)
(*                                                                         *)
(* Frame numbers are kept relative: unspent is how many of the newest      *)
(* frames are later than the program's Eaten (capped at the buffer, past   *)
(* which no press is live), move is the program's MoveIndex plus one.      *)
(* Effect flags (Events) are left out: nothing in the simulation reads     *)
(* them.                                                                   *)
(***************************************************************************)
EXTENDS CharacterData, Inputs

CONSTANT
  FrameCap   \* bound: no count of frames in the data reaches it

ASSUME FrameCapAssumption == FrameCap \in Nat \ {0}

GroundY == 0

ActionableStates == {"idle", "walkF", "walkB", "crouch"}
StunStates == {"hitstun", "blockstun", "landing", "thrown", "knockdown"}
States == ActionableStates \cup StunStates \cup
            {"dash", "backdash", "prejump", "air", "attack"}

Plans == {"neutral", "approach", "retreat", "block", "jab", "punish", "sweep",
          "dp", "fireball", "throw", "jump", "antiAir"}

Player ==
  [x : Int, y : Int, vx : Int, vy : Int, facing : {1, -1}, char : DOMAIN Roster,
   health : Int, drive : Int, super : Int, burnout : BOOLEAN,
   combo : Int, comboStarter : Int, counter : {"none", "counter", "punish"},
   state : States, stateFrame : Int, move : Int, hasHit : BOOLEAN, armor : Int,
   stun : Int, landing : Int, down : BOOLEAN, unspent : Nat, juggle : Int,
   jumpVX : Int, jumpHeld : BOOLEAN, ai : 0 .. 3, plan : Plans,
   inputs : [1 .. InputHistory -> SUBSET (Buttons \cup Directions)]]

\* A fighter at the start of a round.
FreshPlayer(x, facing, c) ==
  [x |-> x, y |-> GroundY, vx |-> 0, vy |-> 0, facing |-> facing, char |-> c,
   health |-> Roster[c].health, drive |-> DriveMax, super |-> 0, burnout |-> FALSE,
   combo |-> 0, comboStarter |-> 0, counter |-> "none",
   state |-> "idle", stateFrame |-> 0, move |-> 0, hasHit |-> FALSE, armor |-> 0,
   stun |-> 0, landing |-> 0, down |-> FALSE, unspent |-> InputBuffer, juggle |-> 0,
   jumpVX |-> 0, jumpHeld |-> FALSE, ai |-> 0, plan |-> "neutral",
   inputs |-> [b \in 1 .. InputHistory |-> {}]]

Airborne(p) == p.state = "air" \/ p.y > GroundY
Actionable(p) == p.state \in ActionableStates
stunned(p) == p.state \in StunStates

\* The set holding the current move, empty for the program's nil.
MoveOf(p) ==
  IF p.state = "attack" /\ p.move \in DOMAIN Roster[p.char].moves
  THEN {Roster[p.char].moves[p.move]} ELSE {}

absorbs(p) ==
  \E mv \in MoveOf(p) :
    Armored(mv) /\ p.armor < mv.armor /\ p.stateFrame < mv.startup + mv.active

(***************************************************************************)
(* State changes.  Every one of them goes through enter, which ends the    *)
(* move and cancels what it or the last hit still owed.                    *)
(***************************************************************************)
enterOwing(p, state) ==   \* defective: the landing recovery outlives the air
  [p EXCEPT !.state = state, !.stateFrame = 0, !.move = 0, !.down = FALSE]

enter(p, state) ==
  [p EXCEPT !.state = state, !.stateFrame = 0, !.move = 0,
            !.landing = 0, !.down = FALSE]

stay(p, state) == IF p.state = state THEN p ELSE enter(p, state)

knockdown(p) == [enter(p, "knockdown") EXCEPT !.stun = Balance.knockdownFrames]

land(p, n) ==
  IF n <= 0 THEN enter(p, "idle") ELSE [enter(p, "landing") EXCEPT !.stun = n]

hurt(p, n) == [p EXCEPT !.health = Greater(p.health - n, 0)]

\* Chip damage cannot kill.
chipLethal(p, n) == [p EXCEPT !.health = Greater(p.health - n, 0)]   \* defective

chip(p, n) == [p EXCEPT !.health = Greater(p.health - n, 1)]

spendDrive(p, n) ==
  [p EXCEPT !.drive = Greater(p.drive - n, 0),
            !.burnout = p.burnout \/ p.drive - n <= 0]

gainSuper(p, n) == [p EXCEPT !.super = Lesser(p.super + n, SuperMax)]

\* Starting a move spends its meter, and every press up to this frame.
enterMove(p, m) ==
  LET mv == Roster[p.char].moves[m]
      begun == [enter(p, "attack") EXCEPT !.move = m, !.hasHit = FALSE,
                   !.unspent = 0, !.super = p.super - SuperCost(mv), !.armor = 0]
      paid == IF DriveCost(mv) > 0 THEN spendDrive(begun, DriveCost(mv)) ELSE begun
  IN  IF Airborne(paid) /\ ~Launches(mv) THEN paid
      ELSE [paid EXCEPT !.vx = mv.launchVX * p.facing, !.vy = mv.launchVY]

(***************************************************************************)
(* Step 1: this frame's input becomes a state transition.                  *)
(***************************************************************************)
cancelMask(p) ==
  UNION {mv.cancelInto : mv \in {mv \in MoveOf(p) : p.hasHit /\ p.stateFrame >= mv.startup}}

tiers == 5

tierOf(mv) ==
  IF mv.super > 0 THEN 4
  ELSE IF mv.drive > 0 THEN 3
  ELSE IF IsSpecial(mv) THEN 2
  ELSE IF mv.throw THEN 1 ELSE 0

AffordableOnAny(p, mv) ==   \* defective: a move drains what drive there is
  /\ SuperCost(mv) <= p.super
  /\ DriveCost(mv) > 0 => ~p.burnout

Affordable(p, mv) ==
  /\ SuperCost(mv) <= p.super
  /\ DriveCost(mv) > 0 => ~p.burnout /\ DriveCost(mv) <= p.drive

FitsStance(mv, stance) ==
  /\ mv.stance = "air" <=> stance = "air"
  /\ IsSpecial(mv) \/ mv.stance = stance

\* The move a live press selects, 0 for none: the newest press first, then the
\* highest tier, then the lowest index.  An empty cancel set allows every move.
moveFor(p, stance, cancel) ==
  LET moves == Roster[p.char].moves
      press(m) == {b \in pressWithin(p, moves[m].button, InputBuffer) : b < p.unspent}
      rank(m) == tierOf(moves[m]) - tiers * CHOOSE b \in press(m) : TRUE
      offered == {m \in DOMAIN moves :
                    /\ cancel = {} \/ Category(moves[m]) \in cancel
                    /\ Affordable(p, moves[m])
                    /\ FitsStance(moves[m], stance)
                    /\ \E b \in press(m) :
                         IsSpecial(moves[m]) => satisfies(MotionAt(p, b), moves[m].motion)}
  IN  IF offered = {} THEN 0
      ELSE CHOOSE m \in offered : \A n \in offered \ {m} :
             rank(m) > rank(n) \/ (rank(m) = rank(n) /\ m < n)

\* The second button of a pair landed within the window, on a single-button
\* move that is still in its startup and has touched nobody.
pairLate(p, in, pair) ==
  /\ multiButton(pair) /\ pair \subseteq in
  /\ p.state = "attack" /\ ~p.hasHit /\ p.stateFrame < Balance.pairFrames
  /\ \E mv \in MoveOf(p) :
       ~multiButton(mv.button) /\ p.stateFrame < mv.startup /\ pair \cap mv.button # {}

StartJump(p, dir) ==
  LET c == Roster[p.char]
  IN  [enter(p, "prejump") EXCEPT !.jumpHeld = TRUE,
         !.jumpVX = CASE dir = 9 -> c.jumpForwardVX * p.facing
                      [] dir = 7 -> -(c.jumpForwardVX * p.facing)
                      [] dir = 8 -> 0]

\* The direction half: dashes, and on the ground a jump, a crouch or a walk.
Steer(p, dir) ==
  IF doubleTapped(p, DirFwd) THEN enter(p, "dash")
  ELSE IF doubleTapped(p, DirBack) THEN enter(p, "backdash")
  ELSE IF p.state = "air" THEN p
  ELSE CASE dir \in DirJumping /\ ~p.jumpHeld -> StartJump(p, dir)
         [] dir \in DirCrouching              -> stay(p, "crouch")
         [] dir = DirFwd                      -> stay(p, "walkF")
         [] dir = DirBack                     -> stay(p, "walkB")
         [] OTHER                             -> stay(p, "idle")

\* What a player who holds in does with the move a late press selects, and
\* with the one this frame's press selects where the state is open.
Respond(p, in, dir, open, late, chosen) ==
  IF late # 0 /\ pairLate(p, in, Roster[p.char].moves[late].button)
  THEN enterMove(p, late)
  ELSE IF open /\ chosen # 0 THEN enterMove(p, chosen)
  ELSE IF ~open \/ p.state = "attack" THEN p
  ELSE Steer(p, dir)

Stance(p, dir) ==
  IF Airborne(p) THEN "air" ELSE IF dir \in DirCrouching THEN "crouch" ELSE "stand"

resolveWith(p, in, dir, cancel) ==
  Respond(p, in, dir, Actionable(p) \/ p.state = "air" \/ cancel # {},
          IF p.state = "attack" THEN moveFor(p, Stance(p, dir), {}) ELSE 0,
          moveFor(p, Stance(p, dir), cancel))

resolveHeld(p, in) == resolveWith(p, in, direction(in, p.facing), cancelMask(p))
resolveInputs(p, in) == resolveHeld([p EXCEPT !.jumpHeld = @ /\ "up" \in in], in)

(***************************************************************************)
(* Step 2: the state's clock runs, and decides this frame's velocity.      *)
(***************************************************************************)
Slide(p) ==
  IF p.state = "attack" THEN p
  ELSE IF ~stunned(p) THEN [p EXCEPT !.vx = 0]
  ELSE IF ~Airborne(p) /\ p.stateFrame > 0
       THEN [p EXCEPT !.vx = Quo(p.vx * Balance.knockbackDecay, 100)] ELSE p

\* A state that lasts, an idle one or a walk, stops counting at the bound.
Tick(p) == [p EXCEPT !.stateFrame = Lesser(@ + 1, FrameCap)]

RunDash(p, frames, distance) ==
  IF p.stateFrame >= frames THEN enter(p, "idle")
  ELSE Tick([p EXCEPT !.vx = Quo(distance, frames) * p.facing])

RunPreJump(p) ==
  LET c == Roster[p.char]
  IN  IF p.stateFrame < c.preJumpFrames THEN Tick(p)
      ELSE [enter(p, "air") EXCEPT !.vy = c.jumpVelocity, !.vx = p.jumpVX]

\* A move that runs out in the air hands over to the fall, with its landing
\* recovery as a debt.
RunAttack(p) ==
  IF \E mv \in MoveOf(p) : p.stateFrame < Total(mv) THEN Tick(p)
  ELSE IF p.y <= GroundY THEN enter(p, "idle")
  ELSE [enter(p, "air") EXCEPT !.jumpVX = p.vx,
          !.landing = Roster[p.char].moves[p.move].landing]

\* A stun counts down, except hitstun in the air; then the knockdown a hit
\* still owes, or the end of it.
RunStunAnywhere(p) ==   \* defective: hitstun runs out in the air
  LET q == [p EXCEPT !.stun = Greater(@ - 1, 0)]
  IN  IF q.stun > 0 THEN Tick(q)
      ELSE IF p.down THEN knockdown(q) ELSE enter(q, "idle")

RunStun(p) ==
  LET q == [p EXCEPT !.stun = Greater(@ - 1, 0)]
  IN  IF p.state = "hitstun" /\ Airborne(p) THEN Tick(p)
      ELSE IF q.stun > 0 THEN Tick(q)
      ELSE IF p.down THEN knockdown(q) ELSE enter(q, "idle")

advanceState(old) ==
  LET p == Slide(old)
      c == Roster[p.char]
  IN  CASE p.state = "walkF"    -> Tick([p EXCEPT !.vx = c.walkForward * p.facing])
        [] p.state = "walkB"    -> Tick([p EXCEPT !.vx = -(c.walkBack * p.facing)])
        [] p.state = "dash"     -> RunDash(p, c.dashFrames, c.dashDistance)
        [] p.state = "backdash" -> RunDash(p, c.backdashFrames, -c.dashDistance)
        [] p.state = "prejump"  -> RunPreJump(p)
        [] p.state = "air"      -> Tick([p EXCEPT !.vx = p.jumpVX])
        [] p.state = "attack"   -> RunAttack(p)
        [] stunned(p)           -> RunStun(p)
        [] OTHER                -> Tick(p)

(***************************************************************************)
(* Step 3: movement, gravity and the floor.                                *)
(***************************************************************************)
gravity(p) ==
  LET g == Roster[p.char].gravity
  IN  IF p.juggle = 0 THEN g
      ELSE g + Quo(g * (p.juggle * Balance.juggleGravityPercent), 100)

\* What touching the floor does to a player who was in the air.
TouchDown(p) ==
  CASE p.state = "air"     -> land(p, p.landing)
    [] p.state = "hitstun" -> knockdown(p)
    [] p.state = "attack"  ->
         IF \E mv \in MoveOf(p) : mv.stance = "air"
         THEN land(p, Roster[p.char].moves[p.move].landing) ELSE p
    [] OTHER               -> p

fall(p) ==
  LET air == Airborne(p)
      vy == IF air THEN p.vy + gravity(p) ELSE p.vy
      moved == [p EXCEPT !.x = @ + p.vx, !.y = @ + vy, !.vy = vy]
      down == [moved EXCEPT !.y = GroundY, !.vy = 0]
  IN  IF moved.y > GroundY THEN moved
      ELSE IF air THEN TouchDown([down EXCEPT !.vx = 0, !.juggle = 0])
      ELSE down

(***************************************************************************)
(* What the rest of the frame asks of one player.                          *)
(***************************************************************************)
Pushbox(p) == World(Roster[p.char].pushbox, p.x, p.y, p.facing)

StanceHurt(p) ==
  LET c == Roster[p.char]
  IN  IF Airborne(p) THEN c.airHurt
      ELSE IF p.state = "crouch" THEN c.crouchHurt ELSE c.standHurt

Hurtboxes(p) ==
  LET keys == UNION {BoxesAt(mv, p.stateFrame) : mv \in MoveOf(p)}
      local == IF p.state = "knockdown" \/ \E mv \in MoveOf(p) : Invulnerable(mv, p.stateFrame)
               THEN {}
               ELSE IF keys # {} THEN UNION {k.hurt : k \in keys}
               ELSE {b \in {StanceHurt(p)} : ~Empty(b)}
  IN  {World(b, p.x, p.y, p.facing) : b \in local}

HitboxesEveryFrame(p) ==   \* defective: a move that has connected stays live
  LET keys == UNION {BoxesAt(mv, p.stateFrame) : mv \in MoveOf(p)}
  IN  {World(b, p.x, p.y, p.facing) : b \in UNION {k.hit : k \in keys}}

Hitboxes(p) ==
  LET keys == UNION {BoxesAt(mv, p.stateFrame) : mv \in {mv \in MoveOf(p) : ~p.hasHit}}
  IN  {World(b, p.x, p.y, p.facing) : b \in UNION {k.hit : k \in keys}}

\* Holding away from the opponent is blocking, where the stance covers it.
blockingOnce(p, in, level) ==   \* defective: no second block out of a blockstun
  /\ ~Airborne(p) /\ Actionable(p)
  /\ direction(in, p.facing) \in
       (CASE level = "high" -> {DirBack}
          [] level = "low"  -> {1}
          [] level = "mid"  -> {DirBack, 1})

blocking(p, in, level) ==
  /\ ~Airborne(p)
  /\ Actionable(p) \/ p.state = "blockstun"
  /\ direction(in, p.facing) \in
       (CASE level = "high" -> {DirBack}
          [] level = "low"  -> {1}
          [] level = "mid"  -> {DirBack, 1})

throwable(p) == ~Airborne(p) /\ ~stunned(p)

juggled(p, mv) == Airborne(p) /\ p.juggle >= JuggleLimitOf(mv)

counterClass(p) ==
  IF MoveOf(p) = {} THEN "none"
  ELSE IF \E mv \in MoveOf(p) : p.stateFrame < mv.startup + mv.active
  THEN "counter" ELSE "punish"

driveRegen(p) ==
  IF p.burnout THEN Balance.driveRegenBurnout
  ELSE IF p.state = "blockstun" THEN 0
  ELSE IF p.state = "walkF" THEN Balance.driveRegenWalkF
  ELSE Balance.driveRegen

Recharge(p) ==
  LET drive == p.drive + driveRegen(p)
  IN  IF drive >= DriveMax THEN [p EXCEPT !.drive = DriveMax, !.burnout = FALSE]
      ELSE [p EXCEPT !.drive = drive]

(***************************************************************************)
(* The gauges of one fighter, for the properties: health, Super and Drive  *)
(* keep their ranges, an empty Drive gauge is burnout and a full one is    *)
(* not.                                                                    *)
(***************************************************************************)
Gauges(p) ==
  /\ p.health \in 0 .. Roster[p.char].health
  /\ p.super \in 0 .. SuperMax /\ p.drive \in 0 .. DriveMax
  /\ p.drive = 0 => p.burnout
  /\ p.drive = DriveMax => ~p.burnout
=============================================================================
