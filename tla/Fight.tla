------------------------------- MODULE Fight -------------------------------
(***************************************************************************)
(* A match of the simulation (src/sim/state.go with throw.go,              *)
(* projectile.go and round.go): GameState.Advance, one frame per step.     *)
(* The nine steps of a frame of the fight are operators on the arena, in   *)
(* the order of the source; a frame of hitstop and a frame between two     *)
(* rounds are actions of their own.                                        *)
(*                                                                         *)
(* Left out of the state: the effect flags, the random generator (its      *)
(* rolls are choices) and the frame number, of which only the age of the   *)
(* scripted opponent's decision is kept.                                   *)
(***************************************************************************)
EXTENDS Opponent, Rounds

CONSTANTS
  StartX,           \* whole units from the centre at which a round starts
  MaxProjectiles,   \* slots of the projectile pool
  Setups,           \* the setups of a match: [chars, training, ai], with the
                    \* bound changes: how often the keyboards change in all
  Keyboard          \* the inputs a person at a seat may hold

ASSUME StartAssumption == StartX \in Nat
ASSUME PoolAssumption == MaxProjectiles \in 0 .. 4
ASSUME SetupsAssumption ==
  \A setup \in Setups :
    /\ setup.chars \in [Seats -> DOMAIN Roster] /\ setup.training \in BOOLEAN
    /\ setup.ai \in AIOff .. AIHard /\ setup.changes \in Nat
ASSUME KeyboardAssumption ==
  \A i \in Seats, c \in DOMAIN Roster : Keyboard[i][c] \subseteq SUBSET (Buttons \cup Directions)

VARIABLES
  arena,    \* players, projectiles, camX, hitstop and dealt of GameState
  flow,     \* the round flow of GameState
  elapsed,  \* frames since the last decision frame of the scripted opponent
  changes   \* bound: changes of input left

vars == <<arena, flow, elapsed, changes>>

Other(i) == 1 - i

\* An operator applied to the player of each seat.
Each(ps, Op(_)) == [ps EXCEPT ![0] = Op(ps[0]), ![1] = Op(ps[1])]
Slots == 0 .. MaxProjectiles - 1

FreeSlot == [active |-> FALSE, owner |-> 0, move |-> 0, x |-> 0, y |-> 0, vx |-> 0, life |-> 0]

Projectile ==
  [active : BOOLEAN, owner : Seats, move : Int, x : Int, y : Int, vx : Int, life : Int]

(***************************************************************************)
(* The camera and the start of a match or of a round.                      *)
(***************************************************************************)
clampCamera(c) ==
  Lesser(Greater(c, Balance.cameraHalfWidth - Balance.stageHalfWidth),
         Balance.stageHalfWidth - Balance.cameraHalfWidth)

centreCamera(players) == clampCamera(Quo(players[0].x + players[1].x, 2))

StartingPlayers(chars) ==
  [i \in Seats |-> IF i = 0 THEN FreshPlayer(-FromInt(StartX), 1, chars[0])
                            ELSE FreshPlayer(FromInt(StartX), -1, chars[1])]

NewMatch(chars) ==
  LET players == StartingPlayers(chars)
  IN  [players |-> players, projectiles |-> [k \in Slots |-> FreeSlot],
       camX |-> centreCamera(players), hitstop |-> 0, dealt |-> [i \in Seats |-> 0]]

\* A new round borrows the start of a match; Super, the tier of the scripted
\* opponent and the damage dealt so far are carried over it.
ResetArenaIdle(a) ==   \* defective: the tier of the scripted opponent is lost
  LET fresh == NewMatch([i \in Seats |-> a.players[i].char])
  IN  [fresh EXCEPT !.dealt = a.dealt,
         !.players = [i \in Seats |-> [fresh.players[i] EXCEPT !.super = a.players[i].super]]]

ResetArena(a) ==
  LET fresh == NewMatch([i \in Seats |-> a.players[i].char])
  IN  [fresh EXCEPT !.dealt = a.dealt,
         !.players = [i \in Seats |-> [fresh.players[i] EXCEPT
                        !.super = a.players[i].super, !.ai = a.players[i].ai]]]

(***************************************************************************)
(* Step 4: pushboxes, walls and facing.                                    *)
(***************************************************************************)
separate(ps) ==
  LET a == Pushbox(ps[0])
      b == Pushbox(ps[1])
      overlap == Lesser(a.x + a.w, b.x + b.w) - Greater(a.x, b.x)
      push == Quo(overlap, 2)
      side == IF ps[0].x <= ps[1].x THEN 1 ELSE -1
  IN  IF a.y >= b.y + b.h \/ b.y >= a.y + a.h \/ overlap <= 0 THEN ps
      ELSE [ps EXCEPT ![0].x = @ - side * push, ![1].x = @ + side * push]

\* How far a player has to move to be inside the nearer of the stage's walls
\* and the edges of the screen.
wallCorrectionStage(p, camX) ==   \* defective: the screen does not hold anybody
  LET box == Pushbox(p)
  IN  IF -Balance.stageHalfWidth > box.x THEN -Balance.stageHalfWidth - box.x
      ELSE IF box.x + box.w > Balance.stageHalfWidth
      THEN Balance.stageHalfWidth - (box.x + box.w) ELSE 0

wallCorrection(p, camX) ==
  LET box == Pushbox(p)
      lo == Greater(-Balance.stageHalfWidth, camX - Balance.cameraHalfWidth)
      hi == Lesser(Balance.stageHalfWidth, camX + Balance.cameraHalfWidth)
  IN  IF lo > box.x THEN lo - box.x
      ELSE IF box.x + box.w > hi THEN hi - (box.x + box.w) ELSE 0

pushedIntoWall(p, d) ==
  stunned(p) /\ ((p.vx > 0 /\ d < 0) \/ (p.vx < 0 /\ d > 0))

\* One player against the walls.  The corner rule: what the wall takes of a
\* pushback moves the other player back, who is clamped in turn.
Shift(ps, i, d) == [ps EXCEPT ![i].x = @ + d]
IntoStage(ps, i, camX) == Shift(ps, i, wallCorrection(ps[i], camX))

CornerRule(held, i, d, camX) ==
  IF d = 0 \/ ~pushedIntoWall(held[i], d) THEN held
  ELSE IntoStage(Shift(held, Other(i), d), Other(i), camX)

ClampBy(ps, i, d, camX) == CornerRule(Shift(ps, i, d), i, d, camX)
ClampPlayer(ps, i, camX) == ClampBy(ps, i, wallCorrection(ps[i], camX), camX)

clampToStage(ps, camX) == ClampPlayer(ClampPlayer(ps, 0, camX), 1, camX)

FaceToward(p, x) ==
  IF ~Actionable(p) \/ x = p.x THEN p
  ELSE [p EXCEPT !.facing = IF x > p.x THEN 1 ELSE -1]

updateFacing(ps) ==
  [ps EXCEPT ![0] = FaceToward(ps[0], ps[1].x), ![1] = FaceToward(ps[1], ps[0].x)]

updateCamera(a) ==
  LET lo == Lesser(a.players[0].x, a.players[1].x)
      hi == Greater(a.players[0].x, a.players[1].x)
      reach == Balance.cameraHalfWidth - Balance.cameraMargin
      c == IF hi - lo > 2 * reach THEN Quo(lo + hi, 2)
           ELSE IF hi > a.camX + reach THEN hi - reach
           ELSE IF lo < a.camX - reach THEN lo + reach
           ELSE a.camX
  IN  [a EXCEPT !.camX = clampCamera(c)]

(***************************************************************************)
(* Step 5: projectiles move, expire, and the moves of this frame spawn.    *)
(***************************************************************************)
moveProjectile(pr, camX) ==
  LET x == pr.x + pr.vx
  IN  IF ~pr.active THEN pr
      ELSE IF \/ pr.life <= 1
              \/ x < camX - Balance.cameraHalfWidth
              \/ x > camX + Balance.cameraHalfWidth
      THEN FreeSlot
      ELSE [pr EXCEPT !.x = x, !.life = @ - 1]

\* The first free slot takes the projectile; a full pool drops it.
spawn(projectiles, owner, p) ==
  LET free == {k \in Slots : ~projectiles[k].active}
      first == CHOOSE k \in free : \A j \in free : k <= j
      spec == Roster[p.char].moves[p.move].proj
  IN  IF free = {} THEN projectiles
      ELSE [projectiles EXCEPT ![first] =
              [active |-> TRUE, owner |-> owner, move |-> p.move,
               x |-> p.x + spec.spawnX * p.facing, y |-> p.y + spec.spawnY,
               vx |-> spec.speed * p.facing, life |-> spec.life]]

spawnFor(projectiles, owner, p) ==
  IF \E mv \in MoveOf(p) : Fires(mv) /\ p.stateFrame = mv.startup
  THEN spawn(projectiles, owner, p) ELSE projectiles

advanceProjectiles(a) ==
  LET moved == [k \in Slots |-> moveProjectile(a.projectiles[k], a.camX)]
  IN  [a EXCEPT !.projectiles = spawnFor(spawnFor(moved, 0, a.players[0]), 1, a.players[1])]

ProjectileBox(a, k) ==
  LET pr == a.projectiles[k]
      spec == Roster[a.players[pr.owner].char].moves[pr.move].proj
  IN  World(spec.box, pr.x, pr.y, IF pr.vx < 0 THEN -1 ELSE 1)

(***************************************************************************)
(* Step 6: who connects, asked of both before either is resolved.          *)
(***************************************************************************)
connects(a, attacker, defender) ==
  LET dp == a.players[defender]
  IN  /\ \A mv \in MoveOf(a.players[attacker]) :
           (mv.throw => throwable(dp)) /\ ~juggled(dp, mv)
      /\ \E hit \in Hitboxes(a.players[attacker]), body \in Hurtboxes(dp) : Overlaps(hit, body)

(***************************************************************************)
(* Step 7: what one connect does to the two players.                       *)
(***************************************************************************)
applyKnockback(dp, ap, mv, blocked) ==
  LET vx == KnockbackVX(mv, blocked)
      left == dp.x < ap.x \/ (dp.x = ap.x /\ ap.facing < 0)
  IN  [dp EXCEPT !.vx = IF left THEN -vx ELSE vx, !.vy = KnockbackVY(mv, blocked)]

BuildDealt(ap, mv) == gainSuper(ap, Percent(mv.damage, Balance.superDealtPercent))
BuildTaken(dp, mv) == gainSuper(dp, Percent(mv.damage, Balance.superTakenPercent))

TakeArmored(dp, mv) ==
  BuildTaken(chip([dp EXCEPT !.armor = @ + 1],
                  Percent(mv.damage, Balance.armorDamagePercent)), mv)

TakeBlocked(dp, ap, mv) ==
  LET held == applyKnockback([enter(dp, "blockstun") EXCEPT !.stun = mv.blockstun], ap, mv, TRUE)
      longer == [held EXCEPT !.stun = @ + Balance.burnoutBlockstun]
  IN  IF ~dp.burnout THEN spendDrive(held, Balance.driveBlockCost)
      ELSE IF IsSpecial(mv) THEN chip(longer, Percent(mv.damage, Balance.burnoutChipPercent))
      ELSE longer

TakeHit(dp, ap, mv) ==
  LET counter == counterClass(dp)
      starter == IF dp.combo = 0 THEN starterScale(mv) ELSE dp.comboStarter
      struck == [enter(dp, "hitstun") EXCEPT
                   !.combo = @ + 1, !.comboStarter = starter, !.counter = counter,
                   !.stun = mv.hitstun + counterHitstun(counter), !.down = mv.knockdown,
                   !.juggle = IF Airborne(dp) THEN @ + 1 ELSE @]
      hurting == hurt(struck, scaledDamage(mv, starter, dp.combo + 1, counter))
  IN  applyKnockback(BuildTaken(hurting, mv), ap, mv, FALSE)

\* Both players after a connect, and the books: hitstop is the larger of the
\* two, and what left the health bar is what was dealt.
SettledRaw(a, attacker, ap, dp, mv) ==   \* defective: counts what the move deals
  LET defender == Other(attacker)
  IN  [a EXCEPT !.players = [@ EXCEPT ![attacker] = ap, ![defender] = dp],
                !.hitstop = Greater(@, mv.hitstop),
                !.dealt[attacker] = @ + mv.damage]

SettledReversed(a, attacker, ap, dp, mv) ==   \* defective: after minus before
  LET defender == Other(attacker)
  IN  [a EXCEPT !.players = [@ EXCEPT ![attacker] = ap, ![defender] = dp],
                !.hitstop = Greater(@, mv.hitstop),
                !.dealt[attacker] = @ + (dp.health - a.players[defender].health)]

Settled(a, attacker, ap, dp, mv) ==
  LET defender == Other(attacker)
  IN  [a EXCEPT !.players = [@ EXCEPT ![attacker] = ap, ![defender] = dp],
                !.hitstop = Greater(@, mv.hitstop),
                !.dealt[attacker] = @ + (a.players[defender].health - dp.health)]

applyHit(a, attacker, mv, defenderIn) ==
  LET ap == a.players[attacker]
      dp == a.players[Other(attacker)]
      armored == absorbs(dp)
      blocked == ~armored /\ blocking(dp, defenderIn, mv.level)
      taken == IF armored THEN TakeArmored(dp, mv)
               ELSE IF blocked THEN TakeBlocked(dp, ap, mv) ELSE TakeHit(dp, ap, mv)
      built == IF blocked THEN ap ELSE BuildDealt(ap, mv)
      paid == IF IsSpecial(mv) THEN gainSuper(built, Balance.superOnSpecial) ELSE built
  IN  Settled(a, attacker, paid, taken, mv)

(***************************************************************************)
(* Throws (src/sim/throw.go).                                              *)
(***************************************************************************)
techPressed(p) ==
  \E m \in ThrowOf(p.char) :
    pressWithin(p, Roster[p.char].moves[m].button, Balance.throwTechFrames) # {}

\* The escape: both owe the same recovery and are pushed apart.
tech(a, attacker) ==
  LET defender == Other(attacker)
      ps == a.players
      push == IF ps[attacker].x <= ps[defender].x
              THEN -FromInt(Balance.throwTechPush) ELSE FromInt(Balance.throwTechPush)
      freed(p, by) == [enter(p, "thrown") EXCEPT
                         !.stun = Balance.throwTechRecovery, !.vx = 0, !.vy = 0, !.x = @ + by]
      apart == [ps EXCEPT ![attacker] = freed(@, push), ![defender] = freed(@, -push)]
  IN  [a EXCEPT !.players = clampToStage(apart, a.camX)]

TakeThrow(dp, mv) ==
  LET starter == starterScale(mv)
      caught == [enter(dp, "thrown") EXCEPT
                   !.stun = mv.hitstun, !.down = mv.knockdown,
                   !.combo = @ + 1, !.comboStarter = starter, !.counter = "none"]
  IN  BuildTaken(hurt(caught, scaledDamage(mv, starter, dp.combo + 1, "none")), mv)

applyThrow(a, attacker, mv) ==
  LET ap == a.players[attacker]
      dp == a.players[Other(attacker)]
  IN  IF ~IsSpecial(mv) /\ techPressed(dp) THEN tech(a, attacker)
      ELSE Settled(a, attacker, [BuildDealt(ap, mv) EXCEPT !.hasHit = TRUE],
                   TakeThrow(dp, mv), mv)

\* mv is the attacker's move as captured before anything was resolved.
resolveHit(a, attacker, mv, defenderIn) ==
  IF mv.throw THEN applyThrow(a, attacker, mv)
  ELSE applyHit([a EXCEPT !.players[attacker].hasHit = TRUE], attacker, mv, defenderIn)

ResolveHitsInTurn(a, in) ==   \* defective: the second is tested after the first
  LET hits(b, i) == IF connects(b, i, Other(i)) THEN MoveOf(b.players[i]) ELSE {}
      apply(b, i) == IF hits(b, i) = {} THEN b
                     ELSE resolveHit(b, i, CHOOSE mv \in hits(b, i) : TRUE, in[Other(i)])
  IN  apply(apply(a, 0), 1)

ResolveHits(a, in) ==
  LET hits(i) == IF connects(a, i, Other(i)) THEN MoveOf(a.players[i]) ELSE {}
      apply(b, i) == IF hits(i) = {} THEN b
                     ELSE resolveHit(b, i, CHOOSE mv \in hits(i) : TRUE, in[Other(i)])
  IN  apply(apply(a, 0), 1)

\* The projectiles, slot by slot: one that reaches a body is spent, on block
\* as much as on hit, unless the juggle limit lets it pass.
resolveProjectile(a, k, in) ==
  LET pr == a.projectiles[k]
      defender == Other(pr.owner)
      mv == Roster[a.players[pr.owner].char].moves[pr.move]
  IN  IF /\ pr.active
         /\ \E body \in Hurtboxes(a.players[defender]) : Overlaps(ProjectileBox(a, k), body)
         /\ ~juggled(a.players[defender], mv)
      THEN [applyHit(a, pr.owner, mv, in[defender]) EXCEPT !.projectiles[k] = FreeSlot]
      ELSE a

InSlot(a, k, in) == IF k \in Slots THEN resolveProjectile(a, k, in) ELSE a

resolveProjectiles(a, in) == InSlot(InSlot(InSlot(InSlot(a, 0, in), 1, in), 2, in), 3, in)

(***************************************************************************)
(* Step 8: resources and combos.                                           *)
(***************************************************************************)
anyoneStunned(ps) == \E i \in Seats : stunned(ps[i]) \/ ps[i].combo > 0

ToppedUp(p) ==
  [p EXCEPT !.health = Roster[p.char].health, !.drive = DriveMax, !.super = SuperMax,
            !.burnout = FALSE]

updateResources(ps, training) ==
  IF training /\ ~anyoneStunned(ps) THEN Each(ps, ToppedUp) ELSE Each(ps, Recharge)

\* A combo lasts as long as the hitstun that holds it together.
endCombo(p) ==
  IF p.state = "hitstun" THEN p ELSE [p EXCEPT !.combo = 0, !.comboStarter = 0]

aheadOnHealth(ps) ==
  LET share(i) == ps[i].health * Roster[ps[Other(i)].char].health
  IN  IF share(0) > share(1) THEN 0
      ELSE IF share(1) > share(0) THEN 1 ELSE RoundNobody

Dead(ps) == {i \in Seats : ps[i].health <= 0}

(***************************************************************************)
(* Steps 1 to 8 of a frame of the fight, on an arena whose players have    *)
(* recorded this frame's input.                                            *)
(***************************************************************************)
MovePlayers(a, in) ==
  LET moved(i) == fall(advanceState(resolveInputs(a.players[i], in[i])))
      stepped == [a.players EXCEPT ![0] = moved(0), ![1] = moved(1)]
  IN  [a EXCEPT !.players = updateFacing(clampToStage(separate(stepped), a.camX))]

Struck(a, in) ==
  resolveProjectiles(ResolveHits(advanceProjectiles(MovePlayers(a, in)), in), in)

FightOn(a, in) ==
  updateCamera([Struck(a, in) EXCEPT !.players = Each(updateResources(@, flow.training), endCombo)])

(***************************************************************************)
(* The inputs of a frame.                                                  *)
(***************************************************************************)
flying(i) == \E k \in Slots : arena.projectiles[k].active /\ arena.projectiles[k].owner = i

\* What a seat may press: a person one of the keyboard's inputs, the scripted
\* opponent the buttons of the plan it runs.
aiInput(i) ==
  LET p == arena.players[i]
  IN  IF p.ai = AIOff THEN {[in |-> in, plan |-> p.plan] : in \in Keyboard[i][p.char]}
      ELSE {[in |-> aiPress(plan, elapsed, p.facing), plan |-> plan] :
              plan \in aiPlans(p, arena.players[Other(i)], flying(i), elapsed)}

Changed(press) ==
  {i \in Seats : arena.players[i].ai = AIOff /\ press[i].in # at(arena.players[i], 0)}

Presses ==
  {press \in {[i \in Seats |-> IF i = 0 THEN first ELSE second] :
                first \in aiInput(0), second \in aiInput(1)} :
     Cardinality(Changed(press)) <= changes}

\* Step 1, first half: the history is recorded on every frame.
Recorded(press) ==
  LET pressing(i) == record([arena.players[i] EXCEPT !.plan = press[i].plan], press[i].in)
  IN  [arena EXCEPT !.players = [@ EXCEPT ![0] = pressing(0), ![1] = pressing(1)]]

Clocks(press) ==
  /\ elapsed' = IF \A i \in Seats : arena.players[i].ai = AIOff THEN 0
                ELSE (elapsed + 1) % Balance.aiDecisionFrames
  /\ changes' = changes - Cardinality(Changed(press))

(***************************************************************************)
(* One frame: GameState.Advance.                                           *)
(***************************************************************************)
Init ==
  \E setup \in Setups :
    /\ arena = [NewMatch(setup.chars) EXCEPT !.players[1].ai = setup.ai]
    /\ flow = NewFlow(setup.training)
    /\ elapsed = 0
    /\ changes = setup.changes

\* Hitstop freezes the whole match: only the history and its counter run.
HitstopFrame ==
  /\ arena.hitstop > 0
  /\ \E press \in Presses :
      /\ arena' = [Recorded(press) EXCEPT !.hitstop = @ - 1]
      /\ Clocks(press)
      /\ UNCHANGED flow

\* Between two rounds the phase runs its clock and nothing moves.
PhaseFrame ==
  /\ arena.hitstop = 0 /\ flow.phase \in {"ko", "roundEnd", "intro"}
  /\ \E press \in Presses :
      /\ flow' = advancePhase(flow, arena.dealt)
      /\ arena' = IF flow.phase = "roundEnd" /\ PhaseEnds(flow) /\ ~MatchOver(flow)
                  THEN ResetArena(Recorded(press)) ELSE Recorded(press)
      /\ Clocks(press)

\* A frame of the fight; one that ends the round drops the hitstop.
FightFrame ==
  /\ arena.hitstop = 0 /\ flow.phase = "fight"
  /\ \E press \in Presses :
      /\ \E after \in {FightOn(Recorded(press), [i \in Seats |-> press[i].in])} :
           /\ flow' = updateRound(flow, Dead(after.players), aheadOnHealth(after.players))
           /\ arena' = IF flow'.phase = "ko" THEN [after EXCEPT !.hitstop = 0] ELSE after
      /\ Clocks(press)

\* The match is over: what is still recorded is read by nothing.
Over == flow.phase = "matchEnd" /\ UNCHANGED vars

Next == HitstopFrame \/ PhaseFrame \/ FightFrame \/ Over

Spec == Init /\ [][Next]_vars

(***************************************************************************)
(* Properties.                                                             *)
(***************************************************************************)
Arena ==
  [players : [Seats -> Player], projectiles : [Slots -> Projectile],
   camX : Int, hitstop : Nat, dealt : [Seats -> Nat]]

\* Every field of the match keeps its type, over all the handlers that write it.
TypeOK ==
  /\ DOMAIN arena = {"players", "projectiles", "camX", "hitstop", "dealt"}
  /\ arena.players \in [Seats -> Player]
  /\ arena.projectiles \in [Slots -> Projectile]
  /\ arena.camX \in Int /\ arena.hitstop \in Nat /\ arena.dealt \in [Seats -> Nat]
  /\ flow \in Flow
  /\ elapsed \in 0 .. Balance.aiDecisionFrames - 1 /\ changes \in Nat

\* What a frame does to the Drive gauge in and around burnout (resource.go):
\* burnout comes with the gauge that was emptied this frame, spends nothing, and
\* ends with the full gauge only.
BurnsOut(p, q) ==
  /\ ~p.burnout /\ q.burnout => q.drive = Balance.driveRegenBurnout
  /\ p.burnout => q.drive >= p.drive /\ (q.burnout \/ q.drive = DriveMax)

\* A fighter in the first frame of a move has used up every press (what a hit
\* stops in that very frame is no longer in the move, and is not looked at).
JustBegun(q) == q.state = "attack" /\ q.unspent = 0

\* It had the meter the move costs, Drive outside of burnout, and that Drive is
\* gone: what is left beyond that is what this frame gave back (all, in the lab).
Afforded(p, q, mv) ==
  /\ SuperCost(mv) <= p.super
  /\ DriveCost(mv) > 0 => ~p.burnout /\ DriveCost(mv) <= p.drive
  /\ flow.training \/
       q.drive <= p.drive - DriveCost(mv) + Greater(Balance.driveRegen, Balance.driveRegenBurnout)

\* No path overspends a gauge (resource.go), however many moves, hits,
\* blocks, refills and rounds came before: the gauges keep their ranges, a move
\* is begun with its meter only and pays its Drive, and burnout lasts from the
\* emptied gauge to the full one.
GaugesHonest ==
  [][\A i \in Seats :
       LET p == arena.players[i]
           q == arena'.players[i]
       IN  /\ Gauges(q) /\ BurnsOut(p, q)
           /\ JustBegun(q) => Afforded(p, q, Roster[q.char].moves[q.move])]_vars

\* What a hit leaves on a fighter does not outlive the state that owes it
\* (enter of fighter.go, step 8 of Advance): a knockdown is owed in hitstun or
\* in a throw, a landing recovery in the air, a combo counts in hitstun, and a
\* juggle counts above the floor.
DebtsHeld ==
  \A i \in Seats :
    LET p == arena.players[i]
    IN  /\ p.down => p.state \in {"hitstun", "thrown"}
        /\ p.landing > 0 => p.state = "air"
        /\ p.combo > 0 => p.state = "hitstun"
        /\ p.juggle > 0 => p.y > GroundY

\* How far one fighter may stick out of the screen beside another: when both
\* stand at its edges the camera centres on their middles, and half of what one
\* is wider than the other is cut off until the next frame.
Overhang(p, o) ==
  LET wider == Pushbox(p).w - Pushbox(o).w IN IF wider > 0 THEN (wider + 2) \div 4 ELSE 0

\* After pushboxes, walls, the corner rule, a throw tech and the camera's own
\* move, both fighters stand inside the stage, and inside the new screen but for
\* the overhang of the wider one.
OnScreen ==
  \A i \in Seats :
    LET box == Pushbox(arena.players[i])
        over == Overhang(arena.players[i], arena.players[Other(i)])
    IN  /\ -Balance.stageHalfWidth <= box.x /\ box.x + box.w <= Balance.stageHalfWidth
        /\ arena.camX - Balance.cameraHalfWidth <= box.x + over
        /\ box.x + box.w <= arena.camX + Balance.cameraHalfWidth + over

\* What that takes of the data, which the loader does not look at: a pushbox is
\* centred, half of it fits the margin of the camera (as resource.go asks), and
\* the fighters start inside the screen.
ScreenFits ==
  \A c \in DOMAIN Roster :
    LET box == Roster[c].pushbox
    IN  /\ 2 * box.x + box.w = 0 /\ box.w <= 2 * Balance.cameraMargin
        /\ 2 * FromInt(StartX) + box.w <= 2 * Balance.cameraHalfWidth

\* The books of the rounds (round.go): a round awards at most one win, no round
\* begins in a match that is decided or at its cap, a fight has time left and
\* two living fighters, and a match that is over has the winner the wins name.
RoundBooks ==
  LET won == flow.wins[0] + flow.wins[1]
      decided == {i \in Seats : flow.wins[i] >= RoundsToWin}
  IN  /\ flow.round <= MaxRounds
      /\ flow.phase \in {"fight", "intro"} =>
           /\ won < flow.round /\ decided = {} /\ flow.winner = RoundNobody
           /\ flow.timer > 0 /\ (flow.training \/ Dead(arena.players) = {})
      /\ won <= flow.round /\ Cardinality(decided) <= 1
      /\ flow.phase = "matchEnd" => flow.winner \in Seats /\ decided \subseteq {flow.winner}

\* Whoever may act stands on the floor.  fighter.go rules out every move but an
\* air normal from up there: "no air walking, no double jump and no air dash".
ActionableOnGround ==
  \A i \in Seats : Actionable(arena.players[i]) => arena.players[i].y = GroundY

\* In a match that counts, what a frame takes from a health bar is what it adds
\* to the damage dealt by the other seat (the tie-break at the round cap),
\* whichever of strike, chip, armor, throw and projectile took it.
DealtAdds ==
  [][flow.phase = "fight" /\ ~flow.training =>
       \A i \in Seats :
         arena'.dealt[i] - arena.dealt[i] =
           arena.players[Other(i)].health - arena'.players[Other(i)].health]_vars

\* Chip damage never ends a round: whoever dies this frame was hit or thrown.
ChipNeverKills ==
  [][\A i \in Dead(arena'.players) \ Dead(arena.players) :
       arena'.players[i].state \in {"hitstun", "thrown"}]_vars

\* No button of this input is live any more.
Quiet(p) == \A b \in 0 .. InputBuffer : at(p, b) \cap Buttons = {}

\* A fighter who holds down-back is opened by a throw only: it is not hit by an
\* opponent who comes from the floor and is neither stunned nor in a throw, also
\* on the frame a knockdown or a blockstun ends, after a cross-up and at the
\* wall.  The opponent is one whose overheads are strikes from the air.
GuardHolds ==
  [][\A i \in Seats :
       LET p == arena.players[i]
           q == arena'.players[i]
           o == arena.players[Other(i)]
           then == arena'.players[Other(i)]
       IN  /\ flow.phase = "fight" /\ arena.hitstop = 0
           /\ ~Airborne(p) /\ (Actionable(p) \/ p.state \in {"blockstun", "knockdown"})
           /\ direction(at(q, 0), q.facing) = 1 /\ Quiet(q)
           /\ ~Airborne(o) /\ ~stunned(then) /\ \A mv \in MoveOf(then) : ~mv.throw
           /\ \A m \in DOMAIN Roster[o.char].moves :
                LET mv == Roster[o.char].moves[m]
                IN  mv.level = "high" => mv.stance = "air" /\ ~Fires(mv)
           => q.state # "hitstun"]_vars

\* One execution of a move connects once: a fighter who goes on with a move
\* that has hit does not take more health, unless with a projectile.
HitsOnce ==
  [][\A i \in Seats :
       LET p == arena.players[i]
           q == arena'.players[i]
       IN  /\ p.state = "attack" /\ p.hasHit /\ q.state = "attack"
           /\ q.stateFrame = p.stateFrame + 1
           /\ \A k \in Slots : ~arena.projectiles[k].active /\ ~arena'.projectiles[k].active
           /\ \A mv \in MoveOf(p) : ~Fires(mv)
           => arena'.players[Other(i)].health >= arena.players[Other(i)].health]_vars

\* A fighter hit off the floor stays helpless until the floor, and is knocked
\* down there.
LaunchedLands ==
  [][flow.phase = "fight" =>
       \A i \in Seats :
         LET p == arena.players[i]
             q == arena'.players[i]
         IN  p.state = "hitstun" /\ p.y > GroundY =>
               IF q.y > GroundY THEN q.state = "hitstun"
               ELSE q.state = "knockdown"]_vars

\* The setup of a match survives every round of it (startRound borrows a fresh
\* match), Super and the damage dealt are carried over, and no win is lost.
SetupSurvives ==
  [][/\ flow'.training = flow.training
     /\ \A i \in Seats :
          /\ arena'.players[i].char = arena.players[i].char
          /\ arena'.players[i].ai = arena.players[i].ai
          /\ flow'.wins[i] >= flow.wins[i]
          /\ flow.training \/ arena'.dealt[i] >= arena.dealt[i]
          /\ flow'.round # flow.round =>
               arena'.players[i].super = arena.players[i].super]_vars

\* How much of a match is left: rounds, phases of the round, frames of the
\* phase, frames of hitstop.
PhasesLeft == [matchEnd |-> 0, roundEnd |-> 1, ko |-> 2, fight |-> 3, intro |-> 4]
Left(f, hitstop) ==
  << MaxRounds - f.round, PhasesLeft[f.phase],
     IF f.phase = "fight" THEN f.timer ELSE phaseLength(f.phase) - f.phaseFrame, hitstop >>

\* The first of four counts that differs is smaller on the left.
Below(l, r) ==
  \E k \in 1 .. 4 : l[k] < r[k] /\ \A j \in 1 .. k - 1 : l[j] = r[j]

\* A match that counts comes to its end: every frame leaves less of it, so
\* draws, hitstop, double knockouts and timeouts cannot keep it going.
MatchAdvances ==
  [][~flow.training /\ flow.phase # "matchEnd" =>
       Below(Left(flow', arena'.hitstop), Left(flow, arena.hitstop))]_vars

\* The same fight with the seats exchanged, seen from behind the stage.
Turned(in) ==
  (in \ {"left", "right"}) \cup (IF "left" \in in THEN {"right"} ELSE {})
                           \cup (IF "right" \in in THEN {"left"} ELSE {})
TurnedPlayer(p) ==
  [p EXCEPT !.x = -@, !.vx = -@, !.facing = -@, !.jumpVX = -@,
            !.inputs = [b \in DOMAIN @ |-> Turned(@[b])]]
Swapped(a) ==
  [a EXCEPT !.camX = -@, !.dealt = [i \in Seats |-> a.dealt[Other(i)]],
     !.players = [i \in Seats |-> TurnedPlayer(a.players[Other(i)])]]

\* Strikes do not depend on the seat: but for throws, projectiles and fighters
\* on one spot, a frame of the fight with the seats exchanged ends in what it
\* ended in, exchanged.  Player 0 is moved, clamped, tested and resolved first.
SeatBlind ==
  [][/\ flow.phase = "fight" /\ arena.hitstop = 0 /\ flow'.phase = "fight"
     /\ \A k \in Slots : ~arena.projectiles[k].active /\ ~arena'.projectiles[k].active
     /\ arena.players[0].x # arena.players[1].x /\ arena'.players[0].x # arena'.players[1].x
     /\ \A i \in Seats : arena'.players[i].state # "thrown"
     => LET pressing(i) == record([arena.players[i] EXCEPT !.plan = arena'.players[i].plan],
                                  at(arena'.players[i], 0))
            recorded == [arena EXCEPT !.players = [@ EXCEPT ![0] = pressing(0), ![1] = pressing(1)]]
        IN  FightOn(Swapped(recorded), [i \in Seats |-> Turned(at(arena'.players[Other(i)], 0))])
              = Swapped(arena')]_vars
=============================================================================
