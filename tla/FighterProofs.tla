--------------------------- MODULE FighterProofs ---------------------------
(***************************************************************************)
(* What the operators on one fighter keep (Fighter), for every cast and    *)
(* balance the loader accepts.  Each function of fighter.go, resource.go   *)
(* and damage.go that returns a player has a lemma: given a sound fighter  *)
(* it returns a sound one, with the health it says.                        *)
(*                                                                         *)
(* Soundness is a predicate on the fields rather than a set of records:    *)
(* the fields nothing here depends on (positions, facings, histories) may  *)
(* hold anything.                                                          *)
(***************************************************************************)
EXTENDS Fighter, SetFacts, TLAPS

\* The fields of a player.
Fields ==
  {"x", "y", "vx", "vy", "facing", "char", "health", "drive", "super", "burnout", "combo",
   "comboStarter", "counter", "state", "stateFrame", "move", "hasHit", "armor", "stun",
   "landing", "down", "unspent", "juggle", "jumpVX", "jumpHeld", "ai", "plan", "inputs"}

\* What is owed, and by which states: DebtsHeld, for one record, but for the
\* combo, which step 8 settles once a frame.
Debts(p) ==
  /\ p.down => p.state \in {"hitstun", "thrown"}
  /\ p.landing > 0 => p.state = "air"
  /\ p.juggle > 0 => p.y > GroundY

\* A fighter in the air is above the floor or has just left it, with the jump
\* velocity of the character.
Rising(p) == p.state = "air" => p.y > GroundY \/ p.vy = Roster[p.char].jumpVelocity

\* An attack has a move.
Moving(p) == p.state = "attack" => p.move \in DOMAIN Roster[p.char].moves

\* A fighter whose fields are in order: what every operator on one player keeps.
Sound(p) ==
  /\ DOMAIN p = Fields /\ p.char \in DOMAIN Roster
  /\ p.y \in Nat /\ p.vy \in Int /\ p.juggle \in Nat /\ p.landing \in Int /\ p.combo \in Nat
  /\ p.comboStarter \in Nat
  /\ Gauges(p) /\ Debts(p) /\ Rising(p) /\ Moving(p)

\* After gravity nobody in the air is on the floor.
Afloat(p) == p.state = "air" => p.y > GroundY

\* Who has no health left was hit or thrown.
Mortal(p) == p.health = 0 => p.state \in {"hitstun", "thrown"}

\* q is p after a hit, a block, a throw or nothing at all.
Suffers(p, q) ==
  /\ Sound(q) /\ q.char = p.char /\ q.ai = p.ai
  /\ Afloat(p) => Afloat(q)
  /\ Mortal(p) => Mortal(q) /\ q.health <= p.health

\* q is p after a step that takes no health.
Follows(p, q) ==
  Sound(q) /\ q.char = p.char /\ q.ai = p.ai /\ q.health = p.health

\* q is p moved, or with another input: nothing the proofs speak of changed.
Same(p, q) ==
  /\ DOMAIN q = DOMAIN p
  /\ \A f \in Fields \ {"x", "vx", "facing", "counter", "stateFrame", "hasHit", 
                "armor", "stun", "unspent", "jumpVX", "jumpHeld", "plan", "inputs"} : q[f] = p[f]

\* Neither gauge is of size zero.
LEMMA GaugeSizes == DriveMax \in Nat \ {0} /\ SuperMax \in Nat \ {0}
  BY ScaleAssumption DEF DriveMax, SuperMax, DriveBars, SuperBars

\* Moving a sound fighter leaves it sound.
LEMMA SameSound ==
  ASSUME NEW p, NEW q, Sound(p), Same(p, q)
  PROVE  Sound(q)
  BY DEF Sound, Same, Gauges, Debts, Rising, Moving, Fields

\* Every state but the air and an attack may be entered at any time: enter
\* settles what was owed.
LEMMA EnterSound ==
  ASSUME NEW p, Sound(p), NEW s, s \notin {"air", "attack"}
  PROVE  LET q == enter(p, s)
         IN  Follows(p, q) /\ q.state = s
  BY DEF Follows, Sound, enter, Gauges, Debts, Rising, Moving, Fields

\* What spending drive writes.
LEMMA SpendIs ==
  ASSUME NEW p, DOMAIN p = Fields, NEW n
  PROVE  LET q == spendDrive(p, n)
         IN  /\ DOMAIN q = Fields
             /\ \A f \in Fields \ {"drive", "burnout"} : q[f] = p[f]
             /\ q.drive = Greater(p.drive - n, 0)
             /\ q.burnout <=> p.burnout \/ p.drive - n <= 0
<1>1. \A f \in Fields \ {"drive", "burnout"} : spendDrive(p, n)[f] = p[f]
  <2>. TAKE f \in Fields \ {"drive", "burnout"}
  <2>. QED  BY Zenon DEF spendDrive
<1>2. DOMAIN spendDrive(p, n) = Fields
  BY SMT DEF spendDrive
<1>3. spendDrive(p, n).drive = Greater(p.drive - n, 0)
  BY SMT DEF spendDrive, Fields
<1>4. spendDrive(p, n).burnout <=> p.burnout \/ p.drive - n <= 0
  BY Zenon DEF spendDrive, Fields
<1>. QED
  BY <1>1, <1>2, <1>3, <1>4

\* Spending drive stops at the empty gauge, which is the burnout.
LEMMA SpendSound ==
  ASSUME NEW p, Sound(p), NEW n \in Nat \ {0}
  PROVE  LET q == spendDrive(p, n)
         IN  Follows(p, q) /\ q.state = p.state
<1> DEFINE q == spendDrive(p, n)
<1>1. /\ DOMAIN q = Fields
      /\ \A f \in Fields \ {"drive", "burnout"} : q[f] = p[f]
      /\ q.drive = Greater(p.drive - n, 0)
      /\ q.burnout <=> p.burnout \/ p.drive - n <= 0
  BY SpendIs DEF Sound
<1>2. /\ q.drive \in 0 .. DriveMax /\ q.drive # DriveMax
      /\ q.drive = 0 => p.drive - n <= 0
  BY <1>1, GaugeSizes DEF Sound, Gauges, Greater
<1>3. /\ q.char = p.char /\ q.ai = p.ai /\ q.health = p.health /\ q.super = p.super /\ q.state = p.state
      /\ q.y = p.y /\ q.vy = p.vy /\ q.juggle = p.juggle /\ q.landing = p.landing
      /\ q.combo = p.combo /\ q.comboStarter = p.comboStarter /\ q.down = p.down /\ q.move = p.move
  BY <1>1, Zenon DEF Fields
<1> HIDE DEF q
<1>4. Gauges(q)
  BY <1>1, <1>2, <1>3, Zenon DEF Sound, Gauges
<1>5. Debts(q) /\ Rising(q) /\ Moving(q)
  BY <1>3, Zenon DEF Sound, Debts, Rising, Moving
<1>6. Sound(q)
  BY <1>1, <1>3, <1>4, <1>5, Zenon DEF Sound
<1>. QED
  BY <1>3, <1>6 DEF q, Follows

\* What the loader promises of a character and of a move.
LEMMA CharacterLoaded ==
  ASSUME NEW c \in DOMAIN Roster
  PROVE  /\ Roster[c].health \in Nat \ {0} /\ Roster[c].gravity \in Int
         /\ Roster[c].jumpVelocity \in Int /\ Roster[c].jumpVelocity + Roster[c].gravity > 0
         /\ Roster[c].moves \in Seq(MoveType)
<1>1. LoadedCharacter(Roster[c])
  BY RosterAssumption
<1>2. Roster[c] \in CharacterType /\ JumpLands(Roster[c])
  BY <1>1 DEF LoadedCharacter
<1>3. /\ Roster[c].health \in 1 .. Limits.health /\ Roster[c].gravity \in Fixed
      /\ Roster[c].jumpVelocity \in Fixed /\ Roster[c].moves \in Seq(MoveType)
  BY <1>2 DEF CharacterType
<1>4. /\ Limits.fixed \subseteq Int /\ Limits.health \in Nat /\ Limits.jump \subseteq Nat \ 0 .. 2
  BY LimitsAssumption
<1>5. Roster[c].gravity \in Int /\ Roster[c].jumpVelocity \in Int
  BY <1>3, <1>4 DEF Fixed
<1>6. /\ Roster[c].gravity < 0 /\ Roster[c].jumpVelocity > 0
      /\ (2 * Roster[c].jumpVelocity) \div (-Roster[c].gravity) \in Nat \ 0 .. 2
  BY <1>2, <1>4 DEF JumpLands
<1>7. ASSUME NEW v \in Nat, NEW g \in Nat \ {0}, (2 * v) \div g \in Nat \ 0 .. 2
      PROVE  v > g
  BY <1>7
<1>8. Roster[c].jumpVelocity > -Roster[c].gravity
  BY <1>5, <1>6, <1>7
<1>. QED
  BY <1>3, <1>4, <1>5, <1>8

\* A move of a loaded character is a loaded move.
LEMMA MoveLoaded ==
  ASSUME NEW c \in DOMAIN Roster, NEW m \in DOMAIN Roster[c].moves
  PROVE  Roster[c].moves[m] \in MoveType
  BY CharacterLoaded

\* The numbers of a move the proofs rest on.
LEMMA MoveNumbers ==
  ASSUME NEW mv \in MoveType
  PROVE  /\ mv.damage \in Nat /\ mv.landing \in Nat /\ mv.hitstop \in Nat
         /\ mv.launchVY \in Int /\ mv.knockVY \in Int /\ mv.throw \in BOOLEAN
         /\ SuperCost(mv) \in Nat /\ DriveCost(mv) \in Nat
<1>1. /\ mv.damage \in Nat /\ mv.landing \in Nat /\ mv.hitstop \in Nat /\ mv.throw \in BOOLEAN
      /\ mv.launchVY \in Fixed /\ mv.knockVY \in Fixed
      /\ mv.super \in 0 .. SuperBars /\ mv.drive \in 0 .. DriveBars
  BY DEF MoveType
<1>2. Fixed \subseteq Int
  BY LimitsAssumption DEF Fixed
<1>3. \A k \in Nat : k * BarUnits \in Nat
  BY ScaleAssumption
<1>4. mv.super \in Nat /\ mv.drive \in Nat
  BY <1>1 DEF SuperBars, DriveBars
<1>. QED
  BY <1>1, <1>2, <1>3, <1>4 DEF SuperCost, DriveCost

\* Starting a move that can be paid for.
LEMMA EnterMoveSound ==
  ASSUME NEW p, Sound(p), NEW m \in DOMAIN Roster[p.char].moves,
         Affordable(p, Roster[p.char].moves[m])
  PROVE  LET q == enterMove(p, m)
         IN  Follows(p, q) /\ q.state = "attack"
<1> DEFINE mv == Roster[p.char].moves[m]
           begun == [enter(p, "attack") EXCEPT !.move = m, !.hasHit = FALSE,
                       !.unspent = 0, !.super = p.super - SuperCost(mv), !.armor = 0]
           paid == IF DriveCost(mv) > 0 THEN spendDrive(begun, DriveCost(mv)) ELSE begun
<1>1. mv \in MoveType
  BY MoveLoaded DEF Sound
<1>2. /\ SuperCost(mv) \in Nat /\ DriveCost(mv) \in Nat /\ mv.launchVY \in Int
  BY <1>1, MoveNumbers
<1>3. SuperCost(mv) <= p.super
  BY DEF Affordable
<1> HIDE DEF mv
<1>4. p.super - SuperCost(mv) \in 0 .. SuperMax
  BY <1>2, <1>3, GaugeSizes DEF Sound, Gauges
<1>5. Follows(p, begun) /\ begun.state = "attack"
  <2>1. /\ DOMAIN begun = Fields
        /\ \A f \in Fields \ {"state", "stateFrame", "move", "landing", "down", "hasHit", "unspent", "super", "armor"} :
             begun[f] = p[f]
        /\ begun.state = "attack" /\ begun.move = m /\ begun.landing = 0 /\ begun.down = FALSE
        /\ begun.super = p.super - SuperCost(mv)
    BY DEF enter, Sound, Fields
  <2> HIDE DEF begun
  <2>. QED
    BY <1>4, <2>1 DEF Follows, Sound, Gauges, Debts, Rising, Moving, Fields
<1> HIDE DEF begun
<1>6. Follows(p, paid) /\ paid.state = "attack"
  BY <1>2, <1>5, SpendSound DEF Follows
<1> HIDE DEF paid
<1>7. ASSUME NEW vx
      PROVE  LET q == [paid EXCEPT !.vx = vx, !.vy = mv.launchVY]
             IN  Follows(p, q) /\ q.state = "attack"
  BY <1>2, <1>6 DEF Follows, Sound, Gauges, Debts, Rising, Moving, Fields
<1>8. enterMove(p, m) = IF Airborne(paid) /\ ~Launches(mv) THEN paid
                         ELSE [paid EXCEPT !.vx = mv.launchVX * p.facing, !.vy = mv.launchVY]
  BY Zenon DEF enterMove, paid, begun, mv
<1>. QED
  BY <1>6, <1>7, <1>8

\* The move a press selects exists, can be paid for, fits the stance, and was
\* pressed.
LEMMA ChosenMove ==
  ASSUME NEW p, NEW stance, NEW cancel, p.char \in DOMAIN Roster
  PROVE  LET m == moveFor(p, stance, cancel)
         IN  m # 0 => /\ m \in DOMAIN Roster[p.char].moves /\ Affordable(p, Roster[p.char].moves[m])
                      /\ FitsStance(Roster[p.char].moves[m], stance)
                      /\ pressWithin(p, Roster[p.char].moves[m].button, InputBuffer) # {}
<1> DEFINE moves == Roster[p.char].moves
           press(m) == {b \in pressWithin(p, moves[m].button, InputBuffer) : b < p.unspent}
           rank(m) == tierOf(moves[m]) - tiers * CHOOSE b \in press(m) : TRUE
           offered == {m \in DOMAIN moves :
                         /\ cancel = {} \/ Category(moves[m]) \in cancel
                         /\ Affordable(p, moves[m])
                         /\ FitsStance(moves[m], stance)
                         /\ \E b \in press(m) :
                              IsSpecial(moves[m]) => satisfies(MotionAt(p, b), moves[m].motion)}
           best(m) == \A n \in offered \ {m} : rank(m) > rank(n) \/ (rank(m) = rank(n) /\ m < n)
<1>1. moveFor(p, stance, cancel) = IF offered = {} THEN 0 ELSE CHOOSE m \in offered : best(m)
  BY Zenon DEF moveFor
<1>2. DOMAIN moves \subseteq Nat
  BY CharacterLoaded
<1>3. ASSUME NEW m \in offered
      PROVE  rank(m) \in Int /\ 4 - rank(m) \in Nat
  <2>1. \A b \in press(m) : b \in Nat
    <3>1. InputBuffer \in Nat
      BY InputsAssumption
    <3>. QED
      BY <3>1 DEF pressWithin
  <2>2. \E b \in press(m) : TRUE
    OBVIOUS
  <2>3. (CHOOSE b \in press(m) : TRUE) \in press(m)
    BY <2>2, Zenon
  <2>4. (CHOOSE b \in press(m) : TRUE) \in Nat
    BY <2>1, <2>3
  <2> DEFINE b == CHOOSE b \in press(m) : TRUE
             t == tierOf(moves[m])
  <2>5. t \in 0 .. 4
    BY DEF tierOf
  <2> HIDE DEF b, t
  <2>6. b \in Nat /\ rank(m) = t - 5 * b
    BY <2>4 DEF b, t, tiers
  <2>. QED
    BY <2>5, <2>6
<1>4. offered # {} => \E m \in offered : best(m)
  <2> SUFFICES ASSUME offered # {} PROVE \E m \in offered : best(m)
    OBVIOUS
  <2> DEFINE lag(m) == 4 - rank(m)
             lags == {lag(m) : m \in offered}
  <2> HIDE DEF rank, offered
  <2>1. lags \in SUBSET Nat /\ lags # {}
    BY <1>3
  <2>2. PICK l \in lags : \A k \in lags : l <= k
    BY <2>1, NatLeast
  <2> DEFINE first == {m \in offered : lag(m) = l}
  <2>3. first \in SUBSET Nat /\ first # {}
    BY <1>2, <2>2 DEF offered
  <2>4. PICK m \in first : \A n \in first : m <= n
    BY <2>3, NatLeast
  <2>5. ASSUME NEW n \in offered \ {m}
        PROVE  rank(m) > rank(n) \/ (rank(m) = rank(n) /\ m < n)
    <3>1. lag(n) \in lags /\ rank(n) \in Int /\ rank(m) \in Int /\ lag(m) = l /\ n # m
      BY <1>3, <2>4
    <3>2. l <= lag(n)
      BY <2>2, <3>1
    <3>3. m \in Nat /\ n \in Nat
      BY <1>2, <2>3, <2>4 DEF offered
    <3>4. CASE lag(n) = l
      <4>1. m <= n
        BY <2>4, <3>4
      <4>. QED
        BY <3>1, <3>3, <3>4, <4>1
    <3>5. CASE lag(n) # l
      BY <3>1, <3>2, <3>5
    <3>. QED
      BY <3>4, <3>5
  <2>. QED
    BY <2>4, <2>5
<1> HIDE DEF best
<1>5. ASSUME offered # {}
      PROVE  (CHOOSE m \in offered : best(m)) \in offered
  BY <1>4, <1>5, Zenon
<1>6. CASE offered = {}
  BY <1>1, <1>6
<1>7. CASE offered # {}
  <2>1. moveFor(p, stance, cancel) \in offered
    BY <1>1, <1>5, <1>7, Zenon
  <2>. QED
    BY <2>1
<1>. QED
  BY <1>6, <1>7

\* Step 1 of a frame.
LEMMA SteerSound ==
  ASSUME NEW p, Sound(p), NEW dir
  PROVE  Follows(p, Steer(p, dir))
<1>1. Follows(p, p)
  BY DEF Follows
<1>2. \A s \in States \ {"air", "attack"} : Follows(p, enter(p, s)) /\ Follows(p, stay(p, s))
  BY <1>1, EnterSound, Zenon DEF stay
<1>3. Follows(p, StartJump(p, dir))
  <2> DEFINE e == enter(p, "prejump")
  <2>1. Follows(p, e)
    BY EnterSound
  <2> HIDE DEF e
  <2>2. ASSUME NEW v PROVE Follows(p, [e EXCEPT !.jumpHeld = TRUE, !.jumpVX = v])
    BY <2>1 DEF Follows, Sound, Gauges, Debts, Rising, Moving, Fields
  <2>. QED
    BY <2>2, Zenon DEF StartJump, e
<1>. QED
  BY <1>1, <1>2, <1>3, Zenon DEF Steer, States, ActionableStates

\* The answer to an input, whatever state it finds.
LEMMA RespondSound ==
  ASSUME NEW p, Sound(p), NEW in, NEW dir, NEW open, NEW cancel, NEW s, NEW t
  PROVE  Follows(p, Respond(p, in, dir, open,
                            IF p.state = "attack" THEN moveFor(p, s, {}) ELSE 0,
                            moveFor(p, t, cancel)))
<1> DEFINE late == IF p.state = "attack" THEN moveFor(p, s, {}) ELSE 0
           chosen == moveFor(p, t, cancel)
<1>1. p.char \in DOMAIN Roster
  BY DEF Sound
<1>2. late # 0 => Follows(p, enterMove(p, late))
  <2>1. late # 0 => late \in DOMAIN Roster[p.char].moves /\ Affordable(p, Roster[p.char].moves[late])
    BY <1>1, ChosenMove
  <2>. QED
    BY <2>1, EnterMoveSound, Zenon
<1>3. chosen # 0 => Follows(p, enterMove(p, chosen))
  <2>1. chosen # 0 => chosen \in DOMAIN Roster[p.char].moves /\ Affordable(p, Roster[p.char].moves[chosen])
    BY <1>1, ChosenMove
  <2>. QED
    BY <2>1, EnterMoveSound, Zenon
<1>4. Follows(p, p) /\ Follows(p, Steer(p, dir))
  BY SteerSound DEF Follows
<1> HIDE DEF late, chosen
<1>5. Follows(p, Respond(p, in, dir, open, late, chosen))
  BY <1>2, <1>3, <1>4, Zenon DEF Respond
<1>. QED
  BY <1>5, Zenon DEF late, chosen

\* Step 1 of a frame for one player.
LEMMA InputsSound ==
  ASSUME NEW p, Sound(p), NEW in
  PROVE  Follows(p, resolveInputs(p, in))
<1> DEFINE q == [p EXCEPT !.jumpHeld = @ /\ "up" \in in]
<1>1. Same(p, q)
  BY DEF Same, Sound, Fields
<1>2. Follows(p, q)
  BY <1>1, SameSound DEF Follows, Same, Fields
<1> HIDE DEF q
<1>3. Follows(q, resolveHeld(q, in))
  <2> DEFINE dir == direction(in, q.facing)
             cancel == cancelMask(q)
             open == Actionable(q) \/ q.state = "air" \/ cancel # {}
             s == Stance(q, dir)
  <2>1. resolveHeld(q, in) = Respond(q, in, dir, open,
                               IF q.state = "attack" THEN moveFor(q, s, {}) ELSE 0,
                               moveFor(q, s, cancel))
    BY Zenon DEF resolveHeld, resolveWith
  <2>2. Sound(q)
    BY <1>2 DEF Follows
  <2> HIDE DEF dir, cancel, open, s
  <2>3. Follows(q, Respond(q, in, dir, open,
                     IF q.state = "attack" THEN moveFor(q, s, {}) ELSE 0,
                     moveFor(q, s, cancel)))
    BY <2>2, RespondSound, Zenon
  <2>. QED
    BY <2>1, <2>3, Zenon
<1>. QED
  BY <1>2, <1>3, Zenon DEF resolveInputs, q, Follows

\* Step 2: the timers of the states.
LEMMA StateSound ==
  ASSUME NEW old, Sound(old)
  PROVE  Follows(old, advanceState(old))
<1> DEFINE p == Slide(old)
<1>1. Follows(old, p) /\ p.state = old.state
  BY DEF Slide, Follows, Sound, Gauges, Debts, Rising, Moving, Fields
<1> HIDE DEF p
<1>2. ASSUME NEW q, Sound(q)
      PROVE  Follows(q, Tick(q)) /\ \A vx : Follows(q, Tick([q EXCEPT !.vx = vx]))
  BY <1>2 DEF Tick, Follows, Sound, Gauges, Debts, Rising, Moving, Fields
<1>3. \A n, d : Follows(p, RunDash(p, n, d))
  BY <1>1, <1>2, EnterSound, Zenon DEF RunDash, Follows
<1>4. Follows(p, RunPreJump(p))
  <2>1. Roster[p.char].jumpVelocity \in Int
    BY <1>1, CharacterLoaded DEF Follows, Sound
  <2> DEFINE q == [enter(p, "air") EXCEPT !.vy = Roster[p.char].jumpVelocity, !.vx = p.jumpVX]
  <2>2. Follows(p, q)
    BY <1>1, <2>1 DEF enter, Follows, Sound, Gauges, Debts, Rising, Moving, Fields
  <2> HIDE DEF q
  <2>. QED
    BY <1>1, <1>2, <2>2, Zenon DEF RunPreJump, q, Follows
<1>5. p.state = "attack" => Follows(p, RunAttack(p))
  <2> SUFFICES ASSUME p.state = "attack" PROVE Follows(p, RunAttack(p))
    OBVIOUS
  <2> DEFINE n == Roster[p.char].moves[p.move].landing
             q == [enter(p, "air") EXCEPT !.jumpVX = p.vx, !.landing = n]
  <2>1. n \in Int
    BY <1>1, MoveLoaded, MoveNumbers DEF Follows, Sound, Moving
  <2> HIDE DEF n
  <2>2. p.y > GroundY => Follows(p, q)
    BY <1>1, <2>1 DEF enter, Follows, Sound, Gauges, Debts, Rising, Moving, Fields
  <2> HIDE DEF q
  <2>3. p.y <= GroundY \/ p.y > GroundY
    BY <1>1 DEF Follows, Sound, GroundY
  <2>. QED
    BY <1>1, <1>2, <2>2, <2>3, EnterSound, Zenon DEF RunAttack, q, n, Follows
<1>6. Follows(p, RunStun(p))
  <2> DEFINE q == [p EXCEPT !.stun = Greater(@ - 1, 0)]
  <2>1. Follows(p, q)
    BY <1>1 DEF Follows, Sound, Gauges, Debts, Rising, Moving, Fields
  <2> HIDE DEF q
  <2>2. Follows(q, Tick(q)) /\ Follows(p, Tick(p)) /\ Follows(q, enter(q, "idle"))
    BY <1>1, <1>2, <2>1, EnterSound, Zenon DEF Follows
  <2>3. Follows(q, knockdown(q))
    <3> DEFINE e == enter(q, "knockdown")
    <3>1. Follows(q, e)
      BY <2>1, EnterSound DEF Follows
    <3> HIDE DEF e
    <3>2. \A n : Follows(q, [e EXCEPT !.stun = n])
      BY <3>1 DEF Follows, Sound, Gauges, Debts, Rising, Moving, Fields
    <3>. QED
      BY <3>2, Zenon DEF knockdown, e
  <2>. QED
    BY <2>1, <2>2, <2>3, Zenon DEF RunStun, q, Follows
<1>7. Follows(p, Tick(p)) /\ \A vx : Follows(p, Tick([p EXCEPT !.vx = vx]))
  BY <1>1, <1>2 DEF Follows
<1>8. Follows(p, advanceState(old))
  BY <1>3, <1>4, <1>5, <1>6, <1>7, Zenon DEF advanceState, p
<1>. QED
  BY <1>1, <1>8, Zenon DEF Follows

\* The numbers of the balance sheet the proofs rest on.
LEMMA BalanceNumbers ==
  /\ Balance.juggleGravityPercent \in Nat
  /\ Balance.driveRegen \in Nat /\ Balance.driveRegenWalkF \in Nat /\ Balance.driveRegenBurnout \in Nat
  /\ Balance.driveBlockCost \in Nat \ {0}
  /\ Balance.armorDamagePercent \in Nat /\ Balance.burnoutChipPercent \in Nat
  /\ Balance.superDealtPercent \in Nat /\ Balance.superTakenPercent \in Nat /\ Balance.superOnSpecial \in Nat
  /\ Balance.starterLight \in Nat /\ Balance.starterMedium \in Nat /\ Balance.starterHeavy \in Nat
  /\ Balance.minDamagePercent \in Nat /\ Balance.counterHitPercent \in Nat
  /\ Balance.comboScale \in Seq(1 .. 100)
  /\ Balance.throwTechPush \in Nat
<1>1. Balance \in BalanceType
  BY BalanceAssumption DEF LoadedBalance
<1>2. Balance.driveBlockCost \in Nat \ {0} /\ Balance.driveRegenBurnout \in Nat \ {0}
  BY <1>1 DEF BalanceType
<1>3. /\ Balance.starterLight \in 1 .. 100 /\ Balance.starterMedium \in 1 .. 100
      /\ Balance.starterHeavy \in 1 .. 100 /\ Balance.minDamagePercent \in 1 .. 100
      /\ Balance.counterHitPercent \in 100 .. 300 /\ Balance.burnoutChipPercent \in 0 .. 100
  BY <1>1 DEF BalanceType, Percentage
<1>4. /\ Balance.juggleGravityPercent \in Nat /\ Balance.driveRegen \in Nat
      /\ Balance.driveRegenWalkF \in Nat /\ Balance.armorDamagePercent \in Nat
      /\ Balance.superDealtPercent \in Nat /\ Balance.superTakenPercent \in Nat
      /\ Balance.superOnSpecial \in Nat /\ Balance.throwTechPush \in Nat
      /\ Balance.comboScale \in Seq(1 .. 100)
  BY <1>1 DEF BalanceType
<1>5. /\ \A n \in 1 .. 100 : n \in Nat
      /\ \A n \in 100 .. 300 : n \in Nat
      /\ \A n \in 0 .. 100 : n \in Nat
  OBVIOUS
<1>6. /\ Balance.starterLight \in Nat /\ Balance.starterMedium \in Nat
      /\ Balance.starterHeavy \in Nat /\ Balance.minDamagePercent \in Nat
      /\ Balance.counterHitPercent \in Nat /\ Balance.burnoutChipPercent \in Nat
  BY <1>3, <1>5, SMT
<1>7. Balance.driveRegenBurnout \in Nat
  BY <1>2
<1>. QED
  BY <1>2, <1>4, <1>6, <1>7, Zenon

\* Gravity is a whole number, also the one of a juggle.
LEMMA GravityIs ==
  ASSUME NEW p, Sound(p)
  PROVE  gravity(p) \in Int /\ (p.juggle = 0 => gravity(p) = Roster[p.char].gravity)
<1>1. Roster[p.char].gravity \in Int /\ p.juggle \in Nat /\ Balance.juggleGravityPercent \in Nat
  BY CharacterLoaded, BalanceNumbers DEF Sound
<1>2. \A n \in Int : Quo(n, 100) \in Int
  BY DEF Quo
<1>3. Roster[p.char].gravity * (p.juggle * Balance.juggleGravityPercent) \in Int
  BY <1>1
<1>. QED
  BY <1>1, <1>2, <1>3 DEF gravity

\* The landing: what the air owed is paid or dropped.
LEMMA TouchDownSound ==
  ASSUME NEW p, Sound(p)
  PROVE  Follows(p, TouchDown(p)) /\ TouchDown(p).state # "air"
<1>1. ASSUME NEW s \in {"idle", "landing", "knockdown"}, NEW n
      PROVE  /\ Follows(p, enter(p, s)) /\ enter(p, s).state = s
             /\ Follows(p, [enter(p, s) EXCEPT !.stun = n])
             /\ [enter(p, s) EXCEPT !.stun = n].state = s
  <2> DEFINE e == enter(p, s)
  <2>1. Follows(p, e) /\ e.state = s
    BY EnterSound
  <2> HIDE DEF e
  <2>2. Follows(p, [e EXCEPT !.stun = n]) /\ [e EXCEPT !.stun = n].state = s
    BY <2>1 DEF Follows, Sound, Gauges, Debts, Rising, Moving, Fields
  <2>. QED
    BY <2>1, <2>2 DEF e
<1>2. \A n : Follows(p, land(p, n)) /\ land(p, n).state # "air"
  <2> TAKE n
  <2>1. /\ Follows(p, enter(p, "idle")) /\ enter(p, "idle").state = "idle"
        /\ Follows(p, [enter(p, "landing") EXCEPT !.stun = n])
        /\ [enter(p, "landing") EXCEPT !.stun = n].state = "landing"
    BY <1>1
  <2>. QED
    BY <2>1 DEF land
<1>3. Follows(p, knockdown(p)) /\ knockdown(p).state # "air"
  <2>1. /\ Follows(p, [enter(p, "knockdown") EXCEPT !.stun = Balance.knockdownFrames])
        /\ [enter(p, "knockdown") EXCEPT !.stun = Balance.knockdownFrames].state = "knockdown"
    BY <1>1
  <2>. QED
    BY <2>1 DEF knockdown
<1>4. Follows(p, p)
  BY DEF Follows
<1>5. CASE p.state = "air"
  BY <1>2, <1>5, Zenon DEF TouchDown
<1>6. CASE p.state = "hitstun"
  BY <1>3, <1>6 DEF TouchDown
<1>7. CASE p.state = "attack"
  <2>1. TouchDown(p) \in {land(p, Roster[p.char].moves[p.move].landing), p}
    BY <1>7 DEF TouchDown
  <2>. QED
    BY <1>2, <1>4, <1>7, <2>1
<1>8. CASE p.state \notin {"air", "hitstun", "attack"}
  BY <1>4, <1>8 DEF TouchDown
<1>. QED
  BY <1>5, <1>6, <1>7, <1>8

\* Step 3 of a frame: whoever is still in the air is above the floor.
LEMMA FallSound ==
  ASSUME NEW p, Sound(p)
  PROVE  Follows(p, fall(p)) /\ Afloat(fall(p))
<1> DEFINE air == Airborne(p)
           vy == IF air THEN p.vy + gravity(p) ELSE p.vy
           moved == [p EXCEPT !.x = @ + p.vx, !.y = @ + vy, !.vy = vy]
           down == [moved EXCEPT !.y = GroundY, !.vy = 0]
           landed == [down EXCEPT !.vx = 0, !.juggle = 0]
<1>1. /\ p.y \in Nat /\ p.vy \in Int /\ gravity(p) \in Int
      /\ p.juggle = 0 => gravity(p) = Roster[p.char].gravity
      /\ Roster[p.char].jumpVelocity \in Int /\ Roster[p.char].gravity \in Int
      /\ Roster[p.char].jumpVelocity + Roster[p.char].gravity > 0
  BY GravityIs, CharacterLoaded DEF Sound
<1>2. vy \in Int
  BY <1>1
<1>3. air <=> p.state = "air" \/ p.y > 0
  BY DEF Airborne, GroundY
<1> HIDE DEF air, vy
<1>4. moved.y = p.y + vy
  BY DEF Sound, Fields
<1>5. moved.y > GroundY => Follows(p, moved) /\ Afloat(moved)
  <2>1. moved.y > GroundY => Sound(moved)
    BY <1>1, <1>2, <1>4 DEF Sound, Gauges, Debts, Rising, Moving, Fields, GroundY
  <2>. QED
    BY <1>4, <2>1 DEF Follows, Afloat, Sound, Fields
<1>6. p.juggle > 0 => air
  BY <1>1, <1>3 DEF Sound, Debts, GroundY
<1>7. ~(moved.y > GroundY) /\ air => Follows(p, TouchDown(landed)) /\ TouchDown(landed).state # "air"
  <2> SUFFICES ASSUME ~(moved.y > GroundY), air
               PROVE  Follows(p, TouchDown(landed)) /\ TouchDown(landed).state # "air"
    OBVIOUS
  <2>1. p.state = "air" => p.y > GroundY
    <3> SUFFICES ASSUME p.state = "air", ~(p.y > GroundY) PROVE FALSE
      OBVIOUS
    <3>1. p.y = 0 /\ p.vy = Roster[p.char].jumpVelocity /\ p.juggle = 0
      BY <1>1 DEF Sound, Rising, Debts, GroundY
    <3>2. moved.y = p.y + (p.vy + gravity(p))
      BY <1>3, <1>4 DEF vy
    <3>. QED
      BY <1>1, <3>1, <3>2 DEF GroundY
  <2>2. landed.state = p.state
    BY DEF Sound, Fields
  <2>3. CASE p.state # "air"
    <3>1. Follows(p, landed)
      BY <1>1, <2>3 DEF Follows, Sound, Gauges, Debts, Rising, Moving, Fields, GroundY
    <3> HIDE DEF landed
    <3>. QED
      BY <3>1, TouchDownSound DEF Follows
  <2>4. CASE p.state = "air"
    <3>1. ASSUME NEW s \in {"idle", "landing"}, NEW n
          PROVE  /\ Follows(p, enter(landed, s)) /\ enter(landed, s).state = s
                 /\ Follows(p, [enter(landed, s) EXCEPT !.stun = n])
                 /\ [enter(landed, s) EXCEPT !.stun = n].state = s
      <4> DEFINE e == enter(landed, s)
                 r == [e EXCEPT !.stun = n]
      <4>1. /\ DOMAIN e = Fields
            /\ \A f \in {"char", "ai", "health", "super", "drive", "burnout", "combo", "comboStarter"} : e[f] = p[f]
            /\ e.y = 0 /\ e.vy = 0 /\ e.juggle = 0 /\ e.landing = 0 /\ e.down = FALSE /\ e.state = s
        BY DEF enter, Sound, Fields, GroundY
      <4> HIDE DEF e
      <4>2. Follows(p, e)
        BY <1>1, <4>1 DEF Follows, Sound, Gauges, Debts, Rising, Moving, GroundY
      <4>3. Follows(p, r) /\ r.state = s
        BY <4>1, <4>2 DEF Follows, Sound, Gauges, Debts, Rising, Moving, Fields
      <4>. QED
        BY <4>1, <4>2, <4>3 DEF e
    <3>2. Follows(p, land(landed, landed.landing)) /\ land(landed, landed.landing).state # "air"
      <4> DEFINE n == landed.landing
      <4>1. /\ Follows(p, enter(landed, "idle")) /\ enter(landed, "idle").state = "idle"
            /\ Follows(p, [enter(landed, "landing") EXCEPT !.stun = n])
            /\ [enter(landed, "landing") EXCEPT !.stun = n].state = "landing"
        BY <3>1
      <4> HIDE DEF n
      <4>2. Follows(p, land(landed, n)) /\ land(landed, n).state # "air"
        BY <4>1 DEF land
      <4>. QED
        BY <4>2 DEF n
    <3> HIDE DEF landed
    <3>. QED
      BY <2>2, <2>4, <3>2, Zenon DEF TouchDown
  <2>. QED
    BY <2>3, <2>4
<1>8. ~(moved.y > GroundY) /\ ~air => Follows(p, down) /\ Afloat(down)
  BY <1>1, <1>3, <1>6 DEF Follows, Afloat, Sound, Gauges, Debts, Rising, Moving, Fields, GroundY
<1>9. fall(p) = IF moved.y > GroundY THEN moved
                ELSE IF air THEN TouchDown(landed) ELSE down
  BY Zenon DEF fall, air, vy
<1> HIDE DEF moved, down, landed
<1>10. \A q : q.state # "air" => Afloat(q)
  BY DEF Afloat
<1>. QED
  BY <1>5, <1>7, <1>8, <1>9, <1>10, Zenon

\* A percentage of a natural number is one.
LEMMA PercentNat ==
  ASSUME NEW a \in Nat, NEW n \in Nat
  PROVE  Percent(a, n) \in Nat
<1>1. a * n \in Nat
  OBVIOUS
<1>. QED
  BY <1>1 DEF Percent

\* An entry of a combo table, the last one past its end.
LEMMA EntryIn ==
  ASSUME NEW S, NEW s \in Seq(S), NEW k \in 1 .. Len(s)
  PROVE  s[k] \in S
  OBVIOUS

\* The damage of a hit is a natural number: scaling never turns it negative.
LEMMA DamageNat ==
  ASSUME NEW mv \in MoveType, NEW starter \in Nat, NEW hit \in Nat, NEW counter
  PROVE  scaledDamage(mv, starter, hit, counter) \in Nat
<1>1. comboScale(hit) \in Nat
  <2>1. Len(Balance.comboScale) \in Nat \ {0}
    BY BalanceAssumption, LimitsAssumption DEF LoadedBalance, DamageOrdered
  <2>2. Lesser(Greater(hit, 1), Len(Balance.comboScale)) \in 1 .. Len(Balance.comboScale)
    BY <2>1 DEF Lesser, Greater
  <2>3. comboScale(hit) \in 1 .. 100
    BY <2>2, EntryIn, BalanceNumbers, Zenon DEF comboScale
  <2>4. \A n \in 1 .. 100 : n \in Nat
    OBVIOUS
  <2>. QED
    BY <2>3, <2>4
<1>2. mv.damage \in Nat
  BY MoveNumbers
<1>3. Percent(Percent(mv.damage, starter), comboScale(hit)) \in Nat
  BY <1>1, <1>2, PercentNat
<1>4. Percent(mv.damage, Balance.minDamagePercent) \in Nat
  BY <1>2, BalanceNumbers, PercentNat
<1> DEFINE floored == Greater(Percent(Percent(mv.damage, starter), comboScale(hit)),
                              Percent(mv.damage, Balance.minDamagePercent))
<1>5. floored \in Nat
  BY <1>3, <1>4 DEF Greater
<1> HIDE DEF floored
<1>6. Percent(floored, Balance.counterHitPercent) \in Nat
  BY <1>5, BalanceNumbers, PercentNat
<1>. QED
  BY <1>5, <1>6 DEF scaledDamage, floored

\* The scale a combo starts with.
LEMMA StarterNat ==
  ASSUME NEW mv
  PROVE  starterScale(mv) \in Nat
  BY BalanceNumbers DEF starterScale

\* What two steps take, one after the other.
LEMMA SuffersChain ==
  ASSUME NEW p, NEW q, NEW r, Sound(p), Suffers(p, q), Suffers(q, r)
  PROVE  Suffers(p, r)
<1>1. p.health \in Int /\ q.health \in Int /\ r.health \in Int
  BY CharacterLoaded DEF Suffers, Sound, Gauges
<1>. QED
  BY <1>1 DEF Suffers

\* Super is capped, and nothing else changes.
LEMMA SuperSound ==
  ASSUME NEW p, Sound(p), NEW n \in Nat
  PROVE  Follows(p, gainSuper(p, n)) /\ Suffers(p, gainSuper(p, n)) /\ gainSuper(p, n).state = p.state
<1>1. Lesser(p.super + n, SuperMax) \in 0 .. SuperMax
  BY GaugeSizes DEF Sound, Gauges, Lesser
<1>2. Follows(p, gainSuper(p, n)) /\ gainSuper(p, n).state = p.state /\ gainSuper(p, n).y = p.y
  BY <1>1 DEF gainSuper, Follows, Sound, Gauges, Debts, Rising, Moving, Fields
<1>3. p.health \in Int
  BY CharacterLoaded DEF Sound, Gauges
<1>. QED
  BY <1>2, <1>3 DEF Follows, Suffers, Afloat, Mortal

\* Damage kills whoever it leaves without health in the state it hit.
LEMMA HurtSound ==
  ASSUME NEW p, Sound(p), p.state \in {"hitstun", "thrown"}, NEW n \in Nat
  PROVE  Suffers(p, hurt(p, n)) /\ hurt(p, n).state = p.state
<1>1. p.health \in Nat /\ Roster[p.char].health \in Nat /\ p.health <= Roster[p.char].health
  BY CharacterLoaded DEF Sound, Gauges
<1>2. Greater(p.health - n, 0) \in 0 .. Roster[p.char].health /\ Greater(p.health - n, 0) <= p.health
  BY <1>1 DEF Greater
<1>3. /\ Sound(hurt(p, n)) /\ hurt(p, n).state = p.state /\ hurt(p, n).char = p.char
      /\ hurt(p, n).ai = p.ai /\ hurt(p, n).health <= p.health
  BY <1>2 DEF hurt, Sound, Gauges, Debts, Rising, Moving, Fields
<1>. QED
  BY <1>3 DEF Suffers, Afloat, Mortal

\* Chip damage leaves one point.
LEMMA ChipSound ==
  ASSUME NEW p, Sound(p), p.state \notin {"hitstun", "thrown"}, NEW n \in Nat
  PROVE  Suffers(p, chip(p, n)) /\ chip(p, n).state = p.state
<1>1. /\ p.health \in Nat /\ Roster[p.char].health \in Nat \ {0} /\ p.health <= Roster[p.char].health
  BY CharacterLoaded DEF Sound, Gauges
<1>2. /\ Greater(p.health - n, 1) \in 1 .. Roster[p.char].health
      /\ p.health > 0 => Greater(p.health - n, 1) <= p.health
  BY <1>1 DEF Greater
<1>3. /\ Sound(chip(p, n)) /\ chip(p, n).state = p.state /\ chip(p, n).char = p.char
      /\ chip(p, n).ai = p.ai /\ chip(p, n).y = p.y /\ chip(p, n).health = Greater(p.health - n, 1)
  BY <1>2 DEF chip, Sound, Gauges, Debts, Rising, Moving, Fields
<1>4. Afloat(p) => Afloat(chip(p, n))
  BY <1>3 DEF Afloat
<1>5. Mortal(p) => Mortal(chip(p, n)) /\ chip(p, n).health <= p.health
  BY <1>1, <1>2, <1>3 DEF Mortal
<1>. QED
  BY <1>3, <1>4, <1>5 DEF Suffers

\* Entering the state of a hit or of a throw.
LEMMA EnterSuffers ==
  ASSUME NEW p, Sound(p), NEW s \in {"hitstun", "thrown"}
  PROVE  Suffers(p, enter(p, s)) /\ enter(p, s).state = s
<1>1. Follows(p, enter(p, s)) /\ enter(p, s).state = s
  BY EnterSound
<1>2. p.health \in Int
  BY CharacterLoaded DEF Sound, Gauges
<1>. QED
  BY <1>1, <1>2 DEF Follows, Suffers, Afloat, Mortal

(***************************************************************************)
(* The type of a fighter.                                                  *)
(***************************************************************************)
\* What each field of a player holds.
LEMMA PlayerFields ==
  ASSUME NEW p \in Player
  PROVE  /\ DOMAIN p = Fields /\ p.char \in DOMAIN Roster
         /\ p.x \in Int /\ p.y \in Int /\ p.vx \in Int /\ p.vy \in Int /\ p.facing \in {1, -1}
         /\ p.health \in Int /\ p.drive \in Int /\ p.super \in Int /\ p.burnout \in BOOLEAN
         /\ p.combo \in Int /\ p.comboStarter \in Int /\ p.state \in States /\ p.stateFrame \in Int
         /\ p.move \in Int /\ p.armor \in Int /\ p.stun \in Int /\ p.landing \in Int
         /\ p.down \in BOOLEAN /\ p.unspent \in Nat /\ p.juggle \in Int /\ p.jumpVX \in Int
         /\ p.jumpHeld \in BOOLEAN /\ p.ai \in 0 .. 3 /\ p.plan \in Plans
         /\ p.inputs \in [1 .. InputHistory -> SUBSET (Buttons \cup Directions)]
  BY Zenon DEF Player, Fields

\* What a facing multiplies stays a whole number.
LEMMA FacingInt ==
  ASSUME NEW p \in Player, NEW n \in Int
  PROVE  n * p.facing \in Int
<1>1. p.facing \in {1, -1}
  BY PlayerFields, Zenon
<1>. QED
  BY <1>1

\* Small numbers and answers, for the provers that know no arithmetic.
LEMMA Small == 0 \in Int /\ 1 \in Int /\ FALSE \in BOOLEAN /\ TRUE \in BOOLEAN
  OBVIOUS

\* The states entered by name.
LEMMA StatesNamed ==
  {"idle", "walkF", "walkB", "crouch", "hitstun", "blockstun", "landing", "thrown", "knockdown",
   "dash", "backdash", "prejump", "air", "attack"} \subseteq States
  BY DEF States, ActionableStates, StunStates

\* What the loader promises of a character's movement.
LEMMA MovementLoaded ==
  ASSUME NEW c \in DOMAIN Roster
  PROVE  /\ Roster[c].walkForward \in Int /\ Roster[c].walkBack \in Int
         /\ Roster[c].dashDistance \in Int /\ Roster[c].jumpForwardVX \in Int
         /\ Roster[c].dashFrames \in Nat \ {0} /\ Roster[c].backdashFrames \in Nat \ {0}
         /\ DOMAIN Roster[c].pushbox = {"x", "y", "w", "h"}
         /\ Roster[c].pushbox.x \in Int /\ Roster[c].pushbox.w \in Int
<1>1. Roster[c] \in CharacterType
  BY RosterAssumption DEF LoadedCharacter
<1>2. /\ Roster[c].walkForward \in Fixed /\ Roster[c].walkBack \in Fixed
      /\ Roster[c].dashDistance \in Fixed /\ Roster[c].jumpForwardVX \in Fixed
      /\ Roster[c].dashFrames \in Nat \ {0} /\ Roster[c].backdashFrames \in Nat \ {0}
      /\ Roster[c].pushbox \in LoadedBox
  BY <1>1 DEF CharacterType
<1>3. Fixed \subseteq Int
  BY LimitsAssumption DEF Fixed
<1>4. Roster[c].pushbox \in [x : Fixed, y : Fixed, w : Fixed, h : Fixed]
  BY <1>2 DEF LoadedBox
<1>5. /\ DOMAIN Roster[c].pushbox = {"x", "y", "w", "h"}
      /\ Roster[c].pushbox.x \in Fixed /\ Roster[c].pushbox.w \in Fixed
  BY <1>4
<1>. QED
  BY <1>2, <1>3, <1>5

\* What the loader promises of a hit.
LEMMA HitLoaded ==
  ASSUME NEW mv \in MoveType
  PROVE  /\ mv.hitstun \in Nat /\ mv.blockstun \in Nat /\ mv.launchVX \in Int /\ mv.knockVX \in Int
         /\ mv.knockdown \in BOOLEAN
<1>1. /\ mv.hitstun \in Nat /\ mv.blockstun \in Nat /\ mv.launchVX \in Fixed /\ mv.knockVX \in Fixed
      /\ mv.knockdown \in BOOLEAN
  BY DEF MoveType
<1>2. Fixed \subseteq Int
  BY LimitsAssumption DEF Fixed
<1>. QED
  BY <1>1, <1>2

\* What the loader promises of a stun, of knockback and of the stage.
LEMMA BalanceLoaded ==
  /\ Balance.knockbackDecay \in Nat /\ Balance.knockdownFrames \in Nat
  /\ Balance.burnoutBlockstun \in Nat /\ Balance.throwTechRecovery \in Nat
  /\ Balance.counterHitstun \in Nat /\ Balance.punishHitstun \in Nat
  /\ Balance.knockbackHit \in Int /\ Balance.knockbackBlock \in Int
  /\ Balance.stageHalfWidth \in Int /\ Balance.cameraHalfWidth \in Int /\ Balance.cameraMargin \in Int
<1>1. Balance \in BalanceType
  BY BalanceAssumption DEF LoadedBalance
<1>2. /\ Balance.knockbackDecay \in 0 .. 99 /\ Balance.knockdownFrames \in Nat \ {0}
      /\ Balance.burnoutBlockstun \in Nat /\ Balance.throwTechRecovery \in Nat
      /\ Balance.counterHitstun \in Nat /\ Balance.punishHitstun \in Nat
      /\ Balance.knockbackHit \in Fixed /\ Balance.knockbackBlock \in Fixed
      /\ Balance.stageHalfWidth \in Int /\ Balance.cameraHalfWidth \in Int
      /\ Balance.cameraMargin \in Int
  BY <1>1 DEF BalanceType
<1>3. Fixed \subseteq Int
  BY LimitsAssumption DEF Fixed
<1>4. Balance.knockbackHit \in Int /\ Balance.knockbackBlock \in Int
  BY <1>2, <1>3
<1>5. Balance.knockbackDecay \in Nat
  BY <1>2
<1>6. Balance.knockdownFrames \in Nat
  BY <1>2
<1>. QED
  BY <1>2, <1>4, <1>5, <1>6, Zenon

\* Division that truncates toward zero gives a whole number.
LEMMA QuoInt ==
  ASSUME NEW a \in Int, NEW b \in Nat \ {0}
  PROVE  Quo(a, b) \in Int
  BY DEF Quo

\* A percentage of a natural number is a whole number.
LEMMA PercentInt ==
  ASSUME NEW a \in Nat, NEW n \in Nat
  PROVE  Percent(a, n) \in Int
  BY PercentNat

\* Entering a state, and counting in one.
LEMMA EnterTyped ==
  ASSUME NEW p \in Player, NEW s \in States
  PROVE  enter(p, s) \in Player
  BY Small, Zenon DEF enter, Player

LEMMA TickTyped ==
  ASSUME NEW p \in Player
  PROVE  Tick(p) \in Player
<1>1. Lesser(p.stateFrame + 1, FrameCap) \in Int
  BY PlayerFields, FrameCapAssumption DEF Lesser
<1>. QED
  BY <1>1, Zenon DEF Tick, Player

\* Spending drive and gaining super.
LEMMA SpendTyped ==
  ASSUME NEW p \in Player, NEW n \in Int
  PROVE  spendDrive(p, n) \in Player
<1>1. Greater(p.drive - n, 0) \in Int
  BY PlayerFields DEF Greater
<1>2. (p.burnout \/ p.drive - n <= 0) \in BOOLEAN
  OBVIOUS
<1>. QED
  BY <1>1, <1>2, Zenon DEF spendDrive, Player

LEMMA SuperTyped ==
  ASSUME NEW p \in Player, NEW n \in Int
  PROVE  gainSuper(p, n) \in Player
<1>1. Lesser(p.super + n, SuperMax) \in Int
  BY PlayerFields, GaugeSizes DEF Lesser
<1>. QED
  BY <1>1, Zenon DEF gainSuper, Player

\* Damage and chip damage.
LEMMA HurtTyped ==
  ASSUME NEW p \in Player, NEW n \in Int
  PROVE  hurt(p, n) \in Player /\ chip(p, n) \in Player
<1>1. Greater(p.health - n, 0) \in Int /\ Greater(p.health - n, 1) \in Int
  BY PlayerFields DEF Greater
<1>. QED
  BY <1>1, Zenon DEF hurt, chip, Player

\* Starting a move.
LEMMA EnterMoveTyped ==
  ASSUME NEW p \in Player, NEW m \in DOMAIN Roster[p.char].moves
  PROVE  enterMove(p, m) \in Player
<1> DEFINE mv == Roster[p.char].moves[m]
<1>1. p.char \in DOMAIN Roster /\ p.super \in Int
  BY PlayerFields
<1>2. mv \in MoveType /\ m \in Int
  <2>1. Roster[p.char].moves \in Seq(MoveType)
    BY <1>1, CharacterLoaded
  <2>. QED
    BY <2>1
<1>3. SuperCost(mv) \in Int /\ DriveCost(mv) \in Int /\ mv.launchVX \in Int /\ mv.launchVY \in Int
  BY <1>2, MoveNumbers, HitLoaded
<1> HIDE DEF mv
<1>4. p.super - SuperCost(mv) \in Int /\ mv.launchVX * p.facing \in Int
  BY <1>1, <1>3, FacingInt
<1> DEFINE begun == [enter(p, "attack") EXCEPT !.move = m, !.hasHit = FALSE,
                   !.unspent = 0, !.super = p.super - SuperCost(mv), !.armor = 0]
           paid == IF DriveCost(mv) > 0 THEN spendDrive(begun, DriveCost(mv)) ELSE begun
<1>5. begun \in Player
  <2>1. enter(p, "attack") \in Player
    BY EnterTyped, StatesNamed
  <2>2. ASSUME NEW e \in Player, NEW s \in Int
        PROVE  [e EXCEPT !.move = m, !.hasHit = FALSE, !.unspent = 0, !.super = s, !.armor = 0] \in Player
    BY <1>2, Small, Zenon DEF Player
  <2>. QED
    BY <1>4, <2>1, <2>2, Zenon
<1> HIDE DEF begun
<1>6. paid \in Player
  BY <1>3, <1>5, SpendTyped, Zenon
<1> HIDE DEF paid
<1>7. [paid EXCEPT !.vx = mv.launchVX * p.facing, !.vy = mv.launchVY] \in Player
  BY <1>3, <1>4, <1>6, Zenon DEF Player
<1>8. enterMove(p, m) = IF Airborne(paid) /\ ~Launches(mv) THEN paid
                        ELSE [paid EXCEPT !.vx = mv.launchVX * p.facing, !.vy = mv.launchVY]
  BY Zenon DEF enterMove, paid, begun, mv
<1>. QED
  BY <1>6, <1>7, <1>8, Zenon

\* Staying in a state, and leaving the ground.
LEMMA StayTyped ==
  ASSUME NEW p \in Player, NEW s \in States
  PROVE  stay(p, s) \in Player
  BY EnterTyped, Zenon DEF stay

LEMMA StartJumpTyped ==
  ASSUME NEW p \in Player, NEW dir \in DirJumping
  PROVE  StartJump(p, dir) \in Player
<1>1. enter(p, "prejump") \in Player
  BY EnterTyped, StatesNamed
<1> DEFINE vx == Roster[p.char].jumpForwardVX * p.facing
           jump == CASE dir = 9 -> vx [] dir = 7 -> -vx [] dir = 8 -> 0
<1>2. vx \in Int
  <2>1. Roster[p.char].jumpForwardVX \in Int
    BY PlayerFields, MovementLoaded
  <2>. QED
    BY <2>1, FacingInt
<1> HIDE DEF vx
<1>3. jump \in Int
  BY <1>2 DEF DirJumping
<1> HIDE DEF jump
<1>4. [enter(p, "prejump") EXCEPT !.jumpHeld = TRUE, !.jumpVX = jump] \in Player
  BY <1>1, <1>3, Small, Zenon DEF Player
<1>. QED
  BY <1>4, Zenon DEF StartJump, jump, vx

\* The direction of an input.
LEMMA SteerTyped ==
  ASSUME NEW p \in Player, NEW dir
  PROVE  Steer(p, dir) \in Player
<1>1. /\ enter(p, "dash") \in Player /\ enter(p, "backdash") \in Player
      /\ stay(p, "crouch") \in Player /\ stay(p, "walkF") \in Player /\ stay(p, "walkB") \in Player
      /\ stay(p, "idle") \in Player
  BY EnterTyped, StayTyped, StatesNamed
<1>2. dir \in DirJumping => StartJump(p, dir) \in Player
  BY StartJumpTyped
<1>3. \/ Steer(p, dir) = p
      \/ Steer(p, dir) \in {enter(p, "dash"), enter(p, "backdash"), stay(p, "crouch"),
                            stay(p, "walkF"), stay(p, "walkB"), stay(p, "idle")}
      \/ dir \in DirJumping /\ Steer(p, dir) = StartJump(p, dir)
  BY DEF Steer
<1>. QED
  BY <1>1, <1>2, <1>3

\* The input of a frame.
LEMMA InputsTyped ==
  ASSUME NEW p \in Player, NEW in
  PROVE  resolveInputs(p, in) \in Player
<1> DEFINE h == [p EXCEPT !.jumpHeld = @ /\ "up" \in in]
           dir == direction(in, h.facing)
           cancel == cancelMask(h)
           late == IF h.state = "attack" THEN moveFor(h, Stance(h, dir), {}) ELSE 0
           chosen == moveFor(h, Stance(h, dir), cancel)
           open == Actionable(h) \/ h.state = "air" \/ cancel # {}
<1>1. h \in Player
  <2>1. (p.jumpHeld /\ "up" \in in) \in BOOLEAN
    OBVIOUS
  <2>. QED
    BY <2>1, Zenon DEF Player
<1>2. resolveInputs(p, in) = Respond(h, in, dir, open, late, chosen)
  BY Zenon DEF resolveInputs, resolveHeld, resolveWith
<1> HIDE DEF h, dir, cancel
<1>3. h.char \in DOMAIN Roster
  BY <1>1, PlayerFields
<1>4. /\ chosen # 0 => chosen \in DOMAIN Roster[h.char].moves
      /\ late # 0 => late \in DOMAIN Roster[h.char].moves
  BY <1>3, ChosenMove, Zenon
<1> HIDE DEF late, chosen, open
<1>5. /\ chosen # 0 => enterMove(h, chosen) \in Player
      /\ late # 0 => enterMove(h, late) \in Player
  BY <1>1, <1>4, EnterMoveTyped
<1>6. Steer(h, dir) \in Player
  BY <1>1, SteerTyped
<1>7. Respond(h, in, dir, open, late, chosen) \in Player
  BY <1>1, <1>5, <1>6, Zenon DEF Respond
<1>. QED
  BY <1>2, <1>7

\* A velocity.
LEMMA MovingTyped ==
  ASSUME NEW p \in Player, NEW v \in Int
  PROVE  [p EXCEPT !.vx = v] \in Player
  BY Zenon DEF Player

LEMMA SlideTyped ==
  ASSUME NEW p \in Player
  PROVE  Slide(p) \in Player
<1>1. Quo(p.vx * Balance.knockbackDecay, 100) \in Int
  <2>1. p.vx \in Int /\ Balance.knockbackDecay \in Int
    BY PlayerFields, BalanceLoaded
  <2>2. p.vx * Balance.knockbackDecay \in Int
    BY <2>1
  <2>. QED
    BY <2>2, QuoInt
<1>2. [p EXCEPT !.vx = Quo(p.vx * Balance.knockbackDecay, 100)] \in Player /\ [p EXCEPT !.vx = 0] \in Player
  BY <1>1, MovingTyped
<1>. QED
  BY <1>2, Zenon DEF Slide

LEMMA DashTyped ==
  ASSUME NEW p \in Player, NEW frames \in Nat \ {0}, NEW distance \in Int
  PROVE  RunDash(p, frames, distance) \in Player
<1>1. Quo(distance, frames) * p.facing \in Int
  <2>1. Quo(distance, frames) \in Int
    BY QuoInt
  <2>. QED
    BY <2>1, FacingInt
<1>2. Tick([p EXCEPT !.vx = Quo(distance, frames) * p.facing]) \in Player
  BY <1>1, MovingTyped, TickTyped
<1>3. enter(p, "idle") \in Player
  BY EnterTyped, StatesNamed
<1>. QED
  BY <1>2, <1>3, Zenon DEF RunDash

LEMMA PreJumpTyped ==
  ASSUME NEW p \in Player
  PROVE  RunPreJump(p) \in Player
<1>1. Tick(p) \in Player /\ enter(p, "air") \in Player
  BY TickTyped, EnterTyped, StatesNamed
<1>2. Roster[p.char].jumpVelocity \in Int /\ p.jumpVX \in Int
  BY PlayerFields, CharacterLoaded
<1>3. [enter(p, "air") EXCEPT !.vy = Roster[p.char].jumpVelocity, !.vx = p.jumpVX] \in Player
  BY <1>1, <1>2, Zenon DEF Player
<1>. QED
  BY <1>1, <1>3, Zenon DEF RunPreJump

LEMMA AttackTyped ==
  ASSUME NEW p \in Player, p.move \in DOMAIN Roster[p.char].moves
  PROVE  RunAttack(p) \in Player
<1>1. Tick(p) \in Player /\ enter(p, "air") \in Player /\ enter(p, "idle") \in Player
  BY TickTyped, EnterTyped, StatesNamed
<1>2. Roster[p.char].moves[p.move].landing \in Int /\ p.vx \in Int
  <2>1. p.char \in DOMAIN Roster /\ p.vx \in Int
    BY PlayerFields
  <2>. QED
    BY <2>1, MoveLoaded, MoveNumbers
<1>3. [enter(p, "air") EXCEPT !.jumpVX = p.vx,
          !.landing = Roster[p.char].moves[p.move].landing] \in Player
  BY <1>1, <1>2, Zenon DEF Player
<1>. QED
  BY <1>1, <1>3, Zenon DEF RunAttack

LEMMA KnockdownTyped ==
  ASSUME NEW p \in Player
  PROVE  knockdown(p) \in Player
<1>1. enter(p, "knockdown") \in Player
  BY EnterTyped, StatesNamed
<1>2. Balance.knockdownFrames \in Int
  BY BalanceLoaded
<1>. QED
  BY <1>1, <1>2, Zenon DEF knockdown, Player

LEMMA StunTyped ==
  ASSUME NEW p \in Player
  PROVE  RunStun(p) \in Player
<1> DEFINE q == [p EXCEPT !.stun = Greater(@ - 1, 0)]
<1>1. q \in Player
  <2>1. Greater(p.stun - 1, 0) \in Int
    BY PlayerFields DEF Greater
  <2>. QED
    BY <2>1, Zenon DEF Player
<1>2. RunStun(p) = IF p.state = "hitstun" /\ Airborne(p) THEN Tick(p)
                   ELSE IF q.stun > 0 THEN Tick(q)
                   ELSE IF p.down THEN knockdown(q) ELSE enter(q, "idle")
  BY Zenon DEF RunStun
<1> HIDE DEF q
<1>3. Tick(p) \in Player /\ Tick(q) \in Player /\ knockdown(q) \in Player /\ enter(q, "idle") \in Player
  BY <1>1, TickTyped, KnockdownTyped, EnterTyped, StatesNamed
<1>. QED
  BY <1>2, <1>3, Zenon

\* The clock of a state.
LEMMA StateTyped ==
  ASSUME NEW p \in Player, Moving(p)
  PROVE  advanceState(p) \in Player
<1> DEFINE q == Slide(p)
           c == Roster[q.char]
           walkF == [q EXCEPT !.vx = c.walkForward * q.facing]
           walkB == [q EXCEPT !.vx = -(c.walkBack * q.facing)]
           drift == [q EXCEPT !.vx = q.jumpVX]
<1>1. /\ q \in Player
      /\ q.state = "attack" => q.move \in DOMAIN c.moves
  <2>1. p.state = "attack" => q = p
    BY DEF Slide
  <2>2. q.state = p.state
    <3>1. \A v : [p EXCEPT !.vx = v].state = p.state
      BY PlayerFields DEF Fields
    <3>2. Slide(p) = p \/ \E v : Slide(p) = [p EXCEPT !.vx = v]
      BY Zenon DEF Slide
    <3>. QED
      BY <3>1, <3>2
  <2>3. q \in Player
    BY SlideTyped
  <2> HIDE DEF q
  <2>. QED
    BY <2>1, <2>2, <2>3 DEF Moving
<1>2. advanceState(p) =
        CASE q.state = "walkF"    -> Tick(walkF)
          [] q.state = "walkB"    -> Tick(walkB)
          [] q.state = "dash"     -> RunDash(q, c.dashFrames, c.dashDistance)
          [] q.state = "backdash" -> RunDash(q, c.backdashFrames, -c.dashDistance)
          [] q.state = "prejump"  -> RunPreJump(q)
          [] q.state = "air"      -> Tick(drift)
          [] q.state = "attack"   -> RunAttack(q)
          [] stunned(q)           -> RunStun(q)
          [] OTHER                -> Tick(q)
  BY Zenon DEF advanceState
<1> HIDE DEF q
<1>3. q.char \in DOMAIN Roster /\ q.jumpVX \in Int
  BY <1>1, PlayerFields, Zenon
<1>4. /\ c.walkForward \in Int /\ c.walkBack \in Int /\ c.dashDistance \in Int
      /\ c.dashFrames \in Nat \ {0} /\ c.backdashFrames \in Nat \ {0}
  BY <1>3, MovementLoaded
<1>5. q.state = "attack" => RunAttack(q) \in Player
  BY <1>1, AttackTyped
<1> HIDE DEF c
<1>6. c.walkForward * q.facing \in Int /\ -(c.walkBack * q.facing) \in Int /\ -c.dashDistance \in Int
  <2>1. c.walkForward * q.facing \in Int /\ c.walkBack * q.facing \in Int
    BY <1>1, <1>4, FacingInt
  <2>. QED
    BY <1>4, <2>1
<1>7. walkF \in Player /\ walkB \in Player /\ drift \in Player
  BY <1>1, <1>3, <1>6, MovingTyped
<1> HIDE DEF walkF, walkB, drift
<1>8. Tick(walkF) \in Player /\ Tick(walkB) \in Player /\ Tick(drift) \in Player /\ Tick(q) \in Player
  BY <1>1, <1>7, TickTyped
<1>9. /\ RunDash(q, c.dashFrames, c.dashDistance) \in Player
      /\ RunDash(q, c.backdashFrames, -c.dashDistance) \in Player
      /\ RunPreJump(q) \in Player /\ RunStun(q) \in Player
  BY <1>1, <1>4, <1>6, DashTyped, PreJumpTyped, StunTyped
<1>. QED
  BY <1>2, <1>5, <1>8, <1>9

\* Landing.
LEMMA LandTyped ==
  ASSUME NEW p \in Player, NEW n \in Int
  PROVE  land(p, n) \in Player
<1>1. enter(p, "idle") \in Player /\ enter(p, "landing") \in Player
  BY EnterTyped, StatesNamed
<1>. QED
  BY <1>1, Zenon DEF land, Player

LEMMA TouchDownTyped ==
  ASSUME NEW p \in Player, Moving(p)
  PROVE  TouchDown(p) \in Player
<1>1. land(p, p.landing) \in Player /\ knockdown(p) \in Player
  BY PlayerFields, LandTyped, KnockdownTyped
<1>2. p.state = "attack" => land(p, Roster[p.char].moves[p.move].landing) \in Player
  <2>1. p.char \in DOMAIN Roster
    BY PlayerFields
  <2>2. p.state = "attack" => Roster[p.char].moves[p.move].landing \in Int
    BY <2>1, MoveLoaded, MoveNumbers DEF Moving
  <2>. QED
    BY <2>2, LandTyped
<1>. QED
  BY <1>1, <1>2 DEF TouchDown

\* Gravity and the floor.
LEMMA FallTyped ==
  ASSUME NEW p \in Player, Sound(p)
  PROVE  fall(p) \in Player
<1> DEFINE air == Airborne(p)
           vy == IF air THEN p.vy + gravity(p) ELSE p.vy
           moved == [p EXCEPT !.x = @ + p.vx, !.y = @ + vy, !.vy = vy]
           down == [moved EXCEPT !.y = GroundY, !.vy = 0]
           still == [down EXCEPT !.vx = 0, !.juggle = 0]
<1>1. fall(p) = IF moved.y > GroundY THEN moved
                ELSE IF air THEN TouchDown(still) ELSE down
  BY Zenon DEF fall
<1>2. p.x \in Int /\ p.y \in Int /\ p.vx \in Int /\ p.vy \in Int
  BY PlayerFields
<1>3. vy \in Int
  BY <1>2, GravityIs
<1> HIDE DEF vy
<1>4. p.x + p.vx \in Int /\ p.y + vy \in Int
  BY <1>2, <1>3
<1>5. moved \in Player
  BY <1>3, <1>4, Zenon DEF Player
<1>6. GroundY \in Int
  BY DEF GroundY
<1>7. moved.state = p.state /\ moved.char = p.char /\ moved.move = p.move
  BY PlayerFields DEF Fields
<1> HIDE DEF moved
<1>8. down \in Player
  BY <1>5, <1>6, Small, Zenon DEF Player
<1>9. DOMAIN moved = Fields
  BY <1>5, PlayerFields
<1>10. down.state = p.state /\ down.char = p.char /\ down.move = p.move
  BY <1>7, <1>9 DEF Fields
<1> HIDE DEF down
<1>11. still \in Player
  BY <1>8, Small, Zenon DEF Player
<1>12. DOMAIN down = Fields
  BY <1>8, PlayerFields
<1>13. still.state = p.state /\ still.char = p.char /\ still.move = p.move
  BY <1>10, <1>12 DEF Fields
<1>14. Moving(still)
  BY <1>13 DEF Sound, Moving
<1> HIDE DEF still
<1>15. TouchDown(still) \in Player
  BY <1>11, <1>14, TouchDownTyped
<1>. QED
  BY <1>1, <1>5, <1>8, <1>15, Zenon

\* The frame of one fighter.
LEMMA FrameTyped ==
  ASSUME NEW p \in Player, Sound(p), NEW in
  PROVE  fall(advanceState(resolveInputs(p, in))) \in Player
<1> DEFINE q == resolveInputs(p, in)
           r == advanceState(q)
<1>1. Sound(q) /\ q \in Player
  BY InputsSound, InputsTyped DEF Follows
<1> HIDE DEF q
<1>2. Sound(r)
  BY <1>1, StateSound DEF Follows
<1>3. r \in Player
  BY <1>1, StateTyped DEF Sound
<1> HIDE DEF r
<1>4. fall(r) \in Player
  BY <1>2, <1>3, FallTyped
<1>. QED
  BY <1>4 DEF q, r

\* A fighter at the start of a round.
LEMMA FreshTyped ==
  ASSUME NEW x \in Int, NEW facing \in {1, -1}, NEW c \in DOMAIN Roster
  PROVE  FreshPlayer(x, facing, c) \in Player
<1>1. Roster[c].health \in Int /\ DriveMax \in Int /\ InputBuffer \in Nat /\ GroundY \in Int
  BY CharacterLoaded, GaugeSizes, InputsAssumption DEF GroundY
<1>2. [b \in 1 .. InputHistory |-> {}] \in [1 .. InputHistory -> SUBSET (Buttons \cup Directions)]
  OBVIOUS
<1>3. "neutral" \in Plans /\ "idle" \in States /\ 0 \in 0 .. 3 /\ "none" \in {"none", "counter", "punish"}
  BY StatesNamed DEF Plans
<1>. QED
  BY <1>1, <1>2, <1>3, Small, Zenon DEF FreshPlayer, Player

\* The input that is recorded.
LEMMA RecordTyped ==
  ASSUME NEW p \in Player, NEW plan \in Plans, NEW in \in SUBSET (Buttons \cup Directions)
  PROVE  record([p EXCEPT !.plan = plan], in) \in Player
<1> DEFINE r == [p EXCEPT !.plan = plan]
           S == SUBSET (Buttons \cup Directions)
           kept == SubSeq(p.inputs, 1, InputHistory - 1)
<1>1. r \in Player
  BY Zenon DEF Player
<1>2. r.inputs = p.inputs /\ r.unspent = p.unspent
  BY PlayerFields DEF Fields
<1> HIDE DEF r
<1>3. p.inputs \in [1 .. InputHistory -> S] /\ p.unspent \in Nat
  BY PlayerFields
<1>4. InputHistory \in Nat \ {0} /\ InputBuffer \in Nat
  BY InputsAssumption
<1> HIDE DEF S
<1>5. kept \in Seq(S) /\ Len(kept) = InputHistory - 1
  <2>1. p.inputs \in Seq(S) /\ Len(p.inputs) = InputHistory
    BY <1>3, <1>4
  <2>. QED
    BY <1>4, <2>1
<1> HIDE DEF kept
<1> DEFINE news == <<in>> \o kept
           left == IF p.unspent < InputBuffer THEN p.unspent + 1 ELSE InputBuffer
<1>6. news \in [1 .. InputHistory -> S]
  <2>1. news \in Seq(S) /\ Len(news) = InputHistory
    BY <1>4, <1>5 DEF S
  <2> HIDE DEF news
  <2>. QED
    BY <2>1
<1>7. left \in Nat
  BY <1>3, <1>4
<1>8. record(r, in) = [r EXCEPT !.inputs = news, !.unspent = left]
  BY <1>2, Zenon DEF record, kept
<1> HIDE DEF news, left
<1>9. [r EXCEPT !.inputs = news, !.unspent = left] \in Player
  BY <1>1, <1>6, <1>7, Zenon DEF Player, S
<1>. QED
  BY <1>8, <1>9 DEF r

\* Step 8.
LEMMA RechargeTyped ==
  ASSUME NEW p \in Player
  PROVE  Recharge(p) \in Player
<1>1. driveRegen(p) \in Int /\ p.drive \in Int /\ DriveMax \in Int
  <2>1. driveRegen(p) \in {Balance.driveRegenBurnout, 0, Balance.driveRegenWalkF, Balance.driveRegen}
    BY DEF driveRegen
  <2>. QED
    BY <2>1, PlayerFields, BalanceNumbers, GaugeSizes
<1>2. p.drive + driveRegen(p) \in Int
  BY <1>1
<1>3. /\ [p EXCEPT !.drive = DriveMax, !.burnout = FALSE] \in Player
      /\ [p EXCEPT !.drive = p.drive + driveRegen(p)] \in Player
  BY <1>1, <1>2, Small, Zenon DEF Player
<1>. QED
  BY <1>3, Zenon DEF Recharge
=============================================================================
