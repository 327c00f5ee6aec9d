---------------------------- MODULE FightProofs ----------------------------
(***************************************************************************)
(* Theorems about a match (Fight), for every cast, balance, pool and       *)
(* number of rounds the loader accepts and whatever the two seats press.   *)
(*                                                                         *)
(* The frame of the fight is a chain of operators on the arena, so the     *)
(* proof is one: a lemma per step of Advance, from the hit on one player   *)
(* up to FightOnStands, and beside it the round flow.  The invariant is    *)
(* that both fighters are sound, that what flies was fired with a move of  *)
(* its owner, and that the books of the rounds are in order.               *)
(*                                                                         *)
(* A second chain of lemmas follows the types and the places of the        *)
(* fighters over the same operators: TInv, from which TypeOK and, for a    *)
(* cast that fits the screen, OnScreen.                                    *)
(***************************************************************************)
EXTENDS Fight, FighterProofs, FiniteSetTheorems

\* Knockback moves whoever stands: nobody is knocked back into the air state.
LEMMA KnockbackSound ==
  ASSUME NEW dp, NEW ap, NEW mv \in MoveType, NEW blocked, Sound(dp), dp.state # "air"
  PROVE  /\ Suffers(dp, applyKnockback(dp, ap, mv, blocked))
         /\ applyKnockback(dp, ap, mv, blocked).state = dp.state
         /\ DOMAIN applyKnockback(dp, ap, mv, blocked) = Fields
<1>1. KnockbackVY(mv, blocked) \in Int
  BY MoveNumbers DEF KnockbackVY
<1>2. dp.health \in Int
  BY CharacterLoaded DEF Sound, Gauges
<1>3. ASSUME NEW vx, NEW vy \in Int
      PROVE  LET q == [dp EXCEPT !.vx = vx, !.vy = vy]
             IN  Suffers(dp, q) /\ q.state = dp.state /\ DOMAIN q = Fields
  BY <1>2, <1>3 DEF Suffers, Afloat, Mortal, Sound, Gauges, Debts, Rising, Moving, Fields
<1> DEFINE left == dp.x < ap.x \/ (dp.x = ap.x /\ ap.facing < 0)
           vx == IF left THEN -KnockbackVX(mv, blocked) ELSE KnockbackVX(mv, blocked)
           q == [dp EXCEPT !.vx = vx, !.vy = KnockbackVY(mv, blocked)]
<1>4. applyKnockback(dp, ap, mv, blocked) = q
  BY Zenon DEF applyKnockback
<1> HIDE DEF left, vx
<1>5. Suffers(dp, q) /\ q.state = dp.state /\ DOMAIN q = Fields
  BY <1>1, <1>3
<1>. QED
  BY <1>4, <1>5, Zenon

\* Armor takes its share as chip damage and goes on.
LEMMA ArmoredSound ==
  ASSUME NEW dp, Sound(dp), NEW mv \in MoveType, absorbs(dp)
  PROVE  Suffers(dp, TakeArmored(dp, mv))
<1> DEFINE a == [dp EXCEPT !.armor = @ + 1]
           n == Percent(mv.damage, Balance.armorDamagePercent)
           t == Percent(mv.damage, Balance.superTakenPercent)
<1>1. dp.state = "attack"
  BY DEF absorbs, MoveOf
<1>2. n \in Nat /\ t \in Nat
  BY PercentNat, MoveNumbers, BalanceNumbers
<1>3. dp.health \in Int
  BY CharacterLoaded DEF Sound, Gauges
<1>4. Suffers(dp, a) /\ a.state = "attack"
  BY <1>1, <1>3 DEF Suffers, Afloat, Mortal, Sound, Gauges, Debts, Rising, Moving, Fields
<1> HIDE DEF a, n, t
<1>5. Suffers(a, chip(a, n))
  BY <1>2, <1>4, ChipSound DEF Suffers
<1> DEFINE c == chip(a, n)
<1> HIDE DEF c
<1>6. Suffers(dp, c)
  BY <1>4, <1>5, SuffersChain, Zenon DEF c
<1>7. Suffers(c, gainSuper(c, t))
  BY <1>2, <1>6, SuperSound DEF Suffers
<1>8. Suffers(dp, gainSuper(c, t))
  BY <1>6, <1>7, SuffersChain, Zenon
<1>. QED
  BY <1>8, Zenon DEF TakeArmored, BuildTaken, a, c, n, t

\* A block costs drive, or chip damage in burnout.
LEMMA BlockedSound ==
  ASSUME NEW dp, NEW ap, Sound(dp), NEW mv \in MoveType, NEW in, NEW level, blocking(dp, in, level)
  PROVE  Suffers(dp, TakeBlocked(dp, ap, mv))
<1> DEFINE e == enter(dp, "blockstun")
           s == [e EXCEPT !.stun = mv.blockstun]
           held == applyKnockback(s, ap, mv, TRUE)
           longer == [held EXCEPT !.stun = @ + Balance.burnoutBlockstun]
           n == Percent(mv.damage, Balance.burnoutChipPercent)
<1>1. dp.health \in Int /\ dp.health >= 0
  BY CharacterLoaded DEF Sound, Gauges
<1>2. dp.state \notin {"hitstun", "thrown", "air"}
  BY DEF blocking, Actionable, ActionableStates
<1>3. Suffers(dp, e) /\ e.state = "blockstun"
  <2>1. Follows(dp, e) /\ e.state = "blockstun"
    BY EnterSound
  <2> HIDE DEF e
  <2>. QED
    BY <1>1, <1>2, <2>1 DEF Follows, Suffers, Afloat, Mortal
<1> HIDE DEF e
<1>4. Suffers(e, s) /\ s.state = "blockstun"
  <2>1. e.health \in Int
    BY <1>3, CharacterLoaded DEF Suffers, Sound, Gauges
  <2>. QED
    BY <1>3, <2>1 DEF Suffers, Afloat, Mortal, Sound, Gauges, Debts, Rising, Moving, Fields
<1> HIDE DEF s
<1>5. Suffers(dp, s) /\ Sound(s)
  BY <1>3, <1>4, SuffersChain, Zenon DEF Suffers
<1>6. Suffers(s, held) /\ held.state = "blockstun"
  BY <1>4, <1>5, KnockbackSound
<1> HIDE DEF held
<1>7. Suffers(dp, held) /\ Sound(held)
  BY <1>5, <1>6, SuffersChain, Zenon DEF Suffers
<1>8. Suffers(held, longer) /\ longer.state = "blockstun"
  <2>1. held.health \in Int
    BY <1>7, CharacterLoaded DEF Sound, Gauges
  <2>. QED
    BY <1>6, <1>7, <2>1 DEF Suffers, Afloat, Mortal, Sound, Gauges, Debts, Rising, Moving, Fields
<1> HIDE DEF longer
<1>9. Suffers(dp, longer) /\ Sound(longer)
  BY <1>7, <1>8, SuffersChain, Zenon DEF Suffers
<1>10. n \in Nat
  BY PercentNat, MoveNumbers, BalanceNumbers
<1> HIDE DEF n
<1>11. Suffers(dp, chip(longer, n))
  <2>1. Suffers(longer, chip(longer, n))
    BY <1>8, <1>9, <1>10, ChipSound
  <2>. QED
    BY <1>9, <2>1, SuffersChain, Zenon
<1>12. Suffers(dp, spendDrive(held, Balance.driveBlockCost))
  <2> DEFINE d == spendDrive(held, Balance.driveBlockCost)
  <2>1. Follows(held, d) /\ d.state = held.state
    BY <1>7, BalanceNumbers, SpendSound
  <2> HIDE DEF d
  <2>2. held.health \in Int
    BY <1>7, CharacterLoaded DEF Sound, Gauges
  <2>3. Suffers(held, d)
    BY <1>6, <2>1, <2>2 DEF Follows, Suffers, Afloat, Mortal
  <2>. QED
    BY <1>7, <2>3, SuffersChain, Zenon DEF d
<1>13. TakeBlocked(dp, ap, mv) \in {spendDrive(held, Balance.driveBlockCost), chip(longer, n), longer}
  BY Zenon DEF TakeBlocked, n, longer, held, s, e
<1>. QED
  BY <1>9, <1>11, <1>12, <1>13, Zenon

\* A hit: the combo, the damage, the knockdown it owes and the juggle.
LEMMA HitSound ==
  ASSUME NEW dp, NEW ap, Sound(dp), Afloat(dp), NEW mv \in MoveType
  PROVE  Suffers(dp, TakeHit(dp, ap, mv))
<1> DEFINE counter == counterClass(dp)
           starter == IF dp.combo = 0 THEN starterScale(mv) ELSE dp.comboStarter
           e == enter(dp, "hitstun")
           struck == [e EXCEPT
                   !.combo = @ + 1, !.comboStarter = starter, !.counter = counter,
                   !.stun = mv.hitstun + counterHitstun(counter), !.down = mv.knockdown,
                   !.juggle = IF Airborne(dp) THEN @ + 1 ELSE @]
           n == scaledDamage(mv, starter, dp.combo + 1, counter)
           hurting == hurt(struck, n)
           t == Percent(mv.damage, Balance.superTakenPercent)
           built == gainSuper(hurting, t)
<1>1. starter \in Nat /\ dp.combo \in Nat
  BY StarterNat DEF Sound
<1> HIDE DEF starter, counter
<1>2. n \in Nat /\ t \in Nat
  <2>1. dp.combo + 1 \in Nat
    BY <1>1
  <2>2. n \in Nat
    BY <1>1, <2>1, DamageNat
  <2>3. t \in Nat
    BY PercentNat, MoveNumbers, BalanceNumbers
  <2>. QED
    BY <2>2, <2>3
<1>3. Suffers(dp, e) /\ e.state = "hitstun"
  BY EnterSuffers
<1>4. e.y = dp.y /\ e.juggle = dp.juggle /\ e.landing = 0
  BY DEF enter, Sound, Fields
<1> HIDE DEF e, n, t
<1>5. Suffers(e, struck) /\ struck.state = "hitstun"
  <2>1. e.health \in Int
    BY <1>3, CharacterLoaded DEF Suffers, Sound, Gauges
  <2>2. Airborne(dp) => e.y > GroundY
    BY <1>4 DEF Airborne, Afloat
  <2>3. Sound(e)
    BY <1>3 DEF Suffers
  <2> DEFINE j == IF Airborne(dp) THEN e.juggle + 1 ELSE e.juggle
  <2>4. j \in Nat /\ (j > 0 => e.y > GroundY)
    BY <2>2, <2>3 DEF Sound, Debts
  <2> HIDE DEF j
  <2> DEFINE R(c, st, d) ==
               [e EXCEPT !.combo = @ + 1, !.comboStarter = starter, !.counter = c,
                         !.stun = st, !.down = d, !.juggle = j]
  <2>5. ASSUME NEW c, NEW st, NEW d
        PROVE  Suffers(e, R(c, st, d)) /\ R(c, st, d).state = "hitstun"
    <3> DEFINE q == R(c, st, d)
    <3>1. /\ DOMAIN q = Fields
          /\ \A f \in {"char", "ai", "health", "super", "drive", "burnout", "y", "vy", "state", "move", "landing"} :
               q[f] = e[f]
          /\ q.combo = e.combo + 1 /\ q.comboStarter = starter /\ q.juggle = j
      BY <2>3 DEF Sound, Fields
    <3> HIDE DEF q
    <3>2. Sound(q)
      BY <1>1, <1>3, <2>3, <2>4, <3>1 DEF Sound, Gauges, Debts, Rising, Moving
    <3>3. Suffers(e, q) /\ q.state = "hitstun"
      BY <1>3, <2>1, <3>1, <3>2 DEF Suffers, Afloat, Mortal
    <3>. QED
      BY <3>3 DEF q
  <2>6. struck = R(counter, mv.hitstun + counterHitstun(counter), mv.knockdown)
    BY <2>3, Zenon DEF j
  <2> HIDE DEF struck, R
  <2>. QED
    BY <2>5, <2>6, Zenon
<1> HIDE DEF struck
<1>6. Suffers(dp, struck) /\ Sound(struck)
  BY <1>3, <1>5, SuffersChain, Zenon DEF Suffers
<1>7. Suffers(struck, hurting) /\ hurting.state = "hitstun"
  BY <1>2, <1>5, <1>6, HurtSound
<1> HIDE DEF hurting
<1>8. Suffers(dp, hurting) /\ Sound(hurting)
  BY <1>6, <1>7, SuffersChain, Zenon DEF Suffers
<1>9. Suffers(hurting, built) /\ built.state = "hitstun"
  BY <1>2, <1>7, <1>8, SuperSound
<1> HIDE DEF built
<1>10. Suffers(dp, built) /\ Sound(built)
  BY <1>8, <1>9, SuffersChain, Zenon DEF Suffers
<1>11. Suffers(built, applyKnockback(built, ap, mv, FALSE))
  BY <1>9, <1>10, KnockbackSound
<1>12. Suffers(dp, applyKnockback(built, ap, mv, FALSE))
  BY <1>10, <1>11, SuffersChain, Zenon
<1>. QED
  BY <1>12, Zenon DEF TakeHit, BuildTaken, built, hurting, struck, n, t, e, starter, counter

\* A throw: as a hit, in the state of who is thrown.
LEMMA ThrowSound ==
  ASSUME NEW dp, Sound(dp), NEW mv \in MoveType
  PROVE  Suffers(dp, TakeThrow(dp, mv))
<1> DEFINE starter == starterScale(mv)
           e == enter(dp, "thrown")
           caught == [e EXCEPT
                   !.stun = mv.hitstun, !.down = mv.knockdown,
                   !.combo = @ + 1, !.comboStarter = starter, !.counter = "none"]
           n == scaledDamage(mv, starter, dp.combo + 1, "none")
           t == Percent(mv.damage, Balance.superTakenPercent)
<1>1. starter \in Nat /\ dp.combo + 1 \in Nat
  BY StarterNat DEF Sound
<1> HIDE DEF starter
<1>2. n \in Nat /\ t \in Nat
  BY <1>1, DamageNat, PercentNat, MoveNumbers, BalanceNumbers
<1>3. Suffers(dp, e) /\ e.state = "thrown"
  BY EnterSuffers
<1> HIDE DEF e, n, t
<1>4. Suffers(e, caught) /\ caught.state = "thrown"
  <2>1. e.health \in Int
    BY <1>3, CharacterLoaded DEF Suffers, Sound, Gauges
  <2>2. Sound(e)
    BY <1>3 DEF Suffers
  <2>3. /\ DOMAIN caught = Fields
        /\ \A f \in {"char", "ai", "health", "super", "drive", "burnout", "y", "vy", "state", "move", "landing", "juggle"} :
             caught[f] = e[f]
        /\ caught.combo = e.combo + 1 /\ caught.comboStarter = starter
    BY <2>2 DEF Sound, Fields
  <2> HIDE DEF caught
  <2>4. Sound(caught)
    BY <1>1, <1>3, <2>2, <2>3 DEF Sound, Gauges, Debts, Rising, Moving
  <2>. QED
    BY <1>3, <2>1, <2>3, <2>4 DEF Suffers, Afloat, Mortal
<1> HIDE DEF caught
<1>5. Suffers(dp, caught) /\ Sound(caught)
  BY <1>3, <1>4, SuffersChain, Zenon DEF Suffers
<1> DEFINE hurting == hurt(caught, n)
<1>6. Suffers(caught, hurting)
  BY <1>2, <1>4, <1>5, HurtSound
<1> HIDE DEF hurting
<1>7. Suffers(dp, hurting) /\ Sound(hurting)
  BY <1>5, <1>6, SuffersChain, Zenon DEF Suffers
<1>8. Suffers(hurting, gainSuper(hurting, t))
  BY <1>2, <1>7, SuperSound
<1>9. Suffers(dp, gainSuper(hurting, t))
  BY <1>7, <1>8, SuffersChain, Zenon
<1>. QED
  BY <1>9, Zenon DEF TakeThrow, BuildTaken, hurting, caught, n, t, e, starter

(***************************************************************************)
(* The arena.                                                              *)
(***************************************************************************)
Standing(a) ==
  /\ DOMAIN a = {"players", "projectiles", "camX", "hitstop", "dealt"}
  /\ DOMAIN a.players = Seats /\ \A i \in Seats : Sound(a.players[i])
  /\ DOMAIN a.projectiles = Slots
  /\ \A k \in Slots : LET pr == a.projectiles[k]
                      IN  /\ DOMAIN pr = {"active", "owner", "move", "x", "y", "vx", "life"}
                          /\ pr.active => /\ pr.owner \in Seats
                                          /\ pr.move \in DOMAIN Roster[a.players[pr.owner].char].moves
  /\ a.hitstop \in Nat
  /\ DOMAIN a.dealt = Seats /\ \A i \in Seats : a.dealt[i] \in Int

\* Nobody in the air is on the floor.
Aloft(a) == \A i \in Seats : Afloat(a.players[i])

\* b is a after some of this frame's hits: health lost is damage dealt.
Strikes(a, b) ==
  /\ Standing(b)
  /\ \A i \in Seats : Suffers(a.players[i], b.players[i])
  /\ \A i \in Seats : b.dealt[i] - a.dealt[i] = a.players[Other(i)].health - b.players[Other(i)].health

\* There are two seats.
LEMMA TwoSeats ==
  /\ \A i \in Seats : Other(i) \in Seats /\ Other(i) # i /\ Other(Other(i)) = i
  /\ \A i, j \in Seats : j = i \/ j = Other(i)
  BY DEF Seats, Other

\* Health is a whole number.
LEMMA HealthInt ==
  ASSUME NEW p, Sound(p)
  PROVE  p.health \in Int
  BY CharacterLoaded DEF Sound, Gauges

\* One hit after another.
LEMMA StrikesChain ==
  ASSUME NEW a, NEW b, NEW c, Standing(a), Strikes(a, b), Strikes(b, c)
  PROVE  Strikes(a, c)
<1>1. Standing(b) /\ Standing(c)
  BY DEF Strikes
<1>2. \A i \in Seats : Suffers(a.players[i], c.players[i])
  BY SuffersChain, Zenon DEF Strikes, Standing
<1>3. ASSUME NEW i \in Seats
      PROVE  c.dealt[i] - a.dealt[i] = a.players[Other(i)].health - c.players[Other(i)].health
  <2>1. Other(i) \in Seats
    BY TwoSeats
  <2>2. /\ a.players[Other(i)].health \in Int /\ b.players[Other(i)].health \in Int
        /\ c.players[Other(i)].health \in Int
    BY <1>1, <2>1, HealthInt DEF Standing
  <2>3. a.dealt[i] \in Int /\ b.dealt[i] \in Int /\ c.dealt[i] \in Int
    BY <1>1 DEF Standing
  <2>4. /\ b.dealt[i] - a.dealt[i] = a.players[Other(i)].health - b.players[Other(i)].health
        /\ c.dealt[i] - b.dealt[i] = b.players[Other(i)].health - c.players[Other(i)].health
    BY DEF Strikes
  <2> DEFINE x == a.dealt[i]
             y == b.dealt[i]
             z == c.dealt[i]
             u == a.players[Other(i)].health
             v == b.players[Other(i)].health
             w == c.players[Other(i)].health
  <2> HIDE DEF x, y, z, u, v, w
  <2>5. /\ x \in Int /\ y \in Int /\ z \in Int /\ u \in Int /\ v \in Int /\ w \in Int
        /\ y - x = u - v /\ z - y = v - w
    BY <2>2, <2>3, <2>4, Zenon DEF x, y, z, u, v, w
  <2>6. z - x = u - w
    BY <2>5
  <2>. QED
    BY <2>6, Zenon DEF x, z, u, w
<1>. QED
  BY <1>1, <1>2, <1>3 DEF Strikes

\* Nothing happened to a fighter.
LEMMA SuffersRefl ==
  ASSUME NEW p, Sound(p)
  PROVE  Suffers(p, p)
  BY HealthInt DEF Suffers

\* Nothing happened in an arena.
LEMMA StrikesRefl ==
  ASSUME NEW b, Standing(b)
  PROVE  Strikes(b, b)
<1>1. \A k \in Seats : Suffers(b.players[k], b.players[k])
  BY SuffersRefl DEF Standing
<1>2. \A k \in Seats : b.dealt[k] - b.dealt[k] = b.players[Other(k)].health - b.players[Other(k)].health
  <2> TAKE k \in Seats
  <2>1. b.dealt[k] \in Int /\ b.players[Other(k)].health \in Int
    BY TwoSeats, HealthInt DEF Standing
  <2>. QED
    BY <2>1
<1>. QED
  BY <1>1, <1>2 DEF Strikes

\* A hit leaves nobody in the air on the floor.
LEMMA StrikesAloft ==
  ASSUME NEW a, NEW b, Aloft(a), Strikes(a, b)
  PROVE  Aloft(b) /\ Standing(b)
  BY DEF Aloft, Strikes, Suffers

\* Two players replaced by what they suffered, with the health that is gone in
\* the books of the other seat.
LEMMA SettledStrikes ==
  ASSUME NEW a, Standing(a), NEW i \in Seats, NEW ap, NEW dp, NEW mv \in MoveType,
         Suffers(a.players[i], ap), ap.health = a.players[i].health,
         Suffers(a.players[Other(i)], dp)
  PROVE  Strikes(a, Settled(a, i, ap, dp, mv))
<1> DEFINE j == Other(i)
           b == Settled(a, i, ap, dp, mv)
<1>1. j \in Seats /\ j # i /\ \A k \in Seats : k = i \/ k = j
  BY TwoSeats
<1>2. Other(i) = j /\ Other(j) = i
  BY TwoSeats
<1> HIDE DEF j
<1>3. /\ DOMAIN b = {"players", "projectiles", "camX", "hitstop", "dealt"}
      /\ b.projectiles = a.projectiles
      /\ b.hitstop = Greater(a.hitstop, mv.hitstop)
      /\ b.players = [a.players EXCEPT ![i] = ap, ![j] = dp]
      /\ b.dealt = [a.dealt EXCEPT ![i] = @ + (a.players[j].health - dp.health)]
  BY <1>2 DEF Settled, Standing
<1> HIDE DEF b
<1>4. b.players[i] = ap /\ b.players[j] = dp /\ DOMAIN b.players = Seats
  BY <1>1, <1>3 DEF Standing
<1>5. a.players[j].health \in Int /\ a.players[i].health \in Int /\ dp.health \in Int
  BY <1>1, <1>2, HealthInt DEF Standing, Suffers
<1>6. /\ DOMAIN b.dealt = Seats /\ b.dealt[j] = a.dealt[j]
      /\ b.dealt[i] = a.dealt[i] + (a.players[j].health - dp.health)
      /\ a.dealt[i] \in Int /\ a.dealt[j] \in Int
  BY <1>1, <1>3 DEF Standing
<1>7. b.hitstop \in Nat
  BY <1>3, MoveNumbers DEF Greater, Standing
<1>8. ap.char = a.players[i].char /\ dp.char = a.players[j].char /\ Sound(ap) /\ Sound(dp)
  BY <1>2 DEF Suffers
<1>9. \A k \in Seats : b.players[k].char = a.players[k].char /\ Sound(b.players[k])
  BY <1>1, <1>4, <1>8
<1>10. Standing(b)
  BY <1>3, <1>4, <1>5, <1>6, <1>7, <1>1, <1>9 DEF Standing
<1>11. \A k \in Seats : Suffers(a.players[k], b.players[k])
  BY <1>1, <1>2, <1>4
<1>12. \A k \in Seats : b.dealt[k] - a.dealt[k] = a.players[Other(k)].health - b.players[Other(k)].health
  BY <1>1, <1>2, <1>4, <1>5, <1>6
<1>. QED
  BY <1>10, <1>11, <1>12 DEF Strikes, b

\* One connect, on whoever armors it, blocks it or takes it.
LEMMA ApplyHitStrikes ==
  ASSUME NEW a, Standing(a), Aloft(a), NEW i \in Seats, NEW mv \in MoveType, NEW in
  PROVE  Strikes(a, applyHit(a, i, mv, in))
<1> DEFINE ap == a.players[i]
           dp == a.players[Other(i)]
           armored == absorbs(dp)
           blocked == ~armored /\ blocking(dp, in, mv.level)
           taken == IF armored THEN TakeArmored(dp, mv)
                    ELSE IF blocked THEN TakeBlocked(dp, ap, mv) ELSE TakeHit(dp, ap, mv)
           built == IF blocked THEN ap ELSE BuildDealt(ap, mv)
           paid == IF IsSpecial(mv) THEN gainSuper(built, Balance.superOnSpecial) ELSE built
<1>1. Sound(ap) /\ Sound(dp) /\ Afloat(dp)
  BY TwoSeats DEF Standing, Aloft
<1> HIDE DEF ap, dp
<1>2. Suffers(dp, taken)
  <2>1. CASE armored
    BY <1>1, <2>1, ArmoredSound
  <2>2. CASE blocked
    BY <1>1, <2>2, BlockedSound
  <2>3. CASE ~armored /\ ~blocked
    BY <1>1, <2>3, HitSound
  <2>. QED
    BY <2>1, <2>2, <2>3
<1> HIDE DEF taken
<1>3. Suffers(ap, built) /\ built.health = ap.health /\ Sound(built)
  <2> DEFINE t == Percent(mv.damage, Balance.superDealtPercent)
  <2>1. t \in Nat
    BY PercentNat, MoveNumbers, BalanceNumbers
  <2> HIDE DEF t
  <2>2. Follows(ap, gainSuper(ap, t)) /\ Suffers(ap, gainSuper(ap, t))
    BY <1>1, <2>1, SuperSound
  <2>3. built \in {ap, gainSuper(ap, t)}
    BY Zenon DEF BuildDealt, t
  <2> HIDE DEF built
  <2>. QED
    BY <1>1, <2>2, <2>3, SuffersRefl, Zenon DEF Follows
<1> HIDE DEF built
<1>4. Suffers(ap, paid) /\ paid.health = ap.health
  <2>1. Follows(built, gainSuper(built, Balance.superOnSpecial)) /\ Suffers(built, gainSuper(built, Balance.superOnSpecial))
    BY <1>3, BalanceNumbers, SuperSound
  <2>2. Suffers(ap, gainSuper(built, Balance.superOnSpecial))
    BY <1>1, <1>3, <2>1, SuffersChain, Zenon
  <2>. QED
    BY <1>3, <2>1, <2>2, Zenon DEF Follows
<1> HIDE DEF paid
<1>5. Strikes(a, Settled(a, i, paid, taken, mv))
  BY <1>2, <1>4, SettledStrikes DEF ap, dp
<1>6. applyHit(a, i, mv, in) = Settled(a, i, paid, taken, mv)
  BY Zenon DEF applyHit, paid, built, taken, ap, dp
<1>. QED
  BY <1>5, <1>6

(***************************************************************************)
(* Steps that move players without touching them.                          *)
(***************************************************************************)
Shifted(ps, qs) == DOMAIN qs = Seats /\ \A i \in Seats : Same(ps[i], qs[i])

\* Moving a fighter keeps everything that is said of it.
LEMMA SameKeeps ==
  ASSUME NEW p, NEW q, Sound(p), Same(p, q)
  PROVE  /\ Sound(q) /\ Follows(p, q) /\ Suffers(p, q) /\ q.state = p.state
         /\ Afloat(p) => Afloat(q)
<1>1. Sound(q)
  BY SameSound
<1>2. /\ q.char = p.char /\ q.ai = p.ai /\ q.health = p.health /\ q.state = p.state /\ q.y = p.y
  BY DEF Same, Fields
<1>. QED
  BY <1>1, <1>2, HealthInt DEF Follows, Suffers, Afloat, Mortal

\* Two records of players.
Pair(ps) == DOMAIN ps = Seats /\ \A i \in Seats : DOMAIN ps[i] = Fields

\* q is p on another spot.
Carried(p, q) == DOMAIN q = Fields /\ \A f \in Fields \ {"x"} : q[f] = p[f]

\* q is p on another spot, looking where it did or to a side.
Faces(p, q) ==
  /\ DOMAIN q = Fields /\ \A f \in Fields \ {"x", "facing"} : q[f] = p[f]
  /\ q.facing = p.facing \/ q.facing \in {1, -1}

Pushed(ps, qs) == DOMAIN qs = Seats /\ \A i \in Seats : Carried(ps[i], qs[i])

\* One move after another.
LEMMA PushedChain ==
  ASSUME NEW ps, NEW qs, NEW rs, Pushed(ps, qs), Pushed(qs, rs)
  PROVE  Pushed(ps, rs)
  BY DEF Pushed, Carried

\* Who is moved stays a player of whom the same is said.
LEMMA PushedShifts ==
  ASSUME NEW ps, NEW qs, Pair(ps), Pushed(ps, qs)
  PROVE  Shifted(ps, qs) /\ Pair(qs) /\ Pushed(ps, ps)
  BY DEF Shifted, Same, Pair, Pushed, Carried, Fields

\* Moving one of the two.
LEMMA ShiftPushes ==
  ASSUME NEW ps, Pair(ps), NEW i \in Seats, NEW d
  PROVE  Pushed(ps, Shift(ps, i, d)) /\ Pair(Shift(ps, i, d))
<1>1. Shift(ps, i, d) = [ps EXCEPT ![i] = [ps[i] EXCEPT !.x = ps[i].x + d]]
  BY DEF Shift, Pair
<1>2. ASSUME NEW j \in Seats
      PROVE  Carried(ps[j], Shift(ps, i, d)[j])
  <2>1. CASE j = i
    <3>1. Shift(ps, i, d)[j] = [ps[j] EXCEPT !.x = ps[i].x + d]
      BY <1>1, <2>1 DEF Pair
    <3>2. DOMAIN ps[j] = Fields
      BY DEF Pair
    <3>. QED
      BY <3>1, <3>2 DEF Carried, Fields
  <2>2. CASE j # i
    <3>1. Shift(ps, i, d)[j] = ps[j]
      BY <1>1, <2>2 DEF Pair
    <3>. QED
      BY <3>1 DEF Carried, Pair
  <2>. QED
    BY <2>1, <2>2
<1>3. DOMAIN Shift(ps, i, d) = Seats
  BY <1>1 DEF Pair
<1>4. Pushed(ps, Shift(ps, i, d))
  BY <1>2, <1>3 DEF Pushed
<1>. QED
  BY <1>4, PushedShifts

\* The walls and the corner rule only move.
LEMMA ClampPushes ==
  ASSUME NEW ps, Pair(ps), NEW camX
  PROVE  Pushed(ps, clampToStage(ps, camX)) /\ Pair(clampToStage(ps, camX))
<1>1. ASSUME NEW qs, Pair(qs), NEW i \in Seats
      PROVE  Pushed(qs, ClampPlayer(qs, i, camX)) /\ Pair(ClampPlayer(qs, i, camX))
  <2> DEFINE d == wallCorrection(qs[i], camX)
             held == Shift(qs, i, d)
             other == Shift(held, Other(i), d)
             back == IntoStage(other, Other(i), camX)
  <2>1. Pushed(qs, held) /\ Pair(held)
    BY <1>1, ShiftPushes
  <2> HIDE DEF d, held
  <2>2. Pushed(held, other) /\ Pair(other)
    BY <2>1, ShiftPushes, TwoSeats
  <2> HIDE DEF other
  <2>3. Pushed(other, back) /\ Pair(back)
    BY <2>2, ShiftPushes, TwoSeats DEF IntoStage
  <2> HIDE DEF back
  <2>4. Pushed(qs, back)
    BY <1>1, <2>1, <2>2, <2>3, PushedChain, Zenon
  <2>5. ClampPlayer(qs, i, camX) \in {held, back}
    BY Zenon DEF ClampPlayer, ClampBy, CornerRule, d, held, other, back
  <2>. QED
    BY <2>1, <2>3, <2>4, <2>5, Zenon
<1> DEFINE qs == ClampPlayer(ps, 0, camX)
<1>2. Pushed(ps, qs) /\ Pair(qs)
  BY <1>1 DEF Seats
<1> HIDE DEF qs
<1>3. Pushed(qs, ClampPlayer(qs, 1, camX)) /\ Pair(ClampPlayer(qs, 1, camX))
  BY <1>1, <1>2 DEF Seats
<1>4. Pushed(ps, ClampPlayer(qs, 1, camX))
  BY <1>2, <1>3, PushedChain, Zenon
<1>. QED
  BY <1>3, <1>4, Zenon DEF clampToStage, qs

\* Step 4, for two players: pushboxes, walls and facing.
Sides(ps, camX) == updateFacing(clampToStage(separate(ps), camX))

\* Step 4 only moves and turns.
LEMMA SidesPush ==
  ASSUME NEW ps, Pair(ps), NEW camX
  PROVE  LET qs == Sides(ps, camX)
         IN  DOMAIN qs = Seats /\ Shifted(ps, qs) /\ \A i \in Seats : Faces(ps[i], qs[i])
<1> DEFINE apart == separate(ps)
           held == clampToStage(apart, camX)
           qs == updateFacing(held)
<1>1. Pushed(ps, apart) /\ Pair(apart)
  <2>1. ASSUME NEW d, NEW e
        PROVE  LET rs == [ps EXCEPT ![0].x = @ - d, ![1].x = @ + e]
               IN  Pushed(ps, rs)
    <3> DEFINE rs == [ps EXCEPT ![0].x = @ - d, ![1].x = @ + e]
    <3>1. /\ DOMAIN rs = Seats
          /\ rs[0] = [ps[0] EXCEPT !.x = ps[0].x - d]
          /\ rs[1] = [ps[1] EXCEPT !.x = ps[1].x + e]
      BY DEF Pair, Seats
    <3>2. DOMAIN ps[0] = Fields /\ DOMAIN ps[1] = Fields
      BY DEF Pair, Seats
    <3> HIDE DEF rs
    <3>3. Carried(ps[0], rs[0]) /\ Carried(ps[1], rs[1])
      BY <3>1, <3>2 DEF Carried, Fields
    <3>4. Pushed(ps, rs)
      BY <3>1, <3>3 DEF Pushed, Seats
    <3>. QED
      BY <3>4 DEF rs
  <2>2. Pushed(ps, ps)
    BY DEF Pushed, Carried, Pair
  <2>3. Pushed(ps, apart)
    BY <2>1, <2>2, Zenon DEF separate
  <2>. QED
    BY <2>3, PushedShifts
<1> HIDE DEF apart
<1>2. Pushed(apart, held) /\ Pair(held)
  BY <1>1, ClampPushes
<1> HIDE DEF held
<1>3. DOMAIN qs = Seats /\ \A i \in Seats : Faces(held[i], qs[i])
  <2>1. \A p, x : DOMAIN p = Fields => Faces(p, FaceToward(p, x))
    BY DEF FaceToward, Faces, Fields
  <2>2. /\ DOMAIN qs = Seats
        /\ qs[0] = FaceToward(held[0], held[1].x) /\ qs[1] = FaceToward(held[1], held[0].x)
    BY <1>2 DEF updateFacing, Pair, Seats
  <2>3. DOMAIN held[0] = Fields /\ DOMAIN held[1] = Fields
    BY <1>2 DEF Pair, Seats
  <2> HIDE DEF qs
  <2>4. Faces(held[0], qs[0]) /\ Faces(held[1], qs[1])
    BY <2>1, <2>2, <2>3
  <2>. QED
    BY <2>2, <2>4 DEF Seats
<1> HIDE DEF qs
<1>4. Pushed(ps, held)
  BY <1>1, <1>2, PushedChain
<1>5. \A i \in Seats : Faces(ps[i], qs[i])
  BY <1>3, <1>4 DEF Pushed, Carried, Faces, Fields
<1>6. Shifted(ps, qs)
  BY <1>3, <1>5 DEF Shifted, Same, Faces, Pair, Fields
<1>. QED
  BY <1>3, <1>5, <1>6 DEF Sides, qs, held, apart

\* Other players of the same health are no hit.
LEMMA ReplacedStrikes ==
  ASSUME NEW a, Standing(a), NEW qs, DOMAIN qs = Seats,
         \A i \in Seats : Suffers(a.players[i], qs[i]) /\ qs[i].health = a.players[i].health
  PROVE  Strikes(a, [a EXCEPT !.players = qs])
<1> DEFINE b == [a EXCEPT !.players = qs]
<1>1. /\ DOMAIN b = {"players", "projectiles", "camX", "hitstop", "dealt"}
      /\ b.players = qs /\ b.projectiles = a.projectiles /\ b.hitstop = a.hitstop /\ b.dealt = a.dealt
  BY DEF Standing
<1> HIDE DEF b
<1>2. \A i \in Seats : qs[i].char = a.players[i].char /\ Sound(qs[i])
  BY DEF Suffers
<1>3. Standing(b)
  BY <1>1, <1>2 DEF Standing
<1>4. \A i \in Seats : b.dealt[i] - a.dealt[i] = a.players[Other(i)].health - b.players[Other(i)].health
  <2> TAKE i \in Seats
  <2>1. qs[Other(i)].health = a.players[Other(i)].health /\ a.players[Other(i)].health \in Int
    BY TwoSeats, HealthInt DEF Standing
  <2>2. a.dealt[i] \in Int
    BY DEF Standing
  <2>. QED
    BY <1>1, <2>1, <2>2
<1>. QED
  BY <1>1, <1>3, <1>4 DEF Strikes, b

\* Moving is no hit.
LEMMA ShiftedStrikes ==
  ASSUME NEW a, Standing(a), NEW qs, Shifted(a.players, qs)
  PROVE  Strikes(a, [a EXCEPT !.players = qs])
<1>1. \A i \in Seats : Suffers(a.players[i], qs[i]) /\ qs[i].health = a.players[i].health
  BY SameKeeps DEF Shifted, Standing, Follows
<1>. QED
  BY <1>1, ReplacedStrikes DEF Shifted

\* Nobody loses health in a throw that is broken.
LEMMA TechStrikes ==
  ASSUME NEW a, Standing(a), NEW i \in Seats
  PROVE  Strikes(a, tech(a, i))
<1> DEFINE ps == a.players
           j == Other(i)
           push == IF ps[i].x <= ps[j].x THEN -FromInt(Balance.throwTechPush)
                   ELSE FromInt(Balance.throwTechPush)
           freed(p, by) == [enter(p, "thrown") EXCEPT
                             !.stun = Balance.throwTechRecovery, !.vx = 0, !.vy = 0, !.x = @ + by]
           apart == [ps EXCEPT ![i] = freed(ps[i], push), ![j] = freed(ps[j], -push)]
           qs == clampToStage(apart, a.camX)
<1>1. ASSUME NEW p, NEW by, Sound(p)
      PROVE  Suffers(p, freed(p, by)) /\ freed(p, by).health = p.health
  <2> DEFINE e == enter(p, "thrown")
             q == freed(p, by)
  <2>1. Suffers(p, e) /\ e.state = "thrown" /\ e.health = p.health /\ Sound(e)
    BY <1>1, EnterSuffers, EnterSound DEF Follows, Suffers
  <2>2. /\ DOMAIN q = Fields
        /\ \A f \in {"char", "ai", "health", "super", "drive", "burnout", "y", "state", "move", "landing", "juggle", "down", "combo", "comboStarter"} :
             q[f] = e[f]
        /\ q.vy = 0
    BY <2>1 DEF Sound, Fields
  <2> HIDE DEF e, q
  <2>3. Sound(q)
    BY <2>1, <2>2 DEF Sound, Gauges, Debts, Rising, Moving
  <2>4. Suffers(p, q) /\ q.health = p.health
    BY <1>1, <2>1, <2>2, <2>3, HealthInt DEF Suffers, Afloat, Mortal
  <2>. QED
    BY <2>4 DEF q
<1>2. j \in Seats /\ j # i /\ \A k \in Seats : k = i \/ k = j
  BY TwoSeats
<1> HIDE DEF freed, push, j
<1>3. ASSUME NEW k \in Seats
      PROVE  Suffers(ps[k], apart[k]) /\ apart[k].health = ps[k].health
  <2>1. Sound(ps[i]) /\ Sound(ps[j])
    BY <1>2 DEF Standing
  <2>2. apart[i] = freed(ps[i], push) /\ apart[j] = freed(ps[j], -push)
    BY <1>2 DEF Standing
  <2> HIDE DEF apart, ps
  <2>. QED
    BY <1>1, <1>2, <2>1, <2>2
<1>4. DOMAIN apart = Seats
  BY DEF Standing
<1> HIDE DEF apart
<1>5. Pair(apart)
  BY <1>3, <1>4 DEF Pair, Suffers, Sound
<1>6. Shifted(apart, qs)
  BY <1>5, ClampPushes, PushedShifts
<1> HIDE DEF qs
<1>7. \A k \in Seats : Suffers(ps[k], qs[k]) /\ qs[k].health = ps[k].health
  <2> TAKE k \in Seats
  <2>1. Same(apart[k], qs[k]) /\ Sound(apart[k]) /\ Sound(ps[k])
    BY <1>3, <1>6 DEF Shifted, Suffers, Standing
  <2>2. Suffers(apart[k], qs[k]) /\ qs[k].health = apart[k].health
    BY <2>1, SameKeeps DEF Follows
  <2>. QED
    BY <1>3, <2>1, <2>2, SuffersChain
<1>8. Strikes(a, [a EXCEPT !.players = qs])
  BY <1>6, <1>7, ReplacedStrikes DEF Shifted
<1>9. tech(a, i) = [a EXCEPT !.players = qs]
  BY <1>2, Zenon DEF tech, qs, apart, freed, push, j, Standing
<1>. QED
  BY <1>8, <1>9

\* A connect of step 7: a strike, a throw, or a throw that is broken.
LEMMA ResolveHitStrikes ==
  ASSUME NEW a, Standing(a), Aloft(a), NEW i \in Seats, NEW mv \in MoveType, NEW in
  PROVE  Strikes(a, resolveHit(a, i, mv, in))
<1>1. Strikes(a, applyThrow(a, i, mv))
  <2> DEFINE ap == a.players[i]
             dp == a.players[Other(i)]
             t == Percent(mv.damage, Balance.superDealtPercent)
             g == gainSuper(ap, t)
             paid == [g EXCEPT !.hasHit = TRUE]
  <2>1. Sound(ap) /\ Sound(dp)
    BY TwoSeats DEF Standing
  <2>2. t \in Nat
    BY PercentNat, MoveNumbers, BalanceNumbers
  <2> HIDE DEF ap, t
  <2>3. Follows(ap, g) /\ Suffers(ap, g)
    BY <2>1, <2>2, SuperSound
  <2> HIDE DEF g
  <2>4. Same(g, paid)
    BY <2>3 DEF Follows, Sound, Same, Fields
  <2> HIDE DEF paid
  <2>5. Suffers(ap, paid) /\ paid.health = ap.health
    BY <2>1, <2>3, <2>4, SameKeeps, SuffersChain DEF Follows
  <2>6. Suffers(dp, TakeThrow(dp, mv))
    BY <2>1, ThrowSound
  <2>7. Strikes(a, Settled(a, i, paid, TakeThrow(dp, mv), mv))
    BY <2>5, <2>6, SettledStrikes DEF ap
  <2>8. applyThrow(a, i, mv) \in {tech(a, i), Settled(a, i, paid, TakeThrow(dp, mv), mv)}
    BY Zenon DEF applyThrow, BuildDealt, paid, g, t, ap
  <2>. QED
    BY <2>7, <2>8, TechStrikes
<1>2. Strikes(a, applyHit([a EXCEPT !.players[i].hasHit = TRUE], i, mv, in))
  <2> DEFINE qs == [a.players EXCEPT ![i].hasHit = TRUE]
             b == [a EXCEPT !.players = qs]
  <2>1. Shifted(a.players, qs)
    <3>1. DOMAIN qs = Seats
      BY DEF Standing
    <3>2. ASSUME NEW k \in Seats PROVE Same(a.players[k], qs[k])
      <4>1. qs[k] = IF k = i THEN [a.players[k] EXCEPT !.hasHit = TRUE] ELSE a.players[k]
        BY DEF Standing
      <4>2. DOMAIN a.players[k] = Fields
        BY DEF Standing, Sound
      <4> HIDE DEF qs
      <4>. QED
        BY <4>1, <4>2 DEF Same, Fields
    <3>. QED
      BY <3>1, <3>2 DEF Shifted
  <2>2. b = [a EXCEPT !.players[i].hasHit = TRUE]
    BY Zenon
  <2> HIDE DEF qs
  <2>3. Strikes(a, b)
    BY <2>1, ShiftedStrikes
  <2> HIDE DEF b
  <2>4. Standing(b) /\ Aloft(b)
    BY <2>3, StrikesAloft
  <2>5. Strikes(b, applyHit(b, i, mv, in))
    BY <2>4, ApplyHitStrikes
  <2>6. Strikes(a, applyHit(b, i, mv, in))
    BY <2>3, <2>5, StrikesChain
  <2>. QED
    BY <2>2, <2>6
<1>. QED
  BY <1>1, <1>2 DEF resolveHit

\* The move a fighter is in is a loaded one.
LEMMA MoveOfLoaded ==
  ASSUME NEW p, Sound(p), NEW mv \in MoveOf(p)
  PROVE  mv \in MoveType
  BY MoveLoaded DEF MoveOf, Sound

\* Step 7: both seats, who was hit decided before.
LEMMA ResolveHitsStrikes ==
  ASSUME NEW a, Standing(a), Aloft(a), NEW in
  PROVE  Strikes(a, ResolveHits(a, in))
<1> DEFINE hits(i) == IF connects(a, i, Other(i)) THEN MoveOf(a.players[i]) ELSE {}
           mv(i) == CHOOSE m \in hits(i) : TRUE
           apply(b, i) == IF hits(i) = {} THEN b ELSE resolveHit(b, i, mv(i), in[Other(i)])
<1>1. ASSUME NEW i \in Seats, hits(i) # {}
      PROVE  mv(i) \in MoveType
  <2>1. mv(i) \in hits(i)
    BY <1>1
  <2>2. hits(i) = MoveOf(a.players[i])
    BY <1>1
  <2>. QED
    BY <2>1, <2>2, MoveOfLoaded DEF Standing
<1> HIDE DEF mv, hits
<1>2. ASSUME NEW b, Standing(b), Aloft(b), NEW i \in Seats
      PROVE  Strikes(b, apply(b, i))
  <2>1. Strikes(b, b)
    BY <1>2, StrikesRefl
  <2>2. hits(i) # {} => Strikes(b, resolveHit(b, i, mv(i), in[Other(i)]))
    BY <1>1, <1>2, ResolveHitStrikes
  <2>. QED
    BY <2>1, <2>2
<1> DEFINE first == apply(a, 0)
<1>3. Strikes(a, first)
  BY <1>2 DEF Seats
<1>4. Standing(first) /\ Aloft(first)
  BY <1>3, StrikesAloft
<1> HIDE DEF first
<1>5. Strikes(first, apply(first, 1))
  BY <1>2, <1>4 DEF Seats
<1>6. Strikes(a, apply(first, 1))
  BY <1>3, <1>5, StrikesChain
<1>7. ResolveHits(a, in) = apply(first, 1)
  BY Zenon DEF ResolveHits, first, mv, hits
<1>. QED
  BY <1>6, <1>7

\* The projectiles of this frame.
LEMMA ProjectileStrikes ==
  ASSUME NEW a, Standing(a), Aloft(a), NEW k, NEW in
  PROVE  Strikes(a, InSlot(a, k, in)) /\ Aloft(InSlot(a, k, in)) /\ Standing(InSlot(a, k, in))
<1>1. Strikes(a, a)
  BY StrikesRefl
<1>2. ASSUME k \in Slots, a.projectiles[k].active
      PROVE  LET pr == a.projectiles[k]
                 mv == Roster[a.players[pr.owner].char].moves[pr.move]
             IN  Strikes(a, [applyHit(a, pr.owner, mv, in[Other(pr.owner)])
                              EXCEPT !.projectiles[k] = FreeSlot])
  <2> DEFINE pr == a.projectiles[k]
             mv == Roster[a.players[pr.owner].char].moves[pr.move]
             b == applyHit(a, pr.owner, mv, in[Other(pr.owner)])
             c == [b EXCEPT !.projectiles[k] = FreeSlot]
  <2>1. pr.owner \in Seats /\ mv \in MoveType
    BY <1>2, MoveLoaded DEF Standing, Sound
  <2> HIDE DEF pr, mv
  <2>2. Strikes(a, b)
    BY <2>1, ApplyHitStrikes
  <2> HIDE DEF b
  <2>3. Standing(b)
    BY <2>2 DEF Strikes
  <2>4. /\ DOMAIN c = {"players", "projectiles", "camX", "hitstop", "dealt"}
        /\ c.players = b.players /\ c.hitstop = b.hitstop /\ c.dealt = b.dealt
        /\ c.projectiles = [b.projectiles EXCEPT ![k] = FreeSlot]
    BY <2>3 DEF Standing
  <2> HIDE DEF c
  <2>5. /\ DOMAIN c.projectiles = Slots /\ c.projectiles[k] = FreeSlot
        /\ \A j \in Slots \ {k} : c.projectiles[j] = b.projectiles[j]
    BY <1>2, <2>3, <2>4 DEF Standing
  <2>6. FreeSlot.active = FALSE /\ DOMAIN FreeSlot = {"active", "owner", "move", "x", "y", "vx", "life"}
    BY DEF FreeSlot
  <2>7. Standing(c)
    <3>1. ASSUME NEW j \in Slots, c.projectiles[j].active
          PROVE  /\ c.projectiles[j].owner \in Seats
                 /\ c.projectiles[j].move \in DOMAIN Roster[c.players[c.projectiles[j].owner].char].moves
      <4>1. j # k
        BY <2>5, <2>6, <3>1
      <4>2. c.projectiles[j] = b.projectiles[j]
        BY <2>5, <4>1
      <4>. QED
        BY <2>3, <2>4, <3>1, <4>2 DEF Standing
    <3>2. \A j \in Slots : DOMAIN c.projectiles[j] = {"active", "owner", "move", "x", "y", "vx", "life"}
      BY <2>3, <2>5, <2>6 DEF Standing
    <3>. QED
      BY <2>3, <2>4, <2>5, <3>1, <3>2 DEF Standing
  <2>8. Strikes(a, c)
    BY <2>2, <2>4, <2>7 DEF Strikes
  <2>. QED
    BY <2>8, Zenon DEF pr, mv, b, c
<1>3. Strikes(a, InSlot(a, k, in))
  BY <1>1, <1>2, Zenon DEF InSlot, resolveProjectile
<1>. QED
  BY <1>3, StrikesAloft

\* All slots of the pool.
LEMMA ProjectilesStrike ==
  ASSUME NEW a, Standing(a), Aloft(a), NEW in
  PROVE  Strikes(a, resolveProjectiles(a, in))
<1> DEFINE b == InSlot(a, 0, in)
           c == InSlot(b, 1, in)
           d == InSlot(c, 2, in)
           e == InSlot(d, 3, in)
<1>1. Strikes(a, b) /\ Aloft(b) /\ Standing(b)
  BY ProjectileStrikes
<1> HIDE DEF b
<1>2. Strikes(b, c) /\ Aloft(c) /\ Standing(c)
  BY <1>1, ProjectileStrikes
<1> HIDE DEF c
<1>3. Strikes(c, d) /\ Aloft(d) /\ Standing(d)
  BY <1>2, ProjectileStrikes
<1> HIDE DEF d
<1>4. Strikes(d, e)
  BY <1>3, ProjectileStrikes
<1> HIDE DEF e
<1>5. Strikes(a, c)
  BY <1>1, <1>2, StrikesChain
<1>6. Strikes(a, d)
  BY <1>3, <1>5, StrikesChain
<1>7. Strikes(a, e)
  BY <1>4, <1>6, StrikesChain
<1>. QED
  BY <1>7, Zenon DEF resolveProjectiles, b, c, d, e

\* Step 5: what flies was fired with a move of its owner.
Flown(qs, ps) ==
  /\ DOMAIN qs = Slots
  /\ \A k \in Slots :
       /\ DOMAIN qs[k] = {"active", "owner", "move", "x", "y", "vx", "life"}
       /\ qs[k].active => /\ qs[k].owner \in Seats
                          /\ qs[k].move \in DOMAIN Roster[ps[qs[k].owner].char].moves

\* Flying and expiring.
LEMMA MovedFlown ==
  ASSUME NEW qs, NEW ps, Flown(qs, ps), NEW camX
  PROVE  Flown([k \in Slots |-> moveProjectile(qs[k], camX)], ps)
<1> DEFINE ms == [k \in Slots |-> moveProjectile(qs[k], camX)]
<1>1. ASSUME NEW k \in Slots
      PROVE  /\ DOMAIN ms[k] = {"active", "owner", "move", "x", "y", "vx", "life"}
             /\ ms[k].active => /\ ms[k].owner \in Seats
                                /\ ms[k].move \in DOMAIN Roster[ps[ms[k].owner].char].moves
  <2> DEFINE pr == qs[k]
             q == [pr EXCEPT !.x = pr.x + pr.vx, !.life = @ - 1]
  <2>1. /\ DOMAIN pr = {"active", "owner", "move", "x", "y", "vx", "life"}
        /\ pr.active => /\ pr.owner \in Seats
                        /\ pr.move \in DOMAIN Roster[ps[pr.owner].char].moves
    BY DEF Flown
  <2>2. ms[k] \in {pr, FreeSlot, q}
    BY Zenon DEF moveProjectile
  <2> HIDE DEF pr
  <2>3. /\ DOMAIN q = {"active", "owner", "move", "x", "y", "vx", "life"}
        /\ q.active = pr.active /\ q.owner = pr.owner /\ q.move = pr.move
    BY <2>1
  <2>4. FreeSlot.active = FALSE /\ DOMAIN FreeSlot = {"active", "owner", "move", "x", "y", "vx", "life"}
    BY DEF FreeSlot
  <2> HIDE DEF q, ms
  <2>. QED
    BY <2>1, <2>2, <2>3, <2>4
<1> HIDE DEF ms
<1>2. DOMAIN ms = Slots
  BY DEF ms
<1>. QED
  BY <1>1, <1>2 DEF Flown, ms

\* Firing: a full pool drops the projectile.
LEMMA SpawnFlown ==
  ASSUME NEW qs, NEW ps, Flown(qs, ps), NEW i \in Seats, Sound(ps[i])
  PROVE  Flown(spawnFor(qs, i, ps[i]), ps)
<1> DEFINE p == ps[i]
           free == {k \in Slots : ~qs[k].active}
           first == CHOOSE k \in free : \A j \in free : k <= j
           spec == Roster[p.char].moves[p.move].proj
           shot == [active |-> TRUE, owner |-> i, move |-> p.move,
                    x |-> p.x + spec.spawnX * p.facing, y |-> p.y + spec.spawnY,
                    vx |-> spec.speed * p.facing, life |-> spec.life]
           rs == [qs EXCEPT ![first] = shot]
<1>1. free # {} => first \in Slots
  <2>1. free \in SUBSET Nat
    BY PoolAssumption DEF Slots
  <2>2. free # {} => \E k \in free : \A j \in free : k <= j
    BY <2>1, NatLeast
  <2>3. free # {} => first \in free
    BY <2>2, Zenon
  <2>. QED
    BY <2>3
<1>2. (\E mv \in MoveOf(p) : Fires(mv) /\ p.stateFrame = mv.startup)
         => p.move \in DOMAIN Roster[p.char].moves
  BY DEF MoveOf
<1>3. /\ DOMAIN shot = {"active", "owner", "move", "x", "y", "vx", "life"}
      /\ shot.owner = i /\ shot.move = p.move
  OBVIOUS
<1>4. spawnFor(qs, i, p) = qs \/ (spawnFor(qs, i, p) = rs /\ free # {} /\ p.move \in DOMAIN Roster[p.char].moves)
  BY <1>2, Zenon DEF spawnFor, spawn
<1> HIDE DEF first, shot, free
<1>5. free # {} /\ p.move \in DOMAIN Roster[p.char].moves => Flown(rs, ps)
  <2> SUFFICES ASSUME free # {}, p.move \in DOMAIN Roster[p.char].moves
               PROVE  Flown(rs, ps)
    OBVIOUS
  <2>1. DOMAIN rs = Slots /\ rs[first] = shot /\ \A k \in Slots \ {first} : rs[k] = qs[k]
    BY <1>1 DEF Flown
  <2> HIDE DEF rs
  <2>2. ASSUME NEW k \in Slots
        PROVE  /\ DOMAIN rs[k] = {"active", "owner", "move", "x", "y", "vx", "life"}
               /\ rs[k].active => /\ rs[k].owner \in Seats
                                  /\ rs[k].move \in DOMAIN Roster[ps[rs[k].owner].char].moves
    <3>1. CASE k = first
      BY <1>3, <2>1, <3>1
    <3>2. CASE k # first
      <4>1. rs[k] = qs[k]
        BY <2>1, <3>2
      <4>. QED
        BY <4>1 DEF Flown
    <3>. QED
      BY <3>1, <3>2
  <2>. QED
    BY <2>1, <2>2 DEF Flown
<1>. QED
  BY <1>4, <1>5

\* Step 5 as a whole.
LEMMA AdvanceProjectilesStands ==
  ASSUME NEW a, Standing(a)
  PROVE  Strikes(a, advanceProjectiles(a))
<1> DEFINE ps == a.players
           m == [k \in Slots |-> moveProjectile(a.projectiles[k], a.camX)]
           n == spawnFor(m, 0, ps[0])
           o == spawnFor(n, 1, ps[1])
           b == [a EXCEPT !.projectiles = o]
<1>1. 0 \in Seats /\ 1 \in Seats
  BY DEF Seats
<1>2. Flown(a.projectiles, ps) /\ Sound(ps[0]) /\ Sound(ps[1])
  BY <1>1, Zenon DEF Flown, Standing
<1>3. Flown(m, ps)
  BY <1>2, MovedFlown
<1> HIDE DEF m
<1>4. Flown(n, ps)
  BY <1>1, <1>2, <1>3, SpawnFlown
<1> HIDE DEF n
<1>5. Flown(o, ps)
  BY <1>1, <1>2, <1>4, SpawnFlown
<1> HIDE DEF o
<1>6. /\ DOMAIN b = {"players", "projectiles", "camX", "hitstop", "dealt"}
      /\ b.players = a.players /\ b.projectiles = o /\ b.hitstop = a.hitstop /\ b.dealt = a.dealt
  BY DEF Standing
<1> HIDE DEF b
<1>7. Standing(b)
  BY <1>5, <1>6, Zenon DEF Standing, Flown
<1>8. Strikes(b, b)
  BY <1>7, StrikesRefl
<1>9. Strikes(a, b)
  BY <1>6, <1>8 DEF Strikes
<1>. QED
  BY <1>9, Zenon DEF advanceProjectiles, b, o, n, m

\* Steps 1 to 4: nobody's health changes, and whoever is in the air is above
\* the floor.
LEMMA MovePlayersStand ==
  ASSUME NEW a, Standing(a), NEW in
  PROVE  LET b == MovePlayers(a, in)
         IN  /\ Standing(b) /\ Aloft(b) /\ b.dealt = a.dealt
             /\ \A i \in Seats : Follows(a.players[i], b.players[i])
<1> DEFINE ps == a.players
           moved(i) == fall(advanceState(resolveInputs(ps[i], in[i])))
           stepped == [ps EXCEPT ![0] = moved(0), ![1] = moved(1)]
           qs == Sides(stepped, a.camX)
           b == [a EXCEPT !.players = qs]
<1>1. DOMAIN ps = Seats /\ \A i \in Seats : Sound(ps[i])
  BY DEF Standing
<1>2. ASSUME NEW i \in Seats
      PROVE  Follows(ps[i], moved(i)) /\ Afloat(moved(i))
  <2> DEFINE q == resolveInputs(ps[i], in[i])
             r == advanceState(q)
  <2>1. Follows(ps[i], q)
    BY <1>1, InputsSound
  <2> HIDE DEF q
  <2>2. Follows(q, r)
    BY <2>1, StateSound DEF Follows
  <2> HIDE DEF r
  <2>3. Follows(r, fall(r)) /\ Afloat(fall(r))
    BY <2>2, FallSound DEF Follows
  <2>4. Follows(ps[i], fall(r))
    BY <2>1, <2>2, <2>3 DEF Follows
  <2>. QED
    BY <2>3, <2>4 DEF q, r
<1> HIDE DEF moved
<1>3. DOMAIN stepped = Seats /\ \A i \in Seats : stepped[i] = moved(i)
  BY <1>1 DEF Seats
<1> HIDE DEF stepped, ps
<1>4. Pair(stepped)
  BY <1>2, <1>3 DEF Pair, Follows, Sound
<1>9. Shifted(stepped, qs)
  BY <1>4, SidesPush
<1> HIDE DEF qs
<1>10. ASSUME NEW i \in Seats
       PROVE  Follows(ps[i], qs[i]) /\ Afloat(qs[i])
  <2>1. Same(moved(i), qs[i]) /\ Follows(ps[i], moved(i)) /\ Afloat(moved(i))
    BY <1>2, <1>3, <1>9 DEF Shifted
  <2>2. Follows(moved(i), qs[i]) /\ Afloat(qs[i])
    BY <2>1, SameKeeps DEF Follows
  <2>. QED
    BY <2>1, <2>2 DEF Follows
<1>11. /\ DOMAIN b = {"players", "projectiles", "camX", "hitstop", "dealt"}
       /\ b.players = qs /\ b.projectiles = a.projectiles /\ b.hitstop = a.hitstop /\ b.dealt = a.dealt
  BY DEF Standing
<1> HIDE DEF b
<1>12. DOMAIN qs = Seats
  BY <1>9 DEF Shifted
<1>13. Standing(b)
  <2>1. \A i \in Seats : qs[i].char = a.players[i].char /\ Sound(qs[i])
    BY <1>10 DEF Follows, ps
  <2>. QED
    BY <1>11, <1>12, <2>1 DEF Standing
<1>14. MovePlayers(a, in) = b
  BY Zenon DEF MovePlayers, Sides, b, qs, stepped, moved, ps
<1>. QED
  BY <1>10, <1>11, <1>13, <1>14 DEF Aloft, ps

\* Steps 5 to 7.
LEMMA StruckStrikes ==
  ASSUME NEW a, Standing(a), NEW in
  PROVE  Strikes(MovePlayers(a, in), Struck(a, in))
<1> DEFINE b == MovePlayers(a, in)
           c == advanceProjectiles(b)
           d == ResolveHits(c, in)
           e == resolveProjectiles(d, in)
<1>1. Standing(b) /\ Aloft(b)
  BY MovePlayersStand
<1> HIDE DEF b
<1>2. Strikes(b, c) /\ Standing(c) /\ Aloft(c)
  BY <1>1, AdvanceProjectilesStands, StrikesAloft
<1> HIDE DEF c
<1>3. Strikes(c, d) /\ Standing(d) /\ Aloft(d)
  BY <1>2, ResolveHitsStrikes, StrikesAloft
<1> HIDE DEF d
<1>4. Strikes(d, e)
  BY <1>3, ProjectilesStrike
<1> HIDE DEF e
<1>5. Strikes(b, d)
  BY <1>1, <1>2, <1>3, StrikesChain
<1>6. Strikes(b, e)
  BY <1>1, <1>4, <1>5, StrikesChain
<1>. QED
  BY <1>6, Zenon DEF Struck, b, c, d, e

\* Step 8 for one player.
LEMMA RechargeSound ==
  ASSUME NEW p, Sound(p)
  PROVE  Follows(p, Recharge(p)) /\ Recharge(p).state = p.state
<1> DEFINE n == driveRegen(p)
           full == [p EXCEPT !.drive = DriveMax, !.burnout = FALSE]
           more == [p EXCEPT !.drive = p.drive + n]
<1>1. n \in Nat
  BY BalanceNumbers DEF driveRegen
<1> HIDE DEF n
<1>2. p.drive \in 0 .. DriveMax /\ (p.drive = 0 => p.burnout)
  BY DEF Sound, Gauges
<1>3. Follows(p, full) /\ full.state = p.state
  <2>1. /\ DOMAIN full = Fields
        /\ \A f \in Fields \ {"drive", "burnout"} : full[f] = p[f]
        /\ full.drive = DriveMax /\ full.burnout = FALSE
    BY DEF Sound, Fields
  <2> HIDE DEF full
  <2>2. /\ full.char = p.char /\ full.ai = p.ai /\ full.health = p.health /\ full.super = p.super
        /\ full.state = p.state /\ full.y = p.y /\ full.vy = p.vy /\ full.juggle = p.juggle
        /\ full.landing = p.landing /\ full.combo = p.combo /\ full.comboStarter = p.comboStarter
        /\ full.down = p.down /\ full.move = p.move
    BY <2>1, Zenon DEF Fields
  <2>3. DriveMax \in 0 .. DriveMax /\ DriveMax # 0
    BY GaugeSizes
  <2>4. Gauges(full)
    BY <2>1, <2>2, <2>3 DEF Sound, Gauges
  <2>5. Sound(full)
    BY <2>1, <2>2, <2>4, Zenon DEF Sound, Debts, Rising, Moving
  <2>. QED
    BY <2>2, <2>5 DEF Follows
<1>4. ~(p.drive + n >= DriveMax) => Follows(p, more) /\ more.state = p.state
  <2> SUFFICES ASSUME ~(p.drive + n >= DriveMax) PROVE Follows(p, more) /\ more.state = p.state
    OBVIOUS
  <2>1. /\ DOMAIN more = Fields
        /\ \A f \in Fields \ {"drive"} : more[f] = p[f]
        /\ more.drive = p.drive + n
    BY DEF Sound, Fields
  <2>2. /\ p.drive + n \in 0 .. DriveMax /\ p.drive + n # DriveMax
        /\ p.drive + n = 0 => p.drive = 0
    BY <1>1, <1>2, GaugeSizes
  <2> HIDE DEF more
  <2>3. /\ more.char = p.char /\ more.ai = p.ai /\ more.health = p.health /\ more.super = p.super
        /\ more.state = p.state /\ more.y = p.y /\ more.vy = p.vy /\ more.juggle = p.juggle
        /\ more.landing = p.landing /\ more.combo = p.combo /\ more.comboStarter = p.comboStarter
        /\ more.down = p.down /\ more.move = p.move /\ more.burnout = p.burnout
    BY <2>1, Zenon DEF Fields
  <2>4. Gauges(more)
    BY <1>2, <2>1, <2>2, <2>3, Zenon DEF Sound, Gauges
  <2>5. Sound(more)
    BY <2>1, <2>3, <2>4, Zenon DEF Sound, Debts, Rising, Moving
  <2>. QED
    BY <2>3, <2>5 DEF Follows
<1>5. Recharge(p) = IF p.drive + n >= DriveMax THEN full ELSE more
  BY Zenon DEF Recharge, n
<1>. QED
  BY <1>3, <1>4, <1>5, Zenon

\* The lab refills.
LEMMA ToppedUpSound ==
  ASSUME NEW p, Sound(p)
  PROVE  LET q == ToppedUp(p)
         IN  Sound(q) /\ q.char = p.char /\ q.ai = p.ai /\ q.state = p.state /\ q.health > 0
<1> DEFINE q == ToppedUp(p)
<1>1. /\ DOMAIN q = Fields
      /\ \A f \in Fields \ {"health", "drive", "super", "burnout"} : q[f] = p[f]
      /\ q.health = Roster[p.char].health /\ q.drive = DriveMax /\ q.super = SuperMax
      /\ q.burnout = FALSE
  BY DEF ToppedUp, Sound, Fields
<1>2. Roster[p.char].health \in Nat \ {0}
  BY CharacterLoaded DEF Sound
<1> HIDE DEF q
<1>3. /\ q.char = p.char /\ q.ai = p.ai
      /\ q.state = p.state /\ q.y = p.y /\ q.vy = p.vy /\ q.juggle = p.juggle
      /\ q.landing = p.landing /\ q.combo = p.combo /\ q.comboStarter = p.comboStarter
      /\ q.down = p.down /\ q.move = p.move
  BY <1>1, Zenon DEF Fields
<1>4. /\ DriveMax \in 0 .. DriveMax /\ DriveMax # 0 /\ SuperMax \in 0 .. SuperMax
      /\ Roster[p.char].health \in 0 .. Roster[p.char].health /\ Roster[p.char].health > 0
  BY <1>2, GaugeSizes
<1>5. Gauges(q)
  BY <1>1, <1>3, <1>4 DEF Gauges
<1>6. Sound(q)
  BY <1>1, <1>3, <1>5, Zenon DEF Sound, Debts, Rising, Moving
<1>. QED
  BY <1>1, <1>3, <1>4, <1>6 DEF q

\* The end of a combo.
LEMMA EndComboSound ==
  ASSUME NEW p, Sound(p)
  PROVE  LET q == endCombo(p)
         IN  Follows(p, q) /\ q.state = p.state /\ (q.combo > 0 => q.state = "hitstun")
<1> DEFINE q == [p EXCEPT !.combo = 0, !.comboStarter = 0]
<1>1. Follows(p, q) /\ q.state = p.state /\ q.combo = 0
  BY DEF Follows, Sound, Gauges, Debts, Rising, Moving, Fields
<1>2. Follows(p, p)
  BY DEF Follows
<1> HIDE DEF q
<1>. QED
  BY <1>1, <1>2 DEF endCombo, q

\* Combos count in hitstun.
Counted(a) == \A i \in Seats : a.players[i].combo > 0 => a.players[i].state = "hitstun"

\* A whole frame of the fight, whatever the inputs.
LEMMA FightOnStands ==
  ASSUME NEW a, Standing(a), NEW in
  PROVE  LET b == FightOn(a, in)
         IN  /\ Standing(b) /\ Counted(b)
             /\ \A i \in Seats :
                  /\ b.players[i].char = a.players[i].char /\ b.players[i].ai = a.players[i].ai
                  /\ a.players[i].health > 0 => Mortal(b.players[i])
                  /\ ~flow.training => b.dealt[i] - a.dealt[i] = a.players[Other(i)].health - b.players[Other(i)].health
                  /\ ~flow.training /\ a.players[i].health > 0 => b.players[i].health <= a.players[i].health
<1> DEFINE m == MovePlayers(a, in)
           s == Struck(a, in)
           ps == s.players
           rs == updateResources(ps, flow.training)
           qs == Each(rs, endCombo)
           t == [s EXCEPT !.players = qs]
           b == updateCamera(t)
<1>1. /\ Standing(m) /\ m.dealt = a.dealt
      /\ \A i \in Seats : Follows(a.players[i], m.players[i])
  BY MovePlayersStand
<1>2. Strikes(m, s)
  BY StruckStrikes
<1> HIDE DEF m, s
<1>3. Standing(s) /\ DOMAIN ps = Seats /\ \A i \in Seats : Sound(ps[i])
  BY <1>2 DEF Strikes, Standing
<1>4. /\ DOMAIN rs = Seats
      /\ \/ \A i \in Seats : rs[i] = Recharge(ps[i])
         \/ flow.training /\ \A i \in Seats : rs[i] = ToppedUp(ps[i])
  <2>1. CASE flow.training /\ ~anyoneStunned(ps)
    <3>1. rs = [ps EXCEPT ![0] = ToppedUp(ps[0]), ![1] = ToppedUp(ps[1])]
      BY <2>1, Zenon DEF updateResources, Each
    <3> HIDE DEF rs
    <3>. QED
      BY <1>3, <2>1, <3>1 DEF Seats
  <2>2. CASE ~(flow.training /\ ~anyoneStunned(ps))
    <3>1. rs = [ps EXCEPT ![0] = Recharge(ps[0]), ![1] = Recharge(ps[1])]
      BY <2>2, Zenon DEF updateResources, Each
    <3> HIDE DEF rs
    <3>. QED
      BY <1>3, <3>1 DEF Seats
  <2>. QED
    BY <2>1, <2>2
<1> HIDE DEF rs
<1>5. ASSUME NEW i \in Seats
      PROVE  /\ Sound(rs[i]) /\ rs[i].char = ps[i].char /\ rs[i].ai = ps[i].ai /\ rs[i].state = ps[i].state
             /\ rs[i].health = ps[i].health \/ (flow.training /\ rs[i].health > 0)
  <2>1. Follows(ps[i], Recharge(ps[i])) /\ Recharge(ps[i]).state = ps[i].state
    BY <1>3, RechargeSound
  <2> DEFINE u == ToppedUp(ps[i])
  <2>2. Sound(u) /\ u.char = ps[i].char /\ u.ai = ps[i].ai /\ u.state = ps[i].state /\ u.health > 0
    BY <1>3, ToppedUpSound
  <2> HIDE DEF u
  <2>3. rs[i] = Recharge(ps[i]) \/ (flow.training /\ rs[i] = u)
    BY <1>4, Zenon DEF u
  <2>. QED
    BY <2>1, <2>2, <2>3, Zenon DEF Follows
<1>6. DOMAIN qs = Seats /\ \A i \in Seats : qs[i] = endCombo(rs[i])
  <2>1. qs = [rs EXCEPT ![0] = endCombo(rs[0]), ![1] = endCombo(rs[1])]
    BY Zenon DEF Each
  <2> HIDE DEF qs
  <2>. QED
    BY <1>4, <2>1 DEF Seats
<1> HIDE DEF qs
<1>7. ASSUME NEW i \in Seats
      PROVE  /\ Sound(qs[i]) /\ qs[i].char = ps[i].char /\ qs[i].ai = ps[i].ai /\ qs[i].state = ps[i].state
             /\ qs[i].health = ps[i].health \/ (flow.training /\ qs[i].health > 0)
             /\ qs[i].combo > 0 => qs[i].state = "hitstun"
  <2> DEFINE u == endCombo(rs[i])
  <2>1. Follows(rs[i], u) /\ u.state = rs[i].state /\ (u.combo > 0 => u.state = "hitstun")
    BY <1>5, EndComboSound
  <2>2. qs[i] = u
    BY <1>6
  <2> HIDE DEF u
  <2>. QED
    BY <1>5, <2>1, <2>2 DEF Follows
<1>8. /\ DOMAIN t = {"players", "projectiles", "camX", "hitstop", "dealt"}
      /\ t.players = qs /\ t.projectiles = s.projectiles /\ t.hitstop = s.hitstop /\ t.dealt = s.dealt
  BY <1>3 DEF Standing
<1> HIDE DEF t
<1>9. \E c : b = [t EXCEPT !.camX = c]
  BY Zenon DEF updateCamera
<1>10. /\ DOMAIN b = {"players", "projectiles", "camX", "hitstop", "dealt"}
       /\ b.players = qs /\ b.projectiles = s.projectiles /\ b.hitstop = s.hitstop /\ b.dealt = s.dealt
  BY <1>8, <1>9
<1> HIDE DEF b
<1>11. Standing(b) /\ Counted(b)
  BY <1>3, <1>6, <1>7, <1>10 DEF Standing, Counted
<1>12. ASSUME NEW i \in Seats
       PROVE  /\ b.players[i].char = a.players[i].char /\ b.players[i].ai = a.players[i].ai
              /\ a.players[i].health > 0 => Mortal(b.players[i])
              /\ ~flow.training /\ a.players[i].health > 0 => b.players[i].health <= a.players[i].health
  <2>1. Suffers(m.players[i], ps[i]) /\ Follows(a.players[i], m.players[i])
    BY <1>1, <1>2 DEF Strikes
  <2>2. a.players[i].health > 0 => Mortal(m.players[i])
    BY <2>1 DEF Mortal, Follows
  <2>3. a.players[i].health > 0 => Mortal(ps[i]) /\ ps[i].health <= a.players[i].health
    BY <2>1, <2>2 DEF Suffers, Follows
  <2>. QED
    BY <1>7, <1>10, <2>1, <2>3 DEF Mortal, Suffers, Follows
<1>13. ASSUME NEW i \in Seats, ~flow.training
       PROVE  b.dealt[i] - a.dealt[i] = a.players[Other(i)].health - b.players[Other(i)].health
  <2>1. s.dealt[i] - m.dealt[i] = m.players[Other(i)].health - ps[Other(i)].health
    BY <1>2 DEF Strikes
  <2>2. Other(i) \in Seats
    BY TwoSeats
  <2>3. m.players[Other(i)].health = a.players[Other(i)].health /\ qs[Other(i)].health = ps[Other(i)].health
    BY <1>1, <1>7, <1>13, <2>2 DEF Follows
  <2>. QED
    BY <1>1, <1>10, <2>1, <2>3
<1>14. FightOn(a, in) = b
  BY Zenon DEF FightOn, b, t, qs, rs, s
<1>. QED
  BY <1>11, <1>12, <1>13, <1>14

\* Recording the inputs of a frame moves nobody and costs nobody anything.
LEMMA RecordedKeeps ==
  ASSUME Standing(arena), NEW press
  PROVE  LET b == Recorded(press)
         IN  /\ Standing(b) /\ b.hitstop = arena.hitstop /\ b.dealt = arena.dealt
             /\ \A i \in Seats : Same(arena.players[i], b.players[i])
<1> DEFINE ps == arena.players
           pressing(i) == record([ps[i] EXCEPT !.plan = press[i].plan], press[i].in)
           qs == [ps EXCEPT ![0] = pressing(0), ![1] = pressing(1)]
           b == [arena EXCEPT !.players = qs]
<1>1. DOMAIN ps = Seats /\ \A i \in Seats : DOMAIN ps[i] = Fields
  BY DEF Standing, Sound
<1>2. \A i \in Seats : Same(ps[i], pressing(i))
  <2>1. \A p, plan, in : DOMAIN p = Fields => Same(p, record([p EXCEPT !.plan = plan], in))
    <3>1. \A p, plan, x, y :
            DOMAIN p = Fields => Same(p, [[p EXCEPT !.plan = plan] EXCEPT !.inputs = x, !.unspent = y])
      <4> TAKE p, plan, x, y
      <4> HAVE DOMAIN p = Fields
      <4> DEFINE q == [[p EXCEPT !.plan = plan] EXCEPT !.inputs = x, !.unspent = y]
      <4>1. DOMAIN q = DOMAIN p /\ \A f \in Fields \ {"plan", "inputs", "unspent"} : q[f] = p[f]
        BY DEF Fields
      <4> HIDE DEF q
      <4>2. Same(p, q)
        BY <4>1 DEF Same, Fields
      <4>. QED
        BY <4>2 DEF q
    <3>. QED
      BY <3>1, Zenon DEF record
  <2>. QED
    BY <1>1, <2>1
<1> HIDE DEF pressing
<1>3. DOMAIN qs = Seats /\ \A i \in Seats : qs[i] = pressing(i)
  BY <1>1 DEF Seats
<1> HIDE DEF qs
<1>4. Shifted(arena.players, qs)
  BY <1>2, <1>3 DEF Shifted
<1>5. /\ b.players = qs /\ b.hitstop = arena.hitstop /\ b.dealt = arena.dealt
  BY DEF Standing
<1>6. Standing(b)
  BY <1>4, ShiftedStrikes DEF Strikes
<1>7. Recorded(press) = b
  <2>1. arena.players = ps
    OBVIOUS
  <2>2. Recorded(press) = [arena EXCEPT !.players = [arena.players EXCEPT ![0] = pressing(0), ![1] = pressing(1)]]
    BY DEF Recorded, pressing, Standing
  <2>. QED
    BY <2>2 DEF qs
<1> HIDE DEF b
<1>. QED
  BY <1>2, <1>3, <1>5, <1>6, <1>7

\* A fighter at the start of a round: full health, nothing owed, and of the last
\* round the super gauge and the tier of the scripted opponent.
Opens(p, c, super, ai) ==
  /\ Sound(p) /\ p.char = c /\ p.ai = ai /\ p.super = super
  /\ p.health = Roster[c].health /\ p.health > 0 /\ p.combo = 0

\* A fresh fighter opens a round, also with the gauge and the tier carried over.
LEMMA FreshIs ==
  ASSUME NEW c \in DOMAIN Roster, NEW x, NEW facing, NEW s \in 0 .. SuperMax, NEW t
  PROVE  /\ Opens([FreshPlayer(x, facing, c) EXCEPT !.super = s, !.ai = t], c, s, t)
         /\ Opens([FreshPlayer(x, facing, c) EXCEPT !.ai = t], c, 0, t)
         /\ Opens(FreshPlayer(x, facing, c), c, 0, 0)
<1>1. ASSUME NEW p, NEW super \in 0 .. SuperMax, NEW ai,
             DOMAIN p = Fields, p.char = c, p.ai = ai, p.super = super,
             p.health = Roster[c].health, p.drive = DriveMax, p.burnout = FALSE,
             p.y = GroundY, p.vy = 0, p.juggle = 0, p.landing = 0, p.combo = 0,
             p.comboStarter = 0, p.down = FALSE, p.state = "idle"
      PROVE  Opens(p, c, super, ai)
  <2>1. /\ Roster[c].health \in 0 .. Roster[c].health /\ Roster[c].health > 0
        /\ DriveMax \in 0 .. DriveMax /\ DriveMax # 0
    BY CharacterLoaded, GaugeSizes
  <2>2. Gauges(p)
    BY <1>1, <2>1 DEF Gauges
  <2>3. Debts(p) /\ Rising(p) /\ Moving(p)
    BY <1>1 DEF Debts, Rising, Moving
  <2>4. Sound(p)
    BY <1>1, <2>2, <2>3 DEF Sound, GroundY
  <2>. QED
    BY <1>1, <2>1, <2>4 DEF Opens
<1> DEFINE p == FreshPlayer(x, facing, c)
           q == [p EXCEPT !.ai = t]
           r == [p EXCEPT !.super = s, !.ai = t]
<1>2. /\ DOMAIN p = Fields /\ p.char = c /\ p.ai = 0 /\ p.super = 0
      /\ p.health = Roster[c].health /\ p.drive = DriveMax /\ p.burnout = FALSE
      /\ p.y = GroundY /\ p.vy = 0 /\ p.juggle = 0 /\ p.landing = 0 /\ p.combo = 0
      /\ p.comboStarter = 0 /\ p.down = FALSE /\ p.state = "idle"
  BY DEF FreshPlayer, Fields
<1> HIDE DEF p
<1>3. /\ DOMAIN q = Fields /\ q.ai = t
      /\ \A f \in {"char", "super", "health", "drive", "burnout", "y", "vy", "juggle", "landing",
                    "combo", "comboStarter", "down", "state"} : q[f] = p[f]
  BY <1>2 DEF Fields
<1>4. /\ DOMAIN r = Fields /\ r.ai = t /\ r.super = s
      /\ \A f \in {"char", "health", "drive", "burnout", "y", "vy", "juggle", "landing",
                    "combo", "comboStarter", "down", "state"} : r[f] = p[f]
  BY <1>2 DEF Fields
<1> HIDE DEF q, r
<1>5. 0 \in 0 .. SuperMax
  BY GaugeSizes
<1>6. Opens(p, c, 0, 0)
  BY <1>1, <1>2, <1>5
<1>7. Opens(q, c, 0, t)
  BY <1>1, <1>2, <1>3, <1>5
<1>8. Opens(r, c, s, t)
  BY <1>1, <1>2, <1>4
<1>. QED
  BY <1>6, <1>7, <1>8 DEF p, q, r

\* A match, or a round, starts with two living fighters who owe nothing.
LEMMA OpensStanding ==
  ASSUME NEW a,
         DOMAIN a = {"players", "projectiles", "camX", "hitstop", "dealt"},
         a.projectiles = [k \in Slots |-> FreeSlot], a.hitstop = 0,
         DOMAIN a.dealt = Seats, \A i \in Seats : a.dealt[i] \in Int,
         DOMAIN a.players = Seats,
         \A i \in Seats : /\ Sound(a.players[i]) /\ a.players[i].health > 0
                          /\ a.players[i].combo = 0
  PROVE  Standing(a) /\ Counted(a) /\ Dead(a.players) = {}
<1>1. FreeSlot.active = FALSE /\ DOMAIN FreeSlot = {"active", "owner", "move", "x", "y", "vx", "life"}
  BY DEF FreeSlot
<1>2. \A k \in Slots : a.projectiles[k] = FreeSlot
  OBVIOUS
<1>3. Standing(a)
  BY <1>1, <1>2 DEF Standing
<1>4. Dead(a.players) = {}
  <2>1. \A i \in Seats : ~(a.players[i].health <= 0)
    BY HealthInt
  <2>. QED
    BY <2>1 DEF Dead
<1>. QED
  BY <1>3, <1>4 DEF Counted

\* The start of a new round.
LEMMA ResetStands ==
  ASSUME NEW a, Standing(a)
  PROVE  LET b == ResetArena(a)
         IN  /\ Standing(b) /\ Counted(b) /\ Dead(b.players) = {} /\ b.dealt = a.dealt
             /\ \A i \in Seats : /\ b.players[i].char = a.players[i].char
                                 /\ b.players[i].ai = a.players[i].ai
                                 /\ b.players[i].super = a.players[i].super
                                 /\ b.players[i].health = Roster[a.players[i].char].health
<1> DEFINE chars == [i \in Seats |-> a.players[i].char]
           fresh == NewMatch(chars)
           again(i) == [fresh.players[i] EXCEPT !.super = a.players[i].super, !.ai = a.players[i].ai]
           qs == [i \in Seats |-> again(i)]
           b == [fresh EXCEPT !.dealt = a.dealt, !.players = qs]
<1>1. \A i \in Seats : /\ chars[i] = a.players[i].char /\ chars[i] \in DOMAIN Roster
                       /\ a.players[i].super \in 0 .. SuperMax
  BY DEF Standing, Sound, Gauges
<1>2. chars \in [Seats -> DOMAIN Roster]
  BY <1>1
<1> HIDE DEF chars
<1>3. /\ DOMAIN fresh = {"players", "projectiles", "camX", "hitstop", "dealt"}
      /\ fresh.players = StartingPlayers(chars) /\ fresh.hitstop = 0
      /\ fresh.projectiles = [k \in Slots |-> FreeSlot]
  BY DEF NewMatch
<1> HIDE DEF fresh
<1>4. ASSUME NEW i \in Seats
      PROVE  /\ Sound(again(i)) /\ again(i).char = a.players[i].char /\ again(i).ai = a.players[i].ai
             /\ again(i).super = a.players[i].super /\ again(i).health > 0 /\ again(i).combo = 0
             /\ again(i).health = Roster[a.players[i].char].health
  <2>1. fresh.players[i] \in {FreshPlayer(-FromInt(StartX), 1, chars[i]),
                              FreshPlayer(FromInt(StartX), -1, chars[i])}
    BY <1>3 DEF StartingPlayers, Seats
  <2>2. PICK x, facing : fresh.players[i] = FreshPlayer(x, facing, chars[i])
    BY <2>1
  <2> DEFINE c == chars[i]
             s == a.players[i].super
             t == a.players[i].ai
  <2>3. again(i) = [FreshPlayer(x, facing, c) EXCEPT !.super = s, !.ai = t]
    BY <2>2
  <2>4. c \in DOMAIN Roster /\ s \in 0 .. SuperMax /\ c = a.players[i].char
    BY <1>1
  <2> HIDE DEF again, c, s, t
  <2>5. Opens([FreshPlayer(x, facing, c) EXCEPT !.super = s, !.ai = t], c, s, t)
    <3>1. c \in DOMAIN Roster /\ s \in 0 .. SuperMax
      BY <2>4
    <3>. QED
      BY <3>1, FreshIs
  <2>6. Opens(again(i), c, s, t)
    BY <2>3, <2>5, Zenon
  <2>. QED
    BY <2>4, <2>6 DEF s, t, Opens
<1> HIDE DEF again
<1>5. /\ DOMAIN b = {"players", "projectiles", "camX", "hitstop", "dealt"}
      /\ b.players = qs /\ b.hitstop = 0 /\ b.dealt = a.dealt
      /\ b.projectiles = [k \in Slots |-> FreeSlot]
  BY <1>3
<1>6. DOMAIN qs = Seats /\ \A i \in Seats : qs[i] = again(i)
  OBVIOUS
<1>7. ResetArena(a) = b
  BY Zenon DEF ResetArena, b, qs, again, fresh, chars
<1> HIDE DEF b, qs
<1>8. DOMAIN a.dealt = Seats /\ \A i \in Seats : a.dealt[i] \in Int
  BY DEF Standing
<1>9. Standing(b) /\ Counted(b) /\ Dead(b.players) = {}
  BY <1>4, <1>5, <1>6, <1>8, OpensStanding
<1>. QED
  BY <1>4, <1>5, <1>6, <1>7, <1>9

(***************************************************************************)
(* The round flow.                                                         *)
(***************************************************************************)
Running(f) ==
  /\ DOMAIN f = {"phase", "phaseFrame", "timer", "training", "round", "wins",
                 "roundWinner", "winner"}
  /\ f.phase \in Phases /\ f.phaseFrame \in Int /\ f.timer \in Int /\ f.round \in Nat
  /\ DOMAIN f.wins = Seats /\ f.wins[0] \in Nat /\ f.wins[1] \in Nat

\* The books of the rounds, without what they say of the fighters.
Booked(f) ==
  /\ f.round <= MaxRounds /\ f.wins[0] + f.wins[1] <= f.round
  /\ f.wins[0] < RoundsToWin \/ f.wins[1] < RoundsToWin
  /\ f.phase \in {"fight", "intro"} =>
       /\ f.wins[0] + f.wins[1] < f.round /\ f.timer > 0
       /\ f.wins[0] < RoundsToWin /\ f.wins[1] < RoundsToWin
  /\ f.phase # "matchEnd" => f.winner = RoundNobody
  /\ f.phase = "matchEnd" =>
       /\ f.winner \in Seats
       /\ \A i \in Seats : f.wins[i] >= RoundsToWin => i = f.winner

\* A later flow of the same match, with less of it left.
Advances(f, g) ==
  /\ g.training = f.training /\ \A i \in Seats : g.wins[i] >= f.wins[i]
  /\ \/ g.round > f.round
     \/ /\ g.round = f.round
        /\ \/ PhasesLeft[g.phase] < PhasesLeft[f.phase]
           \/ /\ g.phase = f.phase
              /\ IF f.phase = "fight" THEN g.timer < f.timer ELSE g.phaseFrame > f.phaseFrame

\* The phases of a round, by how many are left.
LEMMA PhaseOrder ==
  /\ PhasesLeft["matchEnd"] = 0 /\ PhasesLeft["roundEnd"] = 1 /\ PhasesLeft["ko"] = 2
  /\ PhasesLeft["fight"] = 3 /\ PhasesLeft["intro"] = 4
  BY DEF PhasesLeft

\* The flow of a new match.
LEMMA FlowStarts ==
  ASSUME NEW training
  PROVE  Running(NewFlow(training)) /\ Booked(NewFlow(training))
  BY RoundAssumption DEF NewFlow, Running, Booked, Seats, Phases, RoundNobody

\* Between two rounds: a new one begins only where MatchOver allows it.
LEMMA PhaseAdvances ==
  ASSUME NEW f, Running(f), Booked(f), f.phase \in {"ko", "roundEnd", "intro"}, NEW dealt
  PROVE  LET g == advancePhase(f, dealt)
         IN  /\ Running(g) /\ Booked(g) /\ Advances(f, g)
             /\ g.round # f.round => f.phase = "roundEnd" /\ PhaseEnds(f) /\ ~MatchOver(f)
             /\ g.phase \in {"fight", "intro"} =>
                  f.phase = "intro" \/ (f.phase = "roundEnd" /\ PhaseEnds(f) /\ ~MatchOver(f))
<1> DEFINE g == advancePhase(f, dealt)
<1>1. CASE ~PhaseEnds(f)
  <2>1. g = [f EXCEPT !.phaseFrame = @ + 1]
    BY <1>1 DEF advancePhase
  <2>2. /\ DOMAIN g = DOMAIN f /\ g.phaseFrame = f.phaseFrame + 1
        /\ \A n \in {"phase", "timer", "training", "round", "wins", "roundWinner", "winner"} : g[n] = f[n]
    BY <2>1 DEF Running
  <2> HIDE DEF g
  <2>4. /\ g.phase = f.phase /\ g.timer = f.timer /\ g.training = f.training /\ g.round = f.round /\ g.wins = f.wins /\ g.winner = f.winner
    BY <1>1, <2>2
  <2>5. Running(g)
    BY <1>1, <2>2, <2>4 DEF Running, Phases
  <2>6. Booked(g)
    BY <1>1, <2>2, <2>4 DEF Running, Booked
  <2>7. Advances(f, g)
    BY <1>1, <2>2, <2>4, PhaseOrder DEF Running, Advances, Seats
  <2>. QED
    BY <1>1, <2>2, <2>4, <2>5, <2>6, <2>7, Zenon DEF g
<1>2. CASE PhaseEnds(f) /\ f.phase = "ko"
  <2>1. g = [f EXCEPT !.phase = "roundEnd", !.phaseFrame = 0]
    BY <1>2 DEF advancePhase, enterPhase
  <2>2. /\ DOMAIN g = DOMAIN f /\ g.phaseFrame = 0 /\ g.phase = "roundEnd"
        /\ \A n \in {"timer", "training", "round", "wins", "roundWinner", "winner"} : g[n] = f[n]
    BY <2>1 DEF Running
  <2> HIDE DEF g
  <2>4. /\ g.timer = f.timer /\ g.training = f.training /\ g.round = f.round /\ g.wins = f.wins /\ g.winner = f.winner
    BY <1>2, <2>2
  <2>5. Running(g)
    BY <1>2, <2>2, <2>4 DEF Running, Phases
  <2>6. Booked(g)
    BY <1>2, <2>2, <2>4 DEF Running, Booked
  <2>7. Advances(f, g)
    BY <1>2, <2>2, <2>4, PhaseOrder DEF Running, Advances, Seats
  <2>. QED
    BY <1>2, <2>2, <2>4, <2>5, <2>6, <2>7, Zenon DEF g
<1>3. CASE PhaseEnds(f) /\ f.phase = "intro"
  <2>1. g = [f EXCEPT !.phase = "fight", !.phaseFrame = 0]
    BY <1>3 DEF advancePhase, enterPhase
  <2>2. /\ DOMAIN g = DOMAIN f /\ g.phaseFrame = 0 /\ g.phase = "fight"
        /\ \A n \in {"timer", "training", "round", "wins", "roundWinner", "winner"} : g[n] = f[n]
    BY <2>1 DEF Running
  <2> HIDE DEF g
  <2>4. /\ g.timer = f.timer /\ g.training = f.training /\ g.round = f.round /\ g.wins = f.wins /\ g.winner = f.winner
    BY <1>3, <2>2
  <2>5. Running(g)
    BY <1>3, <2>2, <2>4 DEF Running, Phases
  <2>6. Booked(g)
    BY <1>3, <2>2, <2>4 DEF Running, Booked
  <2>7. Advances(f, g)
    BY <1>3, <2>2, <2>4, PhaseOrder DEF Running, Advances, Seats
  <2>. QED
    BY <1>3, <2>2, <2>4, <2>5, <2>6, <2>7, Zenon DEF g
<1>4. CASE PhaseEnds(f) /\ f.phase = "roundEnd" /\ MatchOver(f)
  <2> DEFINE w == matchWinner(f, dealt)
  <2>1. g = [[f EXCEPT !.winner = w] EXCEPT !.phase = "matchEnd", !.phaseFrame = 0]
    BY <1>4 DEF advancePhase, enterPhase
  <2>2. w \in Seats /\ \A i \in Seats : f.wins[i] >= RoundsToWin => i = w
    BY RoundAssumption DEF matchWinner, Seats, Running, Booked
  <2> HIDE DEF w
  <2>3. /\ DOMAIN g = DOMAIN f /\ g.phaseFrame = 0 /\ g.phase = "matchEnd" /\ g.winner = w
        /\ \A n \in {"timer", "training", "round", "wins", "roundWinner"} : g[n] = f[n]
    BY <2>1 DEF Running
  <2> HIDE DEF g
  <2>4. /\ g.timer = f.timer /\ g.training = f.training /\ g.round = f.round /\ g.wins = f.wins
    BY <1>4, <2>2, <2>3
  <2>5. Running(g)
    BY <1>4, <2>2, <2>3, <2>4 DEF Running, Phases
  <2>6. Booked(g)
    BY <1>4, <2>2, <2>3, <2>4 DEF Running, Booked
  <2>7. Advances(f, g)
    BY <1>4, <2>2, <2>3, <2>4, PhaseOrder DEF Running, Advances, Seats
  <2>. QED
    BY <1>4, <2>2, <2>3, <2>4, <2>5, <2>6, <2>7, Zenon DEF g
<1>5. CASE PhaseEnds(f) /\ f.phase = "roundEnd" /\ ~MatchOver(f)
  <2>1. g = [[f EXCEPT !.round = @ + 1, !.timer = RoundFrames, !.roundWinner = RoundNobody]
               EXCEPT !.phase = "intro", !.phaseFrame = 0]
    BY <1>5 DEF advancePhase, enterPhase, startRound
  <2>2. /\ DOMAIN g = DOMAIN f /\ g.phaseFrame = 0 /\ g.phase = "intro"
        /\ g.round = f.round + 1 /\ g.timer = RoundFrames
        /\ \A n \in {"training", "wins", "winner"} : g[n] = f[n]
    BY <2>1 DEF Running
  <2>3. f.round < MaxRounds /\ f.wins[0] < RoundsToWin /\ f.wins[1] < RoundsToWin
    BY <1>5, RoundAssumption DEF MatchOver, Running, Seats
  <2> HIDE DEF g
  <2>4. /\ g.training = f.training /\ g.wins = f.wins /\ g.winner = f.winner
    BY <1>5, <2>2, <2>3
  <2>5. Running(g)
    BY <1>5, <2>2, <2>3, <2>4, RoundAssumption DEF Running, Phases
  <2>6. Booked(g)
    BY <1>5, <2>2, <2>3, <2>4, RoundAssumption DEF Running, Booked
  <2>7. Advances(f, g)
    BY <1>5, <2>2, <2>3, <2>4, PhaseOrder DEF Running, Advances, Seats
  <2>. QED
    BY <1>5, <2>2, <2>3, <2>4, <2>5, <2>6, <2>7, Zenon DEF g
<1>. QED
  BY <1>1, <1>2, <1>3, <1>4, <1>5 DEF g

\* The end of a frame of the fight: a round goes on only with two living
\* fighters and time on the clock, and awards at most one win.
LEMMA RoundAdvances ==
  ASSUME NEW f, Running(f), Booked(f), f.phase = "fight",
         NEW dead \in SUBSET Seats, NEW ahead \in Seats \cup {RoundNobody}
  PROVE  LET g == updateRound(f, dead, ahead)
         IN  /\ Running(g) /\ Booked(g) /\ g.training = f.training /\ g.round = f.round
             /\ \A i \in Seats : g.wins[i] >= f.wins[i]
             /\ ~f.training => Advances(f, g)
             /\ g.phase = "ko" \/ (g.phase = "fight" /\ (f.training \/ dead = {}))
<1> DEFINE clock == [f EXCEPT !.timer = IF @ > 0 THEN @ - 1 ELSE @]
           over(w) == endRound(clock, w)
<1>1. f.timer > 0
  BY DEF Booked
<1>2. /\ DOMAIN clock = DOMAIN f /\ clock.timer = f.timer - 1
      /\ \A n \in {"phase", "phaseFrame", "training", "round", "wins", "roundWinner", "winner"} : clock[n] = f[n]
  BY <1>1 DEF Running
<1> HIDE DEF clock
<1>3. ASSUME NEW w \in Seats \cup {RoundNobody}
      PROVE  Running(over(w)) /\ Booked(over(w)) /\ Advances(f, over(w)) /\ over(w).phase = "ko"
             /\ over(w).round = f.round
  <2> DEFINE wins == [i \in Seats |-> IF i = w THEN clock.wins[i] + 1 ELSE clock.wins[i]]
             g == [[clock EXCEPT !.roundWinner = w, !.wins = wins] EXCEPT !.phase = "ko", !.phaseFrame = 0]
  <2>1. over(w) = g
    BY DEF endRound, enterPhase
  <2>2. /\ DOMAIN wins = Seats
        /\ wins[0] = f.wins[0] + (IF w = 0 THEN 1 ELSE 0)
        /\ wins[1] = f.wins[1] + (IF w = 1 THEN 1 ELSE 0)
    BY <1>2 DEF Seats, Running
  <2> HIDE DEF wins
  <2>3. /\ DOMAIN g = DOMAIN f /\ g.phaseFrame = 0 /\ g.phase = "ko" /\ g.timer = f.timer - 1
        /\ g.wins = wins /\ g.training = f.training /\ g.round = f.round /\ g.winner = f.winner
    BY <1>2 DEF Running
  <2> HIDE DEF g
  <2>4. Running(g)
    BY <2>2, <2>3 DEF Running, Phases
  <2>5. Booked(g)
    BY <2>2, <2>3, RoundAssumption DEF Booked, Running
  <2>6. \A i \in Seats : g.wins[i] >= f.wins[i]
    BY <2>2, <2>3 DEF Seats, Running
  <2>7. Advances(f, g)
    BY <2>3, <2>6, PhaseOrder DEF Advances
  <2>. QED
    BY <2>1, <2>3, <2>4, <2>5, <2>7
<1>4. clock.timer # 0 => Running(clock) /\ Booked(clock) /\ Advances(f, clock)
  BY <1>1, <1>2 DEF Running, Booked, Advances, Seats
<1>5. 0 \in Seats /\ 1 \in Seats /\ dead \subseteq {0, 1}
  BY DEF Seats
<1>6. updateRound(f, dead, ahead) =
        IF f.training THEN f
        ELSE IF dead = Seats THEN over(RoundNobody)
        ELSE IF 0 \in dead THEN over(1)
        ELSE IF 1 \in dead THEN over(0)
        ELSE IF clock.timer = 0 THEN over(ahead)
        ELSE clock
  BY Zenon DEF updateRound, clock
<1> HIDE DEF over
<1>7. ASSUME f.training
      PROVE  /\ updateRound(f, dead, ahead) = f
             /\ \A i \in Seats : f.wins[i] >= f.wins[i]
  BY <1>6, <1>7 DEF Running, Seats
<1>8. ASSUME ~f.training
      PROVE  \/ \E w \in Seats \cup {RoundNobody} : updateRound(f, dead, ahead) = over(w)
             \/ updateRound(f, dead, ahead) = clock /\ dead = {} /\ clock.timer # 0
  BY <1>5, <1>6, <1>8
<1> DEFINE g == updateRound(f, dead, ahead)
<1> HIDE DEF g
<1>9. ASSUME ~f.training
      PROVE  /\ Running(g) /\ Booked(g) /\ Advances(f, g) /\ g.round = f.round
             /\ g.phase = "ko" \/ (g.phase = "fight" /\ dead = {})
  BY <1>2, <1>3, <1>4, <1>8, <1>9 DEF g
<1>10. CASE f.training
  BY <1>7, <1>10
<1>11. CASE ~f.training
  BY <1>9, <1>11 DEF Advances, g
<1>. QED
  BY <1>10, <1>11

(***************************************************************************)
(* The inductive invariant.                                                *)
(***************************************************************************)
IInv ==
  /\ Standing(arena) /\ Counted(arena)
  /\ Running(flow) /\ Booked(flow)
  /\ flow.phase \in {"fight", "intro"} /\ ~flow.training => Dead(arena.players) = {}

\* What every frame keeps of the frame before it.
Framed ==
  /\ flow'.training = flow.training /\ (\A i \in Seats : flow'.wins[i] >= flow.wins[i])
  /\ \A i \in Seats :
       /\ arena'.players[i].char = arena.players[i].char
       /\ arena'.players[i].ai = arena.players[i].ai
       /\ arena.players[i].health > 0 => Mortal(arena'.players[i])
       /\ flow.training \/ arena'.dealt[i] >= arena.dealt[i]
       /\ flow'.round # flow.round => arena'.players[i].super = arena.players[i].super
       /\ flow.phase = "fight" /\ ~flow.training =>
            arena'.dealt[i] - arena.dealt[i] =
              arena.players[Other(i)].health - arena'.players[Other(i)].health
  /\ ~flow.training /\ flow.phase # "matchEnd" =>
       Below(Left(flow', arena'.hitstop), Left(flow, arena.hitstop))

\* A later flow has less left, by the first count that differs.
LEMMA LessIsLeft ==
  ASSUME NEW f, NEW g, Running(f), Running(g), Booked(g), Advances(f, g), NEW h, NEW j
  PROVE  Below(Left(g, h), Left(f, j))
<1> DEFINE time(e) == IF e.phase = "fight" THEN e.timer ELSE phaseLength(e.phase) - e.phaseFrame
           l == <<MaxRounds - g.round, PhasesLeft[g.phase], time(g), h>>
           r == <<MaxRounds - f.round, PhasesLeft[f.phase], time(f), j>>
<1>1. Left(g, h) = l /\ Left(f, j) = r
  BY Zenon DEF Left
<1>2. phaseLength(f.phase) \in Int
  BY RoundAssumption DEF phaseLength
<1>3. /\ MaxRounds \in Nat /\ f.round \in Nat /\ g.round \in Nat
      /\ f.timer \in Int /\ g.timer \in Int /\ f.phaseFrame \in Int /\ g.phaseFrame \in Int
  BY RoundAssumption DEF Running
<1>4. \/ MaxRounds - g.round < MaxRounds - f.round
      \/ /\ MaxRounds - g.round = MaxRounds - f.round
         /\ \/ PhasesLeft[g.phase] < PhasesLeft[f.phase]
            \/ PhasesLeft[g.phase] = PhasesLeft[f.phase] /\ time(g) < time(f)
  BY <1>2, <1>3 DEF Advances
<1> HIDE DEF time
<1>5. CASE l[1] < r[1]
  <2>1. \A k \in 1 .. 1 - 1 : l[k] = r[k]
    OBVIOUS
  <2>. QED
    BY <1>1, <1>5, <2>1 DEF Below
<1>6. CASE l[1] = r[1] /\ l[2] < r[2]
  <2>1. \A k \in 1 .. 2 - 1 : k = 1
    OBVIOUS
  <2>. QED
    BY <1>1, <1>6, <2>1 DEF Below
<1>7. CASE l[1] = r[1] /\ l[2] = r[2] /\ l[3] < r[3]
  <2>1. \A k \in 1 .. 3 - 1 : k = 1 \/ k = 2
    OBVIOUS
  <2>. QED
    BY <1>1, <1>7, <2>1 DEF Below
<1>. QED
  BY <1>4, <1>5, <1>6, <1>7

\* A match starts with everything in order.
LEMMA InitIInv == Init => IInv
<1> SUFFICES ASSUME NEW setup \in Setups,
                    arena = [NewMatch(setup.chars) EXCEPT !.players[1].ai = setup.ai],
                    flow = NewFlow(setup.training)
             PROVE  IInv
  BY DEF Init
<1>1. setup.chars \in [Seats -> DOMAIN Roster] /\ setup.training \in BOOLEAN
  BY SetupsAssumption
<1> DEFINE c == setup.chars
           t == setup.ai
           ps == StartingPlayers(c)
           qs == [ps EXCEPT ![1].ai = t]
           left == FreshPlayer(-FromInt(StartX), 1, c[0])
           right == [FreshPlayer(FromInt(StartX), -1, c[1]) EXCEPT !.ai = t]
<1>2. c[0] \in DOMAIN Roster /\ c[1] \in DOMAIN Roster
  BY <1>1 DEF Seats
<1> HIDE DEF c, t
<1>3. DOMAIN qs = Seats /\ qs[0] = left /\ qs[1] = right
  BY DEF StartingPlayers, Seats
<1>4. 0 \in 0 .. SuperMax
  BY GaugeSizes
<1>5. Opens(left, c[0], 0, 0)
  BY <1>2, <1>4, FreshIs
<1>6. Opens(right, c[1], 0, t)
  BY <1>2, <1>4, FreshIs
<1> HIDE DEF qs, left, right
<1>8. \A i \in Seats : Sound(qs[i]) /\ qs[i].health > 0 /\ qs[i].combo = 0
  BY <1>3, <1>5, <1>6 DEF Opens, Seats
<1>9. /\ DOMAIN arena = {"players", "projectiles", "camX", "hitstop", "dealt"}
      /\ arena.players = qs /\ arena.hitstop = 0 /\ arena.dealt = [i \in Seats |-> 0]
      /\ arena.projectiles = [k \in Slots |-> FreeSlot]
  BY DEF NewMatch, qs, c, t
<1>10. Standing(arena) /\ Counted(arena) /\ Dead(arena.players) = {}
  <2>1. DOMAIN arena.dealt = Seats /\ \A i \in Seats : arena.dealt[i] \in Int
    BY <1>9
  <2>. QED
    BY <1>3, <1>8, <1>9, <2>1, OpensStanding
<1>. QED
  BY <1>10, FlowStarts DEF IInv

\* Nobody is dead where everybody has health.
LEMMA DeadAre ==
  ASSUME NEW a, Standing(a)
  PROVE  Dead(a.players) = {} <=> \A i \in Seats : a.players[i].health > 0
<1>1. \A i \in Seats : a.players[i].health \in Int
  BY HealthInt DEF Standing
<1>. QED
  BY <1>1 DEF Dead

\* An arena whose players are those of the last frame but for their inputs.
LEMMA KeptFrame ==
  ASSUME Standing(arena), Counted(arena), NEW b, Standing(b), b.dealt = arena.dealt,
         \A i \in Seats : Same(arena.players[i], b.players[i])
  PROVE  /\ Counted(b) /\ (Dead(b.players) = {} <=> Dead(arena.players) = {})
         /\ \A i \in Seats :
              /\ b.players[i].char = arena.players[i].char
              /\ b.players[i].ai = arena.players[i].ai
              /\ b.players[i].super = arena.players[i].super
              /\ b.players[i].health = arena.players[i].health
              /\ arena.players[i].health > 0 => Mortal(b.players[i])
              /\ b.dealt[i] >= arena.dealt[i]
              /\ b.dealt[i] - arena.dealt[i] =
                   arena.players[Other(i)].health - b.players[Other(i)].health
<1>1. ASSUME NEW i \in Seats
      PROVE  /\ b.players[i].char = arena.players[i].char
             /\ b.players[i].ai = arena.players[i].ai
             /\ b.players[i].super = arena.players[i].super
             /\ b.players[i].health = arena.players[i].health
             /\ b.players[i].combo = arena.players[i].combo
             /\ b.players[i].state = arena.players[i].state
  BY DEF Same, Fields
<1>2. \A i \in Seats : arena.players[i].health \in Int /\ arena.dealt[i] \in Int
  BY HealthInt DEF Standing
<1>3. Counted(b)
  BY <1>1 DEF Counted
<1>4. Dead(b.players) = {} <=> Dead(arena.players) = {}
  BY <1>1, DeadAre
<1>5. \A i \in Seats : arena.players[i].health > 0 => Mortal(b.players[i])
  BY <1>1, <1>2 DEF Mortal
<1>6. \A i \in Seats : /\ b.dealt[i] >= arena.dealt[i]
                       /\ b.dealt[i] - arena.dealt[i] =
                            arena.players[Other(i)].health - b.players[Other(i)].health
  BY <1>1, <1>2, TwoSeats
<1>. QED
  BY <1>1, <1>3, <1>4, <1>5, <1>6

\* A frame of hitstop.
LEMMA HitstopKeeps ==
  ASSUME IInv, HitstopFrame
  PROVE  IInv' /\ Framed
<1>1. PICK press \in Presses : arena' = [Recorded(press) EXCEPT !.hitstop = @ - 1] /\ flow' = flow
  BY DEF HitstopFrame
<1> DEFINE b == Recorded(press)
<1>2. /\ Standing(b) /\ b.hitstop = arena.hitstop /\ b.dealt = arena.dealt
      /\ \A i \in Seats : Same(arena.players[i], b.players[i])
  BY RecordedKeeps DEF IInv
<1>3. arena.hitstop \in Nat /\ arena.hitstop > 0
  BY DEF IInv, Standing, HitstopFrame
<1>4. /\ DOMAIN arena' = {"players", "projectiles", "camX", "hitstop", "dealt"}
      /\ arena'.players = b.players /\ arena'.projectiles = b.projectiles
      /\ arena'.dealt = arena.dealt /\ arena'.hitstop = arena.hitstop - 1
  BY <1>1, <1>2 DEF Standing
<1> HIDE DEF b
<1>5. Standing(arena')
  BY <1>2, <1>3, <1>4 DEF Standing
<1>6. \A i \in Seats : Same(arena.players[i], arena'.players[i])
  BY <1>2, <1>4
<1>7. Counted(arena') /\ (Dead(arena'.players) = {} <=> Dead(arena.players) = {})
  BY <1>4, <1>5, <1>6, KeptFrame DEF IInv
<1>8. IInv'
  BY <1>1, <1>5, <1>7 DEF IInv
<1>9. \A i \in Seats : flow.wins[i] >= flow.wins[i]
  BY DEF IInv, Running, Seats
<1>10. Below(Left(flow', arena'.hitstop), Left(flow, arena.hitstop))
  <2> DEFINE time == IF flow.phase = "fight" THEN flow.timer ELSE phaseLength(flow.phase) - flow.phaseFrame
             l == <<MaxRounds - flow.round, PhasesLeft[flow.phase], time, arena'.hitstop>>
             r == <<MaxRounds - flow.round, PhasesLeft[flow.phase], time, arena.hitstop>>
  <2>1. Left(flow', arena'.hitstop) = l /\ Left(flow, arena.hitstop) = r
    BY <1>1, Zenon DEF Left
  <2> HIDE DEF time
  <2>2. l[4] < r[4] /\ \A k \in 1 .. 4 - 1 : l[k] = r[k]
    <3>1. \A k \in 1 .. 4 - 1 : k = 1 \/ k = 2 \/ k = 3
      OBVIOUS
    <3>. QED
      BY <1>3, <1>4, <3>1
  <2>. QED
    BY <2>1, <2>2 DEF Below
<1>11. Framed
  BY <1>1, <1>4, <1>5, <1>6, <1>9, <1>10, KeptFrame DEF Framed, IInv
<1>. QED
  BY <1>8, <1>11

\* A frame between two rounds.
LEMMA PhaseKeeps ==
  ASSUME IInv, PhaseFrame
  PROVE  IInv' /\ Framed
<1> DEFINE reset == flow.phase = "roundEnd" /\ PhaseEnds(flow) /\ ~MatchOver(flow)
<1>1. PICK press \in Presses :
        /\ flow' = advancePhase(flow, arena.dealt)
        /\ arena' = IF reset THEN ResetArena(Recorded(press)) ELSE Recorded(press)
  BY Zenon DEF PhaseFrame
<1>2. flow.phase \in {"ko", "roundEnd", "intro"}
  BY DEF PhaseFrame
<1>3. /\ Running(flow') /\ Booked(flow') /\ Advances(flow, flow')
      /\ flow'.round # flow.round => reset
      /\ flow'.phase \in {"fight", "intro"} => flow.phase = "intro" \/ reset
  BY <1>1, <1>2, PhaseAdvances DEF IInv
<1> HIDE DEF reset
<1> DEFINE b == Recorded(press)
<1>4. /\ Standing(b) /\ b.dealt = arena.dealt
      /\ \A i \in Seats : Same(arena.players[i], b.players[i])
  BY RecordedKeeps DEF IInv
<1>5. /\ Counted(b) /\ (Dead(b.players) = {} <=> Dead(arena.players) = {})
      /\ \A i \in Seats :
           /\ b.players[i].char = arena.players[i].char
           /\ b.players[i].ai = arena.players[i].ai
           /\ b.players[i].super = arena.players[i].super
           /\ arena.players[i].health > 0 => Mortal(b.players[i])
           /\ b.dealt[i] >= arena.dealt[i]
  BY <1>4, KeptFrame DEF IInv
<1> DEFINE c == ResetArena(b)
<1>6. /\ Standing(c) /\ Counted(c) /\ Dead(c.players) = {} /\ c.dealt = b.dealt
      /\ \A i \in Seats : /\ c.players[i].char = b.players[i].char
                          /\ c.players[i].ai = b.players[i].ai
                          /\ c.players[i].super = b.players[i].super
  BY <1>4, ResetStands
<1>7. \A i \in Seats : Mortal(c.players[i])
  <2>1. \A i \in Seats : c.players[i].health > 0
    BY <1>6, DeadAre
  <2>. QED
    BY <2>1 DEF Mortal
<1>8. arena' = IF reset THEN c ELSE b
  BY <1>1
<1> HIDE DEF b, c
<1>9. Standing(arena') /\ Counted(arena')
  BY <1>4, <1>5, <1>6, <1>8
<1>10. flow'.phase \in {"fight", "intro"} /\ ~flow'.training => Dead(arena'.players) = {}
  BY <1>3, <1>5, <1>6, <1>8 DEF IInv, Advances
<1>11. IInv'
  BY <1>3, <1>9, <1>10 DEF IInv
<1>12. /\ \A i \in Seats :
            /\ arena'.players[i].char = arena.players[i].char
            /\ arena'.players[i].ai = arena.players[i].ai
            /\ arena'.players[i].super = arena.players[i].super
            /\ arena.players[i].health > 0 => Mortal(arena'.players[i])
            /\ arena'.dealt[i] >= arena.dealt[i]
  BY <1>4, <1>5, <1>6, <1>7, <1>8
<1>13. Below(Left(flow', arena'.hitstop), Left(flow, arena.hitstop))
  BY <1>3, LessIsLeft DEF IInv
<1>14. Framed
  BY <1>2, <1>3, <1>12, <1>13 DEF Framed, Advances
<1>. QED
  BY <1>11, <1>14

\* A frame of the fight.
LEMMA FightKeeps ==
  ASSUME IInv, FightFrame
  PROVE  IInv' /\ Framed
<1>1. PICK press \in Presses :
        \E after \in {FightOn(Recorded(press), [i \in Seats |-> press[i].in])} :
           /\ flow' = updateRound(flow, Dead(after.players), aheadOnHealth(after.players))
           /\ arena' = IF flow'.phase = "ko" THEN [after EXCEPT !.hitstop = 0] ELSE after
  BY Zenon DEF FightFrame
<1> DEFINE a == Recorded(press)
           in == [i \in Seats |-> press[i].in]
           b == FightOn(a, in)
<1>2. /\ flow' = updateRound(flow, Dead(b.players), aheadOnHealth(b.players))
      /\ arena' = IF flow'.phase = "ko" THEN [b EXCEPT !.hitstop = 0] ELSE b
  BY <1>1
<1>3. /\ Standing(a) /\ a.dealt = arena.dealt
      /\ \A i \in Seats : Same(arena.players[i], a.players[i])
  BY RecordedKeeps DEF IInv
<1>4. \A i \in Seats :
           /\ a.players[i].char = arena.players[i].char
           /\ a.players[i].ai = arena.players[i].ai
           /\ a.players[i].health = arena.players[i].health
  BY <1>3, KeptFrame DEF IInv
<1> HIDE DEF a, in
<1>5. /\ Standing(b) /\ Counted(b)
      /\ \A i \in Seats :
           /\ b.players[i].char = a.players[i].char /\ b.players[i].ai = a.players[i].ai
           /\ a.players[i].health > 0 => Mortal(b.players[i])
           /\ ~flow.training => b.dealt[i] - a.dealt[i] = a.players[Other(i)].health - b.players[Other(i)].health
           /\ ~flow.training /\ a.players[i].health > 0 => b.players[i].health <= a.players[i].health
  BY <1>3, FightOnStands
<1> HIDE DEF b
<1>6. /\ Standing(arena') /\ arena'.players = b.players /\ arena'.dealt = b.dealt
  <2> DEFINE z == [b EXCEPT !.hitstop = 0]
  <2>1. /\ DOMAIN z = {"players", "projectiles", "camX", "hitstop", "dealt"}
        /\ z.players = b.players /\ z.projectiles = b.projectiles /\ z.hitstop = 0 /\ z.dealt = b.dealt
    BY <1>5 DEF Standing
  <2>2. arena' = z \/ arena' = b
    BY <1>2
  <2> HIDE DEF z
  <2>3. Standing(z)
    BY <1>5, <2>1 DEF Standing
  <2>. QED
    BY <1>5, <2>1, <2>2, <2>3
<1>7. Counted(arena')
  BY <1>5, <1>6 DEF Counted
<1>8. /\ Dead(b.players) \in SUBSET Seats
      /\ aheadOnHealth(b.players) \in Seats \cup {RoundNobody}
  BY DEF Dead, aheadOnHealth, Seats
<1>9. flow.phase = "fight"
  BY DEF FightFrame
<1> DEFINE dead == Dead(b.players)
           ahead == aheadOnHealth(b.players)
<1> HIDE DEF dead, ahead
<1>10. /\ Running(flow') /\ Booked(flow') /\ flow'.training = flow.training /\ flow'.round = flow.round
       /\ \A i \in Seats : flow'.wins[i] >= flow.wins[i]
       /\ ~flow.training => Advances(flow, flow')
       /\ flow'.phase = "ko" \/ (flow'.phase = "fight" /\ (flow.training \/ dead = {}))
  <2>1. flow' = updateRound(flow, dead, ahead) /\ dead \in SUBSET Seats /\ ahead \in Seats \cup {RoundNobody}
    BY <1>2, <1>8 DEF dead, ahead
  <2> DEFINE g == updateRound(flow, dead, ahead)
  <2>2. Running(flow) /\ Booked(flow)
    BY DEF IInv
  <2>3. /\ Running(g) /\ Booked(g) /\ g.training = flow.training /\ g.round = flow.round
        /\ \A i \in Seats : g.wins[i] >= flow.wins[i]
        /\ ~flow.training => Advances(flow, g)
        /\ g.phase = "ko" \/ (g.phase = "fight" /\ (flow.training \/ dead = {}))
    BY <1>9, <2>1, <2>2, RoundAdvances, Zenon
  <2>. QED
    BY <2>1, <2>3, Zenon
<1>11. IInv'
  BY <1>6, <1>7, <1>10 DEF IInv, dead
<1>12. ASSUME NEW i \in Seats
       PROVE  /\ arena'.players[i].char = arena.players[i].char
              /\ arena'.players[i].ai = arena.players[i].ai
              /\ arena.players[i].health > 0 => Mortal(arena'.players[i])
              /\ ~flow.training => arena'.dealt[i] - arena.dealt[i] =
                   arena.players[Other(i)].health - arena'.players[Other(i)].health
  BY <1>3, <1>4, <1>5, <1>6, TwoSeats
<1>13. ASSUME NEW i \in Seats, ~flow.training
       PROVE  arena'.dealt[i] >= arena.dealt[i]
  <2> DEFINE j == Other(i)
  <2>1. j \in Seats
    BY TwoSeats
  <2>2. arena.players[j].health > 0
    BY <1>9, <1>13, <2>1, DeadAre DEF IInv
  <2>3. arena'.players[j].health <= arena.players[j].health
    BY <1>4, <1>5, <1>6, <1>13, <2>1, <2>2
  <2>4. arena'.dealt[i] - arena.dealt[i] = arena.players[j].health - arena'.players[j].health
    BY <1>12, <1>13
  <2>5. arena.players[j].health \in Int /\ arena'.players[j].health \in Int
        /\ arena'.dealt[i] \in Int /\ arena.dealt[i] \in Int
    BY <1>6, <2>1, HealthInt DEF IInv, Standing
  <2>. QED
    BY <2>3, <2>4, <2>5
<1>14. ~flow.training => Below(Left(flow', arena'.hitstop), Left(flow, arena.hitstop))
  BY <1>10, LessIsLeft DEF IInv
<1>15. Framed
  BY <1>10, <1>12, <1>13, <1>14 DEF Framed
<1>. QED
  BY <1>11, <1>15

(***************************************************************************)
(* The types of a match, and where its fighters stand.                     *)
(***************************************************************************)
\* A player who only changed in fields other than the place stands where it was.
LEMMA PlaceKept ==
  ASSUME NEW p \in Player
  PROVE  /\ \A s : enter(p, s).x = p.x
         /\ \A n : gainSuper(p, n).x = p.x /\ hurt(p, n).x = p.x /\ chip(p, n).x = p.x
                   /\ spendDrive(p, n).x = p.x
         /\ \A n : [p EXCEPT !.armor = n].x = p.x /\ [p EXCEPT !.stun = n].x = p.x
         /\ \A v, w : [p EXCEPT !.vx = v, !.vy = w].x = p.x
<1>1. DOMAIN p = Fields /\ "x" \in Fields
  BY PlayerFields DEF Fields
<1>2. \A s : enter(p, s).x = p.x
  BY <1>1 DEF enter
<1>3. \A n : gainSuper(p, n).x = p.x /\ hurt(p, n).x = p.x /\ chip(p, n).x = p.x
  BY <1>1 DEF gainSuper, hurt, chip
<1>4. \A n : spendDrive(p, n).x = p.x
  BY <1>1, Zenon DEF spendDrive
<1>5. /\ \A n : [p EXCEPT !.armor = n].x = p.x /\ [p EXCEPT !.stun = n].x = p.x
      /\ \A v, w : [p EXCEPT !.vx = v, !.vy = w].x = p.x
  BY <1>1
<1>. QED
  BY <1>2, <1>3, <1>4, <1>5

LEMMA KnockbackTyped ==
  ASSUME NEW dp \in Player, NEW ap, NEW mv \in MoveType, NEW blocked
  PROVE  LET q == applyKnockback(dp, ap, mv, blocked)
         IN  q \in Player /\ q.x = dp.x
<1> DEFINE left == dp.x < ap.x \/ (dp.x = ap.x /\ ap.facing < 0)
           vx == IF left THEN -KnockbackVX(mv, blocked) ELSE KnockbackVX(mv, blocked)
           vy == KnockbackVY(mv, blocked)
<1>1. KnockbackVX(mv, blocked) \in Int /\ vy \in Int
  BY BalanceLoaded, MoveNumbers, HitLoaded DEF KnockbackVX, KnockbackVY
<1>2. vx \in Int
  BY <1>1
<1>3. applyKnockback(dp, ap, mv, blocked) = [dp EXCEPT !.vx = vx, !.vy = vy]
  BY Zenon DEF applyKnockback
<1> HIDE DEF vx, vy
<1>4. [dp EXCEPT !.vx = vx, !.vy = vy] \in Player
  BY <1>1, <1>2, Zenon DEF Player
<1>. QED
  BY <1>3, <1>4, PlaceKept

LEMMA ArmoredTyped ==
  ASSUME NEW dp \in Player, NEW mv \in MoveType
  PROVE  LET q == TakeArmored(dp, mv)
         IN  q \in Player /\ q.x = dp.x
<1> DEFINE d == Percent(mv.damage, Balance.armorDamagePercent)
           g == Percent(mv.damage, Balance.superTakenPercent)
           r == [dp EXCEPT !.armor = dp.armor + 1]
<1>1. d \in Int /\ g \in Int /\ dp.armor + 1 \in Int
  <2>1. mv.damage \in Nat /\ Balance.armorDamagePercent \in Nat /\ Balance.superTakenPercent \in Nat
    BY MoveNumbers, BalanceNumbers
  <2>2. dp.armor \in Int
    BY PlayerFields
  <2>. QED
    BY <2>1, <2>2, PercentInt
<1>2. r \in Player /\ r.x = dp.x
  <2>1. \A n \in Int : [dp EXCEPT !.armor = n] \in Player
    BY Zenon DEF Player
  <2>. QED
    BY <1>1, <2>1, PlaceKept
<1>3. TakeArmored(dp, mv) = gainSuper(chip(r, d), g)
  BY Zenon DEF TakeArmored, BuildTaken
<1> HIDE DEF r, d, g
<1>4. chip(r, d) \in Player /\ chip(r, d).x = r.x
  BY <1>1, <1>2, HurtTyped, PlaceKept
<1> DEFINE c == chip(r, d)
<1>5. c \in Player /\ c.x = r.x
  BY <1>4
<1> HIDE DEF c
<1>6. gainSuper(c, g) \in Player /\ gainSuper(c, g).x = c.x
  BY <1>1, <1>5, SuperTyped, PlaceKept
<1>. QED
  BY <1>2, <1>3, <1>5, <1>6 DEF c

LEMMA BlockedTyped ==
  ASSUME NEW dp \in Player, NEW ap, NEW mv \in MoveType
  PROVE  LET q == TakeBlocked(dp, ap, mv)
         IN  q \in Player /\ q.x = dp.x
<1> DEFINE e == enter(dp, "blockstun")
           r == [e EXCEPT !.stun = mv.blockstun]
           held == applyKnockback(r, ap, mv, TRUE)
           longer == [held EXCEPT !.stun = held.stun + Balance.burnoutBlockstun]
           d == Percent(mv.damage, Balance.burnoutChipPercent)
<1>0. \A p \in Player, n \in Int : [p EXCEPT !.stun = n] \in Player /\ [p EXCEPT !.stun = n].x = p.x
  <2>1. \A p \in Player, n \in Int : [p EXCEPT !.stun = n] \in Player
    BY Zenon DEF Player
  <2>. QED
    BY <2>1, PlaceKept
<1>1. mv.blockstun \in Int /\ Balance.burnoutBlockstun \in Int /\ Balance.driveBlockCost \in Int
  <2>1. mv.blockstun \in Nat
    BY HitLoaded
  <2>2. Balance.burnoutBlockstun \in Nat
    BY BalanceLoaded, Zenon
  <2>3. Balance.driveBlockCost \in Nat \ {0}
    BY BalanceNumbers, Zenon
  <2>. QED
    BY <2>1, <2>2, <2>3
<1>2. d \in Int
  BY MoveNumbers, BalanceNumbers, PercentInt
<1>3. e \in Player /\ e.x = dp.x
  BY EnterTyped, StatesNamed, PlaceKept
<1>4. TakeBlocked(dp, ap, mv) = IF ~dp.burnout THEN spendDrive(held, Balance.driveBlockCost)
                                ELSE IF IsSpecial(mv) THEN chip(longer, d) ELSE longer
  BY Zenon DEF TakeBlocked
<1> HIDE DEF e, d
<1>5. r \in Player /\ r.x = dp.x
  BY <1>0, <1>1, <1>3
<1> HIDE DEF r
<1>6. held \in Player /\ held.x = dp.x
  BY <1>5, KnockbackTyped
<1> HIDE DEF held
<1>7. held.stun + Balance.burnoutBlockstun \in Int
  BY <1>1, <1>6, PlayerFields
<1>8. longer \in Player /\ longer.x = dp.x
  BY <1>0, <1>6, <1>7
<1> HIDE DEF longer
<1>9. chip(longer, d) \in Player /\ chip(longer, d).x = dp.x
  BY <1>2, <1>8, HurtTyped, PlaceKept
<1>10. /\ spendDrive(held, Balance.driveBlockCost) \in Player
       /\ spendDrive(held, Balance.driveBlockCost).x = dp.x
  <2> DEFINE cost == Balance.driveBlockCost
  <2>1. cost \in Int
    BY <1>1
  <2> HIDE DEF cost
  <2>2. spendDrive(held, cost) \in Player /\ spendDrive(held, cost).x = held.x
    BY <1>6, <2>1, SpendTyped, PlaceKept
  <2>. QED
    BY <1>6, <2>2 DEF cost
<1>. QED
  BY <1>4, <1>8, <1>9, <1>10, Zenon

LEMMA HitTyped ==
  ASSUME NEW dp \in Player, Sound(dp), NEW ap, NEW mv \in MoveType
  PROVE  LET q == TakeHit(dp, ap, mv)
         IN  q \in Player /\ q.x = dp.x
<1> DEFINE counter == counterClass(dp)
           starter == IF dp.combo = 0 THEN starterScale(mv) ELSE dp.comboStarter
           e == enter(dp, "hitstun")
           more == e.combo + 1
           stun == mv.hitstun + counterHitstun(counter)
           juggle == IF Airborne(dp) THEN e.juggle + 1 ELSE e.juggle
           struck == [e EXCEPT !.combo = more, !.comboStarter = starter, !.counter = counter,
                        !.stun = stun, !.down = mv.knockdown, !.juggle = juggle]
           d == scaledDamage(mv, starter, dp.combo + 1, counter)
           hurting == hurt(struck, d)
           g == Percent(mv.damage, Balance.superTakenPercent)
           built == gainSuper(hurting, g)
<1>1. TakeHit(dp, ap, mv) = applyKnockback(built, ap, mv, FALSE)
  BY Zenon DEF TakeHit, BuildTaken
<1>2. counter \in {"none", "counter", "punish"}
  BY DEF counterClass
<1>3. counterHitstun(counter) \in Int
  <2>1. counterHitstun(counter) \in {Balance.counterHitstun, Balance.punishHitstun, 0}
    BY <1>2 DEF counterHitstun
  <2>. QED
    BY <2>1, BalanceLoaded
<1>4. starter \in Nat /\ dp.combo + 1 \in Nat
  BY StarterNat DEF Sound
<1> HIDE DEF counter, starter
<1>5. d \in Int /\ g \in Int
  <2>1. d \in Nat
    BY <1>4, DamageNat
  <2>2. mv.damage \in Nat /\ Balance.superTakenPercent \in Nat
    BY MoveNumbers, BalanceNumbers
  <2>. QED
    BY <2>1, <2>2, PercentInt
<1>6. e \in Player /\ e.x = dp.x
  BY EnterTyped, StatesNamed, PlaceKept
<1> HIDE DEF e, d, g
<1>7. more \in Int /\ stun \in Int /\ juggle \in Int /\ mv.knockdown \in BOOLEAN /\ starter \in Int
  <2>1. e.combo \in Int /\ e.juggle \in Int
    BY <1>6, PlayerFields
  <2>2. mv.hitstun \in Int /\ mv.knockdown \in BOOLEAN
    BY HitLoaded
  <2>. QED
    BY <1>3, <1>4, <2>1, <2>2
<1> HIDE DEF more, stun, juggle
<1>8. struck \in Player /\ struck.x = dp.x
  <2>1. struck \in Player
    BY <1>2, <1>6, <1>7, Zenon DEF Player
  <2>2. DOMAIN e = Fields
    BY <1>6, PlayerFields
  <2>3. struck.x = e.x
    BY <2>2 DEF Fields
  <2>. QED
    BY <1>6, <2>1, <2>3
<1> HIDE DEF struck
<1>9. hurting \in Player /\ hurting.x = dp.x
  BY <1>5, <1>8, HurtTyped, PlaceKept
<1> HIDE DEF hurting
<1>10. built \in Player /\ built.x = dp.x
  BY <1>5, <1>9, SuperTyped, PlaceKept
<1> HIDE DEF built
<1>11. applyKnockback(built, ap, mv, FALSE) \in Player /\ applyKnockback(built, ap, mv, FALSE).x = built.x
  BY <1>10, KnockbackTyped, Zenon
<1>. QED
  BY <1>1, <1>10, <1>11, Zenon

LEMMA ThrownTyped ==
  ASSUME NEW dp \in Player, Sound(dp), NEW mv \in MoveType
  PROVE  LET q == TakeThrow(dp, mv)
         IN  q \in Player /\ q.x = dp.x
<1> DEFINE starter == starterScale(mv)
           e == enter(dp, "thrown")
           more == e.combo + 1
           caught == [e EXCEPT !.stun = mv.hitstun, !.down = mv.knockdown,
                        !.combo = more, !.comboStarter = starter, !.counter = "none"]
           d == scaledDamage(mv, starter, dp.combo + 1, "none")
           hurting == hurt(caught, d)
           g == Percent(mv.damage, Balance.superTakenPercent)
<1>1. TakeThrow(dp, mv) = gainSuper(hurting, g)
  BY Zenon DEF TakeThrow, BuildTaken
<1>2. starter \in Nat /\ dp.combo + 1 \in Nat
  BY StarterNat DEF Sound
<1> HIDE DEF starter
<1>3. d \in Int /\ g \in Int
  <2>1. d \in Nat
    BY <1>2, DamageNat
  <2>2. mv.damage \in Nat /\ Balance.superTakenPercent \in Nat
    BY MoveNumbers, BalanceNumbers
  <2>. QED
    BY <2>1, <2>2, PercentInt
<1>4. e \in Player /\ e.x = dp.x
  BY EnterTyped, StatesNamed, PlaceKept
<1> HIDE DEF e, d, g
<1>5. more \in Int /\ mv.hitstun \in Int /\ mv.knockdown \in BOOLEAN /\ starter \in Int
  <2>1. e.combo \in Int
    BY <1>4, PlayerFields
  <2>. QED
    BY <1>2, <2>1, HitLoaded
<1> HIDE DEF more
<1>6. caught \in Player /\ caught.x = dp.x
  <2>1. caught \in Player
    BY <1>4, <1>5, Zenon DEF Player
  <2>2. DOMAIN e = Fields
    BY <1>4, PlayerFields
  <2>3. caught.x = e.x
    BY <2>2 DEF Fields
  <2>. QED
    BY <1>4, <2>1, <2>3
<1> HIDE DEF caught
<1>7. hurting \in Player /\ hurting.x = dp.x
  BY <1>3, <1>6, HurtTyped, PlaceKept
<1> HIDE DEF hurting
<1>. QED
  BY <1>1, <1>3, <1>7, SuperTyped, PlaceKept

\* Half of a fighter's pushbox, which is centred on its place.
Breadth(p) == -Roster[p.char].pushbox.x

\* A fighter inside the screen of a camera.
Inside(p, c) ==
  /\ p.x - Breadth(p) >= c - Balance.cameraHalfWidth
  /\ p.x + Breadth(p) <= c + Balance.cameraHalfWidth

\* A camera whose screen is inside the stage.
Framing(c) ==
  /\ c \in Int
  /\ Balance.cameraHalfWidth - Balance.stageHalfWidth <= c
  /\ c <= Balance.stageHalfWidth - Balance.cameraHalfWidth

\* The numbers of the stage.
LEMMA StageLoaded ==
  /\ Balance.stageHalfWidth \in Int /\ Balance.cameraHalfWidth \in Int /\ Balance.cameraMargin \in Int
  /\ 0 < Balance.cameraHalfWidth /\ Balance.cameraHalfWidth <= Balance.stageHalfWidth
  /\ 0 < Balance.cameraMargin /\ 2 * Balance.cameraMargin < Balance.cameraHalfWidth
<1>1. StageFits(Balance)
  BY BalanceAssumption DEF LoadedBalance
<1>. QED
  BY <1>1, BalanceLoaded, Zenon DEF StageFits

\* The edges of a pushbox.
LEMMA BoxIs ==
  ASSUME NEW p \in Player
  PROVE  /\ Pushbox(p).x \in Int /\ Pushbox(p).w \in Int
         /\ Pushbox(p).w = Roster[p.char].pushbox.w
         /\ Breadth(p) \in Int
         /\ ScreenFits => /\ Pushbox(p).x = p.x - Breadth(p)
                          /\ Pushbox(p).x + Pushbox(p).w = p.x + Breadth(p)
                          /\ Pushbox(p).w = 2 * Breadth(p)
                          /\ Breadth(p) <= Balance.cameraMargin
                          /\ FromInt(StartX) + Breadth(p) <= Balance.cameraHalfWidth
<1> DEFINE b == Roster[p.char].pushbox
           left == IF p.facing < 0 THEN p.x - b.x - b.w ELSE p.x + b.x
<1>1. p.char \in DOMAIN Roster /\ p.x \in Int /\ p.facing \in {1, -1}
  BY PlayerFields, Zenon
<1>2. DOMAIN b = {"x", "y", "w", "h"} /\ b.x \in Int /\ b.w \in Int
  BY <1>1, MovementLoaded
<1>3. Pushbox(p) = [b EXCEPT !.x = left, !.y = p.y + b.y]
  BY Zenon DEF Pushbox, World
<1>4. ScreenFits => /\ 2 * b.x + b.w = 0 /\ b.w <= 2 * Balance.cameraMargin
                    /\ 2 * FromInt(StartX) + b.w <= 2 * Balance.cameraHalfWidth
  BY <1>1, Zenon DEF ScreenFits
<1>5. Breadth(p) = -b.x
  BY DEF Breadth
<1> HIDE DEF b
<1>6. Pushbox(p).x = left /\ Pushbox(p).w = b.w
  BY <1>2, <1>3
<1>7. left \in Int
  BY <1>1, <1>2
<1>8. FromInt(StartX) \in Int
  BY StartAssumption, ScaleAssumption DEF FromInt
<1>9. ScreenFits => left = p.x + b.x
  BY <1>1, <1>2, <1>4
<1> HIDE DEF left
<1>10. ScreenFits => b.w = 2 * (-b.x) /\ -b.x <= Balance.cameraMargin
                    /\ FromInt(StartX) + (-b.x) <= Balance.cameraHalfWidth
  BY <1>2, <1>4, <1>8, BalanceLoaded
<1>. QED
  BY <1>1, <1>2, <1>5, <1>6, <1>7, <1>9, <1>10 DEF b

\* A place.
LEMMA PlaceTyped ==
  ASSUME NEW p \in Player, NEW x \in Int
  PROVE  LET q == [p EXCEPT !.x = x]
         IN  q \in Player /\ q.x = x /\ q.char = p.char
<1>1. [p EXCEPT !.x = x] \in Player
  BY Zenon DEF Player
<1>. QED
  BY <1>1, PlayerFields DEF Fields

\* A wall stops whoever it moves.
LEMMA WallStops ==
  ASSUME NEW p \in Player, NEW c, Framing(c)
  PROVE  /\ wallCorrection(p, c) \in Int
         /\ ScreenFits => \A q : q.x = p.x + wallCorrection(p, c) /\ q.char = p.char => Inside(q, c)
<1> DEFINE half == Balance.cameraHalfWidth
           stage == Balance.stageHalfWidth
           box == Pushbox(p)
           lo == Greater(-stage, c - half)
           hi == Lesser(stage, c + half)
           d == IF lo > box.x THEN lo - box.x
                ELSE IF box.x + box.w > hi THEN hi - (box.x + box.w) ELSE 0
<1>1. wallCorrection(p, c) = d
  BY Zenon DEF wallCorrection
<1>2. /\ half \in Int /\ stage \in Int /\ 2 * Balance.cameraMargin < half
      /\ Balance.cameraMargin \in Int /\ 0 < Balance.cameraMargin
  BY StageLoaded
<1>3. lo = c - half /\ hi = c + half
  BY <1>2 DEF Greater, Lesser, Framing
<1> HIDE DEF lo, hi
<1>4. box.x \in Int /\ box.w \in Int /\ p.x \in Int /\ c \in Int /\ Breadth(p) \in Int
  BY BoxIs, PlayerFields DEF Framing
<1>5. ScreenFits => box.x = p.x - Breadth(p) /\ box.x + box.w = p.x + Breadth(p)
                    /\ Breadth(p) <= Balance.cameraMargin
  BY BoxIs
<1> HIDE DEF box, half
<1>6. d \in Int
  BY <1>2, <1>3, <1>4
<1>7. ScreenFits => p.x + d - Breadth(p) >= c - half /\ p.x + d + Breadth(p) <= c + half
  <2> SUFFICES ASSUME ScreenFits
               PROVE  p.x + d - Breadth(p) >= c - half /\ p.x + d + Breadth(p) <= c + half
    OBVIOUS
  <2> DEFINE x == p.x
             n == Breadth(p)
  <2>1. box.x = x - n /\ box.x + box.w = x + n /\ n <= Balance.cameraMargin
    BY <1>5
  <2>2. x \in Int /\ n \in Int
    BY <1>4
  <2> HIDE DEF x, n
  <2>3. n < half
    BY <1>2, <2>1, <2>2
  <2>4. d = IF c - half > x - n THEN c - half - (x - n)
            ELSE IF x + n > c + half THEN c + half - (x + n) ELSE 0
    <3>1. d = IF lo > box.x THEN lo - box.x
              ELSE IF box.x + box.w > hi THEN hi - (box.x + box.w) ELSE 0
      OBVIOUS
    <3> HIDE DEF d
    <3>. QED
      BY <1>2, <1>3, <1>4, <2>1, <2>2, <3>1
  <2> HIDE DEF d
  <2>5. x + d - n >= c - half /\ x + d + n <= c + half
    BY <1>2, <1>4, <2>2, <2>3, <2>4
  <2>. QED
    BY <2>5 DEF x, n
<1> HIDE DEF d
<1>8. ASSUME ScreenFits, NEW q, q.x = p.x + d, q.char = p.char
      PROVE  Inside(q, c)
  <2>1. Breadth(q) = Breadth(p)
    BY <1>8 DEF Breadth
  <2>2. q.x - Breadth(q) >= c - half /\ q.x + Breadth(q) <= c + half
    BY <1>2, <1>4, <1>6, <1>7, <1>8, <2>1
  <2>. QED
    BY <2>2 DEF Inside, half
<1>. QED
  BY <1>1, <1>6, <1>8

\* A shift of one player.
LEMMA ShiftTyped ==
  ASSUME NEW ps \in [Seats -> Player], NEW i \in Seats, NEW d \in Int
  PROVE  LET qs == Shift(ps, i, d)
         IN  /\ qs \in [Seats -> Player]
             /\ qs[i].x = ps[i].x + d /\ qs[i].char = ps[i].char
             /\ qs[Other(i)] = ps[Other(i)]
<1> DEFINE q == [ps[i] EXCEPT !.x = ps[i].x + d]
<1>1. ps[i] \in Player /\ Other(i) \in Seats /\ Other(i) # i
  BY TwoSeats
<1>2. ps[i].x + d \in Int
  BY <1>1, PlayerFields
<1>3. q \in Player /\ q.x = ps[i].x + d /\ q.char = ps[i].char
  BY <1>1, <1>2, PlaceTyped
<1> HIDE DEF q
<1>4. Shift(ps, i, d) = [ps EXCEPT ![i] = q]
  BY Zenon DEF Shift, q
<1>. QED
  BY <1>1, <1>3, <1>4

\* One player against the walls: it is inside, and the other one no less than
\* before.
LEMMA ClampStops ==
  ASSUME NEW ps \in [Seats -> Player], NEW i \in Seats, NEW c, Framing(c)
  PROVE  LET qs == ClampPlayer(ps, i, c)
         IN  /\ qs \in [Seats -> Player]
             /\ ScreenFits => /\ Inside(qs[i], c)
                              /\ Inside(ps[Other(i)], c) => Inside(qs[Other(i)], c)
<1> DEFINE j == Other(i)
           d == wallCorrection(ps[i], c)
           held == Shift(ps, i, d)
           moved == Shift(held, j, d)
           e == wallCorrection(moved[j], c)
           rest == Shift(moved, j, e)
<1>1. ClampPlayer(ps, i, c) = held \/ ClampPlayer(ps, i, c) = rest
  BY Zenon DEF ClampPlayer, ClampBy, CornerRule, IntoStage
<1>2. j \in Seats /\ Other(j) = i /\ ps[i] \in Player
  BY TwoSeats
<1>3. d \in Int /\ (ScreenFits => \A q : q.x = ps[i].x + d /\ q.char = ps[i].char => Inside(q, c))
  BY <1>2, WallStops
<1> HIDE DEF j, d
<1>4. held \in [Seats -> Player] /\ held[i].x = ps[i].x + d /\ held[i].char = ps[i].char /\ held[j] = ps[j]
  BY <1>3, ShiftTyped DEF j
<1> HIDE DEF held
<1>5. moved \in [Seats -> Player] /\ moved[i] = held[i] /\ moved[j] \in Player
  BY <1>2, <1>3, <1>4, ShiftTyped
<1> HIDE DEF moved
<1>6. e \in Int /\ (ScreenFits => \A q : q.x = moved[j].x + e /\ q.char = moved[j].char => Inside(q, c))
  BY <1>5, WallStops
<1> HIDE DEF e
<1>7. rest \in [Seats -> Player] /\ rest[j].x = moved[j].x + e /\ rest[j].char = moved[j].char
      /\ rest[i] = moved[i]
  BY <1>2, <1>5, <1>6, ShiftTyped
<1> HIDE DEF rest
<1>8. ScreenFits => Inside(held[i], c) /\ Inside(rest[i], c) /\ Inside(rest[j], c)
  BY <1>3, <1>4, <1>5, <1>6, <1>7
<1>9. ScreenFits /\ Inside(ps[j], c) => Inside(held[j], c)
  BY <1>4
<1>. QED
  BY <1>1, <1>4, <1>7, <1>8, <1>9 DEF j

\* Both players against the walls.
LEMMA StageHolds ==
  ASSUME NEW ps \in [Seats -> Player], NEW c, Framing(c)
  PROVE  LET qs == clampToStage(ps, c)
         IN  /\ qs \in [Seats -> Player]
             /\ ScreenFits => \A i \in Seats : Inside(qs[i], c)
<1> DEFINE rs == ClampPlayer(ps, 0, c)
           qs == ClampPlayer(rs, 1, c)
<1>1. 0 \in Seats /\ 1 \in Seats /\ Other(0) = 1 /\ Other(1) = 0 /\ \A i \in Seats : i = 0 \/ i = 1
  BY DEF Seats, Other
<1>2. rs \in [Seats -> Player] /\ (ScreenFits => Inside(rs[0], c))
  BY <1>1, ClampStops
<1> HIDE DEF rs
<1>3. qs \in [Seats -> Player] /\ (ScreenFits => Inside(qs[1], c) /\ (Inside(rs[0], c) => Inside(qs[0], c)))
  BY <1>1, <1>2, ClampStops
<1> HIDE DEF qs
<1>. QED
  BY <1>1, <1>2, <1>3 DEF clampToStage, qs, rs

\* The pushboxes only move.
LEMMA SeparateTyped ==
  ASSUME NEW ps \in [Seats -> Player]
  PROVE  separate(ps) \in [Seats -> Player]
<1> DEFINE a == Pushbox(ps[0])
           b == Pushbox(ps[1])
           overlap == Lesser(a.x + a.w, b.x + b.w) - Greater(a.x, b.x)
           push == Quo(overlap, 2)
           side == IF ps[0].x <= ps[1].x THEN 1 ELSE -1
           n == side * push
           rs == [ps EXCEPT ![0].x = @ - n, ![1].x = @ + n]
<1>1. 0 \in Seats /\ 1 \in Seats /\ \A i \in Seats : i = 0 \/ i = 1
  BY DEF Seats
<1>2. ps[0] \in Player /\ ps[1] \in Player
  BY <1>1
<1>3. a.x \in Int /\ a.w \in Int /\ b.x \in Int /\ b.w \in Int
  BY <1>2, BoxIs
<1> HIDE DEF a, b
<1>4. overlap \in Int
  BY <1>3 DEF Lesser, Greater
<1> HIDE DEF overlap
<1>5. push \in Int
  BY <1>4, QuoInt
<1> HIDE DEF push
<1>6. n \in Int
  BY <1>5
<1>7. separate(ps) \in {ps, rs}
  BY Zenon DEF separate, push, overlap, a, b
<1> HIDE DEF n
<1>8. ps[0].x - n \in Int /\ ps[1].x + n \in Int
  BY <1>2, <1>6, PlayerFields
<1> DEFINE l == [ps[0] EXCEPT !.x = ps[0].x - n]
           r == [ps[1] EXCEPT !.x = ps[1].x + n]
<1>9. l \in Player /\ r \in Player
  BY <1>2, <1>8, PlaceTyped
<1>10. rs = [ps EXCEPT ![0] = l, ![1] = r]
  BY Zenon
<1> HIDE DEF l, r, rs
<1>11. rs \in [Seats -> Player]
  BY <1>1, <1>9, <1>10
<1>. QED
  BY <1>7, <1>11

\* Who turns stays where it is.
LEMMA TurnTyped ==
  ASSUME NEW p \in Player, NEW x
  PROVE  LET q == FaceToward(p, x)
         IN  q \in Player /\ q.x = p.x /\ q.char = p.char
<1> DEFINE f == IF x > p.x THEN 1 ELSE -1
           r == [p EXCEPT !.facing = f]
<1>1. f \in {1, -1}
  OBVIOUS
<1>2. FaceToward(p, x) \in {p, r}
  BY Zenon DEF FaceToward
<1> HIDE DEF f
<1>3. r \in Player
  BY <1>1, Zenon DEF Player
<1>4. r.x = p.x /\ r.char = p.char
  BY PlayerFields DEF Fields
<1> HIDE DEF r
<1>. QED
  BY <1>2, <1>3, <1>4

\* A fighter on the spot of another one is where that is.
LEMMA SameSpot ==
  ASSUME NEW p, NEW q, q.x = p.x, q.char = p.char, NEW c, Inside(p, c)
  PROVE  Inside(q, c)
  BY DEF Inside, Breadth

\* Step 4 ends with both fighters on the screen.
LEMMA SidesTyped ==
  ASSUME NEW ps \in [Seats -> Player], NEW c, Framing(c)
  PROVE  LET qs == Sides(ps, c)
         IN  /\ qs \in [Seats -> Player]
             /\ ScreenFits => \A i \in Seats : Inside(qs[i], c)
<1> DEFINE apart == separate(ps)
           held == clampToStage(apart, c)
           l == FaceToward(held[0], held[1].x)
           r == FaceToward(held[1], held[0].x)
           qs == [held EXCEPT ![0] = l, ![1] = r]
<1>1. 0 \in Seats /\ 1 \in Seats /\ \A i \in Seats : i = 0 \/ i = 1
  BY DEF Seats
<1>2. apart \in [Seats -> Player]
  BY SeparateTyped
<1>3. Sides(ps, c) = qs
  BY Zenon DEF Sides, updateFacing
<1> HIDE DEF apart
<1>4. held \in [Seats -> Player] /\ (ScreenFits => \A i \in Seats : Inside(held[i], c))
  BY <1>2, StageHolds
<1> HIDE DEF held
<1>5. /\ l \in Player /\ l.x = held[0].x /\ l.char = held[0].char
      /\ r \in Player /\ r.x = held[1].x /\ r.char = held[1].char
  BY <1>1, <1>4, TurnTyped
<1> HIDE DEF l, r
<1>6. qs \in [Seats -> Player] /\ qs[0] = l /\ qs[1] = r
  BY <1>1, <1>4, <1>5
<1> HIDE DEF qs
<1>7. ScreenFits => Inside(qs[0], c) /\ Inside(qs[1], c)
  BY <1>1, <1>4, <1>5, <1>6, SameSpot
<1>. QED
  BY <1>1, <1>3, <1>6, <1>7

\* The types of an arena, and its fighters on the screen.
Typed(a) ==
  /\ a.players \in [Seats -> Player] /\ a.projectiles \in [Slots -> Projectile]
  /\ a.dealt \in [Seats -> Int] /\ Framing(a.camX)

Walled(a) == \A i \in Seats : Inside(a.players[i], a.camX)

\* b is a after a step that leaves whoever is on the screen there.
Stays(a, b) == Typed(b) /\ b.camX = a.camX /\ (ScreenFits /\ Walled(a) => Walled(b))

LEMMA StaysChain ==
  ASSUME NEW a, NEW b, NEW c, Stays(a, b), Stays(b, c)
  PROVE  Stays(a, c)
  BY DEF Stays

\* Other players on the screen.
LEMMA ReplacedTyped ==
  ASSUME NEW a, Standing(a), Typed(a), NEW qs \in [Seats -> Player]
  PROVE  LET b == [a EXCEPT !.players = qs]
         IN  /\ Typed(b) /\ b.camX = a.camX /\ b.players = qs
             /\ (\A i \in Seats : Inside(qs[i], a.camX)) => Walled(b)
<1> DEFINE b == [a EXCEPT !.players = qs]
<1>1. b.players = qs /\ b.projectiles = a.projectiles /\ b.camX = a.camX
  BY DEF Standing
<1> HIDE DEF b
<1>. QED
  BY <1>1 DEF Typed, Walled, b

\* Steps 1 to 4.
LEMMA MovePlayersTyped ==
  ASSUME NEW a, Standing(a), Typed(a), NEW in
  PROVE  LET b == MovePlayers(a, in)
         IN  Typed(b) /\ b.camX = a.camX /\ (ScreenFits => Walled(b))
<1> DEFINE ps == a.players
           moved(i) == fall(advanceState(resolveInputs(ps[i], in[i])))
           stepped == [ps EXCEPT ![0] = moved(0), ![1] = moved(1)]
           qs == Sides(stepped, a.camX)
<1>1. 0 \in Seats /\ 1 \in Seats /\ \A i \in Seats : i = 0 \/ i = 1
  BY DEF Seats
<1>2. ps \in [Seats -> Player] /\ Framing(a.camX) /\ \A i \in Seats : Sound(ps[i])
  BY DEF Typed, Standing
<1> HIDE DEF ps
<1>3. moved(0) \in Player /\ moved(1) \in Player
  BY <1>1, <1>2, FrameTyped
<1> HIDE DEF moved
<1>4. stepped \in [Seats -> Player]
  BY <1>1, <1>2, <1>3
<1> HIDE DEF stepped
<1>5. qs \in [Seats -> Player] /\ (ScreenFits => \A i \in Seats : Inside(qs[i], a.camX))
  BY <1>2, <1>4, SidesTyped
<1>6. MovePlayers(a, in) = [a EXCEPT !.players = qs]
  BY Zenon DEF MovePlayers, Sides, qs, stepped, moved, ps
<1> HIDE DEF qs
<1>. QED
  BY <1>5, <1>6, ReplacedTyped

(***************************************************************************)
(* The projectiles.                                                        *)
(***************************************************************************)
LEMMA FreeTyped == FreeSlot \in Projectile
  BY DEF FreeSlot, Projectile, Seats

\* Flying and expiring.
LEMMA FliesTyped ==
  ASSUME NEW pr \in Projectile, NEW camX
  PROVE  moveProjectile(pr, camX) \in Projectile
<1> DEFINE x == pr.x + pr.vx
           n == pr.life - 1
           q == [pr EXCEPT !.x = x, !.life = n]
<1>1. x \in Int /\ n \in Int
  BY DEF Projectile
<1>2. moveProjectile(pr, camX) \in {pr, FreeSlot, q}
  BY Zenon DEF moveProjectile
<1> HIDE DEF x, n
<1>3. q \in Projectile
  BY <1>1, Zenon DEF Projectile
<1> HIDE DEF q
<1>. QED
  BY <1>2, <1>3, FreeTyped

\* What the loader promises of a projectile.
LEMMA ShotLoaded ==
  ASSUME NEW mv \in MoveType
  PROVE  /\ mv.proj.spawnX \in Int /\ mv.proj.spawnY \in Int /\ mv.proj.speed \in Int
         /\ mv.proj.life \in Int
<1>1. mv.proj \in LoadedProjectile
  BY Zenon DEF MoveType
<1>2. mv.proj \in [life : Nat, speed : Fixed, spawnX : Fixed, spawnY : Fixed, box : Box]
  BY <1>1, Zenon DEF LoadedProjectile
<1>3. Fixed \subseteq Int
  BY LimitsAssumption DEF Fixed
<1> DEFINE pr == mv.proj
<1> HIDE DEF pr
<1>4. pr \in [life : Nat, speed : Fixed, spawnX : Fixed, spawnY : Fixed, box : Box]
        => pr.life \in Nat /\ pr.speed \in Fixed /\ pr.spawnX \in Fixed /\ pr.spawnY \in Fixed
  BY Zenon
<1>5. pr.life \in Nat /\ pr.speed \in Fixed /\ pr.spawnX \in Fixed /\ pr.spawnY \in Fixed
  BY <1>2, <1>4, Zenon DEF pr
<1>6. \A n \in Fixed : n \in Int
  BY <1>3
<1>7. \A n \in Nat : n \in Int
  OBVIOUS
<1>8. pr.spawnX \in Int /\ pr.spawnY \in Int /\ pr.speed \in Int /\ pr.life \in Int
  BY <1>5, <1>6, <1>7, Zenon
<1>. QED
  BY <1>8 DEF pr

\* Firing.
LEMMA SpawnTyped ==
  ASSUME NEW qs \in [Slots -> Projectile], NEW i \in Seats, NEW p \in Player
  PROVE  spawnFor(qs, i, p) \in [Slots -> Projectile]
<1> DEFINE free == {k \in Slots : ~qs[k].active}
           first == CHOOSE k \in free : \A j \in free : k <= j
           spec == Roster[p.char].moves[p.move].proj
           x == p.x + spec.spawnX * p.facing
           y == p.y + spec.spawnY
           vx == spec.speed * p.facing
           shot == [active |-> TRUE, owner |-> i, move |-> p.move,
                    x |-> x, y |-> y, vx |-> vx, life |-> spec.life]
           rs == [qs EXCEPT ![first] = shot]
<1>1. free # {} => first \in Slots
  <2>1. free \in SUBSET Nat
    BY PoolAssumption DEF Slots
  <2>2. free # {} => \E k \in free : \A j \in free : k <= j
    BY <2>1, NatLeast
  <2>3. free # {} => first \in free
    BY <2>2, Zenon
  <2>. QED
    BY <2>3
<1>2. (\E mv \in MoveOf(p) : Fires(mv) /\ p.stateFrame = mv.startup)
         => p.move \in DOMAIN Roster[p.char].moves
  BY DEF MoveOf
<1>3. spawnFor(qs, i, p) = qs \/ (spawnFor(qs, i, p) = rs /\ free # {} /\ p.move \in DOMAIN Roster[p.char].moves)
  BY <1>2, Zenon DEF spawnFor, spawn
<1>4. ASSUME p.move \in DOMAIN Roster[p.char].moves
      PROVE  shot \in Projectile
  <2>0. p.char \in DOMAIN Roster
    BY PlayerFields
  <2>1. Roster[p.char].moves[p.move] \in MoveType
    BY <1>4, <2>0, MoveLoaded
  <2>2. spec.spawnX \in Int /\ spec.spawnY \in Int /\ spec.speed \in Int /\ spec.life \in Int
    BY <2>1, ShotLoaded
  <2> HIDE DEF spec
  <2>3. p.x \in Int /\ p.y \in Int /\ p.move \in Int
    BY PlayerFields
  <2>4. spec.spawnX * p.facing \in Int /\ spec.speed * p.facing \in Int
    BY <2>2, FacingInt
  <2>5. x \in Int /\ y \in Int /\ vx \in Int
    BY <2>2, <2>3, <2>4
  <2> HIDE DEF x, y, vx
  <2>. QED
    BY <2>2, <2>3, <2>5 DEF Projectile
<1> HIDE DEF first, shot, free
<1>5. free # {} /\ p.move \in DOMAIN Roster[p.char].moves => rs \in [Slots -> Projectile]
  BY <1>1, <1>4
<1>. QED
  BY <1>3, <1>5

\* Step 5.
LEMMA ProjectilesTyped ==
  ASSUME NEW a, Standing(a), Typed(a)
  PROVE  Stays(a, advanceProjectiles(a))
<1> DEFINE ps == a.players
           m == [k \in Slots |-> moveProjectile(a.projectiles[k], a.camX)]
           n == spawnFor(m, 0, ps[0])
           o == spawnFor(n, 1, ps[1])
           b == [a EXCEPT !.projectiles = o]
<1>1. 0 \in Seats /\ 1 \in Seats
  BY DEF Seats
<1>2. ps[0] \in Player /\ ps[1] \in Player
  BY <1>1 DEF Typed
<1>3. m \in [Slots -> Projectile]
  <2>1. \A k \in Slots : moveProjectile(a.projectiles[k], a.camX) \in Projectile
    BY FliesTyped DEF Typed
  <2>. QED
    BY <2>1
<1> HIDE DEF m
<1>4. n \in [Slots -> Projectile]
  BY <1>1, <1>2, <1>3, SpawnTyped
<1> HIDE DEF n
<1>5. o \in [Slots -> Projectile]
  BY <1>1, <1>2, <1>4, SpawnTyped
<1> HIDE DEF o
<1>6. b.players = a.players /\ b.projectiles = o /\ b.camX = a.camX /\ b.dealt = a.dealt
  BY DEF Standing
<1> HIDE DEF b
<1>7. Stays(a, b)
  BY <1>5, <1>6 DEF Stays, Typed, Walled
<1>. QED
  BY <1>7, Zenon DEF advanceProjectiles, b, o, n, m

(***************************************************************************)
(* A connect moves nobody, but for a throw that is broken.                 *)
(***************************************************************************)
LEMMA SettledStays ==
  ASSUME NEW a, Standing(a), Typed(a), NEW i \in Seats, NEW mv,
         NEW ap \in Player, ap.x = a.players[i].x, ap.char = a.players[i].char,
         NEW dp \in Player, dp.x = a.players[Other(i)].x, dp.char = a.players[Other(i)].char
  PROVE  Stays(a, Settled(a, i, ap, dp, mv))
<1> DEFINE j == Other(i)
           qs == [a.players EXCEPT ![i] = ap, ![j] = dp]
           b == Settled(a, i, ap, dp, mv)
<1>1. j \in Seats /\ j # i /\ \A k \in Seats : k = i \/ k = j
  BY TwoSeats
<1>2. b.players = qs /\ b.projectiles = a.projectiles /\ b.camX = a.camX
  BY DEF Settled, Standing
<1>3. a.players \in [Seats -> Player]
  BY DEF Typed
<1>9. b.dealt \in [Seats -> Int]
  <2> DEFINE n == a.dealt[i] + (a.players[j].health - dp.health)
  <2>1. n \in Int
    BY <1>1, <1>3, PlayerFields DEF Typed
  <2>2. b.dealt = [a.dealt EXCEPT ![i] = n]
    BY DEF Settled, Standing
  <2> HIDE DEF n
  <2>. QED
    BY <2>1, <2>2 DEF Typed
<1> HIDE DEF b, j
<1>4. qs \in [Seats -> Player] /\ qs[i] = ap /\ qs[j] = dp
  BY <1>1, <1>3
<1> HIDE DEF qs
<1>5. Typed(b)
  BY <1>2, <1>4, <1>9 DEF Typed
<1>6. Walled(a) => Inside(ap, a.camX) /\ Inside(dp, a.camX)
  BY <1>1, SameSpot DEF Walled, j
<1>7. Walled(a) => Walled(b)
  BY <1>1, <1>2, <1>4, <1>6 DEF Walled
<1>. QED
  BY <1>2, <1>5, <1>7 DEF Stays, b

\* A gauge that fills moves nobody.
LEMMA FillsTyped ==
  ASSUME NEW p \in Player, NEW n \in Nat
  PROVE  LET q == gainSuper(p, n)
         IN  q \in Player /\ q.x = p.x /\ q.char = p.char
<1>1. gainSuper(p, n) \in Player
  BY SuperTyped
<1>2. DOMAIN p = Fields
  BY PlayerFields
<1>3. gainSuper(p, n).x = p.x /\ gainSuper(p, n).char = p.char
  BY <1>2 DEF gainSuper, Fields
<1>. QED
  BY <1>1, <1>3

\* One connect.
LEMMA ApplyHitStays ==
  ASSUME NEW a, Standing(a), Aloft(a), Typed(a), NEW i \in Seats, NEW mv \in MoveType, NEW in
  PROVE  Stays(a, applyHit(a, i, mv, in))
<1> DEFINE ap == a.players[i]
           dp == a.players[Other(i)]
           armored == absorbs(dp)
           blocked == ~armored /\ blocking(dp, in, mv.level)
           taken == IF armored THEN TakeArmored(dp, mv)
                    ELSE IF blocked THEN TakeBlocked(dp, ap, mv) ELSE TakeHit(dp, ap, mv)
           built == IF blocked THEN ap ELSE BuildDealt(ap, mv)
           paid == IF IsSpecial(mv) THEN gainSuper(built, Balance.superOnSpecial) ELSE built
<1>1. ap \in Player /\ dp \in Player /\ Sound(dp) /\ Afloat(dp)
  BY TwoSeats DEF Standing, Aloft, Typed
<1>2. applyHit(a, i, mv, in) = Settled(a, i, paid, taken, mv)
  BY Zenon DEF applyHit
<1> HIDE DEF ap, dp
<1>3. taken \in Player /\ taken.x = dp.x /\ taken.char = dp.char
  <2>1. CASE armored
    BY <1>1, <2>1, ArmoredTyped, ArmoredSound DEF Suffers
  <2>2. CASE blocked
    BY <1>1, <2>2, BlockedTyped, BlockedSound DEF Suffers
  <2>3. CASE ~armored /\ ~blocked
    <3>1. taken = TakeHit(dp, ap, mv)
      BY <2>3
    <3> HIDE DEF taken
    <3>. QED
      BY <1>1, <3>1, HitTyped, HitSound DEF Suffers
  <2>. QED
    BY <2>1, <2>2, <2>3
<1> HIDE DEF taken
<1>4. built \in Player /\ built.x = ap.x /\ built.char = ap.char
  <2> DEFINE t == Percent(mv.damage, Balance.superDealtPercent)
  <2>1. t \in Nat
    BY PercentNat, MoveNumbers, BalanceNumbers
  <2>2. built \in {ap, gainSuper(ap, t)}
    BY Zenon DEF BuildDealt
  <2> HIDE DEF t, built
  <2>. QED
    BY <1>1, <2>1, <2>2, FillsTyped
<1> HIDE DEF built
<1>5. paid \in Player /\ paid.x = ap.x /\ paid.char = ap.char
  <2> DEFINE n == Balance.superOnSpecial
  <2>1. n \in Nat
    BY BalanceNumbers
  <2>2. paid \in {built, gainSuper(built, n)}
    BY Zenon
  <2> HIDE DEF n, paid
  <2>. QED
    BY <1>4, <2>1, <2>2, FillsTyped
<1> HIDE DEF paid
<1>6. Stays(a, Settled(a, i, paid, taken, mv))
  BY <1>3, <1>5, SettledStays DEF ap, dp
<1>. QED
  BY <1>2, <1>6

\* A throw that is broken pushes apart, and the walls hold.
LEMMA TechStays ==
  ASSUME NEW a, Standing(a), Typed(a), NEW i \in Seats
  PROVE  Stays(a, tech(a, i))
<1> DEFINE ps == a.players
           j == Other(i)
           push == IF ps[i].x <= ps[j].x THEN -FromInt(Balance.throwTechPush)
                   ELSE FromInt(Balance.throwTechPush)
           freed(p, by) == [enter(p, "thrown") EXCEPT
                             !.stun = Balance.throwTechRecovery, !.vx = 0, !.vy = 0, !.x = @ + by]
           apart == [ps EXCEPT ![i] = freed(ps[i], push), ![j] = freed(ps[j], -push)]
           qs == clampToStage(apart, a.camX)
<1>1. ASSUME NEW p \in Player, NEW by \in Int
      PROVE  freed(p, by) \in Player
  <2> DEFINE e == enter(p, "thrown")
             n == Balance.throwTechRecovery
             x == e.x + by
             q == [e EXCEPT !.stun = n, !.vx = 0, !.vy = 0, !.x = x]
  <2>1. e \in Player
    BY EnterTyped, StatesNamed
  <2>2. freed(p, by) = q
    BY Zenon
  <2> HIDE DEF e
  <2>3. n \in Int /\ x \in Int
    BY <2>1, BalanceLoaded, PlayerFields
  <2> HIDE DEF n, x, freed
  <2>4. q \in Player
    BY <2>1, <2>3, Small, Zenon DEF Player
  <2>. QED
    BY <2>2, <2>4
<1>2. j \in Seats /\ j # i /\ \A k \in Seats : k = i \/ k = j
  BY TwoSeats
<1>3. push \in Int /\ -push \in Int
  <2>1. Balance.throwTechPush \in Nat
    <3>1. Balance \in BalanceType
      BY BalanceAssumption DEF LoadedBalance
    <3>. QED
      BY <3>1, Zenon DEF BalanceType
  <2>2. FromInt(Balance.throwTechPush) \in Int
    BY <2>1, ScaleAssumption DEF FromInt
  <2>. QED
    BY <2>2
<1>4. tech(a, i) = [a EXCEPT !.players = qs]
  BY <1>2, Zenon DEF tech, Standing
<1> HIDE DEF freed, push, j
<1>5. ps \in [Seats -> Player] /\ Framing(a.camX)
  BY DEF Typed
<1> HIDE DEF ps
<1>6. freed(ps[i], push) \in Player /\ freed(ps[j], -push) \in Player
  BY <1>1, <1>2, <1>3, <1>5
<1>7. apart \in [Seats -> Player]
  BY <1>2, <1>5, <1>6
<1> HIDE DEF apart
<1>8. qs \in [Seats -> Player] /\ (ScreenFits => \A k \in Seats : Inside(qs[k], a.camX))
  BY <1>5, <1>7, StageHolds
<1> HIDE DEF qs
<1>9. Stays(a, [a EXCEPT !.players = qs])
  BY <1>8, ReplacedTyped DEF Stays
<1>. QED
  BY <1>4, <1>9

\* Having hit moves nobody.
LEMMA MarkedTyped ==
  ASSUME NEW p \in Player
  PROVE  LET q == [p EXCEPT !.hasHit = TRUE]
         IN  q \in Player /\ q.x = p.x /\ q.char = p.char
<1>1. [p EXCEPT !.hasHit = TRUE] \in Player
  BY Small, Zenon DEF Player
<1>. QED
  BY <1>1, PlayerFields DEF Fields

\* A strike or a throw.
LEMMA ResolveHitStays ==
  ASSUME NEW a, Standing(a), Aloft(a), Typed(a), NEW i \in Seats, NEW mv \in MoveType, NEW in
  PROVE  Stays(a, resolveHit(a, i, mv, in))
<1>1. Stays(a, applyThrow(a, i, mv))
  <2> DEFINE ap == a.players[i]
             dp == a.players[Other(i)]
             t == Percent(mv.damage, Balance.superDealtPercent)
             g == gainSuper(ap, t)
             paid == [g EXCEPT !.hasHit = TRUE]
             q == TakeThrow(dp, mv)
  <2>1. ap \in Player /\ dp \in Player /\ Sound(dp)
    BY TwoSeats DEF Standing, Typed
  <2>2. t \in Nat
    BY PercentNat, MoveNumbers, BalanceNumbers
  <2>3. applyThrow(a, i, mv) \in {tech(a, i), Settled(a, i, paid, q, mv)}
    BY Zenon DEF applyThrow, BuildDealt
  <2> HIDE DEF ap, dp, t
  <2>4. g \in Player /\ g.x = ap.x /\ g.char = ap.char
    BY <2>1, <2>2, FillsTyped
  <2> HIDE DEF g
  <2>5. paid \in Player /\ paid.x = ap.x /\ paid.char = ap.char
    BY <2>4, MarkedTyped
  <2> HIDE DEF paid
  <2>6. q \in Player /\ q.x = dp.x /\ q.char = dp.char
    BY <2>1, ThrownTyped, ThrowSound DEF Suffers
  <2> HIDE DEF q
  <2>7. Stays(a, Settled(a, i, paid, q, mv))
    BY <2>5, <2>6, SettledStays DEF ap, dp
  <2>. QED
    BY <2>3, <2>7, TechStays
<1>2. Stays(a, applyHit([a EXCEPT !.players[i].hasHit = TRUE], i, mv, in))
  <2> DEFINE p == [a.players[i] EXCEPT !.hasHit = TRUE]
             qs == [a.players EXCEPT ![i] = p]
             b == [a EXCEPT !.players = qs]
  <2>1. b = [a EXCEPT !.players[i].hasHit = TRUE]
    BY Zenon
  <2>2. a.players \in [Seats -> Player] /\ a.players[i] \in Player
    BY DEF Typed
  <2>3. p \in Player /\ p.x = a.players[i].x /\ p.char = a.players[i].char
    BY <2>2, MarkedTyped
  <2>4. Same(a.players[i], p)
    BY <2>2, PlayerFields DEF Same, Fields
  <2> HIDE DEF p
  <2>5. qs \in [Seats -> Player] /\ \A k \in Seats : qs[k] = IF k = i THEN p ELSE a.players[k]
    BY <2>2, <2>3
  <2> HIDE DEF qs
  <2>6. Shifted(a.players, qs)
    <3>1. \A k \in Seats : Same(a.players[k], a.players[k])
      BY DEF Same
    <3>. QED
      BY <2>4, <2>5, <3>1 DEF Shifted
  <2>7. Strikes(a, b)
    BY <2>6, ShiftedStrikes
  <2>8. Typed(b) /\ b.camX = a.camX /\ b.players = qs
    BY <2>5, ReplacedTyped
  <2> HIDE DEF b
  <2>9. Standing(b) /\ Aloft(b)
    BY <2>7, StrikesAloft
  <2>10. Walled(a) => Walled(b)
    <3>1. Walled(a) => Inside(p, a.camX)
      BY <2>3, SameSpot DEF Walled
    <3>. QED
      BY <2>5, <2>8, <3>1 DEF Walled
  <2>11. Stays(a, b)
    BY <2>8, <2>10 DEF Stays
  <2>12. Stays(b, applyHit(b, i, mv, in))
    BY <2>8, <2>9, ApplyHitStays
  <2>13. Stays(a, applyHit(b, i, mv, in))
    BY <2>11, <2>12, StaysChain
  <2>. QED
    BY <2>1, <2>13
<1>. QED
  BY <1>1, <1>2 DEF resolveHit

\* Step 7: both seats.
LEMMA ResolveHitsStay ==
  ASSUME NEW a, Standing(a), Aloft(a), Typed(a), NEW in
  PROVE  Stays(a, ResolveHits(a, in))
<1> DEFINE hits(i) == IF connects(a, i, Other(i)) THEN MoveOf(a.players[i]) ELSE {}
           mv(i) == CHOOSE m \in hits(i) : TRUE
           apply(b, i) == IF hits(i) = {} THEN b ELSE resolveHit(b, i, mv(i), in[Other(i)])
<1>1. ASSUME NEW i \in Seats, hits(i) # {}
      PROVE  mv(i) \in MoveType
  <2>1. mv(i) \in hits(i)
    BY <1>1
  <2>2. hits(i) = MoveOf(a.players[i])
    BY <1>1
  <2>. QED
    BY <2>1, <2>2, MoveOfLoaded DEF Standing
<1>2. ResolveHits(a, in) = apply(apply(a, 0), 1)
  BY Zenon DEF ResolveHits
<1> HIDE DEF mv, hits
<1>3. ASSUME NEW b, Standing(b), Aloft(b), Typed(b), NEW i \in Seats
      PROVE  Strikes(b, apply(b, i)) /\ Stays(b, apply(b, i))
  <2>1. Strikes(b, b) /\ Stays(b, b)
    BY <1>3, StrikesRefl DEF Stays
  <2>2. ASSUME hits(i) # {}
        PROVE  LET c == resolveHit(b, i, mv(i), in[Other(i)]) IN Strikes(b, c) /\ Stays(b, c)
    BY <1>1, <1>3, <2>2, ResolveHitStrikes, ResolveHitStays
  <2>. QED
    BY <2>1, <2>2
<1> DEFINE first == apply(a, 0)
<1>4. Strikes(a, first) /\ Stays(a, first)
  BY <1>3 DEF Seats
<1>5. Standing(first) /\ Aloft(first) /\ Typed(first)
  BY <1>4, StrikesAloft DEF Stays
<1>6. ResolveHits(a, in) = apply(first, 1)
  BY <1>2
<1> HIDE DEF first
<1>7. Stays(first, apply(first, 1))
  BY <1>3, <1>5 DEF Seats
<1>8. Stays(a, apply(first, 1))
  BY <1>4, <1>7, StaysChain
<1>. QED
  BY <1>6, <1>8

\* One slot of the pool.
LEMMA SlotStays ==
  ASSUME NEW a, Standing(a), Aloft(a), Typed(a), NEW k, NEW in
  PROVE  LET b == InSlot(a, k, in)
         IN  Standing(b) /\ Aloft(b) /\ Typed(b) /\ Stays(a, b)
<1>1. Stays(a, a)
  BY DEF Stays
<1>2. ASSUME k \in Slots, a.projectiles[k].active
      PROVE  LET pr == a.projectiles[k]
                 mv == Roster[a.players[pr.owner].char].moves[pr.move]
             IN  Stays(a, [applyHit(a, pr.owner, mv, in[Other(pr.owner)])
                             EXCEPT !.projectiles[k] = FreeSlot])
  <2> DEFINE pr == a.projectiles[k]
             mv == Roster[a.players[pr.owner].char].moves[pr.move]
             b == applyHit(a, pr.owner, mv, in[Other(pr.owner)])
             c == [b EXCEPT !.projectiles[k] = FreeSlot]
  <2>1. pr.owner \in Seats /\ mv \in MoveType
    BY <1>2, MoveLoaded DEF Standing, Sound
  <2> HIDE DEF pr, mv
  <2>2. Stays(a, b) /\ Standing(b)
    BY <2>1, ApplyHitStays, ApplyHitStrikes DEF Strikes
  <2> HIDE DEF b
  <2>3. /\ c.players = b.players /\ c.camX = b.camX /\ c.dealt = b.dealt
        /\ c.projectiles = [b.projectiles EXCEPT ![k] = FreeSlot]
    BY <2>2 DEF Standing
  <2> HIDE DEF c
  <2>4. c.projectiles \in [Slots -> Projectile]
    BY <2>2, <2>3, FreeTyped DEF Stays, Typed
  <2>5. Stays(a, c)
    BY <2>2, <2>3, <2>4 DEF Stays, Typed, Walled
  <2>. QED
    BY <2>5, Zenon DEF pr, mv, b, c
<1>3. Stays(a, InSlot(a, k, in))
  BY <1>1, <1>2, Zenon DEF InSlot, resolveProjectile
<1>. QED
  BY <1>3, ProjectileStrikes DEF Stays

\* Steps 5 to 7 leave both fighters on the screen.
LEMMA StruckTyped ==
  ASSUME NEW a, Standing(a), Typed(a), NEW in
  PROVE  LET e == Struck(a, in)
         IN  Standing(e) /\ Typed(e) /\ e.camX = a.camX /\ (ScreenFits => Walled(e))
<1> DEFINE b == MovePlayers(a, in)
           c == advanceProjectiles(b)
           d == ResolveHits(c, in)
           d0 == InSlot(d, 0, in)
           d1 == InSlot(d0, 1, in)
           d2 == InSlot(d1, 2, in)
           e == InSlot(d2, 3, in)
<1>1. Struck(a, in) = e
  BY Zenon DEF Struck, resolveProjectiles
<1>2. Standing(b) /\ Aloft(b) /\ Typed(b) /\ b.camX = a.camX /\ (ScreenFits => Walled(b))
  BY MovePlayersStand, MovePlayersTyped
<1> HIDE DEF b
<1>3. Standing(c) /\ Aloft(c) /\ Typed(c) /\ Stays(b, c)
  BY <1>2, AdvanceProjectilesStands, StrikesAloft, ProjectilesTyped DEF Stays
<1> HIDE DEF c
<1>4. Standing(d) /\ Aloft(d) /\ Typed(d) /\ Stays(c, d)
  BY <1>3, ResolveHitsStrikes, StrikesAloft, ResolveHitsStay DEF Stays
<1> HIDE DEF d
<1>5. Standing(d0) /\ Aloft(d0) /\ Typed(d0) /\ Stays(d, d0)
  BY <1>4, SlotStays
<1> HIDE DEF d0
<1>6. Standing(d1) /\ Aloft(d1) /\ Typed(d1) /\ Stays(d0, d1)
  BY <1>5, SlotStays
<1> HIDE DEF d1
<1>7. Standing(d2) /\ Aloft(d2) /\ Typed(d2) /\ Stays(d1, d2)
  BY <1>6, SlotStays
<1> HIDE DEF d2
<1>8. Standing(e) /\ Aloft(e) /\ Typed(e) /\ Stays(d2, e)
  BY <1>7, SlotStays
<1> HIDE DEF e
<1>9. e.camX = a.camX /\ (ScreenFits => Walled(e))
  BY <1>2, <1>3, <1>4, <1>5, <1>6, <1>7, <1>8 DEF Stays
<1>. QED
  BY <1>1, <1>8, <1>9

\* Step 8 moves nobody, and takes no health.
LEMMA Step8Typed ==
  ASSUME NEW ps \in [Seats -> Player], \A i \in Seats : Sound(ps[i]), NEW training
  PROVE  LET qs == Each(updateResources(ps, training), endCombo)
         IN  /\ qs \in [Seats -> Player]
             /\ \A i \in Seats : /\ qs[i].x = ps[i].x /\ qs[i].char = ps[i].char
                                 /\ qs[i].health >= ps[i].health
<1>1. 0 \in Seats /\ 1 \in Seats /\ \A i \in Seats : i = 0 \/ i = 1
  BY DEF Seats
<1> DEFINE Spot(p, q) == q \in Player /\ q.x = p.x /\ q.char = p.char /\ q.health >= p.health
<1>2. ASSUME NEW rs \in [Seats -> Player], NEW l, NEW r, Spot(rs[0], l), Spot(rs[1], r),
             NEW qs, qs = [rs EXCEPT ![0] = l, ![1] = r]
      PROVE  qs \in [Seats -> Player] /\ \A i \in Seats : Spot(rs[i], qs[i])
  BY <1>1, <1>2
<1>3. ASSUME NEW p \in Player, Sound(p)
      PROVE  Spot(p, ToppedUp(p))
  <2> DEFINE h == Roster[p.char].health
             q == [p EXCEPT !.health = h, !.drive = DriveMax, !.super = SuperMax, !.burnout = FALSE]
  <2>1. ToppedUp(p) = q
    BY Zenon DEF ToppedUp
  <2>2. h \in Int /\ DriveMax \in Int /\ SuperMax \in Int
    BY PlayerFields, CharacterLoaded, GaugeSizes
  <2> HIDE DEF h
  <2>3. q \in Player
    BY <2>2, Small, Zenon DEF Player
  <2>4. q.x = p.x /\ q.char = p.char /\ q.health = h
    BY PlayerFields DEF Fields
  <2> HIDE DEF q
  <2>5. p.health <= h /\ p.health \in Int
    BY <1>3, PlayerFields DEF Sound, Gauges, h
  <2>. QED
    BY <2>1, <2>2, <2>3, <2>4, <2>5
<1>4. \A p \in Player : Spot(p, Recharge(p))
  <2> TAKE p \in Player
  <2>1. Recharge(p) \in Player
    BY RechargeTyped
  <2>2. DOMAIN p = Fields
    BY PlayerFields
  <2>3. Recharge(p).x = p.x /\ Recharge(p).char = p.char /\ Recharge(p).health = p.health
    BY <2>2 DEF Recharge, Fields
  <2>4. p.health \in Int
    BY PlayerFields
  <2>. QED
    BY <2>1, <2>3, <2>4
<1>5. \A p \in Player : Spot(p, endCombo(p))
  <2> TAKE p \in Player
  <2> DEFINE q == [p EXCEPT !.combo = 0, !.comboStarter = 0]
  <2>1. endCombo(p) \in {p, q}
    BY Zenon DEF endCombo
  <2>2. q \in Player
    BY Small, Zenon DEF Player
  <2>3. q.x = p.x /\ q.char = p.char /\ q.health = p.health /\ p.health \in Int
    BY PlayerFields DEF Fields
  <2> HIDE DEF q
  <2>. QED
    BY <2>1, <2>2, <2>3
<1> HIDE DEF Spot
<1> DEFINE rs == updateResources(ps, training)
<1>6. rs \in [Seats -> Player] /\ \A i \in Seats : Spot(ps[i], rs[i])
  <2>1. rs \in { [ps EXCEPT ![0] = ToppedUp(ps[0]), ![1] = ToppedUp(ps[1])],
                  [ps EXCEPT ![0] = Recharge(ps[0]), ![1] = Recharge(ps[1])] }
    BY Zenon DEF updateResources, Each
  <2> HIDE DEF rs
  <2>2. ps[0] \in Player /\ ps[1] \in Player /\ Sound(ps[0]) /\ Sound(ps[1])
    BY <1>1
  <2>3. /\ Spot(ps[0], ToppedUp(ps[0])) /\ Spot(ps[1], ToppedUp(ps[1]))
        /\ Spot(ps[0], Recharge(ps[0])) /\ Spot(ps[1], Recharge(ps[1]))
    BY <1>3, <1>4, <2>2
  <2> DEFINE tl == ToppedUp(ps[0])
             tr == ToppedUp(ps[1])
             rl == Recharge(ps[0])
             rr == Recharge(ps[1])
  <2>4. rs = [ps EXCEPT ![0] = tl, ![1] = tr] \/ rs = [ps EXCEPT ![0] = rl, ![1] = rr]
    BY <2>1, Zenon
  <2>5. Spot(ps[0], tl) /\ Spot(ps[1], tr) /\ Spot(ps[0], rl) /\ Spot(ps[1], rr)
    BY <2>3
  <2> HIDE DEF tl, tr, rl, rr
  <2>6. CASE rs = [ps EXCEPT ![0] = tl, ![1] = tr]
    BY <1>2, <2>5, <2>6
  <2>7. CASE rs = [ps EXCEPT ![0] = rl, ![1] = rr]
    BY <1>2, <2>5, <2>7
  <2>. QED
    BY <2>4, <2>6, <2>7
<1> HIDE DEF rs
<1> DEFINE qs == Each(rs, endCombo)
<1>7. qs \in [Seats -> Player] /\ \A i \in Seats : Spot(rs[i], qs[i])
  <2>1. qs = [rs EXCEPT ![0] = endCombo(rs[0]), ![1] = endCombo(rs[1])]
    BY Zenon DEF Each
  <2>2. Spot(rs[0], endCombo(rs[0])) /\ Spot(rs[1], endCombo(rs[1]))
    BY <1>1, <1>5, <1>6
  <2> HIDE DEF qs
  <2> DEFINE l == endCombo(rs[0])
             r == endCombo(rs[1])
  <2>3. qs = [rs EXCEPT ![0] = l, ![1] = r]
    BY <2>1
  <2>4. Spot(rs[0], l) /\ Spot(rs[1], r)
    BY <2>2
  <2> HIDE DEF l, r
  <2>. QED
    BY <1>2, <1>6, <2>3, <2>4
<1> HIDE DEF qs
<1>8. ASSUME NEW i \in Seats
      PROVE  qs[i].x = ps[i].x /\ qs[i].char = ps[i].char /\ qs[i].health >= ps[i].health
  <2>1. Spot(ps[i], rs[i]) /\ Spot(rs[i], qs[i]) /\ ps[i] \in Player /\ rs[i] \in Player /\ qs[i] \in Player
    BY <1>6, <1>7
  <2>2. ps[i].health \in Int /\ rs[i].health \in Int /\ qs[i].health \in Int
    BY <2>1, PlayerFields
  <2>. QED
    BY <2>1, <2>2 DEF Spot
<1>. QED
  BY <1>7, <1>8 DEF qs, rs

(***************************************************************************)
(* The camera.                                                             *)
(***************************************************************************)
\* Half of a sum, to within a half.
LEMMA QuoHalf ==
  ASSUME NEW s \in Int
  PROVE  Quo(s, 2) \in Int /\ 2 * Quo(s, 2) <= s + 1 /\ s - 1 <= 2 * Quo(s, 2)
  BY DEF Quo

\* Where the camera goes for fighters at lo and hi.
Follow(lo, hi, c, reach) ==
  IF hi - lo > 2 * reach THEN Quo(lo + hi, 2)
  ELSE IF hi > c + reach THEN hi - reach
  ELSE IF lo < c - reach THEN lo + reach ELSE c

\* The camera's rule: whoever was inside the old screen, a pushbox within the
\* margin wide, is inside the new one but for over and under, which make up for
\* the difference of the two pushboxes.
LEMMA CameraFollows ==
  ASSUME NEW x \in Int, NEW y \in Int, x <= y, NEW n \in Int, NEW m \in Int,
         NEW c \in Int, NEW half \in Int, NEW margin \in Int,
         0 < margin, 2 * margin < half, n <= margin, m <= margin,
         x - n >= c - half, y + m <= c + half,
         NEW over \in Nat, 2 * over >= n - m, NEW under \in Nat, 2 * under >= m - n
  PROVE  LET d == Follow(x, y, c, half - margin)
         IN  /\ d \in Int
             /\ x - n + over >= d - half /\ x + n <= d + half
             /\ y - m >= d - half /\ y + m <= d + half + under
<1> DEFINE reach == half - margin
           d == Follow(x, y, c, reach)
<1>1. reach \in Int /\ reach > margin /\ half = reach + margin
  OBVIOUS
<1>2. CASE y - x > 2 * reach
  <2> DEFINE q == Quo(x + y, 2)
  <2>1. q \in Int /\ 2 * q <= x + y + 1 /\ x + y - 1 <= 2 * q
    BY QuoHalf
  <2>2. d = q
    BY <1>2 DEF Follow
  <2> HIDE DEF q, d, reach
  <2>3. y - x <= 2 * half - n - m
    OBVIOUS
  <2>4. 2 * (q - half - x + n) <= n - m + 1
    BY <2>1, <2>3
  <2>5. q - half - x + n <= over
    BY <2>1, <2>4
  <2>6. 2 * (y + m - q - half) <= m - n + 1
    BY <2>1, <2>3
  <2>7. y + m - q - half <= under
    BY <2>1, <2>6
  <2>8. x + n <= q + half /\ y - m >= q - half
    BY <1>1, <1>2, <2>1
  <2>. QED
    BY <2>1, <2>2, <2>5, <2>7, <2>8 DEF d, reach
<1>3. CASE ~(y - x > 2 * reach)
  <2>1. d = IF y > c + reach THEN y - reach ELSE IF x < c - reach THEN x + reach ELSE c
    BY <1>3 DEF Follow
  <2> HIDE DEF d, reach
  <2>2. /\ d \in Int
        /\ x - n >= d - half /\ x + n <= d + half
        /\ y - m >= d - half /\ y + m <= d + half
    BY <1>1, <1>3, <2>1
  <2>. QED
    BY <1>1, <2>2 DEF d, reach
<1>. QED
  BY <1>2, <1>3

\* The stage holds the camera, and nobody leaves the screen by that.
LEMMA CameraHeld ==
  ASSUME NEW d \in Int
  PROVE  LET e == clampCamera(d)
             half == Balance.cameraHalfWidth
             stage == Balance.stageHalfWidth
         IN  /\ Framing(e)
             /\ \A x, over \in Int : x >= -stage /\ over >= 0 /\ x + over >= d - half => x + over >= e - half
             /\ \A x, over \in Int : x <= stage /\ over >= 0 /\ x <= d + half + over => x <= e + half + over
<1> DEFINE half == Balance.cameraHalfWidth
           stage == Balance.stageHalfWidth
           e == Lesser(Greater(d, half - stage), stage - half)
<1>1. half \in Int /\ stage \in Int /\ 0 < half /\ half <= stage
  BY StageLoaded
<1>2. clampCamera(d) = e
  BY Zenon DEF clampCamera
<1>3. Framing(e) <=> e \in Int /\ half - stage <= e /\ e <= stage - half
  BY DEF Framing
<1> HIDE DEF half, stage
<1>4. e \in {d, half - stage, stage - half} /\ half - stage <= e /\ e <= stage - half
      /\ (e > d => e = half - stage) /\ (e < d => e = stage - half)
  BY <1>1 DEF Lesser, Greater
<1> HIDE DEF e
<1>5. e \in Int
  BY <1>1, <1>4
<1>6. \A x, over \in Int : x >= -stage /\ over >= 0 /\ x + over >= d - half => x + over >= e - half
  BY <1>1, <1>4, <1>5
<1>7. \A x, over \in Int : x <= stage /\ over >= 0 /\ x <= d + half + over => x <= e + half + over
  BY <1>1, <1>4, <1>5
<1>. QED
  BY <1>2, <1>3, <1>4, <1>5, <1>6, <1>7 DEF half, stage

\* How far a pushbox of half width n may stick out beside one of half width m.
Excess(n, m) == IF n > m THEN (n - m + 1) \div 2 ELSE 0

LEMMA ExcessIs ==
  ASSUME NEW n \in Int, NEW m \in Int
  PROVE  Excess(n, m) \in Nat /\ 2 * Excess(n, m) >= n - m
  BY DEF Excess

\* A fighter as OnScreen asks for it.
Shown(p, o, c) ==
  /\ p.x - Breadth(p) >= -Balance.stageHalfWidth /\ p.x + Breadth(p) <= Balance.stageHalfWidth
  /\ p.x - Breadth(p) + Excess(Breadth(p), Breadth(o)) >= c - Balance.cameraHalfWidth
  /\ p.x + Breadth(p) <= c + Balance.cameraHalfWidth + Excess(Breadth(p), Breadth(o))

\* The camera moves from a screen both are in to one that shows both.
LEMMA CameraShows ==
  ASSUME NEW p \in Player, NEW o \in Player, p.x <= o.x, NEW c, Framing(c),
         Inside(p, c), Inside(o, c),
         Breadth(p) <= Balance.cameraMargin, Breadth(o) <= Balance.cameraMargin
  PROVE  LET e == clampCamera(Follow(p.x, o.x, c, Balance.cameraHalfWidth - Balance.cameraMargin))
         IN  Framing(e) /\ Shown(p, o, e) /\ Shown(o, p, e)
<1> DEFINE half == Balance.cameraHalfWidth
           stage == Balance.stageHalfWidth
           margin == Balance.cameraMargin
           x == p.x
           y == o.x
           n == Breadth(p)
           m == Breadth(o)
           over == Excess(n, m)
           under == Excess(m, n)
           d == Follow(x, y, c, half - margin)
           e == clampCamera(d)
<1>1. /\ half \in Int /\ stage \in Int /\ margin \in Int
      /\ 0 < margin /\ 2 * margin < half /\ half <= stage
  BY StageLoaded
<1>2. x \in Int /\ y \in Int /\ n \in Int /\ m \in Int /\ c \in Int
  BY BoxIs, PlayerFields DEF Framing
<1>3. x <= y /\ n <= margin /\ m <= margin
  OBVIOUS
<1>4. x - n >= c - half /\ x + n <= c + half /\ y - m >= c - half /\ y + m <= c + half
  BY DEF Inside
<1>5. half - stage <= c /\ c <= stage - half
  BY DEF Framing
<1>6. /\ Shown(p, o, e) <=> /\ x - n >= -stage /\ x + n <= stage
                            /\ x - n + over >= e - half /\ x + n <= e + half + over
      /\ Shown(o, p, e) <=> /\ y - m >= -stage /\ y + m <= stage
                            /\ y - m + under >= e - half /\ y + m <= e + half + under
  BY Zenon DEF Shown
<1> HIDE DEF half, stage, margin, x, y, n, m
<1>7. over \in Nat /\ 2 * over >= n - m /\ under \in Nat /\ 2 * under >= m - n
  BY <1>2, ExcessIs
<1> HIDE DEF over, under
<1>8. /\ d \in Int
      /\ x - n + over >= d - half /\ x + n <= d + half
      /\ y - m >= d - half /\ y + m <= d + half + under
  BY <1>1, <1>2, <1>3, <1>4, <1>7, CameraFollows
<1>9. x - n >= -stage /\ x + n <= stage /\ y - m >= -stage /\ y + m <= stage
  BY <1>1, <1>2, <1>4, <1>5
<1> HIDE DEF d
<1>10. /\ Framing(e)
       /\ \A z, k \in Int : z >= -stage /\ k >= 0 /\ z + k >= d - half => z + k >= e - half
       /\ \A z, k \in Int : z <= stage /\ k >= 0 /\ z <= d + half + k => z <= e + half + k
  BY <1>8, CameraHeld DEF half, stage
<1>11. e \in Int
  BY <1>10 DEF Framing
<1> HIDE DEF e
<1>12. ASSUME NEW z \in Int, NEW k \in Nat
       PROVE  /\ z >= -stage /\ z + k >= d - half => z + k >= e - half
              /\ z <= stage /\ z <= d + half + k => z <= e + half + k
  <2>1. k \in Int /\ k >= 0
    OBVIOUS
  <2>. QED
    BY <1>10, <2>1
<1>13. x - n + over >= e - half /\ y - m >= e - half /\ x + n <= e + half /\ y + m <= e + half + under
  <2> DEFINE l == x - n
             r == x + n
             u == y - m
             v == y + m
  <2>1. l \in Int /\ r \in Int /\ u \in Int /\ v \in Int
    BY <1>2
  <2>2. /\ l >= -stage /\ l + over >= d - half /\ u >= -stage /\ u + 0 >= d - half
        /\ r <= stage /\ r <= d + half + 0 /\ v <= stage /\ v <= d + half + under
    BY <1>1, <1>2, <1>8, <1>9
  <2> HIDE DEF l, r, u, v
  <2>3. /\ l + over >= e - half /\ u + 0 >= e - half
        /\ r <= e + half + 0 /\ v <= e + half + under
    <3>1. 0 \in Nat
      OBVIOUS
    <3>2. l + over >= e - half
      BY <1>7, <1>12, <2>1, <2>2, Zenon
    <3>3. u + 0 >= e - half
      BY <1>12, <2>1, <2>2, <3>1, Zenon
    <3>4. r <= e + half + 0
      BY <1>12, <2>1, <2>2, <3>1, Zenon
    <3>5. v <= e + half + under
      BY <1>7, <1>12, <2>1, <2>2, Zenon
    <3>. QED
      BY <3>2, <3>3, <3>4, <3>5
  <2>. QED
    BY <1>1, <1>11, <2>1, <2>3 DEF l, r, u, v
<1>14. x + n <= e + half + over /\ y - m + under >= e - half
  BY <1>1, <1>2, <1>7, <1>11, <1>13
<1>15. Shown(p, o, e) /\ Shown(o, p, e)
  BY <1>6, <1>9, <1>13, <1>14
<1>. QED
  BY <1>10, <1>15 DEF e, d, half, margin, x, y

\* Step 8 ends with the camera, which shows both.
Displayed(a) == \A i \in Seats : Shown(a.players[i], a.players[Other(i)], a.camX)

LEMMA CameraTyped ==
  ASSUME NEW a, DOMAIN a = {"players", "projectiles", "camX", "hitstop", "dealt"}, Typed(a)
  PROVE  LET b == updateCamera(a)
         IN  Typed(b) /\ b.players = a.players /\ (ScreenFits /\ Walled(a) => Displayed(b))
<1> DEFINE p == a.players[0]
           o == a.players[1]
           c == a.camX
           reach == Balance.cameraHalfWidth - Balance.cameraMargin
           lo == Lesser(p.x, o.x)
           hi == Greater(p.x, o.x)
           d == Follow(lo, hi, c, reach)
           e == clampCamera(d)
           b == [a EXCEPT !.camX = e]
<1>1. 0 \in Seats /\ 1 \in Seats /\ Other(0) = 1 /\ Other(1) = 0 /\ \A i \in Seats : i = 0 \/ i = 1
  BY DEF Seats, Other
<1>2. updateCamera(a) = b
  BY Zenon DEF updateCamera, Follow
<1>3. p \in Player /\ o \in Player /\ Framing(c)
  BY <1>1 DEF Typed
<1>4. b.players = a.players /\ b.projectiles = a.projectiles /\ b.camX = e /\ b.dealt = a.dealt
  OBVIOUS
<1>5. p.x \in Int /\ o.x \in Int /\ c \in Int /\ reach \in Int
  BY <1>3, PlayerFields, StageLoaded DEF Framing
<1>6. d \in Int
  <2>1. lo \in Int /\ hi \in Int
    BY <1>5 DEF Lesser, Greater
  <2>2. Quo(lo + hi, 2) \in Int
    BY <2>1, QuoInt
  <2> HIDE DEF lo, hi, c, reach
  <2>. QED
    BY <1>5, <2>1, <2>2 DEF Follow
<1>7. Framing(e)
  BY <1>6, CameraHeld
<1>8. ASSUME ScreenFits, Walled(a)
      PROVE  Shown(p, o, e) /\ Shown(o, p, e)
  <2>1. Inside(p, c) /\ Inside(o, c)
    BY <1>1, <1>8 DEF Walled
  <2>2. Breadth(p) <= Balance.cameraMargin /\ Breadth(o) <= Balance.cameraMargin
    BY <1>3, <1>8, BoxIs
  <2>3. CASE p.x <= o.x
    <3>1. lo = p.x /\ hi = o.x
      BY <1>5, <2>3 DEF Lesser, Greater
    <3> HIDE DEF p, o, c, lo, hi
    <3>. QED
      BY <1>3, <2>1, <2>2, <2>3, <3>1, CameraShows
  <2>4. CASE ~(p.x <= o.x)
    <3>1. lo = o.x /\ hi = p.x /\ o.x <= p.x
      BY <1>5, <2>4 DEF Lesser, Greater
    <3> HIDE DEF p, o, c, lo, hi
    <3>. QED
      BY <1>3, <2>1, <2>2, <3>1, CameraShows
  <2>. QED
    BY <2>3, <2>4
<1> HIDE DEF b, e
<1>9. Typed(b)
  BY <1>4, <1>7 DEF Typed
<1>10. ScreenFits /\ Walled(a) => Displayed(b)
  BY <1>1, <1>4, <1>8 DEF Displayed
<1>. QED
  BY <1>2, <1>4, <1>9, <1>10

\* What a seat has dealt covers what the other has lost since it was last full.
Owed(a) ==
  \A i \in Seats :
    a.dealt[i] >= Roster[a.players[Other(i)].char].health - a.players[Other(i)].health

\* A frame of the fight.
LEMMA FightOnTyped ==
  ASSUME NEW a, Standing(a), Typed(a), NEW in
  PROVE  LET b == FightOn(a, in)
         IN  Typed(b) /\ (ScreenFits => Displayed(b)) /\ (Owed(a) => Owed(b))
<1> DEFINE m == MovePlayers(a, in)
           s == Struck(a, in)
           ps == s.players
           qs == Each(updateResources(ps, flow.training), endCombo)
           t == [s EXCEPT !.players = qs]
           b == updateCamera(t)
<1>0. FightOn(a, in) = b
  BY Zenon DEF FightOn
<1>1. /\ Standing(m) /\ m.dealt = a.dealt
      /\ \A i \in Seats : Follows(a.players[i], m.players[i])
  BY MovePlayersStand
<1>2. Strikes(m, s)
  BY StruckStrikes
<1>3. Standing(s) /\ Typed(s) /\ (ScreenFits => Walled(s))
  BY StruckTyped
<1> HIDE DEF m, s
<1>4. ps \in [Seats -> Player] /\ \A i \in Seats : Sound(ps[i])
  BY <1>3 DEF Typed, Standing
<1>5. /\ qs \in [Seats -> Player]
      /\ \A i \in Seats : qs[i].x = ps[i].x /\ qs[i].char = ps[i].char /\ qs[i].health >= ps[i].health
  BY <1>4, Step8Typed
<1> HIDE DEF qs
<1>6. /\ Typed(t) /\ t.camX = s.camX /\ t.players = qs
      /\ (\A i \in Seats : Inside(qs[i], s.camX)) => Walled(t)
  BY <1>3, <1>5, ReplacedTyped
<1>7. /\ DOMAIN t = {"players", "projectiles", "camX", "hitstop", "dealt"}
      /\ t.dealt = s.dealt
  BY <1>3 DEF Standing
<1> HIDE DEF t
<1>8. ScreenFits => Walled(t)
  <2>1. Walled(s) => \A i \in Seats : Inside(qs[i], s.camX)
    BY <1>5, SameSpot DEF Walled
  <2>. QED
    BY <1>3, <1>6, <2>1
<1>9. /\ Typed(b) /\ b.players = qs /\ b.dealt = s.dealt
      /\ ScreenFits => Displayed(b)
  <2>1. b.dealt = t.dealt
    BY <1>7, Zenon DEF updateCamera
  <2>. QED
    BY <1>6, <1>7, <1>8, <2>1, CameraTyped
<1> HIDE DEF b
<1>10. ASSUME Owed(a), NEW i \in Seats
       PROVE  b.dealt[i] >= Roster[b.players[Other(i)].char].health - b.players[Other(i)].health
  <2> DEFINE j == Other(i)
             full == Roster[a.players[j].char].health
  <2>1. j \in Seats
    BY TwoSeats
  <2>2. a.dealt[i] >= full - a.players[j].health
    BY <1>10 DEF Owed
  <2> HIDE DEF j
  <2>3. /\ m.dealt[i] = a.dealt[i] /\ m.players[j].health = a.players[j].health
        /\ m.players[j].char = a.players[j].char /\ Sound(m.players[j])
    BY <1>1, <2>1 DEF Follows
  <2>4. s.dealt[i] - m.dealt[i] = m.players[j].health - ps[j].health /\ ps[j].char = m.players[j].char
    BY <1>2, <2>1 DEF Strikes, Suffers, j
  <2>5. b.dealt[i] = s.dealt[i] /\ b.players[j].char = ps[j].char /\ b.players[j].health >= ps[j].health
    BY <1>5, <1>9, <2>1
  <2>6. a.dealt[i] \in Int /\ s.dealt[i] \in Int
    BY <1>3 DEF Standing
  <2>7. a.players[j].health \in Int /\ ps[j].health \in Int /\ b.players[j].health \in Int /\ full \in Int
    <3>1. a.players[j] \in Player /\ ps[j] \in Player /\ b.players[j] \in Player
      BY <1>4, <1>5, <1>9, <2>1 DEF Typed
    <3>. QED
      BY <3>1, PlayerFields, CharacterLoaded
  <2>8. Roster[b.players[j].char].health = full
    BY <2>3, <2>4, <2>5
  <2> HIDE DEF full
  <2>9. b.dealt[i] >= full - b.players[j].health
    BY <2>2, <2>3, <2>4, <2>5, <2>6, <2>7
  <2>. QED
    BY <2>8, <2>9 DEF j
<1>11. Owed(a) => Owed(b)
  BY <1>10 DEF Owed
<1>. QED
  BY <1>0, <1>9, <1>11

(***************************************************************************)
(* The round flow and the inputs.                                          *)
(***************************************************************************)
LEMMA FlowFields ==
  ASSUME NEW f \in Flow
  PROVE  /\ DOMAIN f = {"phase", "phaseFrame", "timer", "training", "round", "wins",
                        "roundWinner", "winner"}
         /\ f.phase \in Phases /\ f.phaseFrame \in Int /\ f.timer \in Int /\ f.training \in BOOLEAN
         /\ f.round \in Int /\ f.wins \in [Seats -> Int]
         /\ f.roundWinner \in Seats \cup {RoundNobody} /\ f.winner \in Seats \cup {RoundNobody}
  BY Zenon DEF Flow

LEMMA FlowStartsTyped ==
  ASSUME NEW training \in BOOLEAN
  PROVE  NewFlow(training) \in Flow
<1>1. 0 \in Int /\ RoundFrames \in Int /\ 1 \in Int /\ RoundNobody \in Seats \cup {RoundNobody}
  BY RoundAssumption
<1>2. [i \in Seats |-> 0] \in [Seats -> Int] /\ "fight" \in Phases
  BY DEF Phases
<1>. QED
  BY <1>1, <1>2, Zenon DEF NewFlow, Flow

LEMMA PhaseTyped ==
  ASSUME NEW f \in Flow, NEW phase \in Phases
  PROVE  enterPhase(f, phase) \in Flow
<1>1. 0 \in Int
  OBVIOUS
<1>. QED
  BY <1>1, Zenon DEF enterPhase, Flow

\* Between two rounds.
LEMMA AdvanceTyped ==
  ASSUME NEW f \in Flow, f.phase \in {"ko", "roundEnd", "intro"}, NEW dealt
  PROVE  advancePhase(f, dealt) \in Flow
<1> DEFINE n == f.phaseFrame + 1
           longer == [f EXCEPT !.phaseFrame = n]
           w == matchWinner(f, dealt)
           won == [f EXCEPT !.winner = w]
           r == f.round + 1
           next == [f EXCEPT !.round = r, !.timer = RoundFrames, !.roundWinner = RoundNobody]
<1>1. /\ n \in Int /\ r \in Int /\ RoundFrames \in Int /\ RoundNobody \in Seats \cup {RoundNobody}
      /\ {"roundEnd", "matchEnd", "intro", "fight"} \subseteq Phases
  BY FlowFields, RoundAssumption DEF Phases
<1>2. w \in Seats \cup {RoundNobody}
  BY DEF matchWinner, Seats
<1>3. advancePhase(f, dealt) \in
        {longer, enterPhase(f, "roundEnd"), enterPhase(won, "matchEnd"), enterPhase(next, "intro"),
         enterPhase(f, "fight")}
  <2>1. CASE ~PhaseEnds(f)
    BY <2>1, Zenon DEF advancePhase
  <2>2. CASE PhaseEnds(f) /\ f.phase = "ko"
    BY <2>2 DEF advancePhase
  <2>3. CASE PhaseEnds(f) /\ f.phase = "roundEnd"
    BY <2>3 DEF advancePhase, startRound
  <2>4. CASE PhaseEnds(f) /\ f.phase = "intro"
    BY <2>4 DEF advancePhase
  <2>. QED
    BY <2>1, <2>2, <2>3, <2>4
<1> HIDE DEF n, w, r
<1>4. longer \in Flow /\ won \in Flow
  BY <1>1, <1>2, Zenon DEF Flow
<1>5. next \in Flow
  BY <1>1, Zenon DEF Flow
<1> HIDE DEF longer, won, next
<1>6. /\ enterPhase(f, "roundEnd") \in Flow /\ enterPhase(won, "matchEnd") \in Flow
      /\ enterPhase(next, "intro") \in Flow /\ enterPhase(f, "fight") \in Flow
  BY <1>1, <1>4, <1>5, PhaseTyped
<1>. QED
  BY <1>3, <1>4, <1>6

\* The end of a frame of the fight.
LEMMA RoundTyped ==
  ASSUME NEW f \in Flow, NEW dead, NEW ahead \in Seats \cup {RoundNobody}
  PROVE  updateRound(f, dead, ahead) \in Flow
<1> DEFINE timer == IF f.timer > 0 THEN f.timer - 1 ELSE f.timer
           clock == [f EXCEPT !.timer = timer]
<1>1. timer \in Int
  BY FlowFields
<1>2. updateRound(f, dead, ahead) \in {f, clock} \cup {endRound(clock, w) : w \in Seats \cup {RoundNobody}}
  BY Zenon DEF updateRound, Seats
<1> HIDE DEF timer
<1>3. clock \in Flow
  BY <1>1, Zenon DEF Flow
<1> HIDE DEF clock
<1>4. ASSUME NEW w \in Seats \cup {RoundNobody}
      PROVE  endRound(clock, w) \in Flow
  <2> DEFINE wins == [i \in Seats |-> IF i = w THEN clock.wins[i] + 1 ELSE clock.wins[i]]
             g == [clock EXCEPT !.roundWinner = w, !.wins = wins]
  <2>1. wins \in [Seats -> Int]
    BY <1>3, FlowFields
  <2>2. endRound(clock, w) = enterPhase(g, "ko")
    BY Zenon DEF endRound
  <2> HIDE DEF wins
  <2>3. g \in Flow
    BY <1>3, <2>1, Zenon DEF Flow
  <2> HIDE DEF g
  <2>4. "ko" \in Phases
    BY DEF Phases
  <2>. QED
    BY <2>2, <2>3, <2>4, PhaseTyped
<1>. QED
  BY <1>2, <1>3, <1>4

\* The rule list picks plans.
LEMMA RulesPlan ==
  ASSUME NEW p, NEW o, NEW shot
  PROVE  aiDecide(p, o, shot) \subseteq Plans
<1> DEFINE rules == aiRules(p, o, shot)
           taken == {r \in DOMAIN rules :
                       /\ rules[r].when /\ rules[r].percent > 0
                       /\ \A q \in 1 .. r - 1 : rules[q].when => rules[q].percent < 100}
<1>1. \A r \in DOMAIN rules : rules[r].plans \subseteq Plans
  BY DEF aiRules, Plans
<1>2. aiDecide(p, o, shot) = UNION {rules[r].plans : r \in taken}
  BY Zenon DEF aiDecide
<1>3. taken \subseteq DOMAIN rules
  OBVIOUS
<1> HIDE DEF rules, taken
<1>. QED
  BY <1>1, <1>2, <1>3

\* A plan presses buttons.
LEMMA PlanPresses ==
  ASSUME NEW plan, NEW age \in Nat, NEW facing
  PROVE  aiPress(plan, age, facing) \in SUBSET (Buttons \cup Directions)
<1> DEFINE fwd == IF facing < 0 THEN "left" ELSE "right"
           back == IF facing < 0 THEN "right" ELSE "left"
           script == Script(plan, fwd)
           B == SUBSET (Buttons \cup Directions)
<1>1. fwd \in Directions /\ back \in Directions
  BY DEF Directions
<1>2. aiPress(plan, age, facing) \in {{fwd}, {back}, {}} \/
      (age < Len(script) /\ aiPress(plan, age, facing) = script[age + 1])
  BY Zenon DEF aiPress
<1> HIDE DEF fwd, back
<1>3. script \in Seq(B)
  <2>1. /\ {"LP"} \in B /\ {"HP"} \in B /\ {"down", "HK"} \in B /\ {"LP", "LK"} \in B
        /\ {"down", "HP"} \in B /\ {"up"} \in B /\ {fwd} \in B /\ {"down"} \in B
        /\ {fwd, "LP"} \in B /\ {"down", fwd} \in B
    BY <1>1 DEF Buttons, Directions
  <2> HIDE DEF B
  <2>2. /\ <<{"LP"}>> \in Seq(B) /\ <<{"HP"}>> \in Seq(B) /\ <<{"down", "HK"}>> \in Seq(B)
        /\ <<{"LP", "LK"}>> \in Seq(B) /\ <<{"down", "HP"}>> \in Seq(B) /\ <<{"up"}>> \in Seq(B)
        /\ <<{fwd}, {"down"}, {fwd, "LP"}>> \in Seq(B)
        /\ <<{"down"}, {"down", fwd}, {fwd, "LP"}>> \in Seq(B) /\ <<>> \in Seq(B)
    BY <2>1
  <2>. QED
    BY <2>2 DEF Script
<1> HIDE DEF script
<1>4. age < Len(script) => script[age + 1] \in B
  BY <1>3
<1>5. {fwd} \in B /\ {back} \in B /\ {} \in B
  BY <1>1
<1>. QED
  BY <1>2, <1>4, <1>5

\* Whoever is inside a screen of the stage is shown.
LEMMA InsideShows ==
  ASSUME NEW p \in Player, NEW o \in Player, NEW c, Framing(c), Inside(p, c)
  PROVE  Shown(p, o, c)
<1>1. Breadth(p) \in Int /\ Breadth(o) \in Int /\ p.x \in Int /\ c \in Int
  BY BoxIs, PlayerFields DEF Framing
<1>2. Excess(Breadth(p), Breadth(o)) \in Nat
  BY <1>1, ExcessIs
<1>. QED
  BY <1>1, <1>2, StageLoaded DEF Inside, Shown, Framing

\* What is recorded, and what it leaves.
LEMMA RecordedTyped ==
  ASSUME Standing(arena), Typed(arena), NEW press,
         \A i \in Seats : press[i].in \in SUBSET (Buttons \cup Directions) /\ press[i].plan \in Plans
  PROVE  LET b == Recorded(press)
         IN  /\ Typed(b) /\ b.camX = arena.camX
             /\ \A i \in Seats : b.players[i].x = arena.players[i].x
<1> DEFINE ps == arena.players
           l == record([ps[0] EXCEPT !.plan = press[0].plan], press[0].in)
           r == record([ps[1] EXCEPT !.plan = press[1].plan], press[1].in)
           qs == [ps EXCEPT ![0] = l, ![1] = r]
<1>1. 0 \in Seats /\ 1 \in Seats /\ \A i \in Seats : i = 0 \/ i = 1
  BY DEF Seats
<1>2. ps \in [Seats -> Player]
  BY DEF Typed
<1>3. Recorded(press) = [arena EXCEPT !.players = qs]
  BY Zenon DEF Recorded
<1>4. ASSUME NEW p \in Player, NEW plan \in Plans, NEW in \in SUBSET (Buttons \cup Directions)
      PROVE  LET q == record([p EXCEPT !.plan = plan], in) IN q \in Player /\ q.x = p.x
  <2>1. record([p EXCEPT !.plan = plan], in) \in Player
    BY RecordTyped
  <2>2. DOMAIN p = Fields
    BY PlayerFields
  <2> DEFINE e == [p EXCEPT !.plan = plan]
             y == <<in>> \o SubSeq(e.inputs, 1, InputHistory - 1)
             z == IF e.unspent < InputBuffer THEN e.unspent + 1 ELSE InputBuffer
  <2>3. record(e, in) = [e EXCEPT !.inputs = y, !.unspent = z]
    BY Zenon DEF record
  <2>4. record(e, in).x = p.x
    <3>1. e.x = p.x /\ DOMAIN e = Fields
      BY <2>2 DEF Fields
    <3> HIDE DEF e, y, z
    <3>. QED
      BY <2>3, <3>1 DEF Fields
  <2>. QED
    BY <2>1, <2>4
<1>5. l \in Player /\ l.x = ps[0].x /\ r \in Player /\ r.x = ps[1].x
  <2>1. /\ ps[0] \in Player /\ press[0].plan \in Plans /\ press[0].in \in SUBSET (Buttons \cup Directions)
        /\ ps[1] \in Player /\ press[1].plan \in Plans /\ press[1].in \in SUBSET (Buttons \cup Directions)
    BY <1>1, <1>2
  <2>. QED
    BY <1>4, <2>1
<1> HIDE DEF l, r
<1>6. qs \in [Seats -> Player] /\ qs[0] = l /\ qs[1] = r
  BY <1>1, <1>2, <1>5
<1> HIDE DEF qs
<1>7. LET b == [arena EXCEPT !.players = qs] IN Typed(b) /\ b.camX = arena.camX /\ b.players = qs
  BY <1>6, ReplacedTyped
<1>. QED
  BY <1>1, <1>3, <1>5, <1>6, <1>7

\* The start of a match or of a round.
LEMMA NewMatchTyped ==
  ASSUME NEW chars \in [Seats -> DOMAIN Roster]
  PROVE  LET a == NewMatch(chars)
         IN  Typed(a) /\ (ScreenFits => Walled(a))
<1> DEFINE s == FromInt(StartX)
           ps == StartingPlayers(chars)
           a == NewMatch(chars)
           n(i) == Breadth(ps[i])
<1>1. 0 \in Seats /\ 1 \in Seats /\ \A i \in Seats : i = 0 \/ i = 1
  BY DEF Seats
<1>2. s \in Int /\ s >= 0
  BY StartAssumption, ScaleAssumption DEF FromInt
<1>3. /\ a.players = ps /\ a.projectiles = [k \in Slots |-> FreeSlot] /\ a.camX = centreCamera(ps)
      /\ a.dealt = [i \in Seats |-> 0]
  BY DEF NewMatch
<1> HIDE DEF a
<1>4. ps[0] = FreshPlayer(-s, 1, chars[0]) /\ ps[1] = FreshPlayer(s, -1, chars[1]) /\ DOMAIN ps = Seats
  BY <1>1 DEF StartingPlayers
<1>5. ps \in [Seats -> Player]
  <2>1. -s \in Int /\ 1 \in {1, -1} /\ -1 \in {1, -1}
    BY <1>2
  <2> HIDE DEF s, ps
  <2>2. ps[0] \in Player /\ ps[1] \in Player
    BY <1>1, <1>2, <1>4, <2>1, FreshTyped
  <2>3. ps = [i \in Seats |-> ps[i]]
    BY Zenon DEF ps, StartingPlayers
  <2>. QED
    BY <1>1, <2>2, <2>3
<1>6. ps[0].x = -s /\ ps[1].x = s
  BY <1>4 DEF FreshPlayer
<1> HIDE DEF ps, s
<1>7. a.camX = 0 /\ Framing(a.camX)
  <2> DEFINE half == Balance.cameraHalfWidth
             stage == Balance.stageHalfWidth
  <2>1. half \in Int /\ stage \in Int /\ half <= stage
    BY StageLoaded
  <2>2. Quo(ps[0].x + ps[1].x, 2) = 0
    BY <1>2, <1>6 DEF Quo
  <2>3. a.camX = Lesser(Greater(0, half - stage), stage - half)
    BY <1>3, <2>2, Zenon DEF centreCamera, clampCamera
  <2>4. Framing(0) <=> 0 \in Int /\ half - stage <= 0 /\ 0 <= stage - half
    BY DEF Framing
  <2> HIDE DEF half, stage
  <2>5. a.camX = 0 /\ half - stage <= 0 /\ 0 <= stage - half
    BY <2>1, <2>3 DEF Lesser, Greater
  <2>. QED
    BY <2>4, <2>5
<1>8. Typed(a)
  <2>1. a.projectiles \in [Slots -> Projectile]
    BY <1>3, FreeTyped
  <2>. QED
    BY <1>3, <1>5, <1>7, <2>1 DEF Typed
<1>9. ASSUME ScreenFits
      PROVE  Walled(a)
  <2>1. ASSUME NEW i \in Seats
        PROVE  n(i) \in Int /\ n(i) <= Balance.cameraMargin /\ s + n(i) <= Balance.cameraHalfWidth
    BY <1>5, <1>9, BoxIs DEF s
  <2>2. ASSUME NEW i \in Seats
        PROVE  Inside(ps[i], 0)
    <3> DEFINE half == Balance.cameraHalfWidth
               margin == Balance.cameraMargin
               x == ps[i].x
               m == n(i)
    <3>1. half \in Int /\ margin \in Int /\ 0 < margin /\ 2 * margin < half
      BY StageLoaded
    <3>2. m \in Int /\ m <= margin /\ s + m <= half
      BY <2>1
    <3>3. x = s \/ x = -s
      BY <1>1, <1>6
    <3>4. Inside(ps[i], 0) <=> x - m >= 0 - half /\ x + m <= 0 + half
      BY DEF Inside
    <3> HIDE DEF half, margin, x, m
    <3>5. x - m >= 0 - half /\ x + m <= 0 + half
      BY <1>2, <3>1, <3>2, <3>3
    <3>. QED
      BY <3>4, <3>5
  <2>. QED
    BY <1>3, <1>7, <2>2 DEF Walled
<1>. QED
  BY <1>8, <1>9 DEF a

\* The tier of the scripted opponent and the gauge carried over are typed too.
LEMMA TunedTyped ==
  ASSUME NEW p \in Player, NEW super \in Int, NEW ai \in 0 .. 3
  PROVE  LET q == [p EXCEPT !.super = super, !.ai = ai]
         IN  q \in Player /\ q.x = p.x /\ q.char = p.char
<1>1. [p EXCEPT !.super = super, !.ai = ai] \in Player
  BY Zenon DEF Player
<1>. QED
  BY <1>1, PlayerFields DEF Fields

\* A new round.
LEMMA ResetTyped ==
  ASSUME NEW a, Standing(a), Typed(a)
  PROVE  LET b == ResetArena(a)
         IN  Typed(b) /\ (ScreenFits => Walled(b))
<1> DEFINE chars == [i \in Seats |-> a.players[i].char]
           fresh == NewMatch(chars)
           again(i) == [fresh.players[i] EXCEPT !.super = a.players[i].super, !.ai = a.players[i].ai]
           qs == [i \in Seats |-> again(i)]
           b == [fresh EXCEPT !.dealt = a.dealt, !.players = qs]
<1>1. a.players \in [Seats -> Player]
  BY DEF Typed
<1>2. chars \in [Seats -> DOMAIN Roster]
  BY <1>1, PlayerFields
<1>3. ResetArena(a) = b
  BY Zenon DEF ResetArena
<1> HIDE DEF chars
<1>4. Typed(fresh) /\ (ScreenFits => Walled(fresh))
  BY <1>2, NewMatchTyped
<1>5. DOMAIN fresh = {"players", "projectiles", "camX", "hitstop", "dealt"}
  BY DEF NewMatch
<1> HIDE DEF fresh
<1>6. ASSUME NEW i \in Seats
      PROVE  again(i) \in Player /\ again(i).x = fresh.players[i].x /\ again(i).char = fresh.players[i].char
  <2>1. fresh.players[i] \in Player /\ a.players[i] \in Player
    BY <1>1, <1>4 DEF Typed
  <2>2. a.players[i].super \in Int /\ a.players[i].ai \in 0 .. 3
    BY <2>1, PlayerFields
  <2> DEFINE p == fresh.players[i]
             super == a.players[i].super
             ai == a.players[i].ai
             q == [p EXCEPT !.super = super, !.ai = ai]
  <2>3. again(i) = q
    OBVIOUS
  <2> HIDE DEF p, super, ai, again
  <2>4. p \in Player /\ super \in Int /\ ai \in 0 .. 3
    BY <2>1, <2>2 DEF p, super, ai
  <2>5. q \in Player /\ q.x = p.x /\ q.char = p.char
    BY <2>4, TunedTyped
  <2>. QED
    BY <2>3, <2>5 DEF p
<1> HIDE DEF again
<1>7. qs \in [Seats -> Player] /\ \A i \in Seats : qs[i] = again(i)
  BY <1>6
<1> HIDE DEF qs
<1>8. /\ b.players = qs /\ b.projectiles = fresh.projectiles /\ b.camX = fresh.camX
      /\ b.dealt = a.dealt /\ a.dealt \in [Seats -> Int]
  BY <1>5 DEF Typed
<1> HIDE DEF b
<1>9. Typed(b)
  BY <1>4, <1>7, <1>8 DEF Typed
<1>10. Walled(fresh) => Walled(b)
  <2> SUFFICES ASSUME Walled(fresh), NEW i \in Seats
               PROVE  Inside(b.players[i], b.camX)
    BY DEF Walled
  <2>1. Inside(fresh.players[i], fresh.camX)
    BY DEF Walled
  <2>. QED
    BY <1>6, <1>7, <1>8, <2>1, SameSpot
<1>. QED
  BY <1>3, <1>4, <1>9, <1>10

(***************************************************************************)
(* TypeOK and OnScreen.  Beside the types, a seat is credited with all the *)
(* health the other has lost this round, so that the damage dealt is never *)
(* negative although a refill in training takes from it; and where the     *)
(* roster fits the screen, everybody is displayed at the end of a frame.   *)
(***************************************************************************)
TInv ==
  /\ Typed(arena) /\ Owed(arena) /\ flow \in Flow
  /\ elapsed \in 0 .. Balance.aiDecisionFrames - 1 /\ changes \in Nat
  /\ ScreenFits => Displayed(arena)

\* A decision of the scripted opponent comes every so many frames.
LEMMA DecisionFrames ==
  Balance.aiDecisionFrames \in Nat \ {0}
<1>1. Balance.aiDecisionFrames \in Limits.aiPlan
  BY BalanceAssumption, Zenon DEF LoadedBalance, BalanceType
<1>. QED
  BY <1>1, LimitsAssumption

\* What the two seats press.
LEMMA PressesTyped ==
  ASSUME TInv, NEW press \in Presses
  PROVE  /\ \A i \in Seats : press[i].in \in SUBSET (Buttons \cup Directions) /\ press[i].plan \in Plans
         /\ Cardinality(Changed(press)) \in Nat /\ Cardinality(Changed(press)) <= changes
<1>1. ASSUME NEW i \in Seats, NEW x \in aiInput(i)
      PROVE  x.in \in SUBSET (Buttons \cup Directions) /\ x.plan \in Plans
  <2> DEFINE p == arena.players[i]
             plans == aiPlans(p, arena.players[Other(i)], flying(i), elapsed)
  <2>1. p \in Player
    BY <1>1 DEF TInv, Typed
  <2>2. p.plan \in Plans /\ p.char \in DOMAIN Roster
    BY <2>1, PlayerFields
  <2>3. elapsed \in Nat
    BY DecisionFrames DEF TInv
  <2>4. plans \subseteq Plans
    BY <2>2, RulesPlan DEF aiPlans
  <2>5. \A in \in Keyboard[i][p.char] : in \in SUBSET (Buttons \cup Directions)
    BY <1>1, <2>2, KeyboardAssumption
  <2>6. \A plan : aiPress(plan, elapsed, p.facing) \in SUBSET (Buttons \cup Directions)
    BY <2>3, PlanPresses
  <2>7. \/ \E in \in Keyboard[i][p.char] : x = [in |-> in, plan |-> p.plan]
        \/ \E plan \in plans : x = [in |-> aiPress(plan, elapsed, p.facing), plan |-> plan]
    BY <1>1, Zenon DEF aiInput
  <2> HIDE DEF p, plans
  <2>. QED
    BY <2>2, <2>4, <2>5, <2>6, <2>7
<1>2. PICK l \in aiInput(0), r \in aiInput(1) : press = [i \in Seats |-> IF i = 0 THEN l ELSE r]
  BY DEF Presses
<1>3. 0 \in Seats /\ 1 \in Seats /\ \A i \in Seats : i = 0 \/ i = 1
  BY DEF Seats
<1>4. press[0] \in aiInput(0) /\ press[1] \in aiInput(1)
  BY <1>2, <1>3
<1>5. Cardinality(Changed(press)) <= changes
  BY DEF Presses
<1>6. Cardinality(Changed(press)) \in Nat
  <2>1. IsFiniteSet(Seats)
    <3>1. IsFiniteSet({}) /\ Seats = ({} \cup {0}) \cup {1}
      BY FS_EmptySet DEF Seats
    <3>2. IsFiniteSet({} \cup {0})
      BY <3>1, FS_AddElement
    <3>. QED
      BY <3>1, <3>2, FS_AddElement
  <2>2. Changed(press) \subseteq Seats
    BY DEF Changed
  <2>3. IsFiniteSet(Changed(press))
    BY <2>1, <2>2, FS_Subset
  <2>. QED
    BY <2>3, FS_CardinalityType
<1>. QED
  BY <1>1, <1>3, <1>4, <1>5, <1>6

\* The clock of the scripted opponent, and what is left of the bound.
LEMMA ClocksTyped ==
  ASSUME TInv, NEW press \in Presses, Clocks(press)
  PROVE  elapsed' \in 0 .. Balance.aiDecisionFrames - 1 /\ changes' \in Nat
<1> DEFINE n == Balance.aiDecisionFrames
           k == Cardinality(Changed(press))
<1>1. n \in Nat \ {0} /\ elapsed \in 0 .. n - 1 /\ changes \in Nat
  BY DecisionFrames DEF TInv
<1>2. k \in Nat /\ k <= changes
  BY PressesTyped
<1>3. elapsed' \in {0, (elapsed + 1) % n} /\ changes' = changes - k
  BY DEF Clocks
<1> HIDE DEF n, k
<1>4. elapsed' \in 0 .. n - 1 /\ changes' \in Nat
  BY <1>1, <1>2, <1>3
<1>. QED
  BY <1>4 DEF n

\* The same fighters in the same places are displayed as before.
LEMMA SameDisplay ==
  ASSUME NEW a, NEW b, Typed(a), Typed(b), b.camX = a.camX,
         \A i \in Seats : b.players[i].x = a.players[i].x /\ b.players[i].char = a.players[i].char
  PROVE  Displayed(a) => Displayed(b)
<1>1. \A i \in Seats : Breadth(b.players[i]) = Breadth(a.players[i]) /\ Other(i) \in Seats
  BY TwoSeats DEF Breadth
<1>. QED
  BY <1>1 DEF Displayed, Shown

\* Who is on the screen is displayed.
LEMMA WalledDisplay ==
  ASSUME NEW a, Typed(a), Walled(a)
  PROVE  Displayed(a)
<1>1. \A i \in Seats : a.players[i] \in Player /\ Other(i) \in Seats /\ Inside(a.players[i], a.camX)
  BY TwoSeats DEF Typed, Walled
<1>2. Framing(a.camX)
  BY DEF Typed
<1>. QED
  BY <1>1, <1>2, InsideShows DEF Displayed

\* Credit survives whatever leaves the health of both and the books alone.
LEMMA SameOwed ==
  ASSUME NEW a, NEW b, b.dealt = a.dealt,
         \A i \in Seats : b.players[i].health = a.players[i].health /\ b.players[i].char = a.players[i].char
  PROVE  Owed(a) => Owed(b)
<1>1. \A i \in Seats : Other(i) \in Seats
  BY TwoSeats
<1>. QED
  BY <1>1 DEF Owed

\* Every arena starts typed.
LEMMA InitTInv == Init => TInv
<1> SUFFICES ASSUME NEW setup \in Setups,
                    arena = [NewMatch(setup.chars) EXCEPT !.players[1].ai = setup.ai],
                    flow = NewFlow(setup.training), elapsed = 0, changes = setup.changes
             PROVE  TInv
  BY DEF Init
<1>1. /\ setup.chars \in [Seats -> DOMAIN Roster] /\ setup.training \in BOOLEAN
      /\ setup.ai \in 0 .. 3 /\ setup.changes \in Nat
  BY SetupsAssumption DEF AIOff, AIHard
<1> DEFINE m == NewMatch(setup.chars)
           ps == StartingPlayers(setup.chars)
           q == [ps[1] EXCEPT !.ai = setup.ai]
           qs == [ps EXCEPT ![1] = q]
<1>2. Typed(m) /\ (ScreenFits => Walled(m))
  BY <1>1, NewMatchTyped
<1>3. /\ m.players = ps /\ m.dealt = [i \in Seats |-> 0]
      /\ DOMAIN m = {"players", "projectiles", "camX", "hitstop", "dealt"}
  BY DEF NewMatch
<1>4. 0 \in Seats /\ 1 \in Seats /\ \A i \in Seats : i = 0 \/ i = 1
  BY DEF Seats
<1>5. \A i \in Seats : ps[i].health = Roster[ps[i].char].health
  BY <1>4 DEF StartingPlayers, FreshPlayer
<1> HIDE DEF m, ps
<1>6. arena.players = qs /\ arena.projectiles = m.projectiles /\ arena.camX = m.camX /\ arena.dealt = m.dealt
  BY <1>3 DEF m
<1>7. ps \in [Seats -> Player]
  BY <1>2, <1>3 DEF Typed
<1>8. q \in Player /\ q.x = ps[1].x /\ q.char = ps[1].char /\ q.health = ps[1].health
  <2>1. ps[1] \in Player
    BY <1>4, <1>7
  <2>2. q \in Player
    BY <1>1, <2>1, Zenon DEF Player
  <2>3. DOMAIN ps[1] = Fields
    BY <2>1, PlayerFields
  <2>. QED
    BY <2>2, <2>3 DEF Fields
<1> HIDE DEF q
<1>9. qs \in [Seats -> Player] /\ qs[0] = ps[0] /\ qs[1] = q
  BY <1>4, <1>7, <1>8
<1> HIDE DEF qs
<1>10. \A i \in Seats : /\ arena.players[i].x = m.players[i].x
                        /\ arena.players[i].char = m.players[i].char
                        /\ arena.players[i].health = Roster[arena.players[i].char].health
  <2>1. \A i \in Seats : m.players[i] = ps[i] /\ arena.players[i] = qs[i]
    BY <1>3, <1>6
  <2>2. \A i \in Seats : /\ qs[i].x = ps[i].x /\ qs[i].char = ps[i].char
                         /\ qs[i].health = ps[i].health
    BY <1>4, <1>8, <1>9
  <2>3. ASSUME NEW i \in Seats
        PROVE  qs[i].health = Roster[qs[i].char].health
    BY <1>5, <2>2
  <2>. QED
    BY <2>1, <2>2, <2>3
<1>11. Typed(arena)
  BY <1>2, <1>6, <1>9 DEF Typed
<1>12. ScreenFits => Displayed(arena)
  BY <1>2, <1>6, <1>10, <1>11, SameDisplay, WalledDisplay
<1>13. Owed(arena)
  <2>1. \A i \in Seats : arena.dealt[i] = 0 /\ Other(i) \in Seats /\ arena.players[i].health \in Int
    BY <1>3, <1>6, <1>11, TwoSeats, PlayerFields DEF Typed
  <2>. QED
    BY <1>10, <2>1 DEF Owed
<1>14. elapsed \in 0 .. Balance.aiDecisionFrames - 1 /\ changes \in Nat
  BY <1>1, DecisionFrames
<1>15. flow \in Flow
  BY <1>1, FlowStartsTyped
<1>. QED
  BY <1>11, <1>12, <1>13, <1>14, <1>15 DEF TInv

\* What is recorded leaves the types, the credit and the display.
LEMMA RecordedOwes ==
  ASSUME TInv, IInv, NEW press \in Presses
  PROVE  LET b == Recorded(press)
         IN  /\ Typed(b) /\ Owed(b) /\ (ScreenFits => Displayed(b))
             /\ \A i \in Seats : b.players[i].health \in Int
<1> DEFINE b == Recorded(press)
<1>1. \A i \in Seats : press[i].in \in SUBSET (Buttons \cup Directions) /\ press[i].plan \in Plans
  BY PressesTyped
<1>2. Standing(arena) /\ Typed(arena) /\ Owed(arena) /\ (ScreenFits => Displayed(arena))
  BY DEF TInv, IInv
<1>3. Typed(b) /\ b.camX = arena.camX /\ \A i \in Seats : b.players[i].x = arena.players[i].x
  BY <1>1, <1>2, RecordedTyped
<1>4. b.dealt = arena.dealt /\ \A i \in Seats : Same(arena.players[i], b.players[i])
  BY <1>2, RecordedKeeps
<1> HIDE DEF b
<1>5. \A i \in Seats : /\ b.players[i].health = arena.players[i].health
                       /\ b.players[i].char = arena.players[i].char
  BY <1>4 DEF Same, Fields
<1>6. Owed(b)
  BY <1>2, <1>4, <1>5, SameOwed
<1>7. ScreenFits => Displayed(b)
  BY <1>2, <1>3, <1>5, SameDisplay
<1>8. \A i \in Seats : b.players[i].health \in Int
  BY <1>3, PlayerFields DEF Typed
<1>. QED
  BY <1>3, <1>6, <1>7, <1>8 DEF b

\* A new round owes nothing yet.
LEMMA ResetOwes ==
  ASSUME NEW a, Standing(a), Typed(a), Owed(a)
  PROVE  LET b == ResetArena(a)
         IN  Typed(b) /\ Owed(b) /\ (ScreenFits => Displayed(b))
<1> DEFINE b == ResetArena(a)
<1>1. Typed(b) /\ (ScreenFits => Walled(b))
  BY ResetTyped
<1>2. /\ b.dealt = a.dealt
      /\ \A i \in Seats : /\ b.players[i].char = a.players[i].char
                          /\ b.players[i].health = Roster[a.players[i].char].health
  BY ResetStands
<1>3. \A i \in Seats : b.players[i].health = Roster[b.players[i].char].health
  BY <1>2
<1> HIDE DEF b
<1>4. ASSUME NEW i \in Seats
      PROVE  b.dealt[i] >= Roster[b.players[Other(i)].char].health - b.players[Other(i)].health
  <2> DEFINE j == Other(i)
             full == Roster[b.players[j].char].health
  <2>1. j \in Seats
    BY TwoSeats
  <2>2. a.dealt[i] >= Roster[a.players[j].char].health - a.players[j].health
    BY DEF Owed
  <2>3. a.players[j].health \in 0 .. full /\ full \in Int /\ b.players[j].health = full
    BY <1>2, <1>3, <2>1, CharacterLoaded DEF Standing, Sound, Gauges
  <2>4. a.dealt[i] \in Int
    BY DEF Standing
  <2>5. full = Roster[a.players[j].char].health
    BY <1>2, <2>1
  <2> HIDE DEF j, full
  <2>6. b.dealt[i] >= full - b.players[j].health
    BY <1>2, <2>2, <2>3, <2>4, <2>5
  <2>. QED
    BY <2>6 DEF full, j
<1>5. Owed(b)
  BY <1>4 DEF Owed
<1>6. ScreenFits => Displayed(b)
  BY <1>1, WalledDisplay
<1>. QED
  BY <1>1, <1>5, <1>6 DEF b

\* A frame of hitstop.
LEMMA HitstopTypes ==
  ASSUME IInv, TInv, HitstopFrame
  PROVE  TInv'
<1>1. PICK press \in Presses :
        arena' = [Recorded(press) EXCEPT !.hitstop = @ - 1] /\ Clocks(press) /\ flow' = flow
  BY DEF HitstopFrame
<1> DEFINE b == Recorded(press)
<1>2. Typed(b) /\ Owed(b) /\ (ScreenFits => Displayed(b))
  BY RecordedOwes
<1>3. Standing(b)
  BY RecordedKeeps DEF IInv
<1>4. /\ arena'.players = b.players /\ arena'.projectiles = b.projectiles
      /\ arena'.camX = b.camX /\ arena'.dealt = b.dealt
  BY <1>1, <1>3 DEF Standing
<1> HIDE DEF b
<1>5. Typed(arena')
  BY <1>2, <1>4 DEF Typed
<1>6. Owed(arena')
  BY <1>2, <1>4 DEF Owed
<1>7. ScreenFits => Displayed(arena')
  BY <1>2, <1>4 DEF Displayed
<1>8. elapsed' \in 0 .. Balance.aiDecisionFrames - 1 /\ changes' \in Nat
  BY <1>1, ClocksTyped
<1>9. flow' \in Flow
  BY <1>1 DEF TInv
<1>. QED
  BY <1>5, <1>6, <1>7, <1>8, <1>9 DEF TInv

\* A frame between two rounds.
LEMMA PhaseTypes ==
  ASSUME IInv, TInv, PhaseFrame
  PROVE  TInv'
<1> DEFINE reset == flow.phase = "roundEnd" /\ PhaseEnds(flow) /\ ~MatchOver(flow)
<1>1. PICK press \in Presses :
        /\ flow' = advancePhase(flow, arena.dealt)
        /\ arena' = IF reset THEN ResetArena(Recorded(press)) ELSE Recorded(press)
        /\ Clocks(press)
  BY Zenon DEF PhaseFrame
<1> HIDE DEF reset
<1> DEFINE b == Recorded(press)
           c == ResetArena(b)
<1>2. Typed(b) /\ Owed(b) /\ (ScreenFits => Displayed(b))
  BY RecordedOwes
<1>3. Standing(b)
  BY RecordedKeeps DEF IInv
<1>4. arena' = c \/ arena' = b
  BY <1>1
<1> HIDE DEF b
<1>5. Typed(c) /\ Owed(c) /\ (ScreenFits => Displayed(c))
  BY <1>2, <1>3, ResetOwes
<1> HIDE DEF c
<1>6. Typed(arena') /\ Owed(arena') /\ (ScreenFits => Displayed(arena'))
  BY <1>2, <1>4, <1>5
<1>7. flow' \in Flow
  BY <1>1, AdvanceTyped DEF TInv, PhaseFrame
<1>8. elapsed' \in 0 .. Balance.aiDecisionFrames - 1 /\ changes' \in Nat
  BY <1>1, ClocksTyped
<1>. QED
  BY <1>6, <1>7, <1>8 DEF TInv

\* A frame of the fight.
LEMMA FightTypes ==
  ASSUME IInv, TInv, FightFrame
  PROVE  TInv'
<1>1. PICK press \in Presses :
        /\ \E after \in {FightOn(Recorded(press), [i \in Seats |-> press[i].in])} :
             /\ flow' = updateRound(flow, Dead(after.players), aheadOnHealth(after.players))
             /\ arena' = IF flow'.phase = "ko" THEN [after EXCEPT !.hitstop = 0] ELSE after
        /\ Clocks(press)
  BY Zenon DEF FightFrame
<1> DEFINE a == Recorded(press)
           in == [i \in Seats |-> press[i].in]
           b == FightOn(a, in)
           z == [b EXCEPT !.hitstop = 0]
<1>2. /\ flow' = updateRound(flow, Dead(b.players), aheadOnHealth(b.players))
      /\ arena' = z \/ arena' = b
  BY <1>1
<1>3. Typed(a) /\ Owed(a)
  BY RecordedOwes
<1>4. Standing(a)
  BY RecordedKeeps DEF IInv
<1> HIDE DEF a, in
<1>5. Typed(b) /\ (ScreenFits => Displayed(b)) /\ Owed(b)
  BY <1>3, <1>4, FightOnTyped
<1>6. Standing(b)
  BY <1>4, FightOnStands
<1> HIDE DEF b
<1>7. /\ z.players = b.players /\ z.projectiles = b.projectiles
      /\ z.camX = b.camX /\ z.dealt = b.dealt
  BY <1>6 DEF Standing
<1> HIDE DEF z
<1>8. /\ arena'.players = b.players /\ arena'.projectiles = b.projectiles
      /\ arena'.camX = b.camX /\ arena'.dealt = b.dealt
  BY <1>2, <1>7
<1>9. Typed(arena')
  BY <1>5, <1>8 DEF Typed
<1>10. Owed(arena')
  BY <1>5, <1>8 DEF Owed
<1>11. ScreenFits => Displayed(arena')
  BY <1>5, <1>8 DEF Displayed
<1>12. flow' \in Flow
  <2> DEFINE ahead == aheadOnHealth(b.players)
             dead == Dead(b.players)
  <2>1. ahead \in Seats \cup {RoundNobody}
    BY DEF aheadOnHealth, Seats
  <2>2. flow \in Flow
    BY DEF TInv
  <2> HIDE DEF ahead, dead
  <2>3. updateRound(flow, dead, ahead) \in Flow
    BY <2>1, <2>2, RoundTyped
  <2>. QED
    BY <1>2, <2>3 DEF ahead, dead
<1>13. elapsed' \in 0 .. Balance.aiDecisionFrames - 1 /\ changes' \in Nat
  BY <1>1, ClocksTyped
<1>. QED
  BY <1>9, <1>10, <1>11, <1>12, <1>13 DEF TInv

\* Every step.
LEMMA NextTypes ==
  ASSUME IInv, TInv, [Next]_vars
  PROVE  TInv'
<1>1. CASE HitstopFrame
  BY <1>1, HitstopTypes
<1>2. CASE PhaseFrame
  BY <1>2, PhaseTypes
<1>3. CASE FightFrame
  BY <1>3, FightTypes
<1>4. CASE UNCHANGED vars
  <2>1. arena' = arena /\ flow' = flow /\ elapsed' = elapsed /\ changes' = changes
    BY <1>4 DEF vars
  <2>. QED
    BY <2>1 DEF TInv
<1>. QED
  BY <1>1, <1>2, <1>3, <1>4 DEF Next, Over

\* Both invariants together are TypeOK: the credit makes the damage dealt a
\* natural number.
LEMMA TypesAreOK ==
  ASSUME IInv, TInv
  PROVE  TypeOK
<1>1. ASSUME NEW i \in Seats
      PROVE  arena.dealt[i] \in Nat
  <2> DEFINE j == Other(i)
             full == Roster[arena.players[j].char].health
  <2>1. j \in Seats
    BY TwoSeats
  <2>2. arena.dealt[i] >= full - arena.players[j].health
    BY DEF TInv, Owed
  <2>3. arena.players[j].health \in 0 .. full /\ full \in Int /\ arena.dealt[i] \in Int
    BY <2>1, CharacterLoaded DEF IInv, Standing, Sound, Gauges
  <2> HIDE DEF j, full
  <2>. QED
    BY <2>2, <2>3
<1>2. arena.dealt \in [Seats -> Nat]
  BY <1>1 DEF TInv, Typed
<1>3. DOMAIN arena = {"players", "projectiles", "camX", "hitstop", "dealt"} /\ arena.hitstop \in Nat
  BY DEF IInv, Standing
<1>. QED
  BY <1>2, <1>3 DEF TypeOK, TInv, Typed, Framing

\* Who is displayed is on the screen, but for the overhang.
LEMMA DisplayIsOnScreen ==
  ASSUME TInv, ScreenFits
  PROVE  OnScreen
<1> SUFFICES ASSUME NEW i \in Seats
             PROVE  LET box == Pushbox(arena.players[i])
                        over == Overhang(arena.players[i], arena.players[Other(i)])
                    IN  /\ -Balance.stageHalfWidth <= box.x /\ box.x + box.w <= Balance.stageHalfWidth
                        /\ arena.camX - Balance.cameraHalfWidth <= box.x + over
                        /\ box.x + box.w <= arena.camX + Balance.cameraHalfWidth + over
  BY Zenon DEF OnScreen
<1> DEFINE p == arena.players[i]
           o == arena.players[Other(i)]
           c == arena.camX
           n == Breadth(p)
           m == Breadth(o)
           half == Balance.cameraHalfWidth
           stage == Balance.stageHalfWidth
           box == Pushbox(p)
           over == Overhang(p, o)
<1>1. p \in Player /\ o \in Player /\ Shown(p, o, c)
  BY TwoSeats DEF TInv, Typed, Displayed
<1> HIDE DEF p, o
<1>2. /\ box.x = p.x - n /\ box.x + box.w = p.x + n /\ box.w = 2 * n
      /\ Pushbox(o).w = 2 * m
  BY <1>1, BoxIs
<1>3. n \in Int /\ m \in Int /\ p.x \in Int /\ half \in Int /\ stage \in Int /\ c \in Int
  BY <1>1, BoxIs, PlayerFields, StageLoaded DEF TInv, Typed, Framing
<1>4. over = Excess(n, m)
  <2> DEFINE wider == Pushbox(p).w - Pushbox(o).w
  <2>1. over = IF wider > 0 THEN (wider + 2) \div 4 ELSE 0
    BY Zenon DEF Overhang
  <2>2. wider = 2 * n - 2 * m
    BY <1>2
  <2>3. Excess(n, m) = IF n > m THEN (n - m + 1) \div 2 ELSE 0
    BY Zenon DEF Excess
  <2> HIDE DEF wider, over, n, m
  <2>4. (2 * n - 2 * m + 2) \div 4 = (n - m + 1) \div 2
    BY <1>3
  <2>. QED
    BY <1>3, <2>1, <2>2, <2>3, <2>4
<1>5. /\ p.x - n >= -stage /\ p.x + n <= stage
      /\ p.x - n + Excess(n, m) >= c - half /\ p.x + n <= c + half + Excess(n, m)
  BY <1>1, Zenon DEF Shown
<1>6. Excess(n, m) \in Int
  BY <1>3, ExcessIs
<1> HIDE DEF n, m, c, half, stage, box, over
<1>7. /\ -stage <= box.x /\ box.x + box.w <= stage
      /\ c - half <= box.x + over /\ box.x + box.w <= c + half + over
  BY <1>2, <1>3, <1>4, <1>5, <1>6
<1>. QED
  BY <1>7 DEF p, o, c, half, stage, box, over

(***************************************************************************)
(* The theorems.                                                           *)
(***************************************************************************)
\* Every step.
LEMMA NextKeeps ==
  ASSUME IInv, [Next]_vars
  PROVE  IInv' /\ (UNCHANGED vars \/ Framed)
<1>1. CASE HitstopFrame
  BY <1>1, HitstopKeeps
<1>2. CASE PhaseFrame
  BY <1>2, PhaseKeeps
<1>3. CASE FightFrame
  BY <1>3, FightKeeps
<1>4. CASE UNCHANGED vars
  <2>1. arena' = arena /\ flow' = flow
    BY <1>4 DEF vars
  <2>. QED
    BY <1>4, <2>1 DEF IInv
<1>. QED
  BY <1>1, <1>2, <1>3, <1>4 DEF Next, Over

\* Every reachable arena has two fighters whose gauges, debts and moves are in
\* order, and every reachable flow has its books in order.
THEOREM FightInvariant == Spec => []IInv
<1>1. IInv /\ [Next]_vars => IInv'
  BY NextKeeps
<1>. QED
  BY InitIInv, <1>1, PTL DEF Spec

\* What a hit leaves on a fighter does not outlive the state that owes it
\* (enter of fighter.go, step 8 of Advance).
THEOREM DebtsAreHeld == Spec => []DebtsHeld
<1>1. IInv => DebtsHeld
  BY DEF IInv, Standing, Counted, Sound, Debts, DebtsHeld
<1>. QED
  BY <1>1, FightInvariant, PTL

\* A round awards at most one win and starts only in a match that is open, with
\* two living fighters and time on the clock; the winner is the one the wins
\* name (round.go).
THEOREM BooksAreKept == Spec => []RoundBooks
<1>1. IInv => RoundBooks
  <2> SUFFICES ASSUME IInv PROVE RoundBooks
    OBVIOUS
  <2> DEFINE decided == {i \in Seats : flow.wins[i] >= RoundsToWin}
  <2>1. Running(flow) /\ Booked(flow)
    BY DEF IInv
  <2>2. decided = {} \/ decided = {0} \/ decided = {1}
    BY <2>1, RoundAssumption DEF Running, Booked, Seats
  <2>3. Cardinality(decided) <= 1
    <3>1. Cardinality({}) <= 1 /\ Cardinality({0}) <= 1 /\ Cardinality({1}) <= 1
      <4>1. Cardinality({}) = 0
        BY FS_EmptySet
      <4>2. Cardinality({0}) = 1 /\ Cardinality({1}) = 1
        BY FS_Singleton, Zenon
      <4>. QED
        BY <4>1, <4>2
    <3>. QED
      BY <2>2, <3>1, Zenon
  <2>4. flow.phase \in {"fight", "intro"} => decided = {} /\ flow.winner = RoundNobody
    BY <2>1, RoundAssumption DEF Running, Booked, Seats
  <2>5. flow.phase = "matchEnd" => flow.winner \in Seats /\ decided \subseteq {flow.winner}
    BY <2>1 DEF Booked
  <2>6. flow.phase \in {"fight", "intro"} => flow.training \/ Dead(arena.players) = {}
    BY DEF IInv
  <2> HIDE DEF decided
  <2>7. /\ flow.round <= MaxRounds /\ flow.wins[0] + flow.wins[1] <= flow.round
        /\ flow.phase \in {"fight", "intro"} => flow.wins[0] + flow.wins[1] < flow.round /\ flow.timer > 0
    BY <2>1 DEF Booked
  <2>. QED
    BY <2>3, <2>4, <2>5, <2>6, <2>7, Zenon DEF RoundBooks, decided
<1>. QED
  BY <1>1, FightInvariant, PTL

\* In a match that counts every frame books as damage dealt what it takes from
\* a health bar, whoever strikes, chips, throws or fires (state.go, throw.go,
\* projectile.go).
THEOREM DamageIsDealt == Spec => DealtAdds
<1>1. IInv /\ [Next]_vars =>
        [flow.phase = "fight" /\ ~flow.training =>
           \A i \in Seats :
             arena'.dealt[i] - arena.dealt[i] =
               arena.players[Other(i)].health - arena'.players[Other(i)].health]_vars
  BY NextKeeps DEF Framed
<1>. QED
  BY <1>1, FightInvariant, PTL DEF Spec, DealtAdds

\* Chip damage ends no round: whoever loses the last health in a frame was hit
\* or thrown in it (chip of resource.go).
THEOREM ChipSpares == Spec => ChipNeverKills
<1>1. ASSUME IInv, [Next]_vars
      PROVE  [\A i \in Dead(arena'.players) \ Dead(arena.players) :
                arena'.players[i].state \in {"hitstun", "thrown"}]_vars
  <2> SUFFICES ASSUME Framed, IInv',
                      NEW i \in Dead(arena'.players) \ Dead(arena.players)
               PROVE  arena'.players[i].state \in {"hitstun", "thrown"}
    BY <1>1, NextKeeps
  <2>1. i \in Seats /\ arena'.players[i].health <= 0 /\ ~(arena.players[i].health <= 0)
    BY DEF Dead
  <2>2. Sound(arena'.players[i]) /\ Sound(arena.players[i])
    BY <1>1, <2>1 DEF IInv, Standing
  <2>3. arena'.players[i].health = 0 /\ arena.players[i].health > 0
    BY <2>1, <2>2, HealthInt, CharacterLoaded DEF Sound, Gauges
  <2>. QED
    BY <2>1, <2>3 DEF Framed, Mortal
<1>. QED
  BY <1>1, FightInvariant, PTL DEF Spec, ChipNeverKills

\* Characters, tiers, rounds won and damage dealt survive every round of the
\* match, and the super gauge the start of a new one (startRound of round.go).
THEOREM SetupIsKept == Spec => SetupSurvives
<1>1. IInv /\ [Next]_vars =>
        [/\ flow'.training = flow.training
         /\ \A i \in Seats :
              /\ arena'.players[i].char = arena.players[i].char
              /\ arena'.players[i].ai = arena.players[i].ai
              /\ flow'.wins[i] >= flow.wins[i]
              /\ flow.training \/ arena'.dealt[i] >= arena.dealt[i]
              /\ flow'.round # flow.round =>
                   arena'.players[i].super = arena.players[i].super]_vars
  BY NextKeeps DEF Framed
<1>. QED
  BY <1>1, FightInvariant, PTL DEF Spec, SetupSurvives

\* Every frame of a match that counts leaves less of it, whatever the number of
\* rounds, the clock and the freezes: the match ends.
THEOREM MatchComesToAnEnd == Spec => MatchAdvances
<1>1. IInv /\ [Next]_vars =>
        [~flow.training /\ flow.phase # "matchEnd" =>
           Below(Left(flow', arena'.hitstop), Left(flow, arena.hitstop))]_vars
  BY NextKeeps DEF Framed
<1>. QED
  BY <1>1, FightInvariant, PTL DEF Spec, MatchAdvances

\* Every frame leaves every field of the match with its type, for any cast, any
\* balance the loader accepts and whatever is pressed; in particular the damage
\* dealt is never negative, although training refills take from it (state.go).
THEOREM TypeCorrect == Spec => []TypeOK
<1>1. IInv /\ TInv => TypeOK
  BY TypesAreOK
<1>2. IInv /\ TInv /\ [Next]_vars => TInv'
  BY NextTypes
<1>. QED
  BY <1>1, <1>2, InitTInv, FightInvariant, PTL DEF Spec

\* With pushboxes that fit the screen both fighters are on it at the end of
\* every frame, but for the overhang of the wider one (step 4 of Advance and
\* updateCamera of state.go).
THEOREM StayOnScreen ==
  ASSUME ScreenFits
  PROVE  Spec => []OnScreen
<1>1. TInv => OnScreen
  BY DisplayIsOnScreen
<1>2. IInv /\ TInv /\ [Next]_vars => TInv'
  BY NextTypes
<1>. QED
  BY <1>1, <1>2, InitTInv, FightInvariant, PTL DEF Spec
============
