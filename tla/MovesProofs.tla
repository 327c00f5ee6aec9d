---------------------------- MODULE MovesProofs ----------------------------
(***************************************************************************)
(* Theorems about what one frame of a match may do (Fight): a move hits    *)
(* once, a launched fighter comes down before it acts, a guard is opened   *)
(* by a throw only, a move is paid for and burnout runs its course.  Each  *)
(* is a property of steps, for every cast, balance and pool the loader     *)
(* accepts and whatever the two seats press.                               *)
(*                                                                         *)
(* The argument: MovesInv says what a fighter can be between two frames,   *)
(* beside the invariant of FightProofs.  A frame is a chain of operators   *)
(* on the arena, and each property becomes a condition on the fighter in   *)
(* the middle of it (Waits, Spent, OnGuard, and Pays and Drains for the    *)
(* gauges) that every link keeps: what a fighter does by itself, the hits  *)
(* of the players, the pool, the throws and the end of the frame.  What    *)
(* the last link leaves is what the property asks for.                     *)
(***************************************************************************)
EXTENDS FightProofs, SequenceTheorems

(***************************************************************************)
(* The moves of a frame.                                                   *)
(***************************************************************************)
\* What the moves of a frame rest on: the state of a fighter at the end of one.
\* An attack is at least in its first frame, nobody in the air state is on the
\* floor, only a hit or a throw leaves one on the floor with a velocity up,
\* and an air move is held above it.
Poised(p) ==
  /\ p.stateFrame \in Int /\ p.facing \in {1, -1}
  /\ p.state = "attack" => p.stateFrame > 0
  /\ Afloat(p)
  /\ p.y = GroundY /\ p.vy # 0 => p.state \in {"hitstun", "thrown"}
  /\ \A mv \in MoveOf(p) : mv.stance = "air" => p.y > GroundY

\* What flies was fired by a move that fires.
Fired(a) ==
  \A k \in Slots : LET pr == a.projectiles[k]
                   IN  pr.active => Fires(Roster[a.players[pr.owner].char].moves[pr.move])

MovesInv == Fired(arena) /\ \A i \in Seats : Poised(arena.players[i])

\* Nothing happened to a fighter but that it let go of the jump.
Unmoved(p, q) == DOMAIN q = Fields /\ \A f \in Fields \ {"jumpHeld"} : q[f] = p[f]

\* Where a fighter stands, where it looks and what it pressed.
Stands(p, q) ==
  /\ DOMAIN q = Fields /\ q.y = p.y /\ q.facing = p.facing /\ q.inputs = p.inputs
  /\ q.char = p.char /\ q.health = p.health

\* q is p in the first frame of a move, which fits the stance.
Begins(p, q) ==
  /\ q.state = "attack" /\ q.stateFrame = 0 /\ q.move \in DOMAIN Roster[p.char].moves
  /\ Roster[p.char].moves[q.move].stance = "air" => Airborne(p)

\* q is p in a state a direction leads to.
Steered(p, q) ==
  /\ q.state \in {"dash", "backdash", "prejump", "crouch", "walkF", "walkB", "idle"}
  /\ q.stateFrame = 0 /\ q.vy = p.vy

\* The Drive gauge of q is that of p after blocks at most: in burnout it spends
\* nothing, and it is in burnout once it is empty.
Burnt(p, q) ==
  /\ p.burnout => q.burnout /\ q.drive = p.drive
  /\ ~p.burnout /\ q.burnout => q.drive = 0

\* q is p and has begun nothing since: it has the presses of p, and the move and
\* the Drive of p if it attacks.
Drains(p, q) ==
  /\ DOMAIN q = Fields /\ q.char = p.char /\ q.unspent = p.unspent
  /\ q.state = "attack" => p.state = "attack" /\ q.move = p.move /\ q.drive = p.drive
  /\ Burnt(p, q)

\* q is p after an input and whatever came after it: it has the presses of p
\* left, or none and, if it attacks, a move p could pay for and has paid.
Pays(p, q) ==
  /\ DOMAIN q = Fields /\ q.char = p.char /\ Burnt(p, q)
  /\ \/ q.unspent = p.unspent
     \/ /\ q.unspent = 0
        /\ q.state = "attack" =>
             LET mv == Roster[p.char].moves[q.move]
             IN  Affordable(p, mv) /\ q.drive = p.drive - DriveCost(mv)

\* Who answers an input.
Free(p) == p.state \in ActionableStates \cup {"air", "attack"}

\* What enter writes, and what it leaves alone.
LEMMA EnterIs ==
  ASSUME NEW p, DOMAIN p = Fields, NEW s
  PROVE  LET q == enter(p, s)
         IN  DOMAIN q = Fields /\ q.state = s /\ q.stateFrame = 0
  BY DEF enter, Fields

LEMMA EnterKeeps ==
  ASSUME NEW p, DOMAIN p = Fields, NEW s
  PROVE  \A f \in Fields \ {"state", "stateFrame", "move", "landing", "down"} : enter(p, s)[f] = p[f]
  BY DEF enter, Fields

\* What two of these make.
LEMMA DrainsChain ==
  ASSUME NEW p, NEW q, NEW r, Drains(q, r)
  PROVE  /\ DOMAIN p = Fields => Drains(p, p)
         /\ Drains(p, q) => Drains(p, r)
         /\ Pays(p, q) => Pays(p, r)
  BY DEF Drains, Pays, Burnt

\* Who keeps the gauge and the presses, and goes on or is stopped.
LEMMA StillDrains ==
  ASSUME NEW p, NEW q, DOMAIN q = Fields,
         q.char = p.char, q.unspent = p.unspent, q.drive = p.drive, q.burnout = p.burnout,
         q.state # "attack" \/ (q.state = p.state /\ q.move = p.move)
  PROVE  Drains(p, q)
  BY DEF Drains, Burnt

\* What starting a move writes.
LEMMA EnterMoveBegins ==
  ASSUME NEW p, Sound(p), NEW m \in DOMAIN Roster[p.char].moves,
         Roster[p.char].moves[m].stance = "air" => Airborne(p),
         Affordable(p, Roster[p.char].moves[m])
  PROVE  LET q == enterMove(p, m)
         IN  Stands(p, q) /\ Begins(p, q) /\ Pays(p, q)
<1> DEFINE mv == Roster[p.char].moves[m]
           e == enter(p, "attack")
           begun == [e EXCEPT !.move = m, !.hasHit = FALSE,
                       !.unspent = 0, !.super = p.super - SuperCost(mv), !.armor = 0]
           paid == IF DriveCost(mv) > 0 THEN spendDrive(begun, DriveCost(mv)) ELSE begun
           off == [paid EXCEPT !.vx = mv.launchVX * p.facing, !.vy = mv.launchVY]
           kept == {"y", "facing", "inputs", "char", "health"}
           gauge == {"drive", "burnout"}
<1>0. DOMAIN p = Fields
  BY DEF Sound
<1>1. /\ DOMAIN e = Fields /\ e.state = "attack" /\ e.stateFrame = 0
      /\ \A f \in kept \cup gauge : e[f] = p[f]
  <2>1. kept \cup gauge \subseteq Fields \ {"state", "stateFrame", "move", "landing", "down"}
    BY DEF Fields
  <2>. QED
    BY <1>0, <2>1, EnterIs, EnterKeeps
<1> HIDE DEF e
<1>2. /\ DOMAIN begun = Fields /\ begun.state = "attack" /\ begun.stateFrame = 0 /\ begun.move = m
      /\ begun.unspent = 0 /\ \A f \in kept \cup gauge : begun[f] = p[f]
  BY <1>1 DEF Fields
<1> HIDE DEF begun
<1>21. mv \in MoveType /\ DriveCost(mv) \in Nat
  BY MoveLoaded, MoveNumbers DEF Sound
<1>22. p.drive \in Nat /\ (p.drive = 0 => p.burnout) /\ Affordable(p, mv)
  BY GaugeSizes DEF Sound, Gauges
<1> HIDE DEF mv
<1>23. Burnt(p, paid) /\ paid.drive = p.drive - DriveCost(mv) /\ paid.unspent = 0
  <2>1. begun.drive = p.drive /\ begun.burnout = p.burnout
    BY <1>2
  <2>2. CASE DriveCost(mv) > 0
    <3>1. ~p.burnout /\ DriveCost(mv) <= p.drive
      BY <1>22, <2>2, Zenon DEF Affordable
    <3>2. /\ paid.drive = Greater(begun.drive - DriveCost(mv), 0) /\ paid.unspent = 0
          /\ paid.burnout <=> begun.burnout \/ begun.drive - DriveCost(mv) <= 0
      BY <1>2, <2>2, SpendIs DEF Fields
    <3> HIDE DEF paid
    <3>3. paid.drive = p.drive - DriveCost(mv)
      BY <1>21, <1>22, <2>1, <3>1, <3>2 DEF Greater
    <3>4. paid.burnout => p.drive - DriveCost(mv) = 0
      BY <1>21, <1>22, <2>1, <3>1, <3>2
    <3>. QED
      BY <3>1, <3>2, <3>3, <3>4 DEF Burnt
  <2>3. CASE ~(DriveCost(mv) > 0)
    <3>1. paid = begun /\ DriveCost(mv) = 0
      BY <1>21, <2>3
    <3> HIDE DEF paid
    <3>. QED
      BY <1>2, <1>22, <2>1, <3>1 DEF Burnt
  <2>. QED
    BY <2>2, <2>3
<1>3. /\ DOMAIN paid = Fields /\ paid.state = "attack" /\ paid.stateFrame = 0 /\ paid.move = m
      /\ \A f \in kept : paid[f] = p[f]
  BY <1>2, SpendIs DEF Fields
<1> HIDE DEF paid
<1>4. /\ DOMAIN off = Fields /\ off.state = "attack" /\ off.stateFrame = 0 /\ off.move = m
      /\ \A f \in kept : off[f] = p[f]
      /\ off.drive = paid.drive /\ off.burnout = paid.burnout /\ off.unspent = paid.unspent
  BY <1>3 DEF Fields
<1> HIDE DEF off
<1>41. Pays(p, paid) /\ Pays(p, off)
  BY <1>22, <1>23, <1>3, <1>4 DEF Pays, Burnt, mv
<1>5. enterMove(p, m) \in {paid, off}
  BY Zenon DEF enterMove, off, paid, begun, mv, e
<1>. QED
  BY <1>3, <1>4, <1>41, <1>5 DEF Stands, Begins

\* A direction moves nobody by itself.
LEMMA SteerIs ==
  ASSUME NEW p, Sound(p), NEW dir
  PROVE  LET q == Steer(p, dir)
         IN  Stands(p, q) /\ (Unmoved(p, q) \/ Steered(p, q)) /\ Drains(p, q)
<1> DEFINE kept == {"y", "vy", "facing", "inputs", "char", "health", "unspent", "drive", "burnout"}
<1>0. DOMAIN p = Fields
  BY DEF Sound
<1>00. kept \subseteq Fields \ {"state", "stateFrame", "move", "landing", "down"}
  BY DEF Fields
<1>1. ASSUME NEW s \in {"dash", "backdash", "crouch", "walkF", "walkB", "idle"}
      PROVE  LET q == enter(p, s) IN Stands(p, q) /\ Steered(p, q) /\ Drains(p, q)
  <2> DEFINE q == enter(p, s)
  <2>1. /\ DOMAIN q = Fields /\ q.state = s /\ q.stateFrame = 0
        /\ \A f \in kept : q[f] = p[f]
    BY <1>0, <1>00, EnterIs, EnterKeeps
  <2> HIDE DEF q
  <2>. QED
    BY <2>1 DEF Stands, Steered, Drains, Burnt, q
<1>2. Stands(p, p) /\ Unmoved(p, p) /\ Drains(p, p)
  BY <1>0 DEF Stands, Unmoved, Drains, Burnt
<1>3. LET q == StartJump(p, dir) IN Stands(p, q) /\ Steered(p, q) /\ Drains(p, q)
  <2> DEFINE e == enter(p, "prejump")
  <2>1. /\ DOMAIN e = Fields /\ e.state = "prejump" /\ e.stateFrame = 0
        /\ \A f \in kept : e[f] = p[f]
    BY <1>0, <1>00, EnterIs, EnterKeeps
  <2> HIDE DEF e
  <2>2. ASSUME NEW v
        PROVE  LET q == [e EXCEPT !.jumpHeld = TRUE, !.jumpVX = v] IN Stands(p, q) /\ Steered(p, q) /\ Drains(p, q)
    BY <2>1 DEF Stands, Steered, Drains, Burnt, Fields
  <2>. QED
    BY <2>2, Zenon DEF StartJump, e
<1> DEFINE q == Steer(p, dir)
<1>4. \/ q = p \/ q = StartJump(p, dir)
      \/ \E s \in {"dash", "backdash", "crouch", "walkF", "walkB", "idle"} : q = enter(p, s)
  <2>1. \A s : stay(p, s) \in {p, enter(p, s)}
    BY DEF stay
  <2>2. q \in {p, StartJump(p, dir), enter(p, "dash"), enter(p, "backdash"), stay(p, "crouch"),
              stay(p, "walkF"), stay(p, "walkB"), stay(p, "idle")}
    BY Zenon DEF Steer
  <2> HIDE DEF q
  <2>. QED
    BY <2>1, <2>2
<1> HIDE DEF q
<1>. QED
  BY <1>1, <1>2, <1>3, <1>4, Zenon DEF q

\* Step 1 of a frame: nothing, a move that fits the stance, or a direction; and
\* a fighter who is not free answers nothing.
LEMMA InputsAre ==
  ASSUME NEW p, Sound(p), NEW in
  PROVE  LET q == resolveInputs(p, in)
         IN  /\ Stands(p, q)
             /\ Unmoved(p, q) \/ Begins(p, q) \/ Steered(p, q)
             /\ ~Free(p) => Unmoved(p, q)
             /\ Pays(p, q)
<1> DEFINE u == [p EXCEPT !.jumpHeld = @ /\ "up" \in in]
           dir == direction(in, u.facing)
           cancel == cancelMask(u)
           open == Actionable(u) \/ u.state = "air" \/ cancel # {}
           s == Stance(u, dir)
           late == IF u.state = "attack" THEN moveFor(u, s, {}) ELSE 0
           chosen == moveFor(u, s, cancel)
           q == Respond(u, in, dir, open, late, chosen)
<1>1. Unmoved(p, u) /\ Sound(u) /\ Stands(p, u) /\ u.state = p.state
  <2>1. Same(p, u) /\ DOMAIN p = Fields
    BY DEF Same, Sound, Fields
  <2>2. Unmoved(p, u)
    BY <2>1 DEF Unmoved, Fields
  <2>. QED
    BY <2>1, <2>2, SameSound DEF Unmoved, Stands, Fields
<1>11. /\ u.char = p.char /\ u.unspent = p.unspent /\ u.drive = p.drive /\ u.burnout = p.burnout
       /\ u.super = p.super /\ DOMAIN u = Fields
  BY <1>1 DEF Unmoved, Fields
<1>2. resolveInputs(p, in) = q
  BY Zenon DEF resolveInputs, resolveHeld, resolveWith, u, dir, cancel, open, s, late, chosen, q
<1>3. u.state \notin {"attack"} => cancel = {}
  BY DEF cancelMask, MoveOf
<1>4. Free(p) \/ (~open /\ u.state # "attack")
  <2>1. open \/ u.state = "attack" => Actionable(u) \/ u.state \in {"air", "attack"}
    BY <1>3, Zenon
  <2>. QED
    BY <1>1, <2>1 DEF Free, Actionable
<1>5. s = "air" => Airborne(p)
  BY <1>1 DEF Stance, Airborne, Stands
<1>6. ASSUME NEW m, m # 0, m \in {late, chosen}
      PROVE  /\ Stands(p, enterMove(u, m)) /\ Begins(p, enterMove(u, m))
             /\ Pays(p, enterMove(u, m))
  <2>1. /\ m \in DOMAIN Roster[u.char].moves /\ FitsStance(Roster[u.char].moves[m], s)
        /\ Affordable(u, Roster[u.char].moves[m])
    <3>1. u.char \in DOMAIN Roster
      BY <1>1 DEF Sound
    <3> HIDE DEF u, s, cancel
    <3>. QED
      BY <1>6, <3>1, ChosenMove
  <2>2. Roster[u.char].moves[m].stance = "air" => Airborne(u)
    BY <1>5, <1>1, <2>1 DEF FitsStance, Airborne, Stands
  <2> HIDE DEF u, late, chosen, s
  <2>3. Stands(u, enterMove(u, m)) /\ Begins(u, enterMove(u, m)) /\ Pays(u, enterMove(u, m))
    BY <1>1, <2>1, <2>2, EnterMoveBegins
  <2>4. \A mv : Affordable(u, mv) => Affordable(p, mv)
    BY <1>11 DEF Affordable
  <2>5. Pays(p, enterMove(u, m))
    BY <1>11, <2>3, <2>4 DEF Pays, Burnt
  <2>. QED
    BY <1>1, <2>3, <2>5 DEF Stands, Begins, Airborne
<1>7. /\ Stands(p, Steer(u, dir))
      /\ Unmoved(p, Steer(u, dir)) \/ Steered(p, Steer(u, dir))
      /\ Pays(p, Steer(u, dir))
  <2> HIDE DEF u, dir
  <2>1. Stands(u, Steer(u, dir)) /\ (Unmoved(u, Steer(u, dir)) \/ Steered(u, Steer(u, dir)))
        /\ Drains(u, Steer(u, dir))
    BY <1>1, SteerIs
  <2>2. u.vy = p.vy
    BY <1>1 DEF Unmoved, Fields
  <2>3. Pays(p, Steer(u, dir))
    BY <1>11, <2>1 DEF Pays, Drains, Burnt
  <2>. QED
    BY <1>1, <2>1, <2>2, <2>3, Zenon DEF Stands, Unmoved, Steered
<1>71. Pays(p, u)
  BY <1>11 DEF Pays, Burnt
<1> HIDE DEF u, dir, cancel, open, s, late, chosen
<1>8. \/ late # 0 /\ u.state = "attack" /\ q = enterMove(u, late)
      \/ chosen # 0 /\ open /\ q = enterMove(u, chosen)
      \/ q = u
      \/ open /\ q = Steer(u, dir)
  <2>1. late # 0 => u.state = "attack"
    BY DEF late
  <2>. QED
    BY <2>1, Zenon DEF Respond, q, pairLate
<1> HIDE DEF q
<1>9. Stands(p, q) /\ (Unmoved(p, q) \/ Begins(p, q) \/ Steered(p, q)) /\ Pays(p, q)
  BY <1>1, <1>6, <1>7, <1>71, <1>8, Zenon
<1>10. ~Free(p) => Unmoved(p, q)
  BY <1>1, <1>4, <1>8, Zenon
<1>. QED
  BY <1>2, <1>9, <1>10

\* r is p one frame on in its state.
Ticked(p, r) ==
  /\ Stands(p, r) /\ r.vy = p.vy /\ r.state = p.state /\ r.move = p.move /\ r.hasHit = p.hasHit
  /\ r.stateFrame = Lesser(p.stateFrame + 1, FrameCap) /\ Drains(p, r)

\* r is p in another state, in its first frame.
Entered(p, r, S) ==
  /\ Stands(p, r) /\ Drains(p, r)
  /\ r.state \in S /\ r.stateFrame = 0 /\ (r.vy = p.vy \/ r.state = "air")

\* What a tick writes, and the velocity that is set with it.
LEMMA TickIs ==
  ASSUME NEW p, DOMAIN p = Fields
  PROVE  Ticked(p, Tick(p)) /\ \A vx : Ticked(p, Tick([p EXCEPT !.vx = vx]))
  BY DEF Ticked, Stands, Drains, Burnt, Tick, Fields

\* Entering a state, with what is written into it.
LEMMA EnterEnters ==
  ASSUME NEW p, DOMAIN p = Fields, NEW s, s # "attack"
  PROVE  /\ Entered(p, enter(p, s), {s})
         /\ \A n : Entered(p, [enter(p, s) EXCEPT !.stun = n], {s})
         /\ \A v, w : s = "air" => Entered(p, [enter(p, s) EXCEPT !.vy = v, !.vx = w], {s})
         /\ \A v, w : Entered(p, [enter(p, s) EXCEPT !.jumpVX = v, !.landing = w], {s})
<1> DEFINE e == enter(p, s)
           kept == {"y", "vy", "facing", "inputs", "char", "health", "unspent", "drive", "burnout"}
<1>1. /\ DOMAIN e = Fields /\ e.state = s /\ e.stateFrame = 0
      /\ \A f \in kept : e[f] = p[f]
  <2>1. kept \subseteq Fields \ {"state", "stateFrame", "move", "landing", "down"}
    BY DEF Fields
  <2>. QED
    BY <2>1, EnterIs, EnterKeeps
<1> HIDE DEF e
<1>2. Entered(p, e, {s})
  BY <1>1 DEF Entered, Stands, Drains, Burnt
<1>3. \A n : Entered(p, [e EXCEPT !.stun = n], {s})
  BY <1>1 DEF Entered, Stands, Drains, Burnt, Fields
<1>4. \A v, w : s = "air" => Entered(p, [e EXCEPT !.vy = v, !.vx = w], {s})
  BY <1>1 DEF Entered, Stands, Drains, Burnt, Fields
<1>5. \A v, w : Entered(p, [e EXCEPT !.jumpVX = v, !.landing = w], {s})
  BY <1>1 DEF Entered, Stands, Drains, Burnt, Fields
<1>. QED
  BY <1>2, <1>3, <1>4, <1>5, Zenon DEF e

\* r is p one frame on in its state, or in the one that follows it.  An attack
\* is left but not entered, hitstun in the air is not left, and who is on guard
\* or gets up is so or idle.
Proceeds(p, r) ==
  \/ Ticked(p, r)
  \/ /\ Entered(p, r, {"idle", "air", "knockdown"})
     /\ p.state \notin ActionableStates /\ ~(p.state = "hitstun" /\ p.y > GroundY)
     /\ p.state \in StunStates /\ ~p.down => r.state = "idle"
     /\ p.state \in StunStates => r.state # "air"

\* Step 2: the clock of the state.
LEMMA StateIs ==
  ASSUME NEW old, Sound(old)
  PROVE  Proceeds(old, advanceState(old))
<1> DEFINE p == Slide(old)
           q == [p EXCEPT !.stun = Greater(@ - 1, 0)]
           r == advanceState(old)
           kept == Fields \ {"vx", "stun"}
<1>0. DOMAIN old = Fields
  BY DEF Sound
<1>1. DOMAIN p = Fields /\ \A f \in kept : p[f] = old[f]
  BY <1>0 DEF Slide, Fields
<1> HIDE DEF p
<1>2. DOMAIN q = Fields /\ \A f \in kept : q[f] = old[f]
  BY <1>1 DEF Fields
<1> HIDE DEF q
<1>3. ASSUME NEW u, DOMAIN u = Fields, \A f \in kept : u[f] = old[f]
      PROVE  /\ \A w : Ticked(u, w) => Ticked(old, w)
             /\ \A w, S : Entered(u, w, S) => Entered(old, w, S)
  <2>1. /\ Stands(old, u) /\ u.vy = old.vy /\ u.state = old.state /\ u.move = old.move
        /\ u.hasHit = old.hasHit /\ u.stateFrame = old.stateFrame
    BY <1>0, <1>3 DEF Stands, Fields
  <2>11. Drains(old, u)
    BY <1>3, <2>1, StillDrains DEF Fields
  <2>12. \A w : Drains(u, w) => Drains(old, w)
    BY <2>11, DrainsChain
  <2>2. \A w : Ticked(u, w) => Ticked(old, w)
    BY <2>1, <2>12 DEF Ticked, Stands
  <2>3. \A w, S : Entered(u, w, S) => Entered(old, w, S)
    BY <2>1, <2>12 DEF Entered, Stands
  <2>. QED
    BY <2>2, <2>3
<1>31. \A w : Ticked(p, w) \/ Ticked(q, w) => Ticked(old, w)
  BY <1>1, <1>2, <1>3, Zenon
<1>32. \A w, S : Entered(p, w, S) \/ Entered(q, w, S) => Entered(old, w, S)
  BY <1>1, <1>2, <1>3, Zenon
<1>33. Ticked(old, Tick(p)) /\ Ticked(old, Tick(q)) 
  BY <1>1, <1>2, <1>31, TickIs, Zenon
<1>34. \A vx : Ticked(old, Tick([p EXCEPT !.vx = vx]))
  BY <1>1, <1>31, TickIs, Zenon
<1>35. Entered(old, enter(p, "idle"), {"idle"}) /\ Entered(old, enter(q, "idle"), {"idle"})
  BY <1>1, <1>2, <1>32, EnterEnters, Zenon
<1>36. Entered(old, knockdown(q), {"knockdown"})
  BY <1>2, <1>32, EnterEnters, Zenon DEF knockdown
<1> DEFINE jump(v, w) == [enter(p, "air") EXCEPT !.vy = v, !.vx = w]
           drop(v, w) == [enter(p, "air") EXCEPT !.jumpVX = v, !.landing = w]
<1>37. \A v, w : Entered(old, jump(v, w), {"air"})
  BY <1>1, <1>32, EnterEnters, Zenon
<1>38. \A v, w : Entered(old, drop(v, w), {"air"})
  BY <1>1, <1>32, EnterEnters, Zenon
<1>4. /\ p.state = old.state /\ p.y = old.y /\ p.down = old.down /\ q.state = old.state /\ q.down = old.down
      /\ p.char = old.char
  BY <1>1, <1>2 DEF Fields
<1> DEFINE Goes(t, S) == Ticked(old, t) \/ Entered(old, t, S)
           c == Roster[p.char]
<1>40. r = CASE p.state = "walkF"    -> Tick([p EXCEPT !.vx = c.walkForward * p.facing])
             [] p.state = "walkB"    -> Tick([p EXCEPT !.vx = -(c.walkBack * p.facing)])
             [] p.state = "dash"     -> RunDash(p, c.dashFrames, c.dashDistance)
             [] p.state = "backdash" -> RunDash(p, c.backdashFrames, -c.dashDistance)
             [] p.state = "prejump"  -> RunPreJump(p)
             [] p.state = "air"      -> Tick([p EXCEPT !.vx = p.jumpVX])
             [] p.state = "attack"   -> RunAttack(p)
             [] stunned(p)           -> RunStun(p)
             [] OTHER                -> Tick(p)
  BY Zenon DEF advanceState, p
<1> HIDE DEF r, c
<1>5. ASSUME old.state \in {"walkF", "walkB", "idle", "crouch"}
      PROVE  Proceeds(old, r)
  <2>1. Ticked(old, r)
    <3>1. r = Tick(p) \/ \E vx : r = Tick([p EXCEPT !.vx = vx])
      BY <1>4, <1>5, <1>40 DEF stunned, StunStates
    <3>. QED
      BY <1>33, <1>34, <3>1
  <2>. QED
    BY <2>1 DEF Proceeds
<1>6. ASSUME old.state \in {"dash", "backdash"}
      PROVE  Proceeds(old, r)
  <2>1. \A n, d : Goes(RunDash(p, n, d), {"idle"})
    <3>1. \A n, d : RunDash(p, n, d) = enter(p, "idle") \/ \E vx : RunDash(p, n, d) = Tick([p EXCEPT !.vx = vx])
      BY Zenon DEF RunDash
    <3>. QED
      BY <1>34, <1>35, <3>1, Zenon
  <2>2. Goes(r, {"idle"})
    <3>1. \E n, d : r = RunDash(p, n, d)
      BY <1>4, <1>6, <1>40 DEF stunned, StunStates
    <3>. QED
      BY <2>1, <3>1
  <2>. QED
    BY <1>6, <2>2 DEF Proceeds, Entered, ActionableStates, StunStates
<1>7. ASSUME old.state = "prejump"
      PROVE  Proceeds(old, r)
  <2>1. r = RunPreJump(p)
    BY <1>7, <1>4, <1>40 DEF stunned, StunStates
  <2>2. r = Tick(p) \/ \E v, w : r = jump(v, w)
    BY <2>1, Zenon DEF RunPreJump
  <2> HIDE DEF jump
  <2>3. Goes(r, {"air"})
    BY <1>33, <1>37, <2>2
  <2>. QED
    BY <1>7, <2>3 DEF Proceeds, Entered, ActionableStates, StunStates
<1>8. ASSUME old.state = "air"
      PROVE  Proceeds(old, r)
  <2>1. \E vx : r = Tick([p EXCEPT !.vx = vx])
    BY <1>8, <1>4, <1>40 DEF stunned, StunStates
  <2>. QED
    BY <1>34, <2>1, Zenon DEF Proceeds
<1>9. ASSUME old.state = "attack"
      PROVE  Proceeds(old, r)
  <2>1. r = RunAttack(p)
    BY <1>9, <1>4, <1>40 DEF stunned, StunStates
  <2>2. \/ r = Tick(p) \/ r = enter(p, "idle")
        \/ \E v, w : r = drop(v, w)
    BY <2>1, Zenon DEF RunAttack
  <2> HIDE DEF drop
  <2>3. Goes(r, {"idle", "air"})
    <3>1. \A t, s, S : Entered(old, t, {s}) /\ s \in S => Entered(old, t, S)
      BY DEF Entered
    <3>2. Goes(r, {"idle"}) \/ Goes(r, {"air"})
      BY <1>33, <1>35, <1>38, <2>2
    <3>. QED
      BY <3>1, <3>2
  <2>. QED
    BY <1>9, <2>3 DEF Proceeds, Entered, ActionableStates, StunStates
<1>10. ASSUME old.state \in StunStates
      PROVE  Proceeds(old, r)
  <2>1. r = RunStun(p)
    <3>1. stunned(p) /\ p.state \notin {"walkF", "walkB", "dash", "backdash", "prejump", "air", "attack"}
      BY <1>10, <1>4 DEF stunned, StunStates
    <3>. QED
      BY <3>1, <1>10, <1>4, <1>40 DEF StunStates
  <2>2. \/ r = Tick(p)
        \/ /\ ~(p.state = "hitstun" /\ Airborne(p))
           /\ r = Tick(q) \/ (p.down /\ r = knockdown(q)) \/ (~p.down /\ r = enter(q, "idle"))
    BY <2>1, Zenon DEF RunStun, q
  <2>4. Airborne(p) <=> old.state = "air" \/ old.y > GroundY
    BY <1>4 DEF Airborne
  <2>5. /\ Ticked(old, Tick(p)) /\ Ticked(old, Tick(q))
        /\ Entered(old, knockdown(q), {"knockdown"}) /\ Entered(old, enter(q, "idle"), {"idle"})
    BY <1>33, <1>35, <1>36
  <2>6. \A t, s : Entered(old, t, {s}) => t.state = s
    BY DEF Entered
  <2>7. \A t : Entered(old, t, {"idle"}) \/ Entered(old, t, {"knockdown"})
                 => Entered(old, t, {"idle", "air", "knockdown"})
    BY DEF Entered
  <2>8. CASE Ticked(old, r)
    BY <2>8 DEF Proceeds
  <2>9. CASE ~Ticked(old, r)
    <3>1. /\ ~(old.state = "hitstun" /\ old.y > GroundY)
          /\ (old.down /\ r = knockdown(q)) \/ (~old.down /\ r = enter(q, "idle"))
      BY <1>4, <2>2, <2>4, <2>5, <2>9
    <3>2. /\ Entered(old, r, {"idle", "air", "knockdown"}) /\ r.state # "air"
          /\ ~old.down => r.state = "idle"
      BY <2>5, <2>6, <2>7, <3>1
    <3>3. old.state \notin ActionableStates
      BY <1>10 DEF StunStates, ActionableStates
    <3>. QED
      BY <3>1, <3>2, <3>3 DEF Proceeds
  <2>. QED
    BY <2>8, <2>9
<1>11. ASSUME old.state \notin {"walkF", "walkB", "idle", "crouch", "dash", "backdash", "prejump", "air", "attack"} \cup StunStates
      PROVE  Proceeds(old, r)
  <2>1. r = Tick(p)
    <3>1. ~stunned(p)
      BY <1>11, <1>4 DEF stunned
    <3>. QED
      BY <3>1, <1>11, <1>4, <1>40
  <2>. QED
    BY <1>33, <2>1 DEF Proceeds
<1>. QED
  BY <1>5, <1>6, <1>7, <1>8, <1>9, <1>10, <1>11 DEF r

\* s is p after gravity: in the air as it was, or on the floor and at rest.  Who
\* comes down from the air, a hit or an air move is in the state that follows.
Lands(p, s) ==
  /\ DOMAIN s = Fields /\ s.facing = p.facing /\ s.inputs = p.inputs
  /\ s.char = p.char /\ s.health = p.health /\ Drains(p, s)
  /\ s.y = GroundY => s.vy = 0
  /\ ~Airborne(p) /\ p.vy = 0 => s.y = GroundY
  /\ \/ /\ s.state = p.state /\ s.stateFrame = p.stateFrame /\ s.move = p.move /\ s.hasHit = p.hasHit
        /\ \/ s.y > GroundY \/ ~Airborne(p) \/ p.state \notin {"air", "hitstun", "attack"}
           \/ p.state = "attack" /\ \A mv \in MoveOf(p) : mv.stance # "air"
     \/ /\ s.y = GroundY /\ s.stateFrame = 0
        /\ \/ p.state = "hitstun" /\ s.state = "knockdown"
           \/ p.state \in {"air", "attack"} /\ s.state \in {"idle", "landing"}

\* What the floor does to who comes down on it.
LEMMA TouchDownIs ==
  ASSUME NEW p, DOMAIN p = Fields, p.y = GroundY, p.vy = 0
  PROVE  LET s == TouchDown(p)
         IN  /\ DOMAIN s = Fields /\ s.facing = p.facing /\ s.inputs = p.inputs
             /\ s.char = p.char /\ s.health = p.health /\ s.y = GroundY /\ s.vy = 0
             /\ Drains(p, s)
             /\ \/ /\ s = p
                   /\ \/ p.state \notin {"air", "hitstun", "attack"}
                      \/ p.state = "attack" /\ \A mv \in MoveOf(p) : mv.stance # "air"
                \/ /\ s.stateFrame = 0
                   /\ \/ p.state = "hitstun" /\ s.state = "knockdown"
                      \/ p.state \in {"air", "attack"} /\ s.state \in {"idle", "landing"}
<1> DEFINE s == TouchDown(p)
           Rests(t, S) ==
             /\ DOMAIN t = Fields /\ t.facing = p.facing /\ t.inputs = p.inputs
             /\ t.char = p.char /\ t.health = p.health /\ t.y = GroundY /\ t.vy = 0
             /\ t.stateFrame = 0 /\ t.state \in S /\ Drains(p, t)
           dropped(t, n) == [t EXCEPT !.stun = n]
<1>1. \A st : st # "attack" => Rests(enter(p, st), {st})
  <2> TAKE st
  <2> HAVE st # "attack"
  <2> DEFINE e == enter(p, st)
             kept == {"facing", "inputs", "char", "health", "y", "vy", "unspent", "drive", "burnout"}
  <2>1. kept \subseteq Fields \ {"state", "stateFrame", "move", "landing", "down"}
    BY DEF Fields
  <2>2. DOMAIN e = Fields /\ e.state = st /\ e.stateFrame = 0
    BY EnterIs
  <2>3. \A f \in kept : e[f] = p[f]
    BY <2>1, EnterKeeps
  <2>4. Drains(p, e)
    BY <2>2, <2>3, StillDrains
  <2> HIDE DEF e
  <2>. QED
    BY <2>2, <2>3, <2>4 DEF e
<1>2. \A t, S, n : Rests(t, S) => Rests(dropped(t, n), S)
  BY DEF Drains, Burnt, Fields
<1>3. \A n : land(p, n) = enter(p, "idle") \/ land(p, n) = dropped(enter(p, "landing"), n)
  BY Zenon DEF land
<1>4. knockdown(p) = dropped(enter(p, "knockdown"), Balance.knockdownFrames)
  BY Zenon DEF knockdown
<1>5. Rests(enter(p, "idle"), {"idle"}) /\ Rests(enter(p, "landing"), {"landing"})
      /\ Rests(enter(p, "knockdown"), {"knockdown"})
  BY <1>1
<1> HIDE DEF dropped, Rests
<1>6. \A n : Rests(land(p, n), {"idle"}) \/ Rests(land(p, n), {"landing"})
  BY <1>2, <1>3, <1>5, Zenon
<1>7. Rests(knockdown(p), {"knockdown"})
  <2>1. Rests(dropped(enter(p, "knockdown"), Balance.knockdownFrames), {"knockdown"})
    BY <1>2, <1>5
  <2>. QED
    BY <1>4, <2>1, Zenon
<1>8. \/ s = p /\ \/ p.state \notin {"air", "hitstun", "attack"}
                  \/ p.state = "attack" /\ \A mv \in MoveOf(p) : mv.stance # "air"
      \/ p.state = "hitstun" /\ s = knockdown(p)
      \/ p.state \in {"air", "attack"} /\ \E n : s = land(p, n)
  <2>1. CASE p.state = "air"
    BY <2>1 DEF TouchDown
  <2>2. CASE p.state = "hitstun"
    BY <2>2 DEF TouchDown
  <2>3. CASE p.state = "attack"
    BY <2>3 DEF TouchDown
  <2>4. CASE p.state \notin {"air", "hitstun", "attack"}
    BY <2>4 DEF TouchDown
  <2>. QED
    BY <2>1, <2>2, <2>3, <2>4
<1> HIDE DEF s
<1>9. CASE s = p
  <2>1. Drains(p, p)
    BY StillDrains
  <2>. QED
    BY <1>8, <1>9, <1>6, <1>7, <2>1 DEF s, Rests
<1>10. CASE p.state = "hitstun" /\ s = knockdown(p)
  BY <1>7, <1>10 DEF s, Rests
<1>11. CASE p.state \in {"air", "attack"} /\ \E n : s = land(p, n)
  BY <1>6, <1>11 DEF s, Rests
<1>. QED
  BY <1>8, <1>9, <1>10, <1>11

\* Step 3: gravity and the floor.
LEMMA FallIs ==
  ASSUME NEW p, Sound(p)
  PROVE  Lands(p, fall(p))
<1> DEFINE air == Airborne(p)
           vy == IF air THEN p.vy + gravity(p) ELSE p.vy
           moved == [p EXCEPT !.x = @ + p.vx, !.y = @ + vy, !.vy = vy]
           down == [moved EXCEPT !.y = GroundY, !.vy = 0]
           landed == [down EXCEPT !.vx = 0, !.juggle = 0]
           kept == {"facing", "inputs", "char", "health", "state", "stateFrame", "move", "hasHit",
                    "unspent", "drive", "burnout"}
<1>1. /\ DOMAIN p = Fields /\ p.y \in Nat
  BY DEF Sound
<1>2. /\ DOMAIN moved = Fields /\ moved.y = p.y + vy
      /\ \A f \in kept : moved[f] = p[f]
  BY <1>1 DEF Fields
<1> HIDE DEF moved
<1>3. /\ DOMAIN down = Fields /\ down.y = GroundY /\ down.vy = 0
      /\ \A f \in kept : down[f] = p[f]
  BY <1>2 DEF Fields
<1> HIDE DEF down
<1>4. /\ DOMAIN landed = Fields /\ landed.y = GroundY /\ landed.vy = 0
      /\ \A f \in kept : landed[f] = p[f]
  BY <1>3 DEF Fields
<1> HIDE DEF landed
<1>5. fall(p) = IF moved.y > GroundY THEN moved
                ELSE IF air THEN TouchDown(landed) ELSE down
  BY Zenon DEF fall, air, vy, moved, down, landed
<1>6. ~air => p.y = 0 /\ vy = p.vy
  BY <1>1 DEF Airborne, GroundY
<1>7. MoveOf(landed) = MoveOf(p)
  BY <1>4 DEF MoveOf
<1>71. Drains(p, moved) /\ Drains(p, down) /\ Drains(p, landed)
  BY <1>2, <1>3, <1>4, StillDrains
<1>72. \A s : Drains(landed, s) => Drains(p, s)
  BY <1>71, DrainsChain
<1> HIDE DEF air, vy
<1>8. CASE moved.y > GroundY
  <2>1. fall(p) = moved
    BY <1>5, <1>8
  <2>2. ~(~air /\ p.vy = 0) /\ moved.y # GroundY
    BY <1>2, <1>6, <1>8 DEF GroundY
  <2>3. Lands(p, moved)
    BY <1>2, <1>8, <1>71, <2>2 DEF Lands, air
  <2>. QED
    BY <2>1, <2>3
<1>9. CASE ~(moved.y > GroundY) /\ air
  <2>1. fall(p) = TouchDown(landed)
    BY <1>5, <1>9
  <2> DEFINE s == TouchDown(landed)
  <2>2. /\ DOMAIN s = Fields /\ s.facing = landed.facing /\ s.inputs = landed.inputs
        /\ s.char = landed.char /\ s.health = landed.health /\ s.y = GroundY /\ s.vy = 0
        /\ Drains(landed, s)
        /\ \/ /\ s = landed
              /\ \/ landed.state \notin {"air", "hitstun", "attack"}
                 \/ landed.state = "attack" /\ \A mv \in MoveOf(landed) : mv.stance # "air"
           \/ /\ s.stateFrame = 0
              /\ \/ landed.state = "hitstun" /\ s.state = "knockdown"
                 \/ landed.state \in {"air", "attack"} /\ s.state \in {"idle", "landing"}
    BY <1>4, TouchDownIs
  <2> HIDE DEF s
  <2>3. Lands(p, s)
    BY <1>4, <1>7, <1>72, <2>2, SMT DEF Lands
  <2>. QED
    BY <2>1, <2>3 DEF s
<1>10. CASE ~(moved.y > GroundY) /\ ~air
  <2>1. fall(p) = down
    BY <1>5, <1>10
  <2>2. Lands(p, down)
    BY <1>3, <1>10, <1>71 DEF Lands, air
  <2>. QED
    BY <2>1, <2>2
<1>. QED
  BY <1>8, <1>9, <1>10

(***************************************************************************)
(* The three steps of one fighter's frame together.                        *)
(***************************************************************************)
Move(p, in) == fall(advanceState(resolveInputs(p, in)))

\* What an input makes of a fighter.
Answers(p, q) ==
  /\ Stands(p, q)
  /\ Unmoved(p, q) \/ Begins(p, q) \/ Steered(p, q)
  /\ ~Free(p) => Unmoved(p, q)
  /\ Pays(p, q)

\* The three steps.
LEMMA MoveIs ==
  ASSUME NEW p, Sound(p), NEW in
  PROVE  LET q == resolveInputs(p, in)
             r == advanceState(q)
         IN  /\ Sound(q) /\ Sound(r) /\ Sound(Move(p, in)) /\ Afloat(Move(p, in))
             /\ Answers(p, q) /\ Proceeds(q, r) /\ Lands(r, Move(p, in))
             /\ Pays(p, Move(p, in))
<1> DEFINE q == resolveInputs(p, in)
           r == advanceState(q)
<1>1. Sound(q) /\ Answers(p, q)
  BY InputsSound, InputsAre DEF Follows, Answers
<1> HIDE DEF q
<1>2. Sound(r) /\ Proceeds(q, r)
  BY <1>1, StateSound, StateIs DEF Follows
<1> HIDE DEF r
<1>3. Sound(fall(r)) /\ Afloat(fall(r)) /\ Lands(r, fall(r))
  BY <1>2, FallSound, FallIs DEF Follows
<1>4. Pays(p, fall(r))
  <2>1. Pays(p, q) /\ Drains(q, r) /\ Drains(r, fall(r))
    BY <1>1, <1>2, <1>3 DEF Answers, Proceeds, Ticked, Entered, Lands
  <2>. QED
    BY <2>1, DrainsChain
<1>. QED
  BY <1>1, <1>2, <1>3, <1>4 DEF Move, q, r

\* Whoever attacks after its moves goes on with its move, one frame on, or is in
\* the first frame of a new one.
LEMMA AttacksAre ==
  ASSUME NEW p, Sound(p), Poised(p), NEW in, Move(p, in).state = "attack"
  PROVE  LET m == Move(p, in)
         IN  /\ m.move \in DOMAIN Roster[p.char].moves /\ m.char = p.char
             /\ \/ /\ p.state = "attack" /\ m.move = p.move /\ m.hasHit = p.hasHit
                   /\ m.stateFrame = Lesser(p.stateFrame + 1, FrameCap)
                \/ /\ m.stateFrame = Lesser(1, FrameCap)
                   /\ Roster[p.char].moves[m.move].stance = "air" => Airborne(p)
<1> DEFINE q == resolveInputs(p, in)
           r == advanceState(q)
           m == Move(p, in)
<1>1. Sound(q) /\ Sound(r) /\ Sound(m) /\ Answers(p, q) /\ Proceeds(q, r) /\ Lands(r, m)
  BY MoveIs
<1> HIDE DEF q, r, m
<1>2. m.state = "attack"
  BY DEF m
<1>3. r.state = "attack" /\ m.stateFrame = r.stateFrame /\ m.move = r.move /\ m.hasHit = r.hasHit
  BY <1>1, <1>2 DEF Lands
<1>4. Ticked(q, r)
  BY <1>1, <1>3 DEF Proceeds, Entered
<1>5. q.state = "attack" /\ r.move = q.move /\ r.hasHit = q.hasHit
      /\ r.stateFrame = Lesser(q.stateFrame + 1, FrameCap)
  BY <1>3, <1>4 DEF Ticked
<1>6. m.char = p.char /\ m.move \in DOMAIN Roster[p.char].moves
  BY <1>1, <1>2 DEF Answers, Stands, Proceeds, Ticked, Entered, Lands, Sound, Moving
<1>7. CASE Unmoved(p, q)
  <2>1. q.state = p.state /\ q.move = p.move /\ q.hasHit = p.hasHit /\ q.stateFrame = p.stateFrame
    BY <1>7 DEF Unmoved, Fields
  <2>. QED
    BY <1>3, <1>5, <1>6, <2>1 DEF m
<1>8. CASE Begins(p, q)
  <2>1. q.stateFrame = 0 /\ (Roster[p.char].moves[q.move].stance = "air" => Airborne(p))
    BY <1>8 DEF Begins
  <2>. QED
    BY <1>3, <1>5, <1>6, <2>1 DEF m
<1>9. ~Steered(p, q)
  BY <1>5 DEF Steered
<1>. QED
  BY <1>1, <1>7, <1>8, <1>9 DEF Answers

\* A fighter who was in order is so after its moves, at rest on the floor or
\* above it, and looks where it looked.
LEMMA MoveKeepsPoise ==
  ASSUME NEW p, Sound(p), Poised(p), NEW in
  PROVE  LET m == Move(p, in)
         IN  /\ Sound(m) /\ Poised(m) /\ (m.y = GroundY => m.vy = 0)
             /\ m.facing = p.facing /\ m.inputs = p.inputs /\ m.char = p.char /\ m.health = p.health
<1> DEFINE q == resolveInputs(p, in)
           r == advanceState(q)
           m == Move(p, in)
<1>1. Sound(q) /\ Sound(r) /\ Sound(m) /\ Afloat(m) /\ Answers(p, q) /\ Proceeds(q, r) /\ Lands(r, m)
  BY MoveIs
<1>2. m.state = "attack" =>
         /\ m.move \in DOMAIN Roster[p.char].moves /\ m.char = p.char
         /\ \/ /\ p.state = "attack" /\ m.move = p.move /\ m.hasHit = p.hasHit
               /\ m.stateFrame = Lesser(p.stateFrame + 1, FrameCap)
            \/ /\ m.stateFrame = Lesser(1, FrameCap)
               /\ Roster[p.char].moves[m.move].stance = "air" => Airborne(p)
  BY AttacksAre
<1> HIDE DEF q, r, m
<1>3. Stands(p, q) /\ Stands(q, r)
  BY <1>1 DEF Answers, Proceeds, Ticked, Entered
<1>4. /\ m.facing = p.facing /\ m.inputs = p.inputs /\ m.char = p.char /\ m.health = p.health
      /\ r.y = p.y
  BY <1>1, <1>3 DEF Stands, Lands
<1>5. m.stateFrame \in Int
  <2>1. q.stateFrame \in Int
    <3>1. q.stateFrame = p.stateFrame \/ q.stateFrame = 0
      BY <1>1 DEF Answers, Unmoved, Begins, Steered, Fields
    <3>. QED
      BY <3>1 DEF Poised
  <2>2. r.stateFrame \in Int
    BY <1>1, <2>1, FrameCapAssumption DEF Proceeds, Ticked, Entered, Lesser
  <2>. QED
    BY <1>1, <2>2 DEF Lands
<1>6. m.state = "attack" => m.stateFrame > 0
  BY <1>2, FrameCapAssumption DEF Poised, Lesser
<1>7. m.y = GroundY => m.vy = 0
  BY <1>1 DEF Lands
<1>8. ASSUME NEW mv \in MoveOf(m), mv.stance = "air"
      PROVE  m.y > GroundY
  <2>1. m.state = "attack" /\ mv = Roster[p.char].moves[m.move]
    BY <1>4, <1>8 DEF MoveOf
  <2>2. Airborne(p)
    <3>1. CASE p.state = "attack" /\ m.move = p.move
      <4>1. mv \in MoveOf(p)
        BY <1>2, <2>1, <3>1 DEF MoveOf
      <4>. QED
        BY <1>8, <4>1 DEF Poised, Airborne
    <3>. QED
      BY <1>2, <1>8, <2>1, <3>1
  <2>3. r.y > GroundY
    BY <1>4, <2>2 DEF Poised, Afloat, Airborne
  <2>4. r.state = "attack" /\ m.move = r.move /\ m.char = r.char
    BY <1>1, <2>1 DEF Lands
  <2>5. mv \in MoveOf(r)
    BY <1>2, <1>4, <2>1, <2>4 DEF MoveOf
  <2>. QED
    BY <1>1, <1>8, <2>1, <2>3, <2>4, <2>5 DEF Lands, Airborne
<1>9. Poised(m)
  BY <1>1, <1>4, <1>5, <1>6, <1>7, <1>8 DEF Poised
<1>. QED
  BY <1>1, <1>4, <1>7, <1>9 DEF m

\* In hitstun off the floor, or knocked down on it.
Helpless(p) ==
  (p.state = "hitstun" /\ p.y > GroundY) \/ (p.state = "knockdown" /\ p.y = GroundY)

\* A fighter hit off the floor falls.
LEMMA FliesOn ==
  ASSUME NEW p, Sound(p), NEW in, p.state = "hitstun", p.y > GroundY
  PROVE  Helpless(Move(p, in))
<1> DEFINE q == resolveInputs(p, in)
           r == advanceState(q)
           m == Move(p, in)
<1>1. Answers(p, q) /\ Proceeds(q, r) /\ Lands(r, m) /\ Sound(m)
  BY MoveIs
<1> HIDE DEF q, r, m
<1>2. Unmoved(p, q)
  BY <1>1 DEF Answers, Free, ActionableStates
<1>3. q.state = "hitstun" /\ q.y > GroundY
  BY <1>2 DEF Unmoved, Fields
<1>4. r.state = "hitstun" /\ r.y > GroundY
  BY <1>1, <1>3 DEF Proceeds, Ticked, Stands
<1>5. Helpless(m)
  BY <1>1, <1>4 DEF Lands, Helpless, Airborne
<1>. QED
  BY <1>5 DEF m

\* Who comes from the floor is in no air move.
LEMMA FromTheFloor ==
  ASSUME NEW p, Sound(p), Poised(p), NEW in, ~Airborne(p)
  PROVE  \A mv \in MoveOf(Move(p, in)) : mv.stance # "air"
<1> DEFINE m == Move(p, in)
<1> SUFFICES ASSUME NEW mv \in MoveOf(m), mv.stance = "air" PROVE FALSE
  OBVIOUS
<1>1. m.state = "attack" /\ mv = Roster[m.char].moves[m.move]
  BY DEF MoveOf
<1>2. /\ m.move \in DOMAIN Roster[p.char].moves /\ m.char = p.char
      /\ \/ /\ p.state = "attack" /\ m.move = p.move /\ m.hasHit = p.hasHit
            /\ m.stateFrame = Lesser(p.stateFrame + 1, FrameCap)
         \/ /\ m.stateFrame = Lesser(1, FrameCap)
            /\ Roster[p.char].moves[m.move].stance = "air" => Airborne(p)
  BY <1>1, AttacksAre
<1> HIDE DEF m
<1>3. p.state = "attack" /\ m.move = p.move
  BY <1>1, <1>2
<1>4. mv \in MoveOf(p)
  BY <1>1, <1>2, <1>3 DEF MoveOf
<1>. QED
  BY <1>4 DEF Poised, Airborne

\* Crouching, waiting, in a blockstun or down, on the floor.
Waits(p) == p.state \in {"crouch", "idle", "blockstun", "knockdown"} /\ p.y = GroundY

\* Down-back is down-forward to who looks the other way.
LEMMA DownEitherWay ==
  ASSUME NEW in, NEW f \in {1, -1}, NEW g \in {1, -1}, direction(in, f) = 1
  PROVE  direction(in, g) \in {1, 3}
<1> DEFINE r == IF "right" \in in THEN 1 ELSE 0
           l == IF "left" \in in THEN 1 ELSE 0
           u == IF "up" \in in THEN 1 ELSE 0
           d == IF "down" \in in THEN 1 ELSE 0
<1>1. r \in 0 .. 1 /\ l \in 0 .. 1 /\ u \in 0 .. 1 /\ d \in 0 .. 1
  OBVIOUS
<1>2. direction(in, f) = 5 + f * (r - l) + 3 * (u - d) /\ direction(in, g) = 5 + g * (r - l) + 3 * (u - d)
  BY Zenon DEF direction
<1> HIDE DEF r, l, u, d
<1>3. CASE f = 1 /\ g = 1
  BY <1>1, <1>2, <1>3
<1>4. CASE f = -1 /\ g = 1
  BY <1>1, <1>2, <1>4
<1>5. CASE f = 1 /\ g = -1
  BY <1>1, <1>2, <1>5
<1>6. CASE f = -1 /\ g = -1
  BY <1>1, <1>2, <1>6
<1>. QED
  BY <1>3, <1>4, <1>5, <1>6

\* Who presses nothing selects no move.
LEMMA QuietChoosesNone ==
  ASSUME NEW p, p.char \in DOMAIN Roster, Quiet(p), NEW stance, NEW cancel
  PROVE  moveFor(p, stance, cancel) = 0
<1> SUFFICES ASSUME moveFor(p, stance, cancel) # 0 PROVE FALSE
  OBVIOUS
<1> DEFINE m == moveFor(p, stance, cancel)
           mask == Roster[p.char].moves[m].button
<1>1. m \in DOMAIN Roster[p.char].moves /\ pressWithin(p, mask, InputBuffer) # {}
  BY ChosenMove
<1>2. mask \in SUBSET Buttons \ {{}}
  BY <1>1, MoveLoaded DEF MoveType
<1> HIDE DEF m, mask
<1>3. PICK b \in 0 .. InputBuffer - 1 : pressed(mask, at(p, b), at(p, b + 1))
  BY <1>1 DEF pressWithin
<1>4. mask # {} /\ mask \subseteq at(p, b)
  BY <1>3 DEF pressed
<1>5. b \in 0 .. InputBuffer
  BY InputsAssumption
<1>6. at(p, b) \cap Buttons = {}
  BY <1>5 DEF Quiet
<1>. QED
  BY <1>2, <1>4, <1>6

\* Who may act, holds down and away or down and forward, and presses nothing
\* crouches.
LEMMA CrouchesDown ==
  ASSUME NEW p, Sound(p), NEW in, Actionable(p), ~Airborne(p),
         in = at(p, 0), direction(in, p.facing) \in {1, 3}, Quiet(p)
  PROVE  resolveInputs(p, in).state = "crouch"
<1> DEFINE u == [p EXCEPT !.jumpHeld = @ /\ "up" \in in]
           dir == direction(in, u.facing)
           cancel == cancelMask(u)
           open == Actionable(u) \/ u.state = "air" \/ cancel # {}
           s == Stance(u, dir)
           late == IF u.state = "attack" THEN moveFor(u, s, {}) ELSE 0
           chosen == moveFor(u, s, cancel)
<1>1. /\ u.state = p.state /\ u.facing = p.facing /\ u.inputs = p.inputs /\ u.char = p.char
      /\ DOMAIN u = Fields
  BY DEF Sound, Fields
<1> HIDE DEF u
<1>2. \A b : at(u, b) = at(p, b)
  BY <1>1, Zenon DEF at
<1>3. Quiet(u) /\ u.char \in DOMAIN Roster
  BY <1>1, <1>2 DEF Quiet, Sound
<1>4. chosen = 0 /\ late = 0
  BY <1>3, QuietChoosesNone
<1>5. Actionable(u) /\ u.state \notin {"attack", "air"} /\ open
  BY <1>1 DEF Actionable, ActionableStates
<1>6. dir \in {1, 3}
  BY <1>1
<1>7. ~doubleTapped(u, DirFwd) /\ ~doubleTapped(u, DirBack)
  <2>1. direction(at(u, 0), u.facing) = dir
    BY <1>2
  <2> HIDE DEF dir
  <2>2. ASSUME NEW to \in {4, 6}, doubleTapped(u, to) PROVE FALSE
    <3>1. PICK first \in 0 .. DashWindow - 1 :
            \A b \in 0 .. first : direction(at(u, b), u.facing) \in {to, DirNeutral}
      BY <2>2, Zenon DEF doubleTapped
    <3>2. 0 \in 0 .. first
      BY <3>1, InputsAssumption
    <3>3. dir \in {to, DirNeutral}
      BY <2>1, <3>1, <3>2
    <3>. QED
      BY <1>6, <3>3 DEF DirNeutral
  <2>. QED
    BY <2>2 DEF DirFwd, DirBack
<1>8. resolveInputs(p, in) = Respond(u, in, dir, open, late, chosen)
  BY Zenon DEF resolveInputs, resolveHeld, resolveWith, u, dir, cancel, open, s, late, chosen
<1> HIDE DEF dir, open, late, chosen
<1>9. Respond(u, in, dir, open, late, chosen) = Steer(u, dir)
  BY <1>4, <1>5, Zenon DEF Respond
<1>10. Steer(u, dir) = stay(u, "crouch")
  <2>1. dir \notin DirJumping /\ dir \in DirCrouching /\ dir # DirFwd /\ dir # DirBack
    BY <1>6 DEF DirJumping, DirCrouching, DirFwd, DirBack
  <2>. QED
    BY <1>5, <1>7, <2>1 DEF Steer
<1>11. stay(u, "crouch").state = "crouch"
  BY <1>1, EnterIs DEF stay
<1>. QED
  BY <1>8, <1>9, <1>10, <1>11

\* A guard that is held is a guard after the moves, also on the frame a knockdown
\* or a blockstun ends.
LEMMA WaitsOn ==
  ASSUME NEW p, Sound(p), Poised(p), ~Airborne(p), NEW in, in = at(p, 0),
         \/ Actionable(p) /\ direction(in, p.facing) \in {1, 3} /\ Quiet(p)
         \/ p.state \in {"blockstun", "knockdown"}
  PROVE  Waits(Move(p, in))
<1> DEFINE q == resolveInputs(p, in)
           r == advanceState(q)
           m == Move(p, in)
<1>1. Answers(p, q) /\ Proceeds(q, r) /\ Lands(r, m) /\ Sound(m)
  BY MoveIs
<1>2. Actionable(p) /\ direction(in, p.facing) \in {1, 3} /\ Quiet(p) => q.state = "crouch"
  BY CrouchesDown
<1> HIDE DEF q, r, m
<1>3. p.y = GroundY /\ p.vy = 0 /\ ~p.down
  <2>1. p.y = GroundY
    BY DEF Airborne, Sound, GroundY
  <2>2. p.state # "hitstun" /\ p.state # "thrown"
    BY DEF Actionable, ActionableStates
  <2>. QED
    BY <2>1, <2>2 DEF Poised, Sound, Debts
<1>4. /\ q.state \in {"crouch", "blockstun", "knockdown"} /\ q.y = GroundY /\ q.vy = 0
      /\ q.state # "crouch" => ~q.down
  <2>1. CASE q.state = "crouch"
    <3>1. q.vy = p.vy
      BY <1>1, <2>1 DEF Answers, Unmoved, Begins, Steered, Fields
    <3>. QED
      BY <1>1, <1>3, <2>1, <3>1 DEF Answers, Stands
  <2>2. CASE p.state \in {"blockstun", "knockdown"}
    <3>1. Unmoved(p, q)
      BY <1>1, <2>2 DEF Answers, Free, ActionableStates
    <3>. QED
      BY <1>3, <2>2, <3>1 DEF Unmoved, Fields
  <2>. QED
    BY <1>2, <2>1, <2>2
<1>5. r.state \in {"crouch", "idle", "blockstun", "knockdown"} /\ r.y = GroundY /\ r.vy = 0
  <2>1. CASE Ticked(q, r)
    BY <1>4, <2>1 DEF Ticked, Stands
  <2>2. CASE ~Ticked(q, r)
    <3>1. q.state # "crouch"
      BY <1>1, <2>2 DEF Proceeds, ActionableStates
    <3>. QED
      BY <1>1, <1>4, <2>2, <3>1 DEF Proceeds, Entered, Stands, StunStates
  <2>. QED
    BY <2>1, <2>2
<1>6. ~Airborne(r)
  BY <1>5 DEF Airborne, GroundY
<1>7. Waits(m)
  BY <1>1, <1>5, <1>6 DEF Lands, Waits
<1>. QED
  BY <1>7 DEF m

(***************************************************************************)
(* What a hit writes.                                                      *)
(***************************************************************************)
\* q stands where p stood and looks where it looked.
Placed(p, q) ==
  DOMAIN q = Fields /\ q.y = p.y /\ q.facing = p.facing /\ q.inputs = p.inputs /\ q.char = p.char

\* q goes on with what p did.
GoesOn(p, q) ==
  /\ Placed(p, q) /\ q.vy = p.vy
  /\ q.state = p.state /\ q.stateFrame = p.stateFrame /\ q.move = p.move

\* q was stopped, in state s.
Stopped(p, q, s) == Placed(p, q) /\ q.state = s /\ q.stateFrame = 0

\* The fields of a player these depend on.
LEMMA GaugesGoOn ==
  ASSUME NEW p, DOMAIN p = Fields
  PROVE  /\ GoesOn(p, p)
         /\ \A n : GoesOn(p, gainSuper(p, n)) /\ gainSuper(p, n).health = p.health
         /\ \A n : GoesOn(p, hurt(p, n)) /\ GoesOn(p, chip(p, n)) /\ GoesOn(p, spendDrive(p, n))
         /\ Drains(p, p)
         /\ \A n : Drains(p, gainSuper(p, n)) /\ Drains(p, hurt(p, n)) /\ Drains(p, chip(p, n))
<1>1. GoesOn(p, p)
  BY DEF GoesOn, Placed
<1>2. \A n : GoesOn(p, gainSuper(p, n)) /\ gainSuper(p, n).health = p.health
  BY DEF GoesOn, Placed, gainSuper, Fields
<1>3. \A n : GoesOn(p, hurt(p, n))
  BY DEF GoesOn, Placed, hurt, Fields
<1>4. \A n : GoesOn(p, chip(p, n))
  BY DEF GoesOn, Placed, chip, Fields
<1>5. \A n : GoesOn(p, spendDrive(p, n))
  BY SpendIs DEF GoesOn, Placed, Fields
<1> DEFINE Gauge(q) == q.unspent = p.unspent /\ q.drive = p.drive /\ q.burnout = p.burnout
<1>6. \A n : Gauge(gainSuper(p, n)) /\ Gauge(hurt(p, n)) /\ Gauge(chip(p, n))
  <2>1. \A n : Gauge(gainSuper(p, n))
    BY DEF gainSuper, Fields
  <2>2. \A n : Gauge(hurt(p, n))
    BY DEF hurt, Fields
  <2>3. \A n : Gauge(chip(p, n))
    BY DEF chip, Fields
  <2>. QED
    BY <2>1, <2>2, <2>3
<1>7. \A q : GoesOn(p, q) /\ Gauge(q) => Drains(p, q)
  BY StillDrains DEF GoesOn, Placed
<1>8. Gauge(p)
  OBVIOUS
<1> HIDE DEF Gauge
<1>9. /\ Drains(p, p)
      /\ \A n : Drains(p, gainSuper(p, n)) /\ Drains(p, hurt(p, n)) /\ Drains(p, chip(p, n))
  BY <1>1, <1>2, <1>3, <1>4, <1>6, <1>7, <1>8
<1>. QED
  BY <1>1, <1>2, <1>3, <1>4, <1>5, <1>9

\* Going on after being stopped, and after going on.
LEMMA GoesOnChain ==
  ASSUME NEW p, NEW q, NEW r, GoesOn(q, r)
  PROVE  /\ GoesOn(p, q) => GoesOn(p, r)
         /\ \A s : Stopped(p, q, s) => Stopped(p, r, s)
  BY DEF GoesOn, Stopped, Placed

\* Armor goes on.
LEMMA ArmoredIs ==
  ASSUME NEW dp, DOMAIN dp = Fields, NEW mv
  PROVE  LET q == TakeArmored(dp, mv) IN GoesOn(dp, q) /\ Drains(dp, q)
<1> DEFINE a == [dp EXCEPT !.armor = @ + 1]
           c == chip(a, Percent(mv.damage, Balance.armorDamagePercent))
           g == gainSuper(c, Percent(mv.damage, Balance.superTakenPercent))
<1>1. GoesOn(dp, a) /\ Drains(dp, a)
  BY DEF GoesOn, Placed, Drains, Burnt, Fields
<1> HIDE DEF a
<1>2. GoesOn(a, c) /\ Drains(a, c)
  BY <1>1, GaugesGoOn DEF GoesOn, Placed
<1> HIDE DEF c
<1>3. GoesOn(c, g) /\ Drains(c, g)
  BY <1>2, GaugesGoOn DEF GoesOn, Placed
<1>4. TakeArmored(dp, mv) = g
  BY Zenon DEF TakeArmored, BuildTaken, g, c, a
<1> HIDE DEF g
<1>. QED
  BY <1>1, <1>2, <1>3, <1>4, GoesOnChain, DrainsChain

\* Knockback is a velocity.
LEMMA KnockbackIs ==
  ASSUME NEW dp, NEW ap, NEW mv, DOMAIN dp = Fields
  PROVE  \A blocked \in BOOLEAN :
           LET q == applyKnockback(dp, ap, mv, blocked)
           IN  /\ Placed(dp, q) /\ q.state = dp.state /\ q.stateFrame = dp.stateFrame
               /\ Drains(dp, q) /\ q.drive = dp.drive /\ q.burnout = dp.burnout
<1> TAKE blocked \in BOOLEAN
<1> DEFINE R(vx, vy) == [dp EXCEPT !.vx = vx, !.vy = vy]
<1>1. \A vx, vy : /\ Placed(dp, R(vx, vy)) /\ R(vx, vy).vy = vy
                  /\ R(vx, vy).state = dp.state /\ R(vx, vy).stateFrame = dp.stateFrame
                  /\ R(vx, vy).drive = dp.drive /\ R(vx, vy).burnout = dp.burnout
                  /\ R(vx, vy).unspent = dp.unspent /\ R(vx, vy).move = dp.move
  BY DEF Placed, Fields
<1> DEFINE left == dp.x < ap.x \/ (dp.x = ap.x /\ ap.facing < 0)
           vx == IF left THEN -KnockbackVX(mv, blocked) ELSE KnockbackVX(mv, blocked)
<1>2. applyKnockback(dp, ap, mv, blocked) = R(vx, KnockbackVY(mv, blocked))
  BY Zenon DEF applyKnockback
<1> HIDE DEF vx, R
<1>3. \A v, w : Drains(dp, R(v, w))
  BY <1>1, StillDrains DEF Placed
<1>. QED
  BY <1>1, <1>2, <1>3

\* Entering a state stops, also with what is written into it.
LEMMA EnterStops ==
  ASSUME NEW p, DOMAIN p = Fields, NEW s
  PROVE  LET e == enter(p, s)
         IN  /\ Stopped(p, e, s) /\ e.vy = p.vy
             /\ e.drive = p.drive /\ e.burnout = p.burnout
             /\ s # "attack" => Drains(p, e)
<1> DEFINE e == enter(p, s)
           kept == {"facing", "inputs", "char", "y", "vy", "unspent", "drive", "burnout"}
<1>1. kept \subseteq Fields \ {"state", "stateFrame", "move", "landing", "down"}
  BY DEF Fields
<1>2. DOMAIN e = Fields /\ e.state = s /\ e.stateFrame = 0
  BY EnterIs
<1>3. \A f \in kept : e[f] = p[f]
  BY <1>1, EnterKeeps
<1> HIDE DEF e
<1>4. s # "attack" => Drains(p, e)
  BY <1>2, <1>3, StillDrains
<1>. QED
  BY <1>2, <1>3, <1>4 DEF Stopped, Placed, e

\* A block stops on the spot.
LEMMA BlockedIs ==
  ASSUME NEW dp, DOMAIN dp = Fields, dp.drive \in Int, NEW ap, NEW mv
  PROVE  LET q == TakeBlocked(dp, ap, mv)
         IN  Stopped(dp, q, "blockstun") /\ q.vy = 0 /\ Drains(dp, q)
<1> DEFINE e == enter(dp, "blockstun")
           s == [e EXCEPT !.stun = mv.blockstun]
           held == applyKnockback(s, ap, mv, TRUE)
           longer == [held EXCEPT !.stun = @ + Balance.burnoutBlockstun]
           n == Percent(mv.damage, Balance.burnoutChipPercent)
           Blocks(q) == Stopped(dp, q, "blockstun") /\ q.vy = 0
           Gauge(q) == Drains(dp, q) /\ q.drive = dp.drive /\ q.burnout = dp.burnout
<1>1. Stopped(dp, e, "blockstun") /\ Gauge(e)
  BY EnterStops
<1> HIDE DEF e
<1>2. Stopped(dp, s, "blockstun") /\ Gauge(s)
  BY <1>1 DEF Stopped, Placed, Drains, Burnt, Fields
<1> HIDE DEF s
<1>3. Blocks(held) /\ Gauge(held)
  <2>1. DOMAIN s = Fields
    BY <1>2 DEF Stopped, Placed
  <2>2. /\ Placed(s, held) /\ held.state = s.state /\ held.stateFrame = s.stateFrame
        /\ Drains(s, held) /\ held.drive = s.drive /\ held.burnout = s.burnout
    BY <2>1, KnockbackIs
  <2>3. held.vy = 0
    BY <2>1 DEF applyKnockback, KnockbackVY, Fields
  <2> HIDE DEF held
  <2>4. Drains(dp, held)
    BY <1>2, <2>2, DrainsChain
  <2>. QED
    BY <1>2, <2>2, <2>3, <2>4 DEF Stopped, Placed
<1> HIDE DEF held
<1>4. Blocks(longer) /\ Drains(dp, longer)
  BY <1>3 DEF Stopped, Placed, Drains, Burnt, Fields
<1> HIDE DEF longer
<1>5. \A p, q : Blocks(p) /\ GoesOn(p, q) => Blocks(q)
  BY DEF GoesOn, Stopped, Placed
<1>6. \A p : Blocks(p) => DOMAIN p = Fields
  BY DEF Stopped, Placed
<1> HIDE DEF Blocks, n
<1>7. Blocks(spendDrive(held, Balance.driveBlockCost)) /\ Blocks(chip(longer, n))
  <2>1. GoesOn(held, spendDrive(held, Balance.driveBlockCost))
    BY <1>3, <1>6, GaugesGoOn
  <2>2. GoesOn(longer, chip(longer, n))
    BY <1>4, <1>6, GaugesGoOn
  <2>. QED
    BY <1>3, <1>4, <1>5, <2>1, <2>2
<1>8. \/ ~dp.burnout /\ TakeBlocked(dp, ap, mv) = spendDrive(held, Balance.driveBlockCost)
      \/ TakeBlocked(dp, ap, mv) \in {chip(longer, n), longer}
  BY Zenon DEF TakeBlocked, n, longer, held, s, e
<1>9. Blocks(TakeBlocked(dp, ap, mv))
  BY <1>4, <1>7, <1>8, Zenon
<1>10. Drains(dp, chip(longer, n))
  <2>1. Drains(longer, chip(longer, n))
    BY <1>4, <1>6, GaugesGoOn
  <2>. QED
    BY <1>4, <2>1, DrainsChain
<1>11. ASSUME ~dp.burnout
       PROVE  Drains(dp, spendDrive(held, Balance.driveBlockCost))
  <2> DEFINE cost == Balance.driveBlockCost
             d == spendDrive(held, cost)
  <2>1. DOMAIN held = Fields
    BY <1>3, <1>6
  <2>2. /\ DOMAIN d = Fields /\ \A f \in Fields \ {"drive", "burnout"} : d[f] = held[f]
        /\ d.drive = Greater(held.drive - cost, 0)
        /\ d.burnout <=> held.burnout \/ held.drive - cost <= 0
    BY <2>1, SpendIs
  <2>3. cost \in Int
    BY BalanceNumbers
  <2>4. held.state = "blockstun"
    BY <1>3 DEF Blocks, Stopped
  <2> HIDE DEF d, cost
  <2>5. d.state = "blockstun" /\ d.char = held.char /\ d.unspent = held.unspent
    BY <2>2, <2>4 DEF Fields
  <2>6. d.burnout => d.drive = 0
    <3>1. d.burnout => dp.drive - cost <= 0 /\ d.drive = Greater(dp.drive - cost, 0)
      BY <1>3, <1>11, <2>2
    <3>. QED
      BY <2>3, <3>1 DEF Greater
  <2>. QED
    BY <1>3, <1>11, <2>2, <2>5, <2>6 DEF Drains, Burnt, d, cost
<1>12. Drains(dp, TakeBlocked(dp, ap, mv))
  BY <1>4, <1>8, <1>10, <1>11, Zenon
<1>. QED
  BY <1>9, <1>12 DEF Blocks

\* A hit stops.
LEMMA HitIs ==
  ASSUME NEW dp, DOMAIN dp = Fields, NEW ap, NEW mv
  PROVE  LET q == TakeHit(dp, ap, mv) IN Stopped(dp, q, "hitstun") /\ Drains(dp, q)
<1> DEFINE counter == counterClass(dp)
           starter == IF dp.combo = 0 THEN starterScale(mv) ELSE dp.comboStarter
           e == enter(dp, "hitstun")
           struck == [e EXCEPT
                   !.combo = @ + 1, !.comboStarter = starter, !.counter = counter,
                   !.stun = mv.hitstun + counterHitstun(counter), !.down = mv.knockdown,
                   !.juggle = IF Airborne(dp) THEN @ + 1 ELSE @]
           hurting == hurt(struck, scaledDamage(mv, starter, dp.combo + 1, counter))
           built == gainSuper(hurting, Percent(mv.damage, Balance.superTakenPercent))
           q == applyKnockback(built, ap, mv, FALSE)
           Reels(p) == Stopped(dp, p, "hitstun") /\ Drains(dp, p)
<1>1. Reels(e)
  BY EnterStops
<1> HIDE DEF e
<1>2. Reels(struck)
  <2> DEFINE R(a, b, c, d, f, g) ==
               [e EXCEPT !.combo = a, !.comboStarter = b, !.counter = c, !.stun = d,
                         !.down = f, !.juggle = g]
  <2>1. \A a, b, c, d, f, g : Reels(R(a, b, c, d, f, g))
    BY <1>1 DEF Stopped, Placed, Drains, Burnt, Fields
  <2>2. DOMAIN e = Fields
    BY <1>1 DEF Stopped, Placed
  <2>3. \E a, b, c, d, f, g : struck = R(a, b, c, d, f, g)
    BY <2>2, Zenon DEF Fields
  <2> HIDE DEF struck, R
  <2>. QED
    BY <2>1, <2>3
<1> HIDE DEF struck
<1>3. /\ \A p : Reels(p) => DOMAIN p = Fields
      /\ \A p, r : Reels(p) /\ GoesOn(p, r) /\ Drains(p, r) => Reels(r)
  BY GoesOnChain, DrainsChain DEF Stopped, Placed
<1> HIDE DEF Reels
<1>4. Reels(hurting)
  <2>1. GoesOn(struck, hurting) /\ Drains(struck, hurting)
    BY <1>2, <1>3, GaugesGoOn
  <2> HIDE DEF hurting
  <2>. QED
    BY <1>2, <1>3, <2>1
<1> HIDE DEF hurting
<1>5. Reels(built)
  <2>1. GoesOn(hurting, built) /\ Drains(hurting, built)
    BY <1>3, <1>4, GaugesGoOn
  <2> HIDE DEF built
  <2>. QED
    BY <1>3, <1>4, <2>1
<1> HIDE DEF built
<1>6. /\ Placed(built, q) /\ q.state = built.state /\ q.stateFrame = built.stateFrame
      /\ Drains(built, q)
  <2>1. DOMAIN built = Fields
    BY <1>3, <1>5
  <2>. QED
    BY <2>1, KnockbackIs
<1> HIDE DEF q
<1>7. Stopped(dp, q, "hitstun") /\ Drains(dp, q)
  BY <1>5, <1>6, DrainsChain DEF Reels, Stopped, Placed
<1>. QED
  BY <1>7, Zenon DEF TakeHit, BuildTaken, q, built, hurting, struck, e, starter, counter

\* A throw stops, and leaves the velocity.
LEMMA ThrowIs ==
  ASSUME NEW dp, DOMAIN dp = Fields, NEW mv
  PROVE  LET q == TakeThrow(dp, mv)
         IN  Stopped(dp, q, "thrown") /\ q.vy = dp.vy /\ Drains(dp, q)
<1> DEFINE starter == starterScale(mv)
           e == enter(dp, "thrown")
           caught == [e EXCEPT
                   !.stun = mv.hitstun, !.down = mv.knockdown,
                   !.combo = @ + 1, !.comboStarter = starter, !.counter = "none"]
           hurting == hurt(caught, scaledDamage(mv, starter, dp.combo + 1, "none"))
           built == gainSuper(hurting, Percent(mv.damage, Balance.superTakenPercent))
           Caught(q) == Stopped(dp, q, "thrown") /\ q.vy = dp.vy /\ Drains(dp, q)
<1>1. Caught(e)
  BY EnterStops
<1> HIDE DEF e, starter
<1>2. Caught(caught)
  BY <1>1 DEF Stopped, Placed, Drains, Burnt, Fields
<1> HIDE DEF caught
<1>3. \A p, q : Caught(p) /\ GoesOn(p, q) /\ Drains(p, q) => Caught(q)
  BY DrainsChain DEF GoesOn, Stopped, Placed
<1>4. \A p : Caught(p) => DOMAIN p = Fields
  BY DEF Stopped, Placed
<1> HIDE DEF Caught
<1>5. Caught(hurting)
  <2>1. GoesOn(caught, hurting) /\ Drains(caught, hurting)
    BY <1>2, <1>4, GaugesGoOn
  <2> HIDE DEF hurting
  <2>. QED
    BY <1>2, <1>3, <2>1
<1> HIDE DEF hurting
<1>6. Caught(built)
  <2>1. GoesOn(hurting, built) /\ Drains(hurting, built)
    BY <1>4, <1>5, GaugesGoOn
  <2> HIDE DEF built
  <2>. QED
    BY <1>3, <1>5, <2>1
<1>. QED
  BY <1>6, Zenon DEF Caught, TakeThrow, BuildTaken, built, hurting, caught, e, starter

(***************************************************************************)
(* Steps 1 to 4 of the arena.                                              *)
(***************************************************************************)
\* The players make their moves and are pushed and turned.
LEMMA PlayersMove ==
  ASSUME NEW a, Standing(a), NEW in
  PROVE  LET b == MovePlayers(a, in)
         IN  /\ b.projectiles = a.projectiles
             /\ \A i \in Seats : Faces(Move(a.players[i], in[i]), b.players[i])
<1> DEFINE ps == a.players
           moved(i) == Move(ps[i], in[i])
           stepped == [ps EXCEPT ![0] = moved(0), ![1] = moved(1)]
           qs == Sides(stepped, a.camX)
           b == [a EXCEPT !.players = qs]
<1>1. DOMAIN ps = Seats /\ \A i \in Seats : Sound(ps[i])
  BY DEF Standing
<1>2. \A i \in Seats : Sound(moved(i))
  BY <1>1, MoveIs
<1> HIDE DEF moved
<1>3. DOMAIN stepped = Seats /\ \A i \in Seats : stepped[i] = moved(i)
  BY <1>1 DEF Seats
<1> HIDE DEF stepped
<1>4. Pair(stepped)
  BY <1>2, <1>3 DEF Pair, Sound
<1>5. \A i \in Seats : Faces(stepped[i], qs[i])
  BY <1>4, SidesPush
<1> HIDE DEF qs
<1>6. b.players = qs /\ b.projectiles = a.projectiles
  BY DEF Standing
<1>7. MovePlayers(a, in) = b
  BY Zenon DEF MovePlayers, Sides, Move, b, qs, stepped, moved, ps
<1> HIDE DEF b
<1>8. \A i \in Seats : Faces(moved(i), b.players[i])
  BY <1>3, <1>5, <1>6
<1>. QED
  BY <1>6, <1>7, <1>8 DEF moved, ps

\* Being pushed and turned leaves a fighter poised.
LEMMA FacesPoised ==
  ASSUME NEW p, NEW q, Poised(p), Faces(p, q)
  PROVE  Poised(q) /\ MoveOf(q) = MoveOf(p)
<1>1. /\ q.stateFrame = p.stateFrame /\ q.state = p.state /\ q.y = p.y /\ q.vy = p.vy
      /\ q.move = p.move /\ q.char = p.char /\ q.facing \in {1, -1}
  BY DEF Faces, Fields, Poised
<1>2. MoveOf(q) = MoveOf(p)
  BY <1>1 DEF MoveOf
<1>. QED
  BY <1>1, <1>2 DEF Poised, Afloat

(***************************************************************************)
(* Steps 6 and 7 of the arena.                                             *)
(***************************************************************************)
\* What a strike makes of who is struck and holds in.
Taken(p, q, mv, in) ==
  \/ absorbs(p) /\ GoesOn(p, q)
  \/ ~absorbs(p) /\ blocking(p, in, mv.level) /\ Stopped(p, q, "blockstun") /\ q.vy = 0
  \/ ~absorbs(p) /\ ~blocking(p, in, mv.level) /\ Stopped(p, q, "hitstun")

\* b is a after a strike of seat i: it goes on, in health, the other takes it,
\* and neither begins anything.
Connected(a, b, i, mv, in) ==
  /\ GoesOn(a.players[i], b.players[i]) /\ b.players[i].health = a.players[i].health
  /\ \A k \in Seats : Drains(a.players[k], b.players[k])
  /\ Taken(a.players[Other(i)], b.players[Other(i)], mv, in)

\* Where the players of a connect stand in the arena.
LEMMA SettledIs ==
  ASSUME NEW a, Standing(a), NEW i \in Seats, NEW ap, NEW dp, NEW mv
  PROVE  LET b == Settled(a, i, ap, dp, mv)
         IN  b.players[i] = ap /\ b.players[Other(i)] = dp /\ b.projectiles = a.projectiles
<1> DEFINE j == Other(i)
           b == Settled(a, i, ap, dp, mv)
<1>1. j \in Seats /\ j # i
  BY TwoSeats
<1> HIDE DEF j
<1>2. b.players = [a.players EXCEPT ![i] = ap, ![j] = dp] /\ b.projectiles = a.projectiles
  BY DEF Settled, Standing, j
<1> HIDE DEF b
<1>. QED
  BY <1>1, <1>2 DEF Standing, b, j

\* A strike that was not a throw.
LEMMA ApplyHitIs ==
  ASSUME NEW a, Standing(a), NEW i \in Seats, NEW mv, NEW in
  PROVE  LET b == applyHit(a, i, mv, in)
         IN  Connected(a, b, i, mv, in) /\ b.projectiles = a.projectiles
<1> DEFINE ap == a.players[i]
           dp == a.players[Other(i)]
           armored == absorbs(dp)
           blocked == ~armored /\ blocking(dp, in, mv.level)
           taken == IF armored THEN TakeArmored(dp, mv)
                    ELSE IF blocked THEN TakeBlocked(dp, ap, mv) ELSE TakeHit(dp, ap, mv)
           built == IF blocked THEN ap ELSE BuildDealt(ap, mv)
           paid == IF IsSpecial(mv) THEN gainSuper(built, Balance.superOnSpecial) ELSE built
           b == Settled(a, i, paid, taken, mv)
<1>1. DOMAIN ap = Fields /\ DOMAIN dp = Fields /\ dp.drive \in Int
  <2>1. Other(i) \in Seats /\ DriveMax \in Nat
    BY TwoSeats, GaugeSizes
  <2>. QED
    BY <2>1 DEF Standing, Sound, Gauges
<1> HIDE DEF ap, dp
<1>2. Taken(dp, taken, mv, in) /\ Drains(dp, taken)
  <2>1. CASE armored
    BY <1>1, <2>1, ArmoredIs DEF Taken
  <2>2. CASE blocked
    BY <1>1, <2>2, BlockedIs DEF Taken
  <2>3. CASE ~armored /\ ~blocked
    BY <1>1, <2>3, HitIs DEF Taken
  <2>. QED
    BY <2>1, <2>2, <2>3
<1> HIDE DEF taken
<1>3. /\ GoesOn(ap, built) /\ built.health = ap.health /\ DOMAIN built = Fields
      /\ Drains(ap, built)
  <2>1. \A n : /\ GoesOn(ap, gainSuper(ap, n)) /\ gainSuper(ap, n).health = ap.health
              /\ Drains(ap, gainSuper(ap, n))
    BY <1>1, GaugesGoOn
  <2>2. GoesOn(ap, ap) /\ Drains(ap, ap)
    BY <1>1, GaugesGoOn
  <2>3. built = ap \/ \E n : built = gainSuper(ap, n)
    BY Zenon DEF BuildDealt
  <2> HIDE DEF built
  <2>4. GoesOn(ap, built) /\ built.health = ap.health /\ Drains(ap, built)
    BY <2>1, <2>2, <2>3
  <2>. QED
    BY <2>4 DEF GoesOn, Placed
<1> HIDE DEF built
<1>4. GoesOn(ap, paid) /\ paid.health = ap.health /\ Drains(ap, paid)
  <2> DEFINE g == gainSuper(built, Balance.superOnSpecial)
  <2>1. GoesOn(built, g) /\ g.health = built.health /\ Drains(built, g)
    BY <1>3, GaugesGoOn
  <2> HIDE DEF g
  <2>2. GoesOn(ap, g) /\ Drains(ap, g)
    BY <1>3, <2>1, GoesOnChain, DrainsChain
  <2>3. paid \in {built, g}
    BY Zenon DEF g
  <2>. QED
    BY <1>3, <2>1, <2>2, <2>3
<1> HIDE DEF paid
<1>5. b.players[i] = paid /\ b.players[Other(i)] = taken /\ b.projectiles = a.projectiles
  BY SettledIs
<1>6. applyHit(a, i, mv, in) = b
  BY Zenon DEF applyHit, b, paid, built, taken, ap, dp
<1> HIDE DEF b
<1>7. \A k \in Seats : Drains(a.players[k], b.players[k])
  BY <1>2, <1>4, <1>5, TwoSeats DEF ap, dp
<1>. QED
  BY <1>2, <1>4, <1>5, <1>6, <1>7 DEF Connected, ap, dp

\* A throw that is broken stops both and costs nobody health.
LEMMA TechIs ==
  ASSUME NEW a, Standing(a), NEW i \in Seats
  PROVE  LET b == tech(a, i)
         IN  /\ b.projectiles = a.projectiles
             /\ \A k \in Seats : /\ Stopped(a.players[k], b.players[k], "thrown")
                                 /\ b.players[k].health = a.players[k].health
                                 /\ Drains(a.players[k], b.players[k])
<1> DEFINE ps == a.players
           j == Other(i)
           push == IF ps[i].x <= ps[j].x THEN -FromInt(Balance.throwTechPush)
                   ELSE FromInt(Balance.throwTechPush)
           freed(p, by) == [enter(p, "thrown") EXCEPT
                             !.stun = Balance.throwTechRecovery, !.vx = 0, !.vy = 0, !.x = @ + by]
           apart == [ps EXCEPT ![i] = freed(ps[i], push), ![j] = freed(ps[j], -push)]
           qs == clampToStage(apart, a.camX)
           b == [a EXCEPT !.players = qs]
           Freed(p, q) == /\ Stopped(p, q, "thrown") /\ q.health = p.health
                          /\ Drains(p, q)
<1>1. ASSUME NEW p, NEW by, DOMAIN p = Fields
      PROVE  Freed(p, freed(p, by))
  <2> DEFINE e == enter(p, "thrown")
  <2>1. Stopped(p, e, "thrown") /\ Drains(p, e)
    BY <1>1, EnterStops
  <2>2. e.health = p.health
    <3>1. "health" \in Fields \ {"state", "stateFrame", "move", "landing", "down"}
      BY DEF Fields
    <3>. QED
      BY <1>1, <3>1, EnterKeeps
  <2> HIDE DEF e
  <2>3. freed(p, by) = [e EXCEPT !.stun = Balance.throwTechRecovery, !.vx = 0, !.vy = 0, !.x = @ + by]
    BY Zenon DEF e
  <2> HIDE DEF freed
  <2>. QED
    BY <2>1, <2>2, <2>3 DEF Stopped, Placed, Drains, Burnt, Fields
<1>2. j \in Seats /\ j # i /\ \A k \in Seats : k = i \/ k = j
  BY TwoSeats
<1> HIDE DEF freed, push, j, Freed
<1>3. \A k \in Seats : Freed(ps[k], apart[k])
  <2>1. DOMAIN ps[i] = Fields /\ DOMAIN ps[j] = Fields
    BY <1>2 DEF Standing, Sound
  <2>2. apart[i] = freed(ps[i], push) /\ apart[j] = freed(ps[j], -push)
    BY <1>2 DEF Standing
  <2> HIDE DEF apart, ps
  <2>. QED
    BY <1>1, <1>2, <2>1, <2>2
<1>4. DOMAIN apart = Seats
  BY DEF Standing
<1> HIDE DEF apart
<1>5. Pair(apart)
  BY <1>3, <1>4 DEF Pair, Freed, Stopped, Placed
<1>6. Pushed(apart, qs)
  BY <1>5, ClampPushes
<1> HIDE DEF qs
<1>7. ASSUME NEW k \in Seats PROVE Freed(ps[k], qs[k])
  <2>1. Carried(apart[k], qs[k]) /\ Freed(ps[k], apart[k])
    BY <1>3, <1>6 DEF Pushed
  <2>. QED
    BY <2>1 DEF Carried, Freed, Stopped, Placed, Drains, Burnt, Fields
<1>8. b.players = qs /\ b.projectiles = a.projectiles
  BY DEF Standing
<1>9. tech(a, i) = b
  BY <1>2, Zenon DEF tech, b, qs, apart, freed, push, j, Standing
<1> HIDE DEF b
<1>. QED
  BY <1>7, <1>8, <1>9 DEF Freed

\* q goes on with what p did, or was stopped by a connect.
Lasts(p, q) ==
  \/ GoesOn(p, q)
  \/ \E s \in {"hitstun", "thrown", "blockstun"} :
       Stopped(p, q, s) /\ (s = "blockstun" => q.vy = 0)

\* q is p after the connects of a frame: it has begun nothing.
Endures(p, q) == Lasts(p, q) /\ Drains(p, q)

\* What a connect keeps.
LEMMA LastsKeeps ==
  ASSUME NEW p, DOMAIN p = Fields, NEW q
  PROVE  /\ Lasts(p, p)
         /\ \A r : Lasts(p, q) /\ Lasts(q, r) => Lasts(p, r)
         /\ \A mv, in : Taken(p, q, mv, in) => Lasts(p, q)
         /\ Lasts(p, q) => Placed(p, q)
         /\ Poised(p) /\ Lasts(p, q) => Poised(q)
<1>1. Lasts(p, p)
  BY GaugesGoOn DEF Lasts
<1>2. ASSUME NEW r, Lasts(p, q), Lasts(q, r) PROVE Lasts(p, r)
  <2>1. CASE GoesOn(q, r)
    BY <1>2, <2>1 DEF Lasts, GoesOn, Stopped, Placed
  <2>2. CASE ~GoesOn(q, r)
    BY <1>2, <2>2 DEF Lasts, GoesOn, Stopped, Placed
  <2>. QED
    BY <2>1, <2>2
<1>3. \A mv, in : Taken(p, q, mv, in) => Lasts(p, q)
  BY DEF Taken, Lasts
<1>4. Lasts(p, q) => Placed(p, q)
  BY DEF Lasts, GoesOn, Stopped
<1>5. ASSUME Poised(p), GoesOn(p, q) PROVE Poised(q)
  <2>1. MoveOf(q) = MoveOf(p)
    BY <1>5 DEF MoveOf, GoesOn, Placed
  <2>. QED
    BY <1>5, <2>1 DEF Poised, GoesOn, Placed, Afloat
<1>6. ASSUME Poised(p), NEW s \in {"hitstun", "thrown", "blockstun"}, Stopped(p, q, s),
             s = "blockstun" => q.vy = 0
      PROVE  Poised(q)
  <2>1. MoveOf(q) = {}
    BY <1>6 DEF MoveOf, Stopped
  <2>. QED
    BY <1>6, <2>1 DEF Poised, Stopped, Placed, Afloat
<1>. QED
  BY <1>1, <1>2, <1>3, <1>4, <1>5, <1>6 DEF Lasts

\* What a frame of connects keeps.
LEMMA EnduresKeeps ==
  ASSUME NEW p, DOMAIN p = Fields, NEW q
  PROVE  /\ Endures(p, p)
         /\ \A r : Endures(p, q) /\ Endures(q, r) => Endures(p, r)
         /\ Endures(p, q) => Placed(p, q)
<1>1. /\ Lasts(p, p) /\ \A r : Lasts(p, q) /\ Lasts(q, r) => Lasts(p, r)
      /\ Lasts(p, q) => Placed(p, q)
  BY LastsKeeps
<1>2. Drains(p, p) /\ \A r : Drains(p, q) /\ Drains(q, r) => Drains(p, r)
  BY GaugesGoOn, DrainsChain
<1>. QED
  BY <1>1, <1>2 DEF Endures

\* One connect of step 7, a throw or not.
LEMMA ResolveHitIs ==
  ASSUME NEW a, Standing(a), Aloft(a), NEW i \in Seats, NEW mv, NEW in
  PROVE  LET b == resolveHit(a, i, mv, in)
         IN  /\ b.projectiles = a.projectiles
             /\ \A k \in Seats : Endures(a.players[k], b.players[k])
             /\ b.players[i].health = a.players[i].health
             /\ ~mv.throw => Connected(a, b, i, mv, in)
<1> DEFINE j == Other(i)
<1>1. j \in Seats /\ j # i /\ \A k \in Seats : k = i \/ k = j
  BY TwoSeats
<1>2. \A k \in Seats : DOMAIN a.players[k] = Fields
  BY DEF Standing, Sound
<1>3. ASSUME mv.throw
      PROVE  LET b == applyThrow(a, i, mv)
             IN  /\ b.projectiles = a.projectiles
                 /\ \A k \in Seats : Endures(a.players[k], b.players[k])
                 /\ b.players[i].health = a.players[i].health
  <2> DEFINE ap == a.players[i]
             dp == a.players[Other(i)]
             g == BuildDealt(ap, mv)
             paid == [g EXCEPT !.hasHit = TRUE]
             thrown == TakeThrow(dp, mv)
             b == Settled(a, i, paid, thrown, mv)
             t == tech(a, i)
  <2>1. DOMAIN ap = Fields /\ DOMAIN dp = Fields
    BY <1>1, <1>2
  <2> HIDE DEF ap, dp
  <2>2. GoesOn(ap, g) /\ g.health = ap.health /\ Drains(ap, g)
    BY <2>1, GaugesGoOn DEF BuildDealt
  <2> HIDE DEF g
  <2>3. GoesOn(ap, paid) /\ paid.health = ap.health /\ Drains(ap, paid)
    BY <2>2 DEF GoesOn, Placed, Drains, Burnt, Fields
  <2> HIDE DEF paid
  <2>4. Stopped(dp, thrown, "thrown") /\ Drains(dp, thrown)
    BY <2>1, ThrowIs
  <2> HIDE DEF thrown
  <2>5. b.players[i] = paid /\ b.players[Other(i)] = thrown /\ b.projectiles = a.projectiles
    BY SettledIs
  <2>6. /\ t.projectiles = a.projectiles
        /\ \A k \in Seats : /\ Stopped(a.players[k], t.players[k], "thrown")
                            /\ t.players[k].health = a.players[k].health
                            /\ Drains(a.players[k], t.players[k])
    BY TechIs
  <2>7. applyThrow(a, i, mv) \in {t, b}
    BY Zenon DEF applyThrow, b, t, thrown, paid, g, ap, dp
  <2> HIDE DEF b, t
  <2>8. \A p, q : (GoesOn(p, q) \/ Stopped(p, q, "thrown")) /\ Drains(p, q) => Endures(p, q)
    BY DEF Endures, Lasts
  <2>9. /\ b.projectiles = a.projectiles
        /\ \A k \in Seats : Endures(a.players[k], b.players[k])
        /\ b.players[i].health = a.players[i].health
    BY <1>1, <2>3, <2>4, <2>5, <2>8 DEF ap, dp
  <2>10. /\ t.projectiles = a.projectiles
         /\ \A k \in Seats : Endures(a.players[k], t.players[k])
         /\ t.players[i].health = a.players[i].health
    BY <2>6, <2>8
  <2>. QED
    BY <2>7, <2>9, <2>10
<1>4. ASSUME ~mv.throw
      PROVE  LET b == applyHit([a EXCEPT !.players[i].hasHit = TRUE], i, mv, in)
             IN  Connected(a, b, i, mv, in) /\ b.projectiles = a.projectiles
  <2> DEFINE c == [a EXCEPT !.players[i].hasHit = TRUE]
             b == applyHit(c, i, mv, in)
  <2>1. /\ DOMAIN c = DOMAIN a /\ c.projectiles = a.projectiles /\ c.hitstop = a.hitstop
        /\ c.dealt = a.dealt /\ c.players = [a.players EXCEPT ![i].hasHit = TRUE]
    BY DEF Standing
  <2> HIDE DEF c
  <2>2. /\ DOMAIN c.players = Seats /\ c.players[j] = a.players[j]
        /\ c.players[i] = [a.players[i] EXCEPT !.hasHit = TRUE]
    BY <1>1, <2>1 DEF Standing
  <2>3. /\ DOMAIN c.players[i] = Fields
        /\ \A f \in Fields \ {"hasHit"} : c.players[i][f] = a.players[i][f]
    BY <1>2, <2>2 DEF Fields
  <2>4. \A k \in Seats : Same(a.players[k], c.players[k])
    BY <1>1, <1>2, <2>2, <2>3 DEF Same, Fields
  <2>5. Standing(c)
    <3>1. Shifted(a.players, c.players)
      BY <2>2, <2>4 DEF Shifted
    <3>2. c = [a EXCEPT !.players = c.players]
      BY <2>1, Zenon DEF c
    <3>. QED
      BY <3>1, <3>2, ShiftedStrikes DEF Strikes
  <2>6. Connected(c, b, i, mv, in) /\ b.projectiles = c.projectiles
    BY <2>5, ApplyHitIs
  <2> HIDE DEF b
  <2>7. GoesOn(a.players[i], c.players[i]) /\ c.players[i].health = a.players[i].health
    BY <2>3 DEF GoesOn, Placed, Fields
  <2>71. \A k \in Seats : Drains(a.players[k], c.players[k])
    <3>1. Drains(a.players[i], c.players[i])
      BY <2>3, StillDrains DEF Fields
    <3>2. Drains(a.players[j], c.players[j])
      BY <1>1, <1>2, <2>2, DrainsChain, GaugesGoOn
    <3>. QED
      BY <1>1, <3>1, <3>2
  <2>72. \A k \in Seats : Drains(a.players[k], b.players[k])
    BY <2>6, <2>71, DrainsChain DEF Connected
  <2>8. GoesOn(a.players[i], b.players[i])
    BY <2>6, <2>7, GoesOnChain DEF Connected
  <2>9. Connected(a, b, i, mv, in)
    BY <2>2, <2>6, <2>7, <2>72, <2>8 DEF Connected
  <2>. QED
    BY <2>1, <2>6, <2>9 DEF b, c
<1>5. ASSUME NEW b, Connected(a, b, i, mv, in)
      PROVE  \A k \in Seats : Endures(a.players[k], b.players[k])
  <2>1. Endures(a.players[i], b.players[i])
    BY <1>5 DEF Connected, Endures, Lasts
  <2>2. Endures(a.players[j], b.players[j])
    BY <1>1, <1>2, <1>5, LastsKeeps DEF Connected, Endures
  <2>. QED
    BY <1>1, <2>1, <2>2
<1> DEFINE b == resolveHit(a, i, mv, in)
<1>6. CASE mv.throw
  <2>1. b = applyThrow(a, i, mv)
    BY <1>6, Zenon DEF resolveHit
  <2>. QED
    BY <1>3, <1>6, <2>1
<1>7. CASE ~mv.throw
  <2>1. b = applyHit([a EXCEPT !.players[i].hasHit = TRUE], i, mv, in)
    BY <1>7, Zenon DEF resolveHit
  <2>2. Connected(a, b, i, mv, in) /\ b.projectiles = a.projectiles
    BY <1>4, <1>7, <2>1
  <2> HIDE DEF b
  <2>3. /\ b.projectiles = a.projectiles
        /\ \A k \in Seats : Endures(a.players[k], b.players[k])
        /\ b.players[i].health = a.players[i].health
    BY <1>5, <2>2 DEF Connected
  <2>. QED
    BY <2>2, <2>3 DEF b
<1>. QED
  BY <1>6, <1>7

\* Both connects of step 7: all endure them, and who makes none is struck by the
\* other at most, as the two stood before the first of them.
LEMMA HitsAre ==
  ASSUME NEW a, Standing(a), Aloft(a), NEW in
  PROVE  LET d == ResolveHits(a, in)
         IN  /\ d.projectiles = a.projectiles
             /\ \A k \in Seats : Endures(a.players[k], d.players[k])
             /\ \A i \in Seats :
                  ~connects(a, i, Other(i)) \/ MoveOf(a.players[i]) = {} =>
                    \/ d = a
                    \/ /\ connects(a, Other(i), i)
                       /\ d.players[Other(i)].health = a.players[Other(i)].health
                       /\ \E mv \in MoveOf(a.players[Other(i)]) :
                            ~mv.throw => Connected(a, d, Other(i), mv, in[i])
<1> DEFINE hits(i) == IF connects(a, i, Other(i)) THEN MoveOf(a.players[i]) ELSE {}
           mv(i) == CHOOSE m \in hits(i) : TRUE
           apply(b, i) == IF hits(i) = {} THEN b ELSE resolveHit(b, i, mv(i), in[Other(i)])
<1>1. \A i \in Seats : hits(i) # {} =>
        connects(a, i, Other(i)) /\ mv(i) \in MoveOf(a.players[i]) /\ mv(i) \in MoveType
  <2> TAKE i \in Seats
  <2> HAVE hits(i) # {}
  <2>1. mv(i) \in hits(i) /\ hits(i) = MoveOf(a.players[i]) /\ connects(a, i, Other(i))
    OBVIOUS
  <2>. QED
    BY <2>1, MoveOfLoaded DEF Standing
<1>2. \A i \in Seats : ~connects(a, i, Other(i)) \/ MoveOf(a.players[i]) = {} => hits(i) = {}
  OBVIOUS
<1> HIDE DEF mv, hits
<1>3. ASSUME NEW b, Standing(b), Aloft(b), NEW i \in Seats, hits(i) # {}
      PROVE  LET r == resolveHit(b, i, mv(i), in[Other(i)])
             IN  /\ Standing(r) /\ Aloft(r) /\ r.projectiles = b.projectiles
                 /\ \A k \in Seats : Endures(b.players[k], r.players[k])
                 /\ r.players[i].health = b.players[i].health
                 /\ ~mv(i).throw => Connected(b, r, i, mv(i), in[Other(i)])
  <2> DEFINE r == resolveHit(b, i, mv(i), in[Other(i)])
  <2>1. Strikes(b, r)
    BY <1>1, <1>3, ResolveHitStrikes
  <2>2. /\ r.projectiles = b.projectiles
        /\ \A k \in Seats : Endures(b.players[k], r.players[k])
        /\ r.players[i].health = b.players[i].health
        /\ ~mv(i).throw => Connected(b, r, i, mv(i), in[Other(i)])
    BY <1>3, ResolveHitIs
  <2> HIDE DEF r
  <2>3. Standing(r) /\ Aloft(r)
    BY <1>3, <2>1, StrikesAloft
  <2>. QED
    BY <2>2, <2>3 DEF r
<1>4. ASSUME NEW b, Standing(b), Aloft(b), NEW i \in Seats
      PROVE  /\ Standing(apply(b, i)) /\ Aloft(apply(b, i)) /\ apply(b, i).projectiles = b.projectiles
             /\ \A k \in Seats : Endures(b.players[k], apply(b, i).players[k])
  <2>1. \A k \in Seats : Endures(b.players[k], b.players[k])
    BY <1>4, EnduresKeeps DEF Standing, Sound
  <2>. QED
    BY <1>3, <1>4, <2>1
<1>5. 0 \in Seats /\ 1 \in Seats /\ Other(0) = 1 /\ Other(1) = 0
  BY DEF Seats, Other
<1> DEFINE first == apply(a, 0)
           d == apply(first, 1)
<1>6. /\ Standing(first) /\ Aloft(first) /\ first.projectiles = a.projectiles
      /\ \A k \in Seats : Endures(a.players[k], first.players[k])
  BY <1>4, <1>5
<1> DEFINE struck(b, i) ==
      /\ connects(a, Other(i), i)
      /\ b.players[Other(i)].health = a.players[Other(i)].health
      /\ \E m \in MoveOf(a.players[Other(i)]) : ~m.throw => Connected(a, b, Other(i), m, in[i])
<1>7. hits(0) # {} => struck(first, 1)
  BY <1>1, <1>3, <1>5
<1>8. hits(0) = {} => first = a
  OBVIOUS
<1>9. hits(1) = {} => d = first
  OBVIOUS
<1>10. hits(0) = {} /\ hits(1) # {} => struck(d, 0)
  BY <1>1, <1>3, <1>5
<1>11. ResolveHits(a, in) = d
  BY Zenon DEF ResolveHits, d, first, mv, hits
<1> HIDE DEF first
<1>12. /\ d.projectiles = a.projectiles
       /\ \A k \in Seats : Endures(first.players[k], d.players[k])
  BY <1>4, <1>5, <1>6
<1> HIDE DEF d, struck, apply
<1>13. \A k \in Seats : Endures(a.players[k], d.players[k])
  BY <1>6, <1>12, EnduresKeeps DEF Standing, Sound
<1>14. \A i \in Seats : hits(i) = {} => d = a \/ struck(d, i)
  BY <1>5, <1>7, <1>8, <1>9, <1>10, TwoSeats DEF Seats
<1>. QED
  BY <1>2, <1>11, <1>12, <1>13, <1>14 DEF struck

\* One slot of the pool: the owner of a projectile that connects goes on, and
\* the other takes its move.
LEMMA SlotIs ==
  ASSUME NEW a, Standing(a), NEW k, NEW in
  PROVE  LET b == InSlot(a, k, in)
             pr == a.projectiles[k]
             mv == Roster[a.players[pr.owner].char].moves[pr.move]
         IN  \/ b = a
             \/ /\ k \in Slots /\ pr.active /\ pr.owner \in Seats /\ mv \in MoveType
                /\ Hurtboxes(a.players[Other(pr.owner)]) # {}
                /\ b.projectiles = [a.projectiles EXCEPT ![k] = FreeSlot]
                /\ Connected(a, b, pr.owner, mv, in[Other(pr.owner)])
<1> DEFINE pr == a.projectiles[k]
           mv == Roster[a.players[pr.owner].char].moves[pr.move]
           b == applyHit(a, pr.owner, mv, in[Other(pr.owner)])
           c == [b EXCEPT !.projectiles[k] = FreeSlot]
<1>1. \/ InSlot(a, k, in) = a
      \/ /\ k \in Slots /\ pr.active /\ InSlot(a, k, in) = c
         /\ Hurtboxes(a.players[Other(pr.owner)]) # {}
  BY Zenon DEF InSlot, resolveProjectile
<1>2. ASSUME k \in Slots, pr.active
      PROVE  /\ pr.owner \in Seats /\ mv \in MoveType
             /\ c.projectiles = [a.projectiles EXCEPT ![k] = FreeSlot]
             /\ Connected(a, c, pr.owner, mv, in[Other(pr.owner)])
  <2>1. pr.owner \in Seats /\ mv \in MoveType
    BY <1>2, MoveLoaded DEF Standing, Sound
  <2> HIDE DEF pr, mv
  <2>2. Connected(a, b, pr.owner, mv, in[Other(pr.owner)]) /\ b.projectiles = a.projectiles
    BY <2>1, ApplyHitIs
  <2> HIDE DEF b
  <2>3. c.players = b.players /\ c.projectiles = [b.projectiles EXCEPT ![k] = FreeSlot]
    OBVIOUS
  <2>. QED
    BY <2>1, <2>2, <2>3 DEF Connected
<1>. QED
  BY <1>1, <1>2

\* A fighter off the floor or knocked down is not thrown, and a strike of it
\* leaves it so.
LEMMA HelplessStays ==
  ASSUME NEW p, NEW q, Helpless(p)
  PROVE  /\ ~throwable(p) /\ MoveOf(p) = {}
         /\ GoesOn(p, q) => Helpless(q)
         /\ \A mv, in : Hurtboxes(p) # {} /\ Taken(p, q, mv, in) => Helpless(q)
<1>1. ~throwable(p)
  BY DEF Helpless, throwable, stunned, StunStates
<1>2. MoveOf(p) = {}
  BY DEF Helpless, MoveOf
<1>3. GoesOn(p, q) => Helpless(q)
  BY DEF Helpless, GoesOn, Placed
<1>4. ASSUME NEW mv, NEW in, Hurtboxes(p) # {}, Taken(p, q, mv, in)
      PROVE  Helpless(q)
  <2>1. p.state # "knockdown"
    BY <1>4 DEF Hurtboxes
  <2>2. ~absorbs(p)
    BY <1>2 DEF absorbs
  <2>3. p.state = "hitstun" /\ p.y > GroundY
    BY <2>1 DEF Helpless
  <2>4. ~blocking(p, in, mv.level)
    BY <2>3 DEF blocking, Airborne
  <2>5. Stopped(p, q, "hitstun")
    BY <1>4, <2>2, <2>4 DEF Taken
  <2>. QED
    BY <2>3, <2>5 DEF Stopped, Placed, Helpless
<1>. QED
  BY <1>1, <1>2, <1>3, <1>4

\* Down-back covers low and mid, and a block leaves a fighter on guard.
LEMMA WaitsStays ==
  ASSUME NEW p, NEW q, Waits(p)
  PROVE  /\ MoveOf(p) = {}
         /\ GoesOn(p, q) => Waits(q)
         /\ \A mv \in MoveType : \A in :
              /\ Hurtboxes(p) # {} /\ Taken(p, q, mv, in)
              /\ direction(in, p.facing) = 1 /\ mv.level # "high"
              => Waits(q)
<1>1. MoveOf(p) = {}
  BY DEF Waits, MoveOf
<1>2. GoesOn(p, q) => Waits(q)
  BY DEF Waits, GoesOn, Placed
<1>3. ASSUME NEW mv \in MoveType, NEW in, Hurtboxes(p) # {}, Taken(p, q, mv, in),
             direction(in, p.facing) = 1, mv.level # "high"
      PROVE  Waits(q)
  <2>1. p.state # "knockdown"
    BY <1>3 DEF Hurtboxes
  <2>2. ~absorbs(p)
    BY <1>1 DEF absorbs
  <2>3. mv.level \in {"low", "mid"}
    BY <1>3 DEF MoveType, Levels
  <2>4. /\ ~Airborne(p)
        /\ Actionable(p) \/ p.state = "blockstun"
    BY <2>1 DEF Waits, Airborne, Actionable, ActionableStates, GroundY
  <2>5. blocking(p, in, mv.level)
    BY <1>3, <2>3, <2>4 DEF blocking
  <2>6. Stopped(p, q, "blockstun")
    BY <1>3, <2>2, <2>5 DEF Taken
  <2>. QED
    BY <2>6 DEF Waits, Stopped, Placed
<1>. QED
  BY <1>1, <1>2, <1>3

\* Seat i waits on guard, and nothing that flies at it is to be blocked high.
Guarded(a, i, in) ==
  /\ Waits(a.players[i]) /\ direction(in[i], a.players[i].facing) = 1
  /\ \A k \in Slots :
       LET pr == a.projectiles[k]
       IN  pr.active /\ pr.owner = Other(i) =>
             Roster[a.players[Other(i)].char].moves[pr.move].level # "high"

\* Nothing that flies is of seat i.
Unfired(a, i) == \A k \in Slots : a.projectiles[k].active => a.projectiles[k].owner = Other(i)

\* What stands between a and b in the life of both seats.
Passed(a, b, in) ==
  /\ Standing(b) /\ Aloft(b) /\ (Fired(a) => Fired(b))
  /\ \A i \in Seats :
       /\ Endures(a.players[i], b.players[i])
       /\ Helpless(a.players[i]) => Helpless(b.players[i])
       /\ Guarded(a, i, in) => Guarded(b, i, in)
       /\ Unfired(a, i) => /\ Unfired(b, i)
                           /\ b.players[Other(i)].health = a.players[Other(i)].health

\* Nothing, and one thing after another.
LEMMA PassedChain ==
  ASSUME NEW a, Standing(a), NEW in
  PROVE  /\ Aloft(a) => Passed(a, a, in)
         /\ \A b, c : Passed(a, b, in) /\ Passed(b, c, in) => Passed(a, c, in)
<1>1. \A i \in Seats : DOMAIN a.players[i] = Fields
  BY DEF Standing, Sound
<1>2. Aloft(a) => Passed(a, a, in)
  BY <1>1, EnduresKeeps DEF Passed
<1>3. ASSUME NEW b, NEW c, Passed(a, b, in), Passed(b, c, in) PROVE Passed(a, c, in)
  <2>1. \A i \in Seats : Endures(a.players[i], c.players[i])
    BY <1>1, <1>3, EnduresKeeps DEF Passed
  <2>2. ASSUME NEW i \in Seats
        PROVE  /\ Helpless(a.players[i]) => Helpless(c.players[i])
               /\ Guarded(a, i, in) => Guarded(c, i, in)
               /\ Unfired(a, i) => /\ Unfired(c, i)
                                   /\ c.players[Other(i)].health = a.players[Other(i)].health
    BY <1>3 DEF Passed
  <2>. QED
    BY <1>3, <2>1, <2>2 DEF Passed
<1>. QED
  BY <1>2, <1>3

\* A slot of the pool.
LEMMA SlotPasses ==
  ASSUME NEW a, Standing(a), Aloft(a), NEW k, NEW in
  PROVE  Passed(a, InSlot(a, k, in), in)
<1> DEFINE b == InSlot(a, k, in)
           pr == a.projectiles[k]
           mv == Roster[a.players[pr.owner].char].moves[pr.move]
<1>1. \/ b = a
      \/ /\ k \in Slots /\ pr.active /\ pr.owner \in Seats /\ mv \in MoveType
         /\ Hurtboxes(a.players[Other(pr.owner)]) # {}
         /\ b.projectiles = [a.projectiles EXCEPT ![k] = FreeSlot]
         /\ Connected(a, b, pr.owner, mv, in[Other(pr.owner)])
  BY SlotIs
<1>2. Standing(b) /\ Aloft(b)
  BY ProjectileStrikes
<1> HIDE DEF b
<1>3. ASSUME b = a
      PROVE  Passed(a, b, in)
  <2>1. Passed(a, a, in)
    BY PassedChain
  <2>. QED
    BY <1>3, <2>1, Zenon
<1>4. ASSUME k \in Slots, pr.active, pr.owner \in Seats, mv \in MoveType,
             Hurtboxes(a.players[Other(pr.owner)]) # {},
             b.projectiles = [a.projectiles EXCEPT ![k] = FreeSlot],
             Connected(a, b, pr.owner, mv, in[Other(pr.owner)])
      PROVE  Passed(a, b, in)
  <2> DEFINE o == pr.owner
             d == Other(o)
  <2>1. /\ o \in Seats /\ d \in Seats /\ d # o /\ Other(d) = o
        /\ \A i \in Seats : i = o \/ i = d
    BY <1>4, TwoSeats
  <2>2. /\ GoesOn(a.players[o], b.players[o]) /\ b.players[o].health = a.players[o].health
        /\ Taken(a.players[d], b.players[d], mv, in[d])
        /\ Drains(a.players[o], b.players[o]) /\ Drains(a.players[d], b.players[d])
    BY <1>4, <2>1 DEF Connected
  <2>3. /\ DOMAIN a.players[o] = Fields /\ DOMAIN a.players[d] = Fields
    BY <2>1 DEF Standing, Sound
  <2>4. \A j \in Slots : b.projectiles[j].active =>
             b.projectiles[j] = a.projectiles[j] /\ j # k
    <3>1. DOMAIN a.projectiles = Slots
      BY DEF Standing
    <3>2. ~FreeSlot.active
      BY DEF FreeSlot
    <3>. QED
      BY <1>4, <3>1, <3>2
  <2>5. Endures(a.players[o], b.players[o]) /\ Endures(a.players[d], b.players[d])
    BY <2>2, <2>3, LastsKeeps DEF Endures, Lasts
  <2>6. \A i \in Seats : Endures(a.players[i], b.players[i])
    BY <2>1, <2>5
  <2>7. \A i \in Seats : Placed(a.players[i], b.players[i])
    BY <2>1, <2>3, <2>5, EnduresKeeps
  <2>8. \A i \in Seats : /\ b.players[i].char = a.players[i].char
                         /\ b.players[i].facing = a.players[i].facing
    BY <2>7 DEF Placed
  <2>9. Fired(a) => Fired(b)
    <3> SUFFICES ASSUME Fired(a), NEW j \in Slots, b.projectiles[j].active
                 PROVE  Fires(Roster[b.players[b.projectiles[j].owner].char].moves[b.projectiles[j].move])
      BY DEF Fired
    <3>1. b.projectiles[j] = a.projectiles[j] /\ a.projectiles[j].owner \in Seats
      BY <2>4 DEF Standing
    <3>. QED
      BY <2>8, <3>1 DEF Fired
  <2>10. \A i \in Seats : Helpless(a.players[i]) => Helpless(b.players[i])
    BY <1>4, <2>1, <2>2, HelplessStays
  <2>11. ASSUME NEW i \in Seats, Guarded(a, i, in)
         PROVE  Guarded(b, i, in)
    <3>1. Waits(b.players[i])
      <4>1. CASE i = o
        BY <2>2, <2>11, <4>1, WaitsStays DEF Guarded
      <4>2. CASE i = d
        <5>1. mv.level # "high"
          BY <1>4, <2>1, <2>11, <4>2 DEF Guarded
        <5>. QED
          BY <1>4, <2>2, <2>11, <4>2, <5>1, WaitsStays DEF Guarded
      <4>. QED
        BY <2>1, <4>1, <4>2
    <3>2. Other(i) \in Seats
      BY TwoSeats
    <3>. QED
      BY <2>4, <2>8, <2>11, <3>1, <3>2 DEF Guarded
  <2>12. ASSUME NEW i \in Seats, Unfired(a, i)
         PROVE  Unfired(b, i) /\ b.players[Other(i)].health = a.players[Other(i)].health
    <3>1. o = Other(i)
      BY <1>4, <2>12 DEF Unfired
    <3>. QED
      BY <2>2, <2>4, <2>12, <3>1 DEF Unfired
  <2>. QED
    BY <1>2, <2>6, <2>9, <2>10, <2>11, <2>12 DEF Passed
<1>. QED
  BY <1>1, <1>3, <1>4 DEF b

\* All slots.
LEMMA SlotsPass ==
  ASSUME NEW a, Standing(a), Aloft(a), NEW in
  PROVE  Passed(a, resolveProjectiles(a, in), in)
<1> DEFINE b == InSlot(a, 0, in)
           c == InSlot(b, 1, in)
           d == InSlot(c, 2, in)
           e == InSlot(d, 3, in)
<1>1. Passed(a, b, in) /\ Standing(b) /\ Aloft(b)
  BY SlotPasses DEF Passed
<1> HIDE DEF b
<1>2. Passed(b, c, in) /\ Standing(c) /\ Aloft(c)
  BY <1>1, SlotPasses DEF Passed
<1> HIDE DEF c
<1>3. Passed(c, d, in) /\ Standing(d) /\ Aloft(d)
  BY <1>2, SlotPasses DEF Passed
<1> HIDE DEF d
<1>4. Passed(d, e, in)
  BY <1>3, SlotPasses
<1> HIDE DEF e
<1>5. Passed(a, c, in)
  BY <1>1, <1>2, PassedChain
<1>6. Passed(a, d, in)
  BY <1>3, <1>5, PassedChain
<1>7. Passed(a, e, in)
  BY <1>4, <1>6, PassedChain
<1>. QED
  BY <1>7, Zenon DEF resolveProjectiles, b, c, d, e

\* Who holds down-back is struck by no high move of the other seat, and is not
\* thrown.
Spared(a, i) == \A mv \in MoveOf(a.players[Other(i)]) : ~mv.throw /\ mv.level # "high"

\* Nothing of the seat connects any more.
Landed(a, i) == Hitboxes(a.players[i]) = {}

\* Step 7: both connects.
LEMMA HitsPass ==
  ASSUME NEW a, Standing(a), Aloft(a), NEW in
  PROVE  LET d == ResolveHits(a, in)
         IN  /\ Standing(d) /\ Aloft(d) /\ d.projectiles = a.projectiles
             /\ Fired(a) => Fired(d)
             /\ \A i \in Seats :
                  /\ Endures(a.players[i], d.players[i])
                  /\ Helpless(a.players[i]) => Helpless(d.players[i])
                  /\ Guarded(a, i, in) /\ Spared(a, i) => Guarded(d, i, in)
                  /\ Landed(a, i) => d.players[Other(i)].health = a.players[Other(i)].health
<1> DEFINE d == ResolveHits(a, in)
<1>1. Standing(d) /\ Aloft(d)
  BY ResolveHitsStrikes, StrikesAloft
<1>2. /\ d.projectiles = a.projectiles
      /\ \A k \in Seats : Endures(a.players[k], d.players[k])
      /\ \A i \in Seats :
           ~connects(a, i, Other(i)) \/ MoveOf(a.players[i]) = {} =>
             \/ d = a
             \/ /\ connects(a, Other(i), i)
                /\ d.players[Other(i)].health = a.players[Other(i)].health
                /\ \E mv \in MoveOf(a.players[Other(i)]) :
                     ~mv.throw => Connected(a, d, Other(i), mv, in[i])
  BY HitsAre
<1> HIDE DEF d
<1>3. \A k \in Seats : DOMAIN a.players[k] = Fields
  BY DEF Standing, Sound
<1>4. \A i \in Seats : /\ d.players[i].char = a.players[i].char
                       /\ d.players[i].facing = a.players[i].facing
  BY <1>2, <1>3, EnduresKeeps DEF Placed
<1>5. Fired(a) => Fired(d)
  BY <1>2, <1>4 DEF Fired, Standing
<1>6. ASSUME NEW i \in Seats, MoveOf(a.players[i]) = {}, d # a
      PROVE  LET j == Other(i)
             IN  /\ Hurtboxes(a.players[i]) # {}
                 /\ \A mv \in MoveOf(a.players[j]) : mv.throw => throwable(a.players[i])
                 /\ \E mv \in MoveOf(a.players[j]) :
                      ~mv.throw => Taken(a.players[i], d.players[i], mv, in[i])
  <2>1. Other(Other(i)) = i
    BY TwoSeats
  <2>2. /\ connects(a, Other(i), i)
        /\ \E mv \in MoveOf(a.players[Other(i)]) :
             ~mv.throw => Connected(a, d, Other(i), mv, in[i])
    BY <1>2, <1>6
  <2>. QED
    BY <2>1, <2>2, Zenon DEF connects, Connected
<1>7. ASSUME NEW i \in Seats, Helpless(a.players[i])
      PROVE  Helpless(d.players[i])
  <2>1. ~throwable(a.players[i]) /\ MoveOf(a.players[i]) = {}
    BY <1>7, HelplessStays
  <2>2. ASSUME d # a PROVE Helpless(d.players[i])
    <3>1. Hurtboxes(a.players[i]) # {} /\ \E mv : Taken(a.players[i], d.players[i], mv, in[i])
      BY <1>6, <2>1, <2>2
    <3>2. PICK mv : Taken(a.players[i], d.players[i], mv, in[i])
      BY <3>1
    <3>. QED
      BY <1>7, <3>1, <3>2, HelplessStays
  <2>. QED
    BY <1>7, <2>2
<1>8. ASSUME NEW i \in Seats, Guarded(a, i, in), Spared(a, i)
      PROVE  Guarded(d, i, in)
  <2>1. MoveOf(a.players[i]) = {} /\ Waits(a.players[i]) /\ direction(in[i], a.players[i].facing) = 1
    BY <1>8, WaitsStays DEF Guarded
  <2>2. ASSUME d # a PROVE Waits(d.players[i])
    <3>1. /\ Hurtboxes(a.players[i]) # {}
          /\ \E mv \in MoveOf(a.players[Other(i)]) : Taken(a.players[i], d.players[i], mv, in[i])
      BY <1>6, <1>8, <2>1, <2>2 DEF Spared
    <3>2. MoveOf(a.players[Other(i)]) \subseteq MoveType
      BY TwoSeats, MoveOfLoaded DEF Standing
    <3>3. \A mv \in MoveOf(a.players[Other(i)]) : mv.level # "high"
      BY <1>8 DEF Spared
    <3>. QED
      BY <2>1, <3>1, <3>2, <3>3, WaitsStays
  <2>3. Waits(d.players[i])
    BY <2>1, <2>2
  <2>4. Other(i) \in Seats
    BY TwoSeats
  <2>. QED
    BY <1>2, <1>4, <1>8, <2>1, <2>3, <2>4 DEF Guarded
<1>9. ASSUME NEW i \in Seats, Landed(a, i)
      PROVE  d.players[Other(i)].health = a.players[Other(i)].health
  <2>1. ~connects(a, i, Other(i))
    BY <1>9 DEF connects, Landed
  <2>. QED
    BY <1>2, <2>1
<1>. QED
  BY <1>1, <1>2, <1>5, <1>7, <1>8, <1>9 DEF d

(***************************************************************************)
(* Step 5 of the arena.                                                    *)
(***************************************************************************)
\* A slot holds what it held, moved, or nothing, or what a seat fires.
LEMMA PoolIs ==
  ASSUME NEW a, Standing(a)
  PROVE  LET b == advanceProjectiles(a)
         IN  /\ b.players = a.players
             /\ \A k \in Slots :
                  LET pr == a.projectiles[k]
                      q == b.projectiles[k]
                  IN  q.active =>
                        \/ pr.active /\ q.owner = pr.owner /\ q.move = pr.move
                        \/ /\ q.owner \in Seats /\ q.move = a.players[q.owner].move
                           /\ \E mv \in MoveOf(a.players[q.owner]) : Fires(mv)
<1> DEFINE m == [k \in Slots |-> moveProjectile(a.projectiles[k], a.camX)]
           n == spawnFor(m, 0, a.players[0])
           o == spawnFor(n, 1, a.players[1])
           b == [a EXCEPT !.projectiles = o]
           Kept(q, r) == r.active => q.active /\ r.owner = q.owner /\ r.move = q.move
           Shot(i, r) == /\ r.owner = i /\ r.move = a.players[i].move
                         /\ \E mv \in MoveOf(a.players[i]) : Fires(mv)
<1>0. DOMAIN m = Slots
  OBVIOUS
<1>1. ASSUME NEW k \in Slots
      PROVE  Kept(a.projectiles[k], m[k])
  <2> DEFINE pr == a.projectiles[k]
             q == [pr EXCEPT !.x = pr.x + pr.vx, !.life = @ - 1]
  <2>1. DOMAIN pr = {"active", "owner", "move", "x", "y", "vx", "life"}
    BY DEF Standing
  <2>2. m[k] \in {pr, FreeSlot, q}
    BY Zenon DEF moveProjectile
  <2> HIDE DEF pr, m
  <2>3. q.active = pr.active /\ q.owner = pr.owner /\ q.move = pr.move
    BY <2>1
  <2>4. ~FreeSlot.active
    BY DEF FreeSlot
  <2> HIDE DEF q
  <2>. QED
    BY <2>2, <2>3, <2>4 DEF pr
<1> HIDE DEF m
<1>2. ASSUME NEW qs, DOMAIN qs = Slots, NEW i \in Seats
      PROVE  LET rs == spawnFor(qs, i, a.players[i])
             IN  DOMAIN rs = Slots /\ \A k \in Slots : Kept(qs[k], rs[k]) \/ Shot(i, rs[k])
  <2> DEFINE p == a.players[i]
             free == {k \in Slots : ~qs[k].active}
             first == CHOOSE k \in free : \A j \in free : k <= j
             spec == Roster[p.char].moves[p.move].proj
             shot == [active |-> TRUE, owner |-> i, move |-> p.move,
                      x |-> p.x + spec.spawnX * p.facing, y |-> p.y + spec.spawnY,
                      vx |-> spec.speed * p.facing, life |-> spec.life]
             fresh == [qs EXCEPT ![first] = shot]
  <2>1. shot.owner = i /\ shot.move = p.move
    OBVIOUS
  <2>2. \/ spawnFor(qs, i, p) = qs
        \/ spawnFor(qs, i, p) = fresh /\ \E mv \in MoveOf(p) : Fires(mv)
    BY Zenon DEF spawnFor, spawn
  <2> HIDE DEF shot, first
  <2>3. DOMAIN fresh = Slots /\ \A k \in Slots : fresh[k] = qs[k] \/ fresh[k] = shot
    BY <1>2
  <2> HIDE DEF fresh
  <2>. QED
    BY <1>2, <2>1, <2>2, <2>3
<1>3. 0 \in Seats /\ 1 \in Seats
  BY DEF Seats
<1>4. DOMAIN n = Slots /\ \A k \in Slots : Kept(m[k], n[k]) \/ Shot(0, n[k])
  BY <1>0, <1>2, <1>3
<1> HIDE DEF n
<1>5. DOMAIN o = Slots /\ \A k \in Slots : Kept(n[k], o[k]) \/ Shot(1, o[k])
  BY <1>2, <1>3, <1>4
<1> HIDE DEF o
<1>6. b.players = a.players /\ b.projectiles = o
  BY DEF Standing
<1>7. advanceProjectiles(a) = b
  BY Zenon DEF advanceProjectiles, b, o, n, m
<1> HIDE DEF b
<1>8. ASSUME NEW k \in Slots, o[k].active
      PROVE  \/ /\ a.projectiles[k].active /\ o[k].owner = a.projectiles[k].owner
                /\ o[k].move = a.projectiles[k].move
             \/ \E i \in Seats : Shot(i, o[k])
  <2>1. CASE Shot(1, o[k])
    BY <1>3, <2>1
  <2>2. CASE ~Shot(1, o[k])
    <3>1. n[k].active /\ o[k].owner = n[k].owner /\ o[k].move = n[k].move
      BY <1>5, <1>8, <2>2
    <3>2. CASE Shot(0, n[k])
      BY <1>3, <3>1, <3>2
    <3>3. CASE ~Shot(0, n[k])
      BY <1>1, <1>4, <3>1, <3>3
    <3>. QED
      BY <3>2, <3>3
  <2>. QED
    BY <2>1, <2>2
<1>. QED
  BY <1>6, <1>7, <1>8

\* What flies after step 5 was fired by a move that fires, and nothing of a seat
\* that had nothing in the air and is in no such move.
LEMMA PoolKeeps ==
  ASSUME NEW a, Standing(a)
  PROVE  LET b == advanceProjectiles(a)
         IN  /\ Fired(a) => Fired(b)
             /\ \A i \in Seats :
                  /\ \A k \in Slots : a.projectiles[k].active => a.projectiles[k].owner # i
                  /\ \A mv \in MoveOf(a.players[i]) : ~Fires(mv)
                  => Unfired(b, i)
<1> DEFINE b == advanceProjectiles(a)
<1>1. /\ b.players = a.players
      /\ \A k \in Slots :
           LET pr == a.projectiles[k]
               q == b.projectiles[k]
           IN  q.active =>
                 \/ pr.active /\ q.owner = pr.owner /\ q.move = pr.move
                 \/ /\ q.owner \in Seats /\ q.move = a.players[q.owner].move
                    /\ \E mv \in MoveOf(a.players[q.owner]) : Fires(mv)
  BY PoolIs
<1> HIDE DEF b
<1>2. Fired(a) => Fired(b)
  <2> SUFFICES ASSUME Fired(a), NEW k \in Slots, b.projectiles[k].active
               PROVE  Fires(Roster[b.players[b.projectiles[k].owner].char].moves[b.projectiles[k].move])
    BY DEF Fired
  <2> DEFINE q == b.projectiles[k]
             pr == a.projectiles[k]
  <2>1. CASE pr.active /\ q.owner = pr.owner /\ q.move = pr.move
    BY <1>1, <2>1 DEF Fired
  <2>2. CASE /\ q.owner \in Seats /\ q.move = a.players[q.owner].move
             /\ \E mv \in MoveOf(a.players[q.owner]) : Fires(mv)
    <3>1. PICK mv \in MoveOf(a.players[q.owner]) : Fires(mv)
      BY <2>2
    <3>2. mv = Roster[a.players[q.owner].char].moves[q.move]
      BY <2>2, <3>1 DEF MoveOf
    <3>. QED
      BY <1>1, <3>1, <3>2
  <2>. QED
    BY <1>1, <2>1, <2>2
<1>3. ASSUME NEW i \in Seats,
             \A k \in Slots : a.projectiles[k].active => a.projectiles[k].owner # i,
             \A mv \in MoveOf(a.players[i]) : ~Fires(mv)
      PROVE  Unfired(b, i)
  <2> SUFFICES ASSUME NEW k \in Slots, b.projectiles[k].active
               PROVE  b.projectiles[k].owner = Other(i)
    BY DEF Unfired
  <2>1. b.projectiles[k].owner \in Seats /\ b.projectiles[k].owner # i
    BY <1>1, <1>3 DEF Standing
  <2>. QED
    BY <2>1, TwoSeats
<1>. QED
  BY <1>2, <1>3 DEF b

(***************************************************************************)
(* A whole frame of the fight.                                             *)
(***************************************************************************)
\* After the moves seat i waits on guard, and nothing of the other seat is to be
\* blocked high.
OnGuard(b, i, in) ==
  /\ Waits(b.players[i]) /\ direction(in[i], b.players[i].facing) = 1
  /\ Spared(b, i)
  /\ \A m \in DOMAIN Roster[b.players[Other(i)].char].moves :
       LET mv == Roster[b.players[Other(i)].char].moves[m]
       IN  mv.level = "high" => ~Fires(mv)

\* Nothing flew before the moves, and after them seat i has nothing to hit with.
Spent(a, b, i) ==
  /\ Landed(b, i) /\ \A k \in Slots : ~a.projectiles[k].active
  /\ \A mv \in MoveOf(b.players[i]) : ~Fires(mv)

\* Steps 5 to 7 for both seats.
LEMMA StruckPasses ==
  ASSUME NEW a, Standing(a), Fired(a), \A i \in Seats : Poised(a.players[i]), NEW in
  PROVE  LET b == MovePlayers(a, in)
             s == Struck(a, in)
         IN  /\ Standing(b) /\ Standing(s) /\ Fired(s)
             /\ \A i \in Seats :
                  /\ Faces(Move(a.players[i], in[i]), b.players[i])
                  /\ Poised(b.players[i])
                  /\ Endures(b.players[i], s.players[i])
                  /\ Helpless(b.players[i]) => Helpless(s.players[i])
                  /\ OnGuard(b, i, in) => Waits(s.players[i])
                  /\ Spent(a, b, i) => s.players[Other(i)].health = b.players[Other(i)].health
<1> DEFINE b == MovePlayers(a, in)
           c == advanceProjectiles(b)
           d == ResolveHits(c, in)
           e == resolveProjectiles(d, in)
<1>1. /\ Standing(b) /\ Aloft(b) /\ b.projectiles = a.projectiles
      /\ \A i \in Seats : /\ Faces(Move(a.players[i], in[i]), b.players[i])
                          /\ b.players[i].char = a.players[i].char
  BY MovePlayersStand, PlayersMove DEF Follows
<1> HIDE DEF b
<1>2. \A i \in Seats : Poised(b.players[i])
  <2> TAKE i \in Seats
  <2> DEFINE m == Move(a.players[i], in[i])
  <2>1. Poised(m)
    BY MoveKeepsPoise DEF Standing
  <2> HIDE DEF m
  <2>. QED
    BY <1>1, <2>1, FacesPoised DEF m
<1>3. Fired(b)
  BY <1>1 DEF Fired, Standing
<1>4. Standing(c) /\ Aloft(c) /\ c.players = b.players
  BY <1>1, AdvanceProjectilesStands, StrikesAloft, PoolIs
<1>5. /\ Fired(c)
      /\ \A i \in Seats :
           /\ \A k \in Slots : b.projectiles[k].active => b.projectiles[k].owner # i
           /\ \A mv \in MoveOf(b.players[i]) : ~Fires(mv)
           => Unfired(c, i)
  BY <1>1, <1>3, PoolKeeps
<1> HIDE DEF c
<1>6. /\ Standing(d) /\ Aloft(d) /\ d.projectiles = c.projectiles /\ Fired(d)
      /\ \A i \in Seats :
           /\ Endures(c.players[i], d.players[i])
           /\ Helpless(c.players[i]) => Helpless(d.players[i])
           /\ Guarded(c, i, in) /\ Spared(c, i) => Guarded(d, i, in)
           /\ Landed(c, i) => d.players[Other(i)].health = c.players[Other(i)].health
  BY <1>4, <1>5, HitsPass
<1> HIDE DEF d
<1>7. Passed(d, e, in)
  BY <1>6, SlotsPass
<1> HIDE DEF e
<1>8. Standing(e) /\ Fired(e)
  BY <1>6, <1>7 DEF Passed
<1>9. ASSUME NEW i \in Seats
      PROVE  /\ Endures(b.players[i], e.players[i])
             /\ Helpless(b.players[i]) => Helpless(e.players[i])
  <2>1. DOMAIN b.players[i] = Fields
    BY <1>1 DEF Standing, Sound
  <2>2. Endures(b.players[i], d.players[i]) /\ Endures(d.players[i], e.players[i])
    BY <1>4, <1>6, <1>7 DEF Passed
  <2>3. Endures(b.players[i], e.players[i])
    BY <2>1, <2>2, EnduresKeeps
  <2>. QED
    BY <1>4, <1>6, <1>7, <2>3 DEF Passed
<1>10. ASSUME NEW i \in Seats, OnGuard(b, i, in)
       PROVE  Waits(e.players[i])
  <2>1. Guarded(c, i, in)
    <3>1. ASSUME NEW k \in Slots, c.projectiles[k].active, c.projectiles[k].owner = Other(i)
          PROVE  Roster[c.players[Other(i)].char].moves[c.projectiles[k].move].level # "high"
      <4>1. c.projectiles[k].move \in DOMAIN Roster[b.players[Other(i)].char].moves
        BY <1>4, <3>1 DEF Standing
      <4>2. Fires(Roster[b.players[Other(i)].char].moves[c.projectiles[k].move])
        BY <1>4, <1>5, <3>1 DEF Fired
      <4>. QED
        BY <1>4, <1>10, <4>1, <4>2 DEF OnGuard
    <3>. QED
      BY <1>4, <1>10, <3>1 DEF Guarded, OnGuard
  <2>2. Spared(c, i)
    BY <1>4, <1>10 DEF Spared, OnGuard
  <2>. QED
    BY <1>6, <1>7, <2>1, <2>2 DEF Passed, Guarded
<1>11. ASSUME NEW i \in Seats, Spent(a, b, i)
       PROVE  e.players[Other(i)].health = b.players[Other(i)].health
  <2>1. Unfired(c, i)
    BY <1>1, <1>5, <1>11 DEF Spent
  <2>2. Unfired(d, i)
    BY <1>6, <2>1 DEF Unfired
  <2>3. Landed(c, i)
    BY <1>4, <1>11 DEF Landed, Spent
  <2>. QED
    BY <1>4, <1>6, <1>7, <2>2, <2>3 DEF Passed
<1>12. Struck(a, in) = e
  BY Zenon DEF Struck, b, c, d, e
<1>. QED
  BY <1>1, <1>2, <1>8, <1>9, <1>10, <1>11, <1>12 DEF b

\* q is p after step 8: it goes on and loses no health, and its Drive gauge
\* refills, up to the end of burnout, or is topped up in training.
Refilled(p, q) ==
  \/ q.drive = DriveMax /\ ~q.burnout
  \/ q.drive = p.drive + driveRegen(p) /\ q.burnout = p.burnout

Rested(p, q) ==
  /\ GoesOn(p, q) /\ q.health >= p.health /\ q.unspent = p.unspent
  /\ Refilled(p, q)
  /\ flow.training \/ q.drive <= p.drive + driveRegen(p)

\* Step 8 for one player.
LEMMA RestIs ==
  ASSUME NEW p, Sound(p)
  PROVE  \A r \in {Recharge(p), ToppedUp(p)} :
           /\ GoesOn(p, endCombo(r)) /\ endCombo(r).health >= p.health
           /\ endCombo(r).unspent = p.unspent /\ Refilled(p, endCombo(r))
           /\ r = Recharge(p) => endCombo(r).drive <= p.drive + driveRegen(p)
<1> DEFINE n == p.drive + driveRegen(p)
           Rests(r) == /\ DOMAIN r = Fields /\ GoesOn(p, r) /\ r.health >= p.health
                       /\ r.unspent = p.unspent /\ Refilled(p, r)
           c == Roster[p.char].health
           ended(r) == [r EXCEPT !.combo = 0, !.comboStarter = 0]
<1>0. DOMAIN p = Fields /\ p.health \in Int /\ p.drive \in Int /\ DriveMax \in Int
  BY HealthInt, GaugeSizes DEF Sound, Gauges
<1>00. n \in Int
  <2>1. driveRegen(p) \in {Balance.driveRegenBurnout, 0, Balance.driveRegenWalkF, Balance.driveRegen}
    BY Zenon DEF driveRegen
  <2>2. /\ Balance.driveRegen \in Nat /\ Balance.driveRegenWalkF \in Nat
        /\ Balance.driveRegenBurnout \in Nat
    BY BalanceNumbers, Zenon
  <2>3. driveRegen(p) \in Nat
    BY <2>1, <2>2
  <2>. QED
    BY <1>0, <2>3
<1> HIDE DEF n
<1>1. Rests([p EXCEPT !.drive = DriveMax, !.burnout = FALSE])
  <2> DEFINE r == [p EXCEPT !.drive = DriveMax, !.burnout = FALSE]
  <2>1. DOMAIN r = Fields /\ GoesOn(p, r) /\ r.health >= p.health /\ r.unspent = p.unspent
    BY <1>0 DEF GoesOn, Placed, Fields
  <2>2. r.drive = DriveMax /\ ~r.burnout
    BY <1>0 DEF Fields
  <2>. QED
    BY <2>1, <2>2, Zenon DEF Refilled
<1>2. c >= p.health
  BY <1>0, CharacterLoaded DEF Sound, Gauges
<1> HIDE DEF c
<1>3. Rests([p EXCEPT !.health = c, !.drive = DriveMax, !.super = SuperMax, !.burnout = FALSE])
  <2> DEFINE r == [p EXCEPT !.health = c, !.drive = DriveMax, !.super = SuperMax, !.burnout = FALSE]
  <2>1. DOMAIN r = Fields /\ GoesOn(p, r) /\ r.health >= p.health /\ r.unspent = p.unspent
    BY <1>0, <1>2 DEF GoesOn, Placed, Fields
  <2>2. r.drive = DriveMax /\ ~r.burnout
    BY <1>0 DEF Fields
  <2>. QED
    BY <2>1, <2>2, Zenon DEF Refilled
<1>4. Rests([p EXCEPT !.drive = n])
  <2>1. [p EXCEPT !.drive = n].drive = p.drive + driveRegen(p)
    BY <1>0 DEF Fields, n
  <2>. QED
    BY <1>0, <2>1 DEF GoesOn, Placed, Fields, Refilled
<1>5. Rests(Recharge(p)) /\ Recharge(p).drive <= n
  <2>1. \/ n >= DriveMax /\ Recharge(p) = [p EXCEPT !.drive = DriveMax, !.burnout = FALSE]
        \/ Recharge(p) = [p EXCEPT !.drive = n]
    BY Zenon DEF Recharge, n
  <2>2. Rests(Recharge(p))
    BY <1>1, <1>4, <2>1, Zenon
  <2>3. Recharge(p).drive <= n
    <3>1. /\ [p EXCEPT !.drive = DriveMax, !.burnout = FALSE].drive = DriveMax
          /\ [p EXCEPT !.drive = n].drive = n
      BY <1>0 DEF Fields
    <3>2. \/ n >= DriveMax /\ Recharge(p).drive = DriveMax
          \/ Recharge(p).drive = n
      BY <2>1, <3>1, Zenon
    <3>. QED
      BY <1>0, <1>00, <3>2
  <2>. QED
    BY <2>2, <2>3
<1>6. Rests(ToppedUp(p))
  BY <1>3, Zenon DEF ToppedUp, c
<1>7. ASSUME NEW r, Rests(r) PROVE Rests(ended(r)) /\ ended(r).drive = r.drive
  <2>1. DOMAIN r = Fields
    BY <1>7
  <2>2. /\ DOMAIN ended(r) = Fields
        /\ \A f \in Fields \ {"combo", "comboStarter"} : ended(r)[f] = r[f]
    BY <2>1 DEF Fields
  <2> HIDE DEF ended
  <2>3. /\ ended(r).drive = r.drive /\ ended(r).burnout = r.burnout
        /\ ended(r).unspent = r.unspent /\ ended(r).health = r.health
    BY <2>2 DEF Fields
  <2>4. GoesOn(r, ended(r))
    BY <2>1, <2>2 DEF GoesOn, Placed, Fields
  <2>5. GoesOn(p, ended(r))
    BY <1>7, <2>4, GoesOnChain
  <2>6. Refilled(p, ended(r))
    BY <1>7, <2>3, Zenon DEF Refilled
  <2>. QED
    BY <1>7, <2>2, <2>3, <2>5, <2>6
<1> HIDE DEF Rests, ended
<1>8. \A r : endCombo(r) = r \/ endCombo(r) = ended(r)
  BY Zenon DEF endCombo, ended
<1>9. \A r \in {Recharge(p), ToppedUp(p)} : Rests(endCombo(r)) /\ endCombo(r).drive = r.drive
  BY <1>5, <1>6, <1>7, <1>8, Zenon
<1>10. endCombo(Recharge(p)).drive <= n
  BY <1>5, <1>9
<1>. QED
  BY <1>9, <1>10 DEF Rests, n

\* Step 8 of the arena and the camera.
LEMMA FightOnRests ==
  ASSUME NEW a, NEW in, Standing(Struck(a, in))
  PROVE  LET s == Struck(a, in)
             f == FightOn(a, in)
         IN  /\ f.projectiles = s.projectiles
             /\ \A i \in Seats : Rested(s.players[i], f.players[i])
<1> DEFINE s == Struck(a, in)
           ps == s.players
           rs == updateResources(ps, flow.training)
           qs == Each(rs, endCombo)
           t == [s EXCEPT !.players = qs]
           f == updateCamera(t)
<1>1. Standing(s)
  OBVIOUS
<1> HIDE DEF s
<1>2. DOMAIN ps = Seats /\ \A i \in Seats : Sound(ps[i])
  BY <1>1 DEF Standing
<1> HIDE DEF ps
<1>3. /\ DOMAIN rs = Seats /\ \A i \in Seats : rs[i] \in {Recharge(ps[i]), ToppedUp(ps[i])}
      /\ flow.training \/ \A i \in Seats : rs[i] = Recharge(ps[i])
  <2>1. \/ /\ rs = [ps EXCEPT ![0] = ToppedUp(ps[0]), ![1] = ToppedUp(ps[1])]
           /\ flow.training
        \/ rs = [ps EXCEPT ![0] = Recharge(ps[0]), ![1] = Recharge(ps[1])]
    BY Zenon DEF updateResources, Each
  <2> HIDE DEF rs
  <2>. QED
    BY <1>2, <2>1 DEF Seats
<1> HIDE DEF rs
<1>4. DOMAIN qs = Seats /\ \A i \in Seats : qs[i] = endCombo(rs[i])
  <2>1. qs = [rs EXCEPT ![0] = endCombo(rs[0]), ![1] = endCombo(rs[1])]
    BY Zenon DEF Each
  <2> HIDE DEF qs
  <2>. QED
    BY <1>3, <2>1 DEF Seats
<1> HIDE DEF qs
<1>5. ASSUME NEW i \in Seats PROVE Rested(ps[i], qs[i])
  <2> DEFINE p == ps[i]
  <2>1. \A r \in {Recharge(p), ToppedUp(p)} :
          /\ GoesOn(p, endCombo(r)) /\ endCombo(r).health >= p.health
          /\ endCombo(r).unspent = p.unspent /\ Refilled(p, endCombo(r))
          /\ r = Recharge(p) => endCombo(r).drive <= p.drive + driveRegen(p)
    BY <1>2, RestIs
  <2>2. /\ qs[i] = endCombo(rs[i]) /\ rs[i] \in {Recharge(p), ToppedUp(p)}
        /\ flow.training \/ rs[i] = Recharge(p)
    BY <1>3, <1>4
  <2> HIDE DEF p
  <2>3. Rested(p, qs[i])
    BY <2>1, <2>2, Zenon DEF Rested
  <2>. QED
    BY <2>3 DEF p
<1>6. t.players = qs /\ t.projectiles = s.projectiles
      /\ DOMAIN t = {"players", "projectiles", "camX", "hitstop", "dealt"}
  BY <1>1 DEF Standing
<1> HIDE DEF t
<1>7. \E c : f = [t EXCEPT !.camX = c]
  BY Zenon DEF updateCamera
<1>8. f.players = qs /\ f.projectiles = s.projectiles
  BY <1>6, <1>7
<1> HIDE DEF f
<1>9. FightOn(a, in) = f
  BY Zenon DEF FightOn, f, t, qs, rs, ps, s
<1>. QED
  BY <1>5, <1>8, <1>9 DEF ps, s

\* q is p after a frame: it has paid for a move or has begun none, and it rested.
Refuels(p, q) == \E s : Sound(s) /\ Pays(p, s) /\ Rested(s, q)

\* Steps 1 to 8 for both seats, on an arena that has recorded the inputs.
LEMMA FrameIs ==
  ASSUME NEW a, Standing(a), Fired(a), \A i \in Seats : Poised(a.players[i]), NEW in
  PROVE  LET b == MovePlayers(a, in)
             f == FightOn(a, in)
         IN  /\ Standing(b) /\ Fired(f)
             /\ \A i \in Seats :
                  /\ Faces(Move(a.players[i], in[i]), b.players[i])
                  /\ Poised(b.players[i]) /\ Poised(f.players[i])
                  /\ Lasts(b.players[i], f.players[i])
                  /\ Refuels(a.players[i], f.players[i])
                  /\ Helpless(b.players[i]) => Helpless(f.players[i])
                  /\ OnGuard(b, i, in) => Waits(f.players[i])
                  /\ Spent(a, b, i) => f.players[Other(i)].health >= b.players[Other(i)].health
<1> DEFINE b == MovePlayers(a, in)
           s == Struck(a, in)
           f == FightOn(a, in)
<1>1. /\ Standing(b) /\ Standing(s) /\ Fired(s)
      /\ \A i \in Seats :
           /\ Faces(Move(a.players[i], in[i]), b.players[i])
           /\ Poised(b.players[i])
           /\ Endures(b.players[i], s.players[i])
           /\ Helpless(b.players[i]) => Helpless(s.players[i])
           /\ OnGuard(b, i, in) => Waits(s.players[i])
           /\ Spent(a, b, i) => s.players[Other(i)].health = b.players[Other(i)].health
  BY StruckPasses
<1>2. /\ f.projectiles = s.projectiles
      /\ \A i \in Seats : /\ GoesOn(s.players[i], f.players[i])
                          /\ f.players[i].health >= s.players[i].health
                          /\ Rested(s.players[i], f.players[i])
  BY <1>1, FightOnRests DEF Rested
<1>21. \A i \in Seats : Pays(a.players[i], b.players[i])
  <2> TAKE i \in Seats
  <2> DEFINE m == Move(a.players[i], in[i])
  <2>1. Pays(a.players[i], m) /\ Faces(m, b.players[i])
    BY <1>1, MoveIs DEF Standing
  <2> HIDE DEF m
  <2>2. Drains(m, b.players[i])
    <3> DEFINE q == b.players[i]
    <3>1. /\ DOMAIN q = Fields /\ q.char = m.char /\ q.unspent = m.unspent
          /\ q.drive = m.drive /\ q.burnout = m.burnout /\ q.state = m.state /\ q.move = m.move
      BY <2>1 DEF Faces, Fields
    <3> HIDE DEF q
    <3>2. Drains(m, q)
      BY <3>1, StillDrains
    <3>. QED
      BY <3>2 DEF q
  <2>. QED
    BY <2>1, <2>2, DrainsChain
<1> HIDE DEF b, s, f
<1>3. Fired(f)
  <2>1. \A i \in Seats : f.players[i].char = s.players[i].char
    BY <1>2 DEF GoesOn, Placed
  <2>. QED
    BY <1>1, <1>2, <2>1 DEF Fired, Standing
<1>4. ASSUME NEW i \in Seats
      PROVE  /\ Lasts(b.players[i], f.players[i]) /\ Poised(f.players[i])
             /\ Refuels(a.players[i], f.players[i])
             /\ Helpless(b.players[i]) => Helpless(f.players[i])
             /\ OnGuard(b, i, in) => Waits(f.players[i])
             /\ Spent(a, b, i) => f.players[Other(i)].health >= b.players[Other(i)].health
  <2>1. DOMAIN b.players[i] = Fields
    BY <1>1 DEF Standing, Sound
  <2>2. Lasts(b.players[i], s.players[i]) /\ Lasts(s.players[i], f.players[i])
    BY <1>1, <1>2 DEF Endures, Lasts
  <2>3. Lasts(b.players[i], f.players[i]) /\ Poised(f.players[i])
    BY <1>1, <2>1, <2>2, LastsKeeps
  <2>31. Refuels(a.players[i], f.players[i])
    <3>1. Pays(a.players[i], s.players[i])
      BY <1>1, <1>21, DrainsChain DEF Endures
    <3>2. Sound(s.players[i])
      BY <1>1 DEF Standing
    <3>. QED
      BY <1>2, <3>1, <3>2 DEF Refuels
  <2>4. Helpless(b.players[i]) => Helpless(f.players[i])
    BY <1>1, <1>2, HelplessStays
  <2>5. OnGuard(b, i, in) => Waits(f.players[i])
    BY <1>1, <1>2, WaitsStays
  <2>6. Spent(a, b, i) => f.players[Other(i)].health >= b.players[Other(i)].health
    BY <1>1, <1>2, TwoSeats
  <2>. QED
    BY <2>3, <2>31, <2>4, <2>5, <2>6
<1>. QED
  BY <1>1, <1>3, <1>4 DEF b, f

(***************************************************************************)
(* The inputs and the invariant.                                           *)
(***************************************************************************)
\* The newest input is the one that was recorded last.
LEMMA NewestInput ==
  ASSUME NEW p, DOMAIN p = Fields, NEW in
  PROVE  at(record(p, in), 0) = in
<1> DEFINE old == SubSeq(p.inputs, 1, InputHistory - 1)
           S == {p.inputs[b] : b \in 1 .. InputHistory - 1} \cup {in}
           new == <<in>> \o old
<1>1. InputHistory \in Nat \ {0}
  BY InputsAssumption
<1>2. old \in Seq(S)
  <2>1. \A b \in 1 .. InputHistory - 1 : p.inputs[b] \in S
    OBVIOUS
  <2> HIDE DEF S
  <2>. QED
    BY <1>1, <2>1, SubSeqProperties
<1>3. <<in>> \in Seq(S) /\ Len(<<in>>) = 1 /\ <<in>>[1] = in
  BY DEF S
<1> HIDE DEF old, S
<1>4. Len(old) \in Nat
  BY <1>2
<1>5. new[1] = in
  BY <1>2, <1>3, <1>4, ConcatProperties
<1> HIDE DEF new
<1>6. record(p, in).inputs = new
  BY DEF record, Fields, new, old
<1>. QED
  BY <1>1, <1>5, <1>6 DEF at

\* What recording the inputs writes.
LEMMA RecordedIs ==
  ASSUME Standing(arena), NEW press
  PROVE  LET b == Recorded(press)
         IN  /\ b.projectiles = arena.projectiles
             /\ \A i \in Seats :
                  /\ DOMAIN b.players[i] = Fields
                  /\ \A f \in Fields \ {"plan", "inputs", "unspent"} :
                       b.players[i][f] = arena.players[i][f]
                  /\ at(b.players[i], 0) = press[i].in
                  /\ arena.players[i].unspent \in Nat => b.players[i].unspent \in Nat \ {0}
<1> DEFINE ps == arena.players
           planned(i) == [ps[i] EXCEPT !.plan = press[i].plan]
           pressing(i) == record(planned(i), press[i].in)
           qs == [ps EXCEPT ![0] = pressing(0), ![1] = pressing(1)]
           b == [arena EXCEPT !.players = qs]
<1>1. DOMAIN ps = Seats /\ \A i \in Seats : DOMAIN ps[i] = Fields
  BY DEF Standing, Sound
<1>2. ASSUME NEW i \in Seats
      PROVE  /\ DOMAIN pressing(i) = Fields /\ at(pressing(i), 0) = press[i].in
             /\ \A f \in Fields \ {"plan", "inputs", "unspent"} : pressing(i)[f] = ps[i][f]
             /\ ps[i].unspent \in Nat => pressing(i).unspent \in Nat \ {0}
  <2>1. DOMAIN planned(i) = Fields /\ \A f \in Fields \ {"plan"} : planned(i)[f] = ps[i][f]
    BY <1>1 DEF Fields
  <2> HIDE DEF planned
  <2>2. at(pressing(i), 0) = press[i].in
    BY <2>1, NewestInput
  <2>3. /\ DOMAIN pressing(i) = Fields
        /\ \A f \in Fields \ {"inputs", "unspent"} : pressing(i)[f] = planned(i)[f]
    BY <2>1 DEF record, Fields
  <2>4. ps[i].unspent \in Nat => pressing(i).unspent \in Nat \ {0}
    <3>1. planned(i).unspent = ps[i].unspent
      BY <2>1 DEF Fields
    <3>2. pressing(i).unspent = IF planned(i).unspent < InputBuffer THEN planned(i).unspent + 1
                                ELSE InputBuffer
      BY <2>1 DEF record, Fields
    <3> HIDE DEF pressing
    <3>. QED
      BY <3>1, <3>2, InputsAssumption
  <2>. QED
    BY <2>1, <2>2, <2>3, <2>4
<1> HIDE DEF pressing
<1>3. DOMAIN qs = Seats /\ \A i \in Seats : qs[i] = pressing(i)
  BY <1>1 DEF Seats
<1> HIDE DEF qs
<1>4. b.players = qs /\ b.projectiles = arena.projectiles
  BY DEF Standing
<1>5. Recorded(press) = b
  <2>1. Recorded(press) = [arena EXCEPT !.players = [arena.players EXCEPT ![0] = pressing(0), ![1] = pressing(1)]]
    BY DEF Recorded, pressing, planned, Standing
  <2>. QED
    BY <2>1 DEF qs
<1> HIDE DEF b
<1>. QED
  BY <1>2, <1>3, <1>4, <1>5

\* Recording leaves a fighter poised.
LEMMA RecordedPoised ==
  ASSUME Standing(arena), MovesInv, NEW press
  PROVE  LET b == Recorded(press)
         IN  /\ Standing(b) /\ Fired(b) /\ \A i \in Seats : Poised(b.players[i])
             /\ \A i \in Seats : MoveOf(b.players[i]) = MoveOf(arena.players[i])
<1> DEFINE b == Recorded(press)
           kept == {"state", "stateFrame", "facing", "y", "vy", "move", "char"}
<1>1. /\ b.projectiles = arena.projectiles
      /\ \A i \in Seats : /\ DOMAIN b.players[i] = Fields
                          /\ \A f \in Fields \ {"plan", "inputs", "unspent"} :
                               b.players[i][f] = arena.players[i][f]
  BY RecordedIs
<1>2. Standing(b)
  BY RecordedKeeps
<1> HIDE DEF b
<1>3. \A i \in Seats : \A f \in kept : b.players[i][f] = arena.players[i][f]
  <2>1. kept \subseteq Fields \ {"plan", "inputs", "unspent"}
    BY DEF Fields
  <2>. QED
    BY <1>1, <2>1
<1>4. \A i \in Seats : MoveOf(b.players[i]) = MoveOf(arena.players[i])
  BY <1>3 DEF MoveOf
<1>5. \A i \in Seats : Poised(b.players[i])
  BY <1>3, <1>4 DEF MovesInv, Poised, Afloat
<1>6. Fired(b)
  <2>1. \A i \in Seats : b.players[i].char = arena.players[i].char
    BY <1>3
  <2>2. \A k \in Slots : b.projectiles[k].active => b.projectiles[k].owner \in Seats
    BY <1>2 DEF Standing
  <2>3. Fired(arena)
    BY DEF MovesInv
  <2>. QED
    BY <1>1, <2>1, <2>2, <2>3 DEF Fired
<1>. QED
  BY <1>2, <1>4, <1>5, <1>6 DEF b

\* Who starts a round is poised, and nothing flies.
LEMMA FreshPoised ==
  ASSUME NEW p, p.state = "idle", p.stateFrame = 0, p.y = GroundY, p.vy = 0,
         p.facing \in {1, -1}
  PROVE  Poised(p)
<1>1. MoveOf(p) = {}
  BY DEF MoveOf
<1>. QED
  BY <1>1 DEF Poised, Afloat

\* A match starts poised, with nothing in the air.
LEMMA InitMoves == Init => MovesInv
<1> SUFFICES ASSUME NEW setup \in Setups,
                    arena = [NewMatch(setup.chars) EXCEPT !.players[1].ai = setup.ai]
             PROVE  MovesInv
  BY DEF Init
<1> DEFINE c == setup.chars
           t == setup.ai
           ps == StartingPlayers(c)
           left == FreshPlayer(-FromInt(StartX), 1, c[0])
           right == FreshPlayer(FromInt(StartX), -1, c[1])
<1>1. arena.players = [ps EXCEPT ![1].ai = t] /\ arena.projectiles = [k \in Slots |-> FreeSlot]
  BY DEF NewMatch
<1>2. DOMAIN ps = Seats /\ ps[0] = left /\ ps[1] = right
  BY DEF StartingPlayers, Seats
<1>3. \A x, facing, ch : LET p == FreshPlayer(x, facing, ch)
                         IN  /\ DOMAIN p = Fields /\ p.state = "idle" /\ p.stateFrame = 0
                             /\ p.y = GroundY /\ p.vy = 0 /\ p.facing = facing
  BY DEF FreshPlayer, Fields
<1> HIDE DEF ps
<1>4. arena.players[0] = left /\ arena.players[1] = [right EXCEPT !.ai = t]
  BY <1>1, <1>2 DEF Seats
<1>5. Poised(arena.players[0])
  <2>1. /\ left.state = "idle" /\ left.stateFrame = 0 /\ left.y = GroundY /\ left.vy = 0
        /\ left.facing \in {1, -1}
    BY <1>3
  <2> HIDE DEF left
  <2>. QED
    BY <1>4, <2>1, FreshPoised
<1>6. Poised(arena.players[1])
  <2>1. /\ DOMAIN right = Fields /\ right.state = "idle" /\ right.stateFrame = 0
        /\ right.y = GroundY /\ right.vy = 0 /\ right.facing \in {1, -1}
    BY <1>3
  <2> HIDE DEF right
  <2> DEFINE p == [right EXCEPT !.ai = t]
  <2>2. /\ p.state = "idle" /\ p.stateFrame = 0 /\ p.y = GroundY /\ p.vy = 0
        /\ p.facing \in {1, -1}
    BY <2>1 DEF Fields
  <2> HIDE DEF p
  <2>3. Poised(p)
    BY <2>2, FreshPoised
  <2>. QED
    BY <1>4, <2>3 DEF p
<1>7. Fired(arena)
  <2>1. \A k \in Slots : ~arena.projectiles[k].active
    BY <1>1 DEF FreeSlot
  <2>. QED
    BY <2>1 DEF Fired
<1>. QED
  BY <1>5, <1>6, <1>7 DEF MovesInv, Seats

\* So does a round.
LEMMA ResetMoves ==
  ASSUME NEW a
  PROVE  LET b == ResetArena(a)
         IN  /\ Fired(b)
             /\ \A i \in Seats : /\ Poised(b.players[i]) /\ b.players[i].state = "idle"
                                 /\ b.players[i].drive = DriveMax /\ ~b.players[i].burnout
<1> DEFINE chars == [i \in Seats |-> a.players[i].char]
           fresh == NewMatch(chars)
           again(i) == [fresh.players[i] EXCEPT !.super = a.players[i].super, !.ai = a.players[i].ai]
           b == [fresh EXCEPT !.dealt = a.dealt, !.players = [i \in Seats |-> again(i)]]
<1> HIDE DEF chars
<1>1. /\ fresh.players = StartingPlayers(chars) /\ fresh.projectiles = [k \in Slots |-> FreeSlot]
      /\ DOMAIN fresh = {"players", "projectiles", "camX", "hitstop", "dealt"}
  BY DEF NewMatch
<1> HIDE DEF fresh
<1>2. \A x, facing, ch, s, t :
        LET p == [FreshPlayer(x, facing, ch) EXCEPT !.super = s, !.ai = t]
        IN  /\ p.state = "idle" /\ p.stateFrame = 0
            /\ p.y = GroundY /\ p.vy = 0 /\ p.facing = facing
            /\ p.drive = DriveMax /\ p.burnout = FALSE
  BY DEF FreshPlayer
<1>3. ASSUME NEW i \in Seats
      PROVE  /\ again(i).state = "idle" /\ again(i).stateFrame = 0
             /\ again(i).y = GroundY /\ again(i).vy = 0 /\ again(i).facing \in {1, -1}
             /\ again(i).drive = DriveMax /\ again(i).burnout = FALSE
  <2>1. \E x : \E facing \in {1, -1} : fresh.players[i] = FreshPlayer(x, facing, chars[i])
    BY <1>1 DEF StartingPlayers, Seats
  <2>. QED
    BY <1>2, <2>1
<1> HIDE DEF again
<1>4. b.projectiles = [k \in Slots |-> FreeSlot] /\ \A i \in Seats : b.players[i] = again(i)
  BY <1>1
<1>5. ResetArena(a) = b
  BY Zenon DEF ResetArena, b, again, fresh, chars
<1> HIDE DEF b
<1>6. \A i \in Seats : /\ Poised(b.players[i]) /\ b.players[i].state = "idle"
                      /\ b.players[i].drive = DriveMax /\ ~b.players[i].burnout
  BY <1>3, <1>4, FreshPoised
<1>7. Fired(b)
  BY <1>4 DEF Fired, FreeSlot
<1>. QED
  BY <1>5, <1>6, <1>7

\* What a frame of the fight leads to.
LEMMA FightFrameIs ==
  ASSUME FightFrame
  PROVE  \E press :
           LET f == FightOn(Recorded(press), [i \in Seats |-> press[i].in])
           IN  arena'.players = f.players /\ arena'.projectiles = f.projectiles
<1>1. PICK press \in Presses :
        \E after \in {FightOn(Recorded(press), [i \in Seats |-> press[i].in])} :
           arena' = IF flow'.phase = "ko" THEN [after EXCEPT !.hitstop = 0] ELSE after
  BY Zenon DEF FightFrame
<1> DEFINE f == FightOn(Recorded(press), [i \in Seats |-> press[i].in])
<1>2. arena' = IF flow'.phase = "ko" THEN [f EXCEPT !.hitstop = 0] ELSE f
  BY <1>1
<1> HIDE DEF f
<1>3. arena'.players = f.players /\ arena'.projectiles = f.projectiles
  BY <1>2
<1>. QED
  BY <1>3 DEF f

\* Every step.
LEMMA MovesKept ==
  ASSUME IInv, MovesInv, [Next]_vars
  PROVE  MovesInv'
<1>1. CASE HitstopFrame
  <2>1. PICK press \in Presses : arena' = [Recorded(press) EXCEPT !.hitstop = @ - 1]
    BY <1>1 DEF HitstopFrame
  <2> DEFINE b == Recorded(press)
  <2>2. Standing(b) /\ Fired(b) /\ \A i \in Seats : Poised(b.players[i])
    BY RecordedPoised DEF IInv
  <2> HIDE DEF b
  <2>3. arena'.players = b.players /\ arena'.projectiles = b.projectiles
    BY <2>1 DEF b
  <2>. QED
    BY <2>2, <2>3 DEF MovesInv, Fired
<1>2. CASE PhaseFrame
  <2>1. PICK press \in Presses : arena' \in {ResetArena(Recorded(press)), Recorded(press)}
    BY <1>2, Zenon DEF PhaseFrame
  <2>2. Fired(Recorded(press)) /\ \A i \in Seats : Poised(Recorded(press).players[i])
    BY RecordedPoised DEF IInv
  <2>3. /\ Fired(ResetArena(Recorded(press)))
        /\ \A i \in Seats : Poised(ResetArena(Recorded(press)).players[i])
    BY ResetMoves
  <2>. QED
    BY <2>1, <2>2, <2>3 DEF MovesInv
<1>3. CASE FightFrame
  <2>1. PICK press :
          LET f == FightOn(Recorded(press), [i \in Seats |-> press[i].in])
          IN  arena'.players = f.players /\ arena'.projectiles = f.projectiles
    BY <1>3, FightFrameIs
  <2> DEFINE f == FightOn(Recorded(press), [i \in Seats |-> press[i].in])
  <2>2. /\ Standing(Recorded(press)) /\ Fired(Recorded(press))
        /\ \A i \in Seats : Poised(Recorded(press).players[i])
    BY RecordedPoised DEF IInv
  <2>3. Fired(f) /\ \A i \in Seats : Poised(f.players[i])
    BY <2>2, FrameIs
  <2> HIDE DEF f
  <2>4. arena'.players = f.players /\ arena'.projectiles = f.projectiles
    BY <2>1 DEF f
  <2>. QED
    BY <2>3, <2>4 DEF MovesInv, Fired
<1>4. CASE UNCHANGED vars
  <2>1. arena' = arena
    BY <1>4 DEF vars
  <2>. QED
    BY <2>1 DEF MovesInv
<1>. QED
  BY <1>1, <1>2, <1>3, <1>4 DEF Next, Over

\* Between two frames every fighter is poised, and what flies was fired by a move
\* that fires (fighter.go, projectile.go).
THEOREM MovesInvariant == Spec => []MovesInv
<1>1. IInv /\ MovesInv /\ [Next]_vars => MovesInv'
  BY MovesKept
<1>. QED
  BY InitMoves, <1>1, FightInvariant, PTL DEF Spec

(***************************************************************************)
(* The action properties.                                                  *)
(***************************************************************************)
\* A frame of the fight, seen from its two ends: a has recorded the inputs, b
\* has moved, and seat i is what the frame made of it.
Seen(a, b, in, i) ==
  LET p == arena.players[i]
      q == arena'.players[i]
  IN  /\ \A f \in Fields \ {"plan", "inputs", "unspent"} : a.players[i][f] = p[f]
      /\ at(a.players[i], 0) = in[i] /\ q.inputs = a.players[i].inputs
      /\ Poised(a.players[i]) /\ Poised(b.players[i])
      /\ Faces(Move(a.players[i], in[i]), b.players[i])
      /\ Lasts(b.players[i], q) /\ Refuels(a.players[i], q)
      /\ p.unspent \in Nat => a.players[i].unspent \in Nat \ {0}
      /\ Helpless(b.players[i]) => Helpless(q)
      /\ OnGuard(b, i, in) => Waits(q)
      /\ Spent(arena, b, i) =>
           arena'.players[Other(i)].health >= arena.players[Other(i)].health

LEMMA FightSteps ==
  ASSUME IInv, MovesInv, FightFrame
  PROVE  \E a, b, in : Standing(a) /\ Standing(b) /\ \A i \in Seats : Seen(a, b, in, i)
<1>1. PICK press :
        LET f == FightOn(Recorded(press), [i \in Seats |-> press[i].in])
        IN  arena'.players = f.players /\ arena'.projectiles = f.projectiles
  BY FightFrameIs
<1> DEFINE a == Recorded(press)
           in == [i \in Seats |-> press[i].in]
           b == MovePlayers(a, in)
           f == FightOn(a, in)
<1>2. /\ a.projectiles = arena.projectiles
      /\ \A i \in Seats :
           /\ DOMAIN a.players[i] = Fields
           /\ \A g \in Fields \ {"plan", "inputs", "unspent"} :
                a.players[i][g] = arena.players[i][g]
           /\ at(a.players[i], 0) = in[i]
           /\ arena.players[i].unspent \in Nat => a.players[i].unspent \in Nat \ {0}
  BY RecordedIs DEF IInv
<1>3. Standing(a) /\ Fired(a) /\ \A i \in Seats : Poised(a.players[i])
  BY RecordedPoised DEF IInv
<1>4. arena'.players = f.players
  BY <1>1
<1> HIDE DEF a, in
<1>5. /\ Standing(b)
      /\ \A i \in Seats :
           /\ Faces(Move(a.players[i], in[i]), b.players[i])
           /\ Poised(b.players[i])
           /\ Lasts(b.players[i], f.players[i])
           /\ Refuels(a.players[i], f.players[i])
           /\ Helpless(b.players[i]) => Helpless(f.players[i])
           /\ OnGuard(b, i, in) => Waits(f.players[i])
           /\ Spent(a, b, i) => f.players[Other(i)].health >= b.players[Other(i)].health
  BY <1>3, FrameIs
<1>6. \A i \in Seats : Follows(a.players[i], b.players[i])
  BY <1>3, MovePlayersStand
<1> HIDE DEF b, f
<1>7. \A i \in Seats : b.players[i].health = arena.players[i].health
  <2>1. "health" \in Fields \ {"plan", "inputs", "unspent"}
    BY DEF Fields
  <2>. QED
    BY <1>2, <1>6, <2>1 DEF Follows
<1>8. \A i \in Seats : f.players[i].inputs = a.players[i].inputs
  <2> TAKE i \in Seats
  <2> DEFINE m == Move(a.players[i], in[i])
  <2>1. m.inputs = a.players[i].inputs
    BY <1>3, MoveKeepsPoise DEF Standing
  <2> HIDE DEF m
  <2>2. b.players[i].inputs = m.inputs
    BY <1>5 DEF Faces, Fields, m
  <2>3. Placed(b.players[i], f.players[i])
    BY <1>5, LastsKeeps DEF Standing, Sound
  <2>. QED
    BY <2>1, <2>2, <2>3 DEF Placed
<1>9. \A i \in Seats :
        /\ Landed(b, i) /\ \A k \in Slots : ~arena.projectiles[k].active
        /\ \A mv \in MoveOf(b.players[i]) : ~Fires(mv)
        => arena'.players[Other(i)].health >= arena.players[Other(i)].health
  BY <1>2, <1>4, <1>5, <1>7, TwoSeats DEF Spent
<1>10. ASSUME NEW i \in Seats
       PROVE  Seen(a, b, in, i)
  <2>1. arena'.players[i] = f.players[i]
    BY <1>4
  <2>2. /\ \A g \in Fields \ {"plan", "inputs", "unspent"} :
             a.players[i][g] = arena.players[i][g]
        /\ at(a.players[i], 0) = in[i]
        /\ Poised(a.players[i])
        /\ f.players[i].inputs = a.players[i].inputs
        /\ arena.players[i].unspent \in Nat => a.players[i].unspent \in Nat \ {0}
    BY <1>2, <1>3, <1>8
  <2>3. /\ Faces(Move(a.players[i], in[i]), b.players[i])
        /\ Poised(b.players[i]) /\ Lasts(b.players[i], f.players[i])
        /\ Refuels(a.players[i], f.players[i])
        /\ Helpless(b.players[i]) => Helpless(f.players[i])
        /\ OnGuard(b, i, in) => Waits(f.players[i])
    BY <1>5
  <2>. QED
    BY <1>9, <2>1, <2>2, <2>3, Zenon DEF Seen, Spent
<1>. QED
  BY <1>3, <1>5, <1>10

\* A fighter hit off the floor lands knocked down.
LEMMA LandsDown ==
  ASSUME IInv, MovesInv, FightFrame, NEW i \in Seats,
         arena.players[i].state = "hitstun", arena.players[i].y > GroundY
  PROVE  Helpless(arena'.players[i])
<1>1. PICK a, b, in : Standing(a) /\ Seen(a, b, in, i)
  BY FightSteps
<1>2. a.players[i].state = "hitstun" /\ a.players[i].y > GroundY
  <2>1. {"state", "y"} \subseteq Fields \ {"plan", "inputs", "unspent"}
    BY DEF Fields
  <2>. QED
    BY <1>1, <2>1 DEF Seen
<1> DEFINE m == Move(a.players[i], in[i])
<1>3. Helpless(m)
  BY <1>1, <1>2, FliesOn DEF Standing
<1> HIDE DEF m
<1>4. Helpless(b.players[i])
  <2>1. b.players[i].state = m.state /\ b.players[i].y = m.y
    BY <1>1 DEF Seen, Faces, Fields, m
  <2>. QED
    BY <1>3, <2>1 DEF Helpless
<1>. QED
  BY <1>1, <1>4 DEF Seen

\* No other frame of a fight moves anybody.
LEMMA FrozenFrame ==
  ASSUME IInv, HitstopFrame
  PROVE  \A i \in Seats : /\ arena'.players[i].state = arena.players[i].state
                          /\ arena'.players[i].y = arena.players[i].y
                          /\ arena'.players[i].health = arena.players[i].health
<1>1. PICK press \in Presses : arena' = [Recorded(press) EXCEPT !.hitstop = @ - 1]
  BY DEF HitstopFrame
<1> DEFINE b == Recorded(press)
<1>2. \A i \in Seats : \A f \in Fields \ {"plan", "inputs", "unspent"} :
        b.players[i][f] = arena.players[i][f]
  BY RecordedIs DEF IInv
<1> HIDE DEF b
<1>3. arena'.players = b.players
  BY <1>1 DEF b
<1>4. {"state", "y", "health"} \subseteq Fields \ {"plan", "inputs", "unspent"}
  BY DEF Fields
<1>. QED
  BY <1>2, <1>3, <1>4

\* A fighter hit off the floor is helpless until the floor and knocked down
\* there, whatever hits it again in the air, whoever lands with it and whatever
\* it presses (fall of fighter.go, applyHit of state.go).
THEOREM LaunchedComeDown == Spec => LaunchedLands
<1>1. ASSUME IInv, MovesInv, [Next]_vars
      PROVE  [flow.phase = "fight" =>
                \A i \in Seats :
                  LET p == arena.players[i]
                      q == arena'.players[i]
                  IN  p.state = "hitstun" /\ p.y > GroundY =>
                        IF q.y > GroundY THEN q.state = "hitstun"
                        ELSE q.state = "knockdown"]_vars
  <2> SUFFICES ASSUME Next, flow.phase = "fight", NEW i \in Seats,
                      arena.players[i].state = "hitstun", arena.players[i].y > GroundY
               PROVE  IF arena'.players[i].y > GroundY THEN arena'.players[i].state = "hitstun"
                      ELSE arena'.players[i].state = "knockdown"
    BY <1>1
  <2>1. CASE FightFrame
    <3>1. Helpless(arena'.players[i])
      BY <1>1, <2>1, LandsDown
    <3>2. ~(GroundY > GroundY)
      BY DEF GroundY
    <3>. QED
      BY <3>1, <3>2 DEF Helpless
  <2>2. CASE HitstopFrame
    BY <1>1, <2>2, FrozenFrame
  <2>3. ~PhaseFrame /\ ~Over
    BY DEF PhaseFrame, Over
  <2>. QED
    BY <2>1, <2>2, <2>3 DEF Next
<1>. QED
  BY <1>1, FightInvariant, MovesInvariant, PTL DEF Spec, LaunchedLands

\* A fighter who goes on with a move that has hit takes no more health with it.
LEMMA HitsNoMore ==
  ASSUME IInv, MovesInv, FightFrame, NEW i \in Seats,
         arena.players[i].state = "attack", arena.players[i].hasHit,
         arena'.players[i].state = "attack",
         arena'.players[i].stateFrame = arena.players[i].stateFrame + 1,
         \A k \in Slots : ~arena.projectiles[k].active,
         \A mv \in MoveOf(arena.players[i]) : ~Fires(mv)
  PROVE  arena'.players[Other(i)].health >= arena.players[Other(i)].health
<1> DEFINE p == arena.players[i]
           q == arena'.players[i]
<1>1. PICK a, b, in : Standing(a) /\ Seen(a, b, in, i)
  BY FightSteps
<1>2. /\ a.players[i].state = "attack" /\ a.players[i].hasHit /\ a.players[i].move = p.move
      /\ a.players[i].char = p.char /\ a.players[i].stateFrame = p.stateFrame
  <2>1. {"state", "hasHit", "move", "char", "stateFrame"} \subseteq Fields \ {"plan", "inputs", "unspent"}
    BY DEF Fields
  <2>. QED
    BY <1>1, <2>1 DEF Seen
<1> DEFINE m == Move(a.players[i], in[i])
           c == b.players[i]
<1>3. Sound(a.players[i])
  BY <1>1 DEF Standing
<1>4. GoesOn(c, q)
  BY <1>1 DEF Seen, Lasts, Stopped
<1>5. /\ c.state = m.state /\ c.stateFrame = m.stateFrame /\ c.move = m.move
      /\ c.hasHit = m.hasHit /\ c.char = m.char
  BY <1>1 DEF Seen, Faces, Fields
<1>6. m.state = "attack" /\ m.stateFrame = p.stateFrame + 1
  BY <1>4, <1>5 DEF GoesOn
<1>7. /\ m.char = a.players[i].char
      /\ \/ m.move = p.move /\ m.hasHit = a.players[i].hasHit
         \/ m.stateFrame = Lesser(1, FrameCap)
  <2> DEFINE r == a.players[i]
             n == Move(r, in[i])
  <2>1. Sound(r) /\ Poised(r) /\ n.state = "attack"
    BY <1>1, <1>3, <1>6 DEF Seen
  <2>2. r.move = p.move
    BY <1>2
  <2> HIDE DEF r
  <2>3. /\ n.char = r.char
        /\ \/ n.move = r.move /\ n.hasHit = r.hasHit
           \/ n.stateFrame = Lesser(1, FrameCap)
    BY <2>1, AttacksAre
  <2>. QED
    BY <2>2, <2>3 DEF r
<1>8. p.stateFrame \in Int /\ p.stateFrame > 0
  BY <1>1, <1>2 DEF Seen, Poised
<1> HIDE DEF m
<1>9. m.move = p.move /\ m.hasHit
  <2>1. Lesser(1, FrameCap) # p.stateFrame + 1
    BY <1>8, FrameCapAssumption DEF Lesser
  <2>. QED
    BY <1>2, <1>6, <1>7, <2>1, Zenon
<1>10. MoveOf(c) = MoveOf(p) /\ c.hasHit
  BY <1>2, <1>5, <1>6, <1>7, <1>9 DEF MoveOf
<1>11. Landed(b, i)
  BY <1>10 DEF Landed, Hitboxes
<1>. QED
  BY <1>1, <1>10, <1>11 DEF Seen, Spent

\* One execution of a move takes health once, through the frames it stays
\* active, another stun of the one it hit and the hitstop in between (hasHit of
\* state.go).
THEOREM MovesHitOnce == Spec => HitsOnce
<1>1. ASSUME IInv, MovesInv, [Next]_vars
      PROVE  [\A i \in Seats :
                LET p == arena.players[i]
                    q == arena'.players[i]
                IN  /\ p.state = "attack" /\ p.hasHit /\ q.state = "attack"
                    /\ q.stateFrame = p.stateFrame + 1
                    /\ \A k \in Slots : ~arena.projectiles[k].active /\ ~arena'.projectiles[k].active
                    /\ \A mv \in MoveOf(p) : ~Fires(mv)
                    => arena'.players[Other(i)].health >= arena.players[Other(i)].health]_vars
  <2> SUFFICES ASSUME Next, NEW i \in Seats,
                      arena.players[i].state = "attack", arena.players[i].hasHit,
                      arena'.players[i].state = "attack",
                      arena'.players[i].stateFrame = arena.players[i].stateFrame + 1,
                      \A k \in Slots : ~arena.projectiles[k].active,
                      \A mv \in MoveOf(arena.players[i]) : ~Fires(mv)
               PROVE  arena'.players[Other(i)].health >= arena.players[Other(i)].health
    BY <1>1
  <2>0. Other(i) \in Seats /\ arena.players[Other(i)].health \in Int
    BY <1>1, TwoSeats, HealthInt DEF IInv, Standing
  <2>1. CASE FightFrame
    BY <1>1, <2>1, HitsNoMore
  <2>2. CASE HitstopFrame
    BY <1>1, <2>0, <2>2, FrozenFrame
  <2>3. CASE PhaseFrame
    <3>1. PICK press \in Presses : arena' \in {ResetArena(Recorded(press)), Recorded(press)}
      BY <2>3, Zenon DEF PhaseFrame
    <3>2. ResetArena(Recorded(press)).players[i].state = "idle"
      BY ResetMoves
    <3>3. arena' = Recorded(press)
      BY <3>1, <3>2
    <3>4. Recorded(press).players[Other(i)].health = arena.players[Other(i)].health
      <4>1. "health" \in Fields \ {"plan", "inputs", "unspent"}
        BY DEF Fields
      <4>. QED
        BY <1>1, <2>0, <4>1, RecordedIs DEF IInv
    <3>. QED
      BY <2>0, <3>3, <3>4
  <2>4. CASE Over
    BY <2>0, <2>4 DEF Over, vars
  <2>. QED
    BY <2>1, <2>2, <2>3, <2>4 DEF Next
<1>. QED
  BY <1>1, FightInvariant, MovesInvariant, PTL DEF Spec, HitsOnce

\* A guard that is held is opened by a throw only.
LEMMA GuardIsHeld ==
  ASSUME IInv, MovesInv, FightFrame, NEW i \in Seats,
         ~Airborne(arena.players[i]),
         Actionable(arena.players[i]) \/ arena.players[i].state \in {"blockstun", "knockdown"},
         direction(at(arena'.players[i], 0), arena'.players[i].facing) = 1, Quiet(arena'.players[i]),
         ~Airborne(arena.players[Other(i)]), ~stunned(arena'.players[Other(i)]),
         \A mv \in MoveOf(arena'.players[Other(i)]) : ~mv.throw,
         \A m \in DOMAIN Roster[arena.players[Other(i)].char].moves :
           LET mv == Roster[arena.players[Other(i)].char].moves[m]
           IN  mv.level = "high" => mv.stance = "air" /\ ~Fires(mv)
  PROVE  Waits(arena'.players[i])
<1> DEFINE j == Other(i)
           q == arena'.players[i]
           then == arena'.players[j]
<1>0. j \in Seats
  BY TwoSeats
<1>1. PICK a, b, in : Standing(a) /\ Standing(b) /\ \A k \in Seats : Seen(a, b, in, k)
  BY FightSteps
<1>2. \A k \in Seats : /\ a.players[k].state = arena.players[k].state
                       /\ a.players[k].y = arena.players[k].y
                       /\ a.players[k].char = arena.players[k].char
  <2>1. {"state", "y", "char"} \subseteq Fields \ {"plan", "inputs", "unspent"}
    BY DEF Fields
  <2>. QED
    BY <1>1, <2>1 DEF Seen
<1>3. \A k \in Seats : Sound(a.players[k]) /\ DOMAIN b.players[k] = Fields
  BY <1>1 DEF Standing, Sound
<1>4. \A k \in Seats : Placed(b.players[k], arena'.players[k])
  BY <1>1, <1>3, LastsKeeps DEF Seen
<1>5. \A k \in Seats : LET m == Move(a.players[k], in[k])
                       IN  /\ b.players[k].state = m.state /\ b.players[k].y = m.y
                           /\ b.players[k].move = m.move /\ b.players[k].char = m.char
                           /\ m.char = a.players[k].char
  <2> TAKE k \in Seats
  <2> DEFINE m == Move(a.players[k], in[k])
  <2>1. m.char = a.players[k].char
    BY <1>1, <1>3, MoveKeepsPoise DEF Seen
  <2> HIDE DEF m
  <2>. QED
    BY <1>1, <2>1 DEF Seen, Faces, Fields, m
<1>6. \A f : at(q, f) = at(a.players[i], f)
  BY <1>1, Zenon DEF Seen, at
<1>7. direction(in[i], b.players[i].facing) = 1 /\ Quiet(a.players[i])
  <2>1. q.facing = b.players[i].facing /\ at(q, 0) = in[i]
    BY <1>1, <1>4, <1>6 DEF Seen, Placed
  <2>2. Quiet(a.players[i])
    BY <1>6 DEF Quiet
  <2>. QED
    BY <2>1, <2>2
<1>8. direction(in[i], a.players[i].facing) \in {1, 3}
  <2>1. a.players[i].facing \in {1, -1} /\ b.players[i].facing \in {1, -1}
    BY <1>1 DEF Seen, Poised
  <2>. QED
    BY <1>7, <2>1, DownEitherWay
<1>9. Waits(b.players[i])
  <2>1. /\ ~Airborne(a.players[i])
        /\ \/ Actionable(a.players[i])
           \/ a.players[i].state \in {"blockstun", "knockdown"}
    BY <1>2 DEF Airborne, Actionable
  <2>2. Waits(Move(a.players[i], in[i]))
    BY <1>1, <1>3, <1>7, <1>8, <2>1, WaitsOn DEF Seen
  <2>. QED
    BY <1>5, <2>2 DEF Waits
<1>10. GoesOn(b.players[j], then)
  BY <1>0, <1>1 DEF Seen, Lasts, Stopped, stunned, StunStates
<1>11. MoveOf(b.players[j]) = MoveOf(then)
  BY <1>10 DEF MoveOf, GoesOn, Placed
<1>12. b.players[j].char = arena.players[j].char
  BY <1>0, <1>2, <1>5
<1>13. ASSUME NEW mv \in MoveOf(b.players[j])
       PROVE  ~mv.throw /\ mv.level # "high"
  <2> DEFINE m == Move(a.players[j], in[j])
  <2>1. ~Airborne(a.players[j])
    BY <1>0, <1>2 DEF Airborne
  <2>2. \A nv \in MoveOf(m) : nv.stance # "air"
    BY <1>0, <1>1, <1>3, <2>1, FromTheFloor DEF Seen
  <2>3. b.players[j].state = m.state /\ b.players[j].move = m.move /\ b.players[j].char = m.char
    BY <1>0, <1>5
  <2> HIDE DEF m
  <2>4. mv.stance # "air"
    BY <1>13, <2>2, <2>3 DEF MoveOf
  <2>5. \E n \in DOMAIN Roster[arena.players[j].char].moves : mv = Roster[arena.players[j].char].moves[n]
    BY <1>12, <1>13 DEF MoveOf
  <2>. QED
    BY <1>11, <1>13, <2>4, <2>5
<1>14. Spared(b, i)
  BY <1>13 DEF Spared
<1>. QED
  BY <1>1, <1>7, <1>9, <1>12, <1>14 DEF Seen, OnGuard

\* Down-back without a button is opened by a throw only, also on the frame a
\* knockdown or a blockstun ends, after a cross-up and against the wall (blocking
\* of damage.go, updateFacing of state.go).
THEOREM GuardIsOpenedByThrows == Spec => GuardHolds
<1>1. ASSUME IInv, MovesInv, [Next]_vars
      PROVE  [\A i \in Seats :
                LET p == arena.players[i]
                    q == arena'.players[i]
                    o == arena.players[Other(i)]
                    then == arena'.players[Other(i)]
                IN  /\ flow.phase = "fight" /\ arena.hitstop = 0
                    /\ ~Airborne(p) /\ (Actionable(p) \/ p.state \in {"blockstun", "knockdown"})
                    /\ direction(at(q, 0), q.facing) = 1 /\ Quiet(q)
                    /\ ~Airborne(o) /\ ~stunned(then) /\ \A mv \in MoveOf(then) : ~mv.throw
                    /\ \A m \in DOMAIN Roster[o.char].moves :
                         LET mv == Roster[o.char].moves[m]
                         IN  mv.level = "high" => mv.stance = "air" /\ ~Fires(mv)
                    => q.state # "hitstun"]_vars
  <2> SUFFICES ASSUME Next, flow.phase = "fight", arena.hitstop = 0, NEW i \in Seats,
                      ~Airborne(arena.players[i]),
                      Actionable(arena.players[i]) \/ arena.players[i].state \in {"blockstun", "knockdown"},
                      direction(at(arena'.players[i], 0), arena'.players[i].facing) = 1,
                      Quiet(arena'.players[i]),
                      ~Airborne(arena.players[Other(i)]), ~stunned(arena'.players[Other(i)]),
                      \A mv \in MoveOf(arena'.players[Other(i)]) : ~mv.throw,
                      \A m \in DOMAIN Roster[arena.players[Other(i)].char].moves :
                        LET mv == Roster[arena.players[Other(i)].char].moves[m]
                        IN  mv.level = "high" => mv.stance = "air" /\ ~Fires(mv)
               PROVE  arena'.players[i].state # "hitstun"
    BY <1>1
  <2>1. FightFrame
    BY DEF Next, HitstopFrame, PhaseFrame, Over
  <2>2. Waits(arena'.players[i])
    BY <1>1, <2>1, GuardIsHeld
  <2>. QED
    BY <2>2 DEF Waits
<1>. QED
  BY <1>1, FightInvariant, MovesInvariant, PTL DEF Spec, GuardHolds

\* What a frame pays and gives back.
LEMMA FuelIsHonest ==
  ASSUME NEW p, NEW q, Refuels(p, q), p.drive \in 0 .. DriveMax, p.unspent # 0
  PROVE  /\ BurnsOut(p, q)
         /\ JustBegun(q) => Afforded(p, q, Roster[q.char].moves[q.move])
<1>1. PICK s : Sound(s) /\ Pays(p, s) /\ Rested(s, q)
  BY DEF Refuels
<1>2. /\ DriveMax \in Nat /\ p.drive \in Int /\ p.drive <= DriveMax /\ s.drive \in Int
      /\ Balance.driveRegen \in Nat /\ Balance.driveRegenWalkF \in Nat
      /\ Balance.driveRegenBurnout \in Nat
  <2>1. /\ Balance.driveRegen \in Nat /\ Balance.driveRegenWalkF \in Nat
        /\ Balance.driveRegenBurnout \in Nat
    BY BalanceNumbers, Zenon
  <2>2. s.drive \in 0 .. DriveMax
    BY <1>1 DEF Sound, Gauges
  <2>3. DriveMax \in Nat
    BY GaugeSizes
  <2>. QED
    BY <2>1, <2>2, <2>3
<1>3. driveRegen(s) \in Nat
  <2>1. driveRegen(s) \in {Balance.driveRegenBurnout, 0, Balance.driveRegenWalkF, Balance.driveRegen}
    BY Zenon DEF driveRegen
  <2>. QED
    BY <1>2, <2>1
<1>4. Burnt(p, s) /\ Refilled(s, q)
  BY <1>1 DEF Pays, Rested
<1>5. ASSUME ~p.burnout, q.burnout PROVE q.drive = Balance.driveRegenBurnout
  <2>1. q.drive = s.drive + driveRegen(s) /\ s.burnout
    BY <1>4, <1>5, Zenon DEF Refilled
  <2>2. s.drive = 0 /\ driveRegen(s) = Balance.driveRegenBurnout
    BY <1>4, <1>5, <2>1, Zenon DEF Burnt, driveRegen
  <2>. QED
    BY <1>2, <2>1, <2>2
<1>6. ASSUME p.burnout PROVE q.drive >= p.drive /\ (q.burnout \/ q.drive = DriveMax)
  <2>1. s.burnout /\ s.drive = p.drive
    BY <1>4, <1>6, Zenon DEF Burnt
  <2>2. \/ q.drive = DriveMax
        \/ q.drive = s.drive + driveRegen(s) /\ q.burnout
    BY <1>4, <2>1, Zenon DEF Refilled
  <2>. QED
    BY <1>2, <1>3, <2>1, <2>2
<1>7. ASSUME JustBegun(q) PROVE Afforded(p, q, Roster[q.char].moves[q.move])
  <2> DEFINE mv == Roster[q.char].moves[q.move]
             most == Greater(Balance.driveRegen, Balance.driveRegenBurnout)
  <2>1. /\ s.state = "attack" /\ s.unspent = 0 /\ s.char = p.char
        /\ q.char = s.char /\ q.move = s.move
        /\ flow.training \/ q.drive <= s.drive + driveRegen(s)
    BY <1>1, <1>7 DEF JustBegun, Rested, GoesOn, Placed, Pays
  <2>2. mv = Roster[p.char].moves[s.move]
    BY <2>1
  <2> HIDE DEF mv
  <2>3. Affordable(p, mv) /\ s.drive = p.drive - DriveCost(mv)
    BY <1>1, <2>1, <2>2 DEF Pays
  <2>4. driveRegen(s) <= most
    <3>1. driveRegen(s) \in {Balance.driveRegenBurnout, 0, Balance.driveRegen}
      BY <2>1, Zenon DEF driveRegen
    <3>. QED
      BY <1>2, <3>1 DEF Greater
  <2>5. most \in Int
    BY <1>2 DEF Greater
  <2> HIDE DEF most
  <2>6. flow.training \/ q.drive <= p.drive - DriveCost(mv) + most
    <3>1. ASSUME q.drive <= s.drive + driveRegen(s) PROVE q.drive <= s.drive + most
      <4>1. q.drive \in Int
        BY <1>2, <1>3, <1>4 DEF Refilled
      <4>. QED
        BY <1>2, <1>3, <2>4, <2>5, <3>1, <4>1
    <3>. QED
      BY <2>1, <2>3, <3>1, Zenon
  <2>7. SuperCost(mv) <= p.super /\ (DriveCost(mv) > 0 => ~p.burnout /\ DriveCost(mv) <= p.drive)
    BY <2>3, Zenon DEF Affordable
  <2>8. Afforded(p, q, mv)
    BY <2>6, <2>7, Zenon DEF Afforded, most
  <2>. QED
    BY <2>8 DEF mv
<1>. QED
  BY <1>5, <1>6, <1>7, Zenon DEF BurnsOut

\* A frame that only records the inputs touches no gauge and begins no move.
LEMMA RecordingIsHonest ==
  ASSUME IInv, TypeOK, NEW press, NEW i \in Seats
  PROVE  LET p == arena.players[i]
             q == Recorded(press).players[i]
         IN  BurnsOut(p, q) /\ ~JustBegun(q)
<1> DEFINE p == arena.players[i]
           q == Recorded(press).players[i]
<1>1. p.unspent \in Nat /\ p.drive \in Int
  <2>1. p \in Player
    BY DEF TypeOK
  <2>. QED
    BY <2>1 DEF Player
<1>2. /\ \A f \in Fields \ {"plan", "inputs", "unspent"} : q[f] = p[f]
      /\ p.unspent \in Nat => q.unspent \in Nat \ {0}
  BY RecordedIs DEF IInv
<1> HIDE DEF p, q
<1>3. q.drive = p.drive /\ q.burnout = p.burnout /\ q.unspent # 0
  BY <1>1, <1>2 DEF Fields
<1>4. q.drive >= p.drive
  BY <1>1, <1>3
<1>5. BurnsOut(p, q) /\ ~JustBegun(q)
  BY <1>3, <1>4, Zenon DEF BurnsOut, JustBegun
<1>. QED
  BY <1>5 DEF p, q

\* No path overspends a gauge: the gauges keep their ranges, a move is begun with
\* the meter it costs only, Drive out of burnout, and pays it, and burnout comes
\* with the emptied gauge, spends nothing and ends with the full one, whatever
\* the two press, hit and block (resource.go, enterMove of fighter.go).
THEOREM GaugesAreHonest == Spec => GaugesHonest
<1>1. ASSUME IInv, IInv', TypeOK, MovesInv, [Next]_vars
      PROVE  [\A i \in Seats :
                LET p == arena.players[i]
                    q == arena'.players[i]
                IN  /\ Gauges(q) /\ BurnsOut(p, q)
                    /\ JustBegun(q) => Afforded(p, q, Roster[q.char].moves[q.move])]_vars
  <2> SUFFICES ASSUME Next, NEW i \in Seats, ~UNCHANGED vars
               PROVE  LET p == arena.players[i]
                          q == arena'.players[i]
                      IN  /\ BurnsOut(p, q)
                          /\ JustBegun(q) => Afforded(p, q, Roster[q.char].moves[q.move])
    <3>1. \A i \in Seats : Gauges(arena'.players[i])
      BY <1>1 DEF IInv, Standing, Sound
    <3>. QED
      BY <1>1, <3>1
  <2> DEFINE p == arena.players[i]
             q == arena'.players[i]
  <2>0. p.drive \in 0 .. DriveMax /\ p.unspent \in Nat /\ DriveMax \in Nat
    <3>1. Gauges(p)
      BY <1>1 DEF IInv, Standing, Sound
    <3>2. p \in Player
      BY <1>1 DEF TypeOK
    <3>. QED
      BY <3>1, <3>2, GaugeSizes DEF Gauges, Player
  <2>1. CASE FightFrame
    <3>1. PICK a, b, in : Standing(a) /\ Seen(a, b, in, i)
      BY <1>1, <2>1, FightSteps
    <3> DEFINE r == a.players[i]
    <3>2. /\ \A f \in Fields \ {"plan", "inputs", "unspent"} : r[f] = p[f]
          /\ Refuels(r, q) /\ r.unspent # 0
      BY <2>0, <3>1 DEF Seen
    <3> HIDE DEF p, q, r
    <3>3. r.drive = p.drive /\ r.burnout = p.burnout /\ r.super = p.super
      BY <3>2 DEF Fields
    <3>4. /\ BurnsOut(r, q)
          /\ JustBegun(q) => Afforded(r, q, Roster[q.char].moves[q.move])
      BY <2>0, <3>2, <3>3, FuelIsHonest
    <3>5. /\ BurnsOut(p, q)
          /\ JustBegun(q) => Afforded(p, q, Roster[q.char].moves[q.move])
      BY <3>3, <3>4, Zenon DEF BurnsOut, Afforded
    <3>. QED
      BY <3>5 DEF p, q
  <2>2. CASE HitstopFrame
    <3>1. PICK press \in Presses : arena' = [Recorded(press) EXCEPT !.hitstop = @ - 1]
      BY <2>2 DEF HitstopFrame
    <3> DEFINE r == Recorded(press)
    <3>2. BurnsOut(p, r.players[i]) /\ ~JustBegun(r.players[i])
      BY <1>1, RecordingIsHonest
    <3> HIDE DEF r
    <3>3. q = r.players[i]
      BY <3>1 DEF r
    <3>. QED
      BY <3>2, <3>3, Zenon
  <2>3. CASE PhaseFrame
    <3>1. PICK press \in Presses : arena' \in {ResetArena(Recorded(press)), Recorded(press)}
      BY <2>3, Zenon DEF PhaseFrame
    <3> DEFINE r == Recorded(press)
               t == ResetArena(r)
    <3>2. BurnsOut(p, r.players[i]) /\ ~JustBegun(r.players[i])
      BY <1>1, RecordingIsHonest
    <3>3. /\ t.players[i].state = "idle"
          /\ t.players[i].drive = DriveMax /\ ~t.players[i].burnout
      BY ResetMoves
    <3> HIDE DEF r, t
    <3>4. BurnsOut(p, t.players[i]) /\ ~JustBegun(t.players[i])
      <4>1. DriveMax >= p.drive
        BY <2>0
      <4>. QED
        BY <3>3, <4>1 DEF BurnsOut, JustBegun
    <3>5. q \in {r.players[i], t.players[i]}
      BY <3>1 DEF r, t
    <3>. QED
      BY <3>2, <3>4, <3>5, Zenon
  <2>4. ~Over
    BY DEF Over
  <2>. QED
    BY <2>1, <2>2, <2>3, <2>4 DEF Next
<1>. QED
  BY <1>1, FightInvariant, TypeCorrect, MovesInvariant, PTL DEF Spec, GaugesHonest
====
