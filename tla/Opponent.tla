------------------------------ MODULE Opponent ------------------------------
(***************************************************************************)
(* The scripted opponent (src/sim/ai.go): a priority-ordered rule list     *)
(* that picks a plan every aiDecisionFrames frames, and a plan that is a   *)
(* function of its age to the buttons of one frame.  It presses through    *)
(* the same pipeline as a keyboard.  A roll of the match's generator is a  *)
(* choice: a rule whose percentage is strictly between 0 and 100 may be    *)
(* taken or passed over.                                                   *)
(***************************************************************************)
EXTENDS Fighter

AIOff == 0
AIEasy == 1
AINormal == 2
AIHard == 3

\* The buttons of a plan, frame by frame; a frame past the end presses nothing.
Script(plan, fwd) ==
  CASE plan = "jab"      -> <<{"LP"}>>
    [] plan = "punish"   -> <<{"HP"}>>
    [] plan = "sweep"    -> <<{"down", "HK"}>>
    [] plan = "throw"    -> <<{"LP", "LK"}>>
    [] plan = "antiAir"  -> <<{"down", "HP"}>>
    [] plan = "jump"     -> <<{"up"}>>
    [] plan = "dp"       -> <<{fwd}, {"down"}, {fwd, "LP"}>>
    [] plan = "fireball" -> <<{"down"}, {"down", fwd}, {fwd, "LP"}>>
    [] OTHER             -> <<>>

aiPress(plan, age, facing) ==
  LET fwd == IF facing < 0 THEN "left" ELSE "right"
      back == IF facing < 0 THEN "right" ELSE "left"
      script == Script(plan, fwd)
  IN  IF plan = "approach" THEN {fwd}
      ELSE IF plan \in {"retreat", "block"} THEN {back}
      ELSE IF age < Len(script) THEN script[age + 1] ELSE {}

aiTier(ai) == IF ai \in AIEasy .. AIHard THEN ai ELSE AINormal

aiHasMotion(c, motion) == \E m \in DOMAIN Roster[c].moves : Roster[c].moves[m].motion = motion
aiHasProjectile(c) == \E m \in DOMAIN Roster[c].moves : Fires(Roster[c].moves[m])

aiIncoming(o) == o.state = "attack" /\ ~o.hasHit

aiRecovering(o) == \E mv \in MoveOf(o) : o.stateFrame >= mv.startup + mv.active

aiDistance(p, o) == IF o.x < p.x THEN p.x - o.x ELSE o.x - p.x

\* The rule list: when a rule matches, how often it is taken and the plans it
\* may pick.  The first roll throws the list away on purpose.  flying says that
\* a projectile of this seat is on the screen.
aiRules(p, o, flying) ==
  LET t == Balance.aiTiers[aiTier(p.ai)]
      dist == aiDistance(p, o)
      seen == o.stateFrame >= t.reaction
      rule(when, percent, plans) == [when |-> when, percent |-> percent, plans |-> plans]
  IN << rule(TRUE, t.randomPercent, Plans),
        rule(Airborne(o) /\ dist <= Balance.aiAntiAirRange /\ seen, 100,
             {IF aiHasMotion(p.char, "dp") THEN "dp" ELSE "antiAir"}),
        rule(aiRecovering(o) /\ dist <= Balance.aiCloseRange /\ seen, 100, {"punish"}),
        rule(aiIncoming(o) /\ dist <= Balance.aiMidRange /\ seen, t.blockPercent, {"block"}),
        rule(p.state = "blockstun" /\ aiHasMotion(p.char, "dp"),
             Balance.aiReversalPercent, {"dp"}),
        rule(dist > Balance.aiMidRange /\ aiHasProjectile(p.char) /\ ~flying,
             Balance.aiProjectilePercent, {"fireball"}),
        rule(dist > Balance.aiCloseRange, 100, {"approach"}),
        rule(o.state = "blockstun", Balance.aiThrowPercent, {"throw"}),
        rule(TRUE, 100, {"jab", "sweep", "retreat", "neutral"}) >>

\* The plans a decision may end with: those of a rule that matches and may be
\* taken, when every matching rule before it may be passed over.
aiDecide(p, o, flying) ==
  LET rules == aiRules(p, o, flying)
      taken == {r \in DOMAIN rules :
                  /\ rules[r].when /\ rules[r].percent > 0
                  /\ \A q \in 1 .. r - 1 : rules[q].when => rules[q].percent < 100}
  IN  UNION {rules[r].plans : r \in taken}

\* The plans a seat may run this frame: a new one on the decision frames.
aiPlans(p, o, flying, elapsed) ==
  IF elapsed = 0 THEN aiDecide(p, o, flying) ELSE {p.plan}
=============================================================================
