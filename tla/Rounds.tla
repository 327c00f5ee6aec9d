------------------------------- MODULE Rounds -------------------------------
(***************************************************************************)
(* The round flow (src/sim/round.go): the clock, the end of a round, the   *)
(* frozen phases between two rounds and the end of the match.  The flow is *)
(* a record; each function of the program is an operator that returns it.  *)
(* What the flow needs to know of the fighters (who is dead, who is ahead, *)
(* who dealt more) is an argument.                                         *)
(***************************************************************************)
EXTENDS Integers

CONSTANTS
  RoundFrames, RoundsToWin, MaxRounds,   \* balance.json, round
  KOFreeze, RoundEndHold, IntroFrames

\* What the loader accepts of the round's numbers: the cap leaves room for the
\* rounds a match needs.
ASSUME RoundAssumption ==
  /\ RoundFrames \in Nat \ {0} /\ RoundsToWin \in Nat \ {0}
  /\ MaxRounds \in Nat /\ MaxRounds >= 2 * RoundsToWin - 1
  /\ KOFreeze \in Nat /\ RoundEndHold \in Nat /\ IntroFrames \in Nat

Seats == {0, 1}
RoundNobody == -1

Phases == {"fight", "ko", "roundEnd", "intro", "matchEnd"}

Flow ==
  [phase : Phases, phaseFrame : Int, timer : Int, training : BOOLEAN,
   round : Int, wins : [Seats -> Int],
   roundWinner : Seats \cup {RoundNobody}, winner : Seats \cup {RoundNobody}]

\* Round 1 starts in the fight, not in an intro.
NewFlow(training) ==
  [phase |-> "fight", phaseFrame |-> 0, timer |-> RoundFrames, training |-> training,
   round |-> 1, wins |-> [i \in Seats |-> 0],
   roundWinner |-> RoundNobody, winner |-> RoundNobody]

enterPhase(f, phase) == [f EXCEPT !.phase = phase, !.phaseFrame = 0]

phaseLength(phase) ==
  CASE phase = "ko"       -> KOFreeze
    [] phase = "roundEnd" -> RoundEndHold
    [] phase = "intro"    -> IntroFrames
    [] OTHER              -> 0

endRound(f, winner) ==
  enterPhase([f EXCEPT !.roundWinner = winner,
                !.wins = [i \in Seats |-> IF i = winner THEN @[i] + 1 ELSE @[i]]],
             "ko")

\* The clock and the knockout check at the end of a frame of the fight.  dead
\* is the set of the fighters without health, ahead the winner of a timeout.
updateRoundNoDraw(f, dead, ahead) ==   \* defective: a drawn timeout ends nothing
  LET clock == [f EXCEPT !.timer = IF @ > 0 THEN @ - 1 ELSE @]
  IN  IF f.training THEN f
      ELSE IF dead = Seats THEN endRound(clock, RoundNobody)
      ELSE IF 0 \in dead THEN endRound(clock, 1)
      ELSE IF 1 \in dead THEN endRound(clock, 0)
      ELSE IF clock.timer = 0 /\ ahead # RoundNobody THEN endRound(clock, ahead)
      ELSE clock

updateRound(f, dead, ahead) ==
  LET clock == [f EXCEPT !.timer = IF @ > 0 THEN @ - 1 ELSE @]
  IN  IF f.training THEN f
      ELSE IF dead = Seats THEN endRound(clock, RoundNobody)
      ELSE IF 0 \in dead THEN endRound(clock, 1)
      ELSE IF 1 \in dead THEN endRound(clock, 0)
      ELSE IF clock.timer = 0 THEN endRound(clock, ahead)
      ELSE clock

\* Whether the match is over, and whose it is: the rounds needed, or at the
\* cap the damage dealt, a tie going to seat 0.
MatchOverAtCap(f) ==   \* defective: a decided match is played on
  f.round >= MaxRounds

MatchOver(f) == f.round >= MaxRounds \/ \E i \in Seats : f.wins[i] >= RoundsToWin

matchWinner(f, dealt) ==
  IF f.wins[0] >= RoundsToWin THEN 0
  ELSE IF f.wins[1] >= RoundsToWin THEN 1
  ELSE IF dealt[1] > dealt[0] THEN 1 ELSE 0

startRound(f) ==
  [f EXCEPT !.round = @ + 1, !.timer = RoundFrames, !.roundWinner = RoundNobody]

\* Whether this frame of a frozen phase is its last.
PhaseEnds(f) == f.phaseFrame + 1 >= phaseLength(f.phase)

advancePhase(f, dealt) ==
  IF f.phase = "matchEnd" THEN f
  ELSE IF ~PhaseEnds(f) THEN [f EXCEPT !.phaseFrame = @ + 1]
  ELSE CASE f.phase = "ko"    -> enterPhase(f, "roundEnd")
         [] f.phase = "roundEnd" ->
              IF MatchOver(f)
              THEN enterPhase([f EXCEPT !.winner = matchWinner(f, dealt)], "matchEnd")
              ELSE enterPhase(startRound(f), "intro")
         [] f.phase = "intro" -> enterPhase(f, "fight")
=============================================================================
