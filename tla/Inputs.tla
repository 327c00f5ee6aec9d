------------------------------- MODULE Inputs -------------------------------
(***************************************************************************)
(* Input interpretation (src/sim/input.go and doubleTapped of fighter.go). *)
(* Every answer is a function of a player's facing and of the history of   *)
(* the inputs it was advanced with, so it rolls back with the state.       *)
(*                                                                         *)
(* The program keeps the history in a ring indexed by the frame number.    *)
(* Here it is the same frames as a sequence, the newest first: at(b) is    *)
(* the input of b frames ago.  An input is the set of the buttons held.    *)
(***************************************************************************)
EXTENDS Integers, Sequences, FiniteSets

CONSTANTS
  InputHistory,   \* frames of history kept
  InputBuffer,    \* frames a press stays live
  DashWindow,     \* frames two taps may be apart
  Motions         \* the motion table, in priority order

ASSUME InputsAssumption ==
  InputHistory \in Nat \ {0} /\ InputBuffer \in Nat \ {0} /\ DashWindow \in Nat

\* Numpad directions, relative to the facing.
DirDown == 2      DirNeutral == 5
DirBack == 4      DirFwd == 6
DirCrouching == {1, 2, 3}
DirJumping == {7, 8, 9}

direction(in, facing) ==
  LET right == IF "right" \in in THEN 1 ELSE 0
      left == IF "left" \in in THEN 1 ELSE 0
      up == IF "up" \in in THEN 1 ELSE 0
      down == IF "down" \in in THEN 1 ELSE 0
  IN  5 + facing * (right - left) + 3 * (up - down)

\* Frames before the first one, and frames past the ring, read as neutral.
at(p, back) == IF back < InputHistory THEN p.inputs[back + 1] ELSE {}

record(p, in) ==
  [p EXCEPT !.inputs = <<in>> \o SubSeq(p.inputs, 1, InputHistory - 1),
            !.unspent = IF p.unspent < InputBuffer THEN p.unspent + 1 ELSE InputBuffer]

(***************************************************************************)
(* Motions.  The scan runs backward from the frame asked about and takes   *)
(* the elements of the row from the last to the first.  A tight row steps  *)
(* over neutral frames and over the element taken last, and nothing else.  *)
(***************************************************************************)
scan(p, from, row) ==
  LET n == Len(row.seq)
      dir(back) == direction(at(p, from + back), p.facing)
      taken[back \in 0 .. row.window, k \in 0 .. n] ==
        IF k = 0 THEN TRUE
        ELSE IF back = row.window THEN FALSE
        ELSE IF dir(back) = row.seq[k] THEN taken[back + 1, k - 1]
        ELSE /\ \/ ~row.tight
                \/ dir(back) = DirNeutral
                \/ k < n /\ dir(back) = row.seq[k + 1]
             /\ taken[back + 1, k]
  IN  taken[0, n]

\* The first row of the table that matches, "none" when no row does.
MotionAt(p, from) ==
  LET rows == {r \in DOMAIN Motions : scan(p, from, Motions[r])}
  IN  IF rows = {} THEN "none"
      ELSE Motions[CHOOSE r \in rows : \A q \in rows : r <= q].motion

\* A motion that goes on past a simpler one counts as the simpler one too.
satisfies(motion, want) ==
  motion = want \/ <<motion, want>> \in {<<"qcfx2", "qcf">>, <<"qcbx2", "qcb">>, <<"hcf", "qcf">>}

(***************************************************************************)
(* Presses.  The edge rule for a mask: all of it down now, not all of it   *)
(* down the frame before.                                                  *)
(***************************************************************************)
pressed(mask, now, before) ==
  mask # {} /\ mask \subseteq now /\ ~(mask \subseteq before)

\* How many frames ago the mask was freshly pressed, the newest press of the
\* window; the empty set when there was none.
pressWithin(p, mask, window) ==
  LET edges == {b \in 0 .. window - 1 : pressed(mask, at(p, b), at(p, b + 1))}
  IN  {b \in edges : \A c \in edges : b <= c}

multiButton(mask) == Cardinality(mask) > 1

\* Two clean taps of a direction with a neutral gap, and nothing but the
\* direction and neutral since the first of them.
doubleTapped(p, dir) ==
  LET held(b) == direction(at(p, b), p.facing)
  IN  \E second, gap, first \in 0 .. DashWindow - 1 :
        /\ second < gap /\ gap < first
        /\ held(second) = dir /\ held(gap) = DirNeutral /\ held(first) = dir
        /\ \A b \in 0 .. first : held(b) \in {dir, DirNeutral}
=============================================================================
