------------------------------ MODULE Lockstep ------------------------------
(***************************************************************************)
(* What a netplay match promises, with the network and the guessing gone:  *)
(* each player decides one input per frame and never takes it back, and    *)
(* each end holds a replay log that is a prefix of the one sequence of     *)
(* input pairs these decisions make up.  The log only ever grows.          *)
(***************************************************************************)
EXTENDS Integers, Sequences

CONSTANTS
  Bits,        \* the values of an input word
  Neutral,     \* the word with no button held
  InputDelay   \* frames at the start that no player can act on

VARIABLES
  decided,     \* decided[e]: the inputs of player e, frame by frame
  replay       \* replay[e]: the log of end e, one pair per frame

vars == <<decided, replay>>

Player == {0, 1}

\* The first n frames of the match.
Played(n) == [i \in 1 .. n |-> <<decided[0][i], decided[1][i]>>]

Init ==
  /\ decided = [e \in Player |-> [i \in 1 .. InputDelay |-> Neutral]]
  /\ replay = [e \in Player |-> <<>>]

\* Player e decides the input of its next frame, or does not.
Decide(e) ==
  \/ UNCHANGED decided
  \/ \E bits \in Bits : decided' = [decided EXCEPT ![e] = Append(@, bits)]

\* The log of e takes in some of the frames both players have decided.
Log(e) ==
  \E n \in Len(replay[e]) .. Len(decided'[0]) :
    /\ n <= Len(decided'[1])
    /\ replay' = [replay EXCEPT ![e] = Played(n)']

Next == \E e \in Player : Decide(e) /\ Log(e)

Spec == Init /\ [][Next]_vars

=============================================================================
