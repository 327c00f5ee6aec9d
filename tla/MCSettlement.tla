----------------------------- MODULE MCSettlement -----------------------------
(* Instances of Settlement.  Matches 1 and 2 are played by the same two accounts *)
(* with the seats the other way round, or match 2 by account 1 against itself.   *)
EXTENDS Settlement, TLC

Finished == [end |-> 2, shows |-> 1]
Cut == [end |-> 1, shows |-> Unfinished]

\* Seat 1 won and says so; a claim its own log contradicts; a player who is left
\* alone in the middle; a log of something else altogether.
Honest == [winner |-> 1, log |-> Finished, disconnect |-> FALSE]
Lie == [winner |-> 2, log |-> Finished, disconnect |-> FALSE]
LeftAlone == [winner |-> 2, log |-> Cut, disconnect |-> TRUE]
Forged == [winner |-> 2, log |-> [end |-> 2, shows |-> Garbage], disconnect |-> FALSE]

SameSeats == 1 :> <<1, 2>>
WithOneself == 1 :> <<1, 2>> @@ 2 :> <<1, 1>>
OppositeSeats == 1 :> <<1, 2>> @@ 2 :> <<2, 1>>

\* At the floor of a tier, and just above it.
Beginners == 1 :> 0 @@ 2 :> 10
AtTheFloor == 1 :> 1000 @@ 2 :> 1010

AllClaims == {Honest, Lie, LeftAlone}
TwoClaims == {Honest, LeftAlone}
OneLie == {Lie}
OneForgery == {Forged}
Everybody == Procs
ServerOnly == Workers \cup {Sweeper}
=============================================================================
