------------------------------- MODULE MCRooms -------------------------------
(***************************************************************************)
(* Three clients, all under one code or all in one queue.                  *)
(***************************************************************************)
EXTENDS Negotiation, TLC

MCClients == {"a", "b", "c"}
MCLp == "a" :> 0 @@ "b" :> 1 @@ "c" :> 4
MCRtt == "a" :> 1 @@ "b" :> 2 @@ "c" :> 1
MCUnlimited == 9
MCBands == << [after |-> 0, ranked |-> 0, casual |-> 1, maxPing |-> 2],
              [after |-> 1, ranked |-> MCUnlimited, casual |-> MCUnlimited, maxPing |-> MCUnlimited] >>

Visit(a, b, c, n) ==
  [place |-> "a" :> a @@ "b" :> b @@ "c" :> c, leaves |-> n]

\* Three under one code, one of whom leaves; three in one queue; and two in a
\* queue, one of whom leaves.
MCVisits ==
  {Visit("code", "code", "code", 1), Visit("ranked", "ranked", "ranked", 0),
   Visit("casual", "casual", "nowhere", 1)}
=============================================================================
