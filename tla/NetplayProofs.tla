---------------------------- MODULE NetplayProofs ----------------------------
(***************************************************************************)
(* What Netplay guarantees for every choice of its constants.              *)
(*                                                                         *)
(* The argument: an input is decided once, so whatever travels is true     *)
(* (KnownInv, PacketInv); a frame whose inputs are known was fed the known *)
(* input, because a wrong guess is replayed in the step that refutes it    *)
(* (FedInv); and that replay is always possible, because the stall keeps   *)
(* the first unknown frame inside the rollback window (WindowInv).  Hence  *)
(* the sims of both ends went through the same pairs up to the frame each  *)
(* has settled (SettledTruth), and logs, checksums and verdicts, which     *)
(* only look at settled frames, agree.                                     *)
(***************************************************************************)
EXTENDS Netplay, SetFacts, Sequences

-----------------------------------------------------------------------------
(* The inductive invariant. *)

\* The pair of inputs the two players decided for frame f.
Truth(f) == <<At(local[0], f), At(local[1], f)>>

Arrays ==
  /\ version \in [End -> Versions]
  /\ frame \in [End -> 0 .. MaxFrame]
  /\ confirmed \in [End -> Int]
  /\ dropped \in [End -> Nat]
  /\ DOMAIN local = End /\ DOMAIN remote = End /\ DOMAIN used = End
  /\ DOMAIN sim = End /\ DOMAIN sums = End
  /\ \A e \in End : local[e] \in [INPUT_DELAY .. frame[e] + INPUT_DELAY - 1 -> Bits]

\* What an end knows of the other's inputs is true.
KnownInv(e) ==
  /\ DOMAIN remote[e] \subseteq 0 .. frame[Peer(e)] + INPUT_DELAY - 1
  /\ remote[e] \in [DOMAIN remote[e] -> Bits]
  /\ \A f \in DOMAIN remote[e] : remote[e][f] = At(local[Peer(e)], f)

\* So is what a packet carries.
PacketInv ==
  \A m \in packets :
    /\ m.to \in End
    /\ m.through \in INPUT_DELAY .. frame[Peer(m.to)] + INPUT_DELAY - 1
    /\ m.bits \in [DOMAIN m.bits -> Bits]
    /\ DOMAIN m.bits \subseteq 0 .. m.through
    /\ \A f \in DOMAIN m.bits : m.bits[f] = At(local[Peer(m.to)], f)

\* confirmed is the end of the gapless start of what is known.
ConfirmedInv(e) ==
  /\ confirmed[e] \in -1 .. frame[Peer(e)] + INPUT_DELAY - 1
  /\ 0 .. confirmed[e] \subseteq DOMAIN remote[e]
  /\ confirmed[e] + 1 \notin DOMAIN remote[e]

\* The sim was fed the known inputs, and a guess for the unknown ones.
FedInv(e) ==
  /\ used[e] \in [0 .. frame[e] - 1 -> Bits]
  /\ sim[e] = [f \in 0 .. frame[e] - 1 |-> Pair(e, At(local[e], f), used[e][f])]
  /\ \A f \in DOMAIN remote[e] : f < frame[e] => used[e][f] = remote[e][f]

\* The first unknown frame is within reach of a rewind.
WindowInv(e) == frame[e] <= confirmed[e] + MAX_ROLLBACK + 1

\* The checkpoints hold the hashes of the states the sim went through.
SumInv(e) ==
  /\ DOMAIN sums[e] = {f \in 1 .. frame[e] : f % CHECKSUM_EVERY = 0}
  /\ \A f \in DOMAIN sums[e] : sums[e][f] = StateAt(e, f)

EndInv(e) ==
  KnownInv(e) /\ ConfirmedInv(e) /\ FedInv(e) /\ WindowInv(e) /\ SumInv(e)

CoreInv == Arrays /\ PacketInv /\ (\A e \in End : EndInv(e)) /\ CorrectionsInTime

\* e's state at the start of f is final, and s is its hash.
FinalHash(e, f, s) ==
  f \in 1 .. frame[e] /\ f <= Settled(e) + 1 /\ s = StateAt(e, f)

LogInv(e) == log[e] = [f \in 0 .. Settled(e) |-> sim[e][f]]

HeldInv(e) ==
  \A f \in DOMAIN theirSums[e] : FinalHash(Peer(e), f, theirSums[e][f])

VerdictInv(e) ==
  /\ verified[e] \cup desynced[e] \subseteq DOMAIN sums[e]
  /\ \A f \in verified[e] :
       /\ version[0] = version[1]
       /\ f <= Settled(e) + 1 /\ f <= Settled(Peer(e)) + 1 /\ f <= frame[Peer(e)]
  /\ desynced[e] # {} => version[0] # version[1]

AnnouncedInv ==
  /\ \A m \in checksums : m.to \in End /\ FinalHash(Peer(m.to), m.frame, m.sum)
  /\ \A e \in End : sentThrough[e] \in 0 .. frame[e]

SettledInv ==
  /\ DOMAIN log = End /\ DOMAIN theirSums = End /\ DOMAIN verified = End
  /\ DOMAIN desynced = End /\ DOMAIN sentThrough = End
  /\ \A e \in End : LogInv(e) /\ HeldInv(e) /\ VerdictInv(e)
  /\ AnnouncedInv

\* The variables that only steer the ticks.
TickInv ==
  /\ DOMAIN sentInputsThrough = End /\ DOMAIN theirFrame = End
  /\ \A e \in End :
       /\ sentInputsThrough[e] = IF frame[e] = 0 THEN -1 ELSE frame[e] + INPUT_DELAY - 1
       /\ theirFrame[e] \in -1 .. frame[Peer(e)] - 1
  /\ flight \in [End -> Flights \cup {NoRtt}]
  /\ lastSkip \in [End -> -SKIP_EVERY .. MaxFrame]
  /\ mismatch \in [End -> BOOLEAN]
  /\ lost \in 0 .. MaxLost

IInv == CoreInv /\ SettledInv /\ TickInv

-----------------------------------------------------------------------------
(* The operators of the model. *)

\* The two ends, and that each is the peer of the other.
LEMMA EndFacts ==
  ASSUME NEW e \in End
  PROVE  /\ Peer(e) \in End /\ Peer(e) # e /\ Peer(Peer(e)) = e
         /\ \A q \in End : q = e \/ q = Peer(e)
         /\ {e, Peer(e)} = {0, 1}
  BY DEF End, Peer

\* What a frame is settled against.
LEMMA SettledIs ==
  ASSUME NEW e \in End, frame[e] \in Nat, confirmed[e] \in Int
  PROVE  Settled(e) = IF confirmed[e] <= frame[e] - 1 THEN confirmed[e] ELSE frame[e] - 1
  BY PairMin, frame[e] - 1 \in Int DEF Settled

\* A guess is an input, and where the input is known there is no guess.
LEMMA RemoteAtFacts ==
  ASSUME NEW known, known \in [DOMAIN known -> Bits], DOMAIN known \subseteq Nat,
         NEW f \in Nat
  PROVE  /\ RemoteAt(known, f) \in Bits
         /\ f \in DOMAIN known => RemoteAt(known, f) = known[f]
<1>1. CASE f \in DOMAIN known
  BY <1>1 DEF RemoteAt
<1>2. CASE f \notin DOMAIN known
  <2>1. Remembered(known, f) \in SUBSET (0 .. f)
    BY DEF Remembered
  <2>2. Remembered(known, f) # {} => Max(Remembered(known, f)) \in Remembered(known, f)
    BY <2>1, IntervalMax, 0 \in Int, f \in Int
  <2>3. Remembered(known, f) # {} => known[Max(Remembered(known, f))] \in Bits
    BY <2>2 DEF Remembered
  <2>4. QED
    BY <1>2, <2>3, NeutralAssumption DEF RemoteAt
<1>3. QED
  BY <1>1, <1>2

\* A window holds frames up to its newest, with the sender's own inputs.
LEMMA InputWindowFacts ==
  ASSUME NEW e \in End, NEW mine, NEW through \in Nat,
         \A f \in Nat : At(mine, f) \in Bits
  PROVE  LET m == InputWindow(e, mine, through) IN
         /\ m.to = Peer(e) /\ m.through = through
         /\ m.bits \in [DOMAIN m.bits -> Bits]
         /\ DOMAIN m.bits \subseteq 0 .. through
         /\ \A f \in DOMAIN m.bits : m.bits[f] = At(mine, f)
<1> DEFINE lo == Max({0, through - REDUNDANCY + 1})
<1>1. lo \in Nat
  <2>1. REDUNDANCY \in Nat /\ through - REDUNDANCY + 1 \in Int
    BY NumbersAssumption
  <2>2. QED
    BY <2>1, PairMax, 0 \in Int
<1> HIDE DEF lo
<1>2. InputWindow(e, mine, through) =
        [to |-> Peer(e), through |-> through, bits |-> [f \in lo .. through |-> At(mine, f)]]
  BY DEF InputWindow, lo
<1>3. QED
  BY <1>1, <1>2

-----------------------------------------------------------------------------
(* What the core invariant says of settled frames. *)

\* A hole reads as the neutral word: what At returns is always a word.
LEMMA AtType ==
  ASSUME Arrays, NEW e \in End, NEW f \in Int
  PROVE  At(local[e], f) \in Bits
  BY NeutralAssumption DEF Arrays, At

\* The core invariant taken apart, in a form that can be primed.
LEMMA CoreParts ==
  ASSUME CoreInv, NEW e \in End
  PROVE  /\ KnownInv(e) /\ ConfirmedInv(e) /\ FedInv(e) /\ WindowInv(e) /\ SumInv(e)
         /\ Arrays /\ PacketInv
  BY DEF CoreInv, EndInv

\* The ranges of the arrays of one end, as the step proofs use them.
LEMMA CoreTypes ==
  ASSUME CoreInv, NEW e \in End
  PROVE  /\ frame[e] \in Nat /\ confirmed[e] \in Int /\ confirmed[e] >= -1
         /\ INPUT_DELAY \in Nat /\ Settled(e) \in Int /\ Settled(e) >= -1
         /\ Settled(e) <= confirmed[e] /\ Settled(e) <= frame[e] - 1
         /\ Settled(e) = confirmed[e] \/ Settled(e) = frame[e] - 1
<1>1. /\ frame[e] \in Nat /\ confirmed[e] \in Int /\ confirmed[e] >= -1
      /\ INPUT_DELAY \in Nat
  BY NumbersAssumption DEF CoreInv, Arrays, EndInv, ConfirmedInv
<1>2. QED
  BY <1>1, SettledIs

\* On a settled frame the sim ran what the two players decided.
LEMMA SettledTruth ==
  ASSUME CoreInv, NEW e \in End, NEW f \in 0 .. Settled(e)
  PROVE  f \in DOMAIN sim[e] /\ sim[e][f] = Truth(f)
<1>1. f \in 0 .. frame[e] - 1 /\ f \in 0 .. confirmed[e] /\ frame[e] \in Nat
  BY CoreTypes
<1>2. f \in DOMAIN remote[e]
  BY <1>1, CoreParts DEF ConfirmedInv
<1>3. f < frame[e]
  BY <1>1
<1>4. FedInv(e) /\ KnownInv(e)
  BY CoreParts
<1>5. f \in DOMAIN sim[e] /\ sim[e][f] = Pair(e, At(local[e], f), used[e][f])
  BY <1>1, <1>4 DEF FedInv
<1>6. used[e][f] = remote[e][f]
  BY <1>2, <1>3, <1>4 DEF FedInv
<1>7. remote[e][f] = At(local[Peer(e)], f)
  BY <1>2, <1>4 DEF KnownInv
<1>8. QED
  BY <1>5, <1>6, <1>7 DEF Pair, Truth, Peer, End

\* A final state is the one the decided inputs lead to, at either end.
LEMMA FinalState_Truth ==
  ASSUME CoreInv, NEW e \in End, NEW f \in 1 .. frame[e], f <= Settled(e) + 1
  PROVE  StateAt(e, f) =
           [version |-> version[e], inputs |-> [g \in 0 .. f - 1 |-> Truth(g)]]
<1>1. frame[e] \in Nat /\ Settled(e) \in Int
  BY CoreTypes
<1>2. DOMAIN sim[e] = 0 .. frame[e] - 1
  BY CoreParts DEF FedInv
<1>3. DOMAIN sim[e] \cap 0 .. f - 1 = 0 .. f - 1
  BY <1>1, <1>2
<1>4. \A g \in 0 .. f - 1 : sim[e][g] = Truth(g)
  BY <1>1, SettledTruth
<1>5. Keep(sim[e], 0 .. f - 1) = [g \in 0 .. f - 1 |-> Truth(g)]
  BY <1>3, <1>4 DEF Keep
<1>6. QED
  BY <1>5 DEF StateAt, Hash

\* The same of the state a step leads to.
Finals ==
  \A e \in End :
    /\ frame[e] \in Nat /\ confirmed[e] \in Int /\ confirmed[e] >= -1
    /\ Settled(e) \in Int /\ Settled(e) >= -1
    /\ Settled(e) <= confirmed[e] /\ Settled(e) <= frame[e] - 1
    /\ Settled(e) = confirmed[e] \/ Settled(e) = frame[e] - 1
    /\ \A f \in 0 .. Settled(e) : f \in DOMAIN sim[e] /\ sim[e][f] = Truth(f)
    /\ \A f \in 1 .. frame[e] :
         f <= Settled(e) + 1 =>
           StateAt(e, f) =
             [version |-> version[e], inputs |-> [g \in 0 .. f - 1 |-> Truth(g)]]

\* What the core invariant says of frames that can no longer change.
LEMMA FinalsHold == CoreInv => Finals
  BY CoreTypes, SettledTruth, FinalState_Truth DEF Finals

\* The same of the next state.
LEMMA FinalsNext == CoreInv' => Finals'
  BY FinalsHold, PTL

-----------------------------------------------------------------------------
(***************************************************************************)
(* Steps of the core.  Besides the invariant they show that what is        *)
(* settled stays settled, and was simulated for the last time.             *)
(***************************************************************************)
SettledKept ==
  /\ version' = version
  /\ \A q \in End :
       /\ Settled(q) <= Settled(q)' /\ frame[q] <= frame'[q]
       /\ \A f \in 0 .. Settled(q) : sim'[q][f] = sim[q][f]

\* A state hash only looks at the frames before it.
LEMMA HashKept ==
  ASSUME NEW data, NEW old, NEW new, NEW f,
         \A g \in 0 .. f - 1 : g \in DOMAIN old /\ g \in DOMAIN new /\ new[g] = old[g]
  PROVE  Hash(data, new, f) = Hash(data, old, f)
<1>1. DOMAIN old \cap 0 .. f - 1 = 0 .. f - 1 /\ DOMAIN new \cap 0 .. f - 1 = 0 .. f - 1
  OBVIOUS
<1>2. Keep(new, 0 .. f - 1) = Keep(old, 0 .. f - 1)
  BY <1>1 DEF Keep
<1>3. QED
  BY <1>2 DEF Hash

\* Simulating the next frame (netplay.ts:529) keeps the core invariant.
LEMMA AdvanceCore ==
  ASSUME CoreInv, NEW e \in End, NEW bits \in Bits, Advance(e, bits)
  PROVE  CoreInv' /\ SettledKept
<1> DEFINE f == frame[e]
           p == Peer(e)
           at == f + INPUT_DELAY
           theirs == RemoteAt(remote[e], f)
<1>1. /\ p \in End /\ p # e /\ Peer(p) = e /\ (\A q \in End : q = e \/ q = p)
      /\ f \in Nat /\ frame[p] \in Nat /\ INPUT_DELAY \in Nat /\ MaxFrame \in Nat
      /\ confirmed[e] \in Int /\ confirmed[p] \in Int /\ MAX_ROLLBACK \in Nat
  BY EndFacts, CoreTypes, NumbersAssumption
<1>2. /\ f < MaxFrame /\ frame' = [frame EXCEPT ![e] = f + 1]
      /\ ~ MustStall(e)
      /\ local' = [local EXCEPT ![e] = Put(@, at, bits)]
      /\ packets' = packets \cup {InputWindow(e, local'[e], at)}
      /\ used' = [used EXCEPT ![e] = Put(@, f, theirs)]
      /\ sim' = [sim EXCEPT ![e] = Put(@, f, Pair(e, At(local'[e], f), theirs))]
      /\ sums' = IF (f + 1) % CHECKSUM_EVERY = 0
                 THEN [sums EXCEPT ![e] = Put(@, f + 1, Hash(version[e], sim'[e], f + 1))]
                 ELSE sums
      /\ version' = version /\ remote' = remote /\ confirmed' = confirmed
      /\ dropped' = dropped
  BY DEF Advance
<1>3. Arrays
  BY CoreParts
<1>4. /\ frame'[e] = f + 1 /\ frame'[p] = frame[p] /\ local'[p] = local[p]
      /\ used'[p] = used[p] /\ sim'[p] = sim[p] /\ sums'[p] = sums[p]
      /\ local'[e] = Put(local[e], at, bits)
      /\ used'[e] = Put(used[e], f, theirs)
      /\ sim'[e] = Put(sim[e], f, Pair(e, At(local'[e], f), theirs))
      /\ frame' \in [End -> 0 .. MaxFrame]
  BY <1>1, <1>2, <1>3 DEF Arrays
<1>5. /\ local'[e] \in [INPUT_DELAY .. at -> Bits]
      /\ \A g \in Int : g < at => At(local'[e], g) = At(local[e], g)
  <2>1. local[e] \in [INPUT_DELAY .. at - 1 -> Bits]
    <3>1. local[e] \in [INPUT_DELAY .. frame[e] + INPUT_DELAY - 1 -> Bits]
      BY <1>3, Zenon DEF Arrays
    <3>2. frame[e] + INPUT_DELAY - 1 = at - 1
      BY <1>1
    <3>3. QED
      BY <3>1, <3>2
  <2>2. /\ DOMAIN local'[e] = (INPUT_DELAY .. at - 1) \cup {at} /\ local'[e][at] = bits
        /\ \A x \in INPUT_DELAY .. at - 1 : x # at => local'[e][x] = local[e][x]
        /\ local'[e] = [x \in (INPUT_DELAY .. at - 1) \cup {at} |-> local'[e][x]]
    <3>1. DOMAIN local[e] = INPUT_DELAY .. at - 1
      BY <2>1
    <3>2. QED
      BY <1>4, <3>1 DEF Put
  <2>3. (INPUT_DELAY .. at - 1) \cup {at} = INPUT_DELAY .. at
    BY <1>1
  <2>4. \A x \in INPUT_DELAY .. at - 1 : x # at
    BY <1>1
  <2>5. \A x \in INPUT_DELAY .. at - 1 : local'[e][x] = local[e][x] /\ local[e][x] \in Bits
    <3>1. \A x \in INPUT_DELAY .. at - 1 : local[e][x] \in Bits
      BY <2>1
    <3>2. QED
      BY <2>2, <2>4, <3>1
  <2>6. \A x \in INPUT_DELAY .. at : local'[e][x] \in Bits
    BY <2>2, <2>3, <2>5
  <2>7. local'[e] \in [INPUT_DELAY .. at -> Bits]
    BY <2>2, <2>3, <2>6
  <2>8. ASSUME NEW g \in Int, g < at PROVE At(local'[e], g) = At(local[e], g)
    <3>1. g \in DOMAIN local'[e] <=> g \in DOMAIN local[e]
      BY <1>1, <2>1, <2>2, <2>8
    <3>2. g \in DOMAIN local[e] => local'[e][g] = local[e][g]
      BY <2>1, <2>5
    <3>3. QED
      BY <3>1, <3>2 DEF At
  <2>9. QED
    BY <2>7, <2>8
<1>6. \A g \in Int : g < at => At(local'[e], g) = At(local[e], g)
  BY <1>5
<1>7. Arrays'
  <2>1. /\ version' \in [End -> Versions] /\ confirmed' \in [End -> Int]
        /\ dropped' \in [End -> Nat] /\ DOMAIN remote' = End
    BY <1>2, <1>3 DEF Arrays
  <2>2. /\ DOMAIN local' = End /\ DOMAIN used' = End /\ DOMAIN sim' = End
        /\ DOMAIN sums' = End
    BY <1>2, <1>3 DEF Arrays
  <2>3. local'[e] \in [INPUT_DELAY .. frame'[e] + INPUT_DELAY - 1 -> Bits]
    <3>1. frame'[e] + INPUT_DELAY - 1 = at
      BY <1>1, <1>4
    <3>2. QED
      BY <1>5, <3>1
  <2>4. local'[p] \in [INPUT_DELAY .. frame'[p] + INPUT_DELAY - 1 -> Bits]
    <3>1. local[p] \in [INPUT_DELAY .. frame[p] + INPUT_DELAY - 1 -> Bits]
      BY <1>1, <1>3, Zenon DEF Arrays
    <3>2. QED
      BY <1>4, <3>1
  <2>5. \A q \in End : local'[q] \in [INPUT_DELAY .. frame'[q] + INPUT_DELAY - 1 -> Bits]
    BY <1>1, <2>3, <2>4
  <2>6. QED
    BY <1>4, <2>1, <2>2, <2>5 DEF Arrays
<1>8. PacketInv'
  <2>1. ASSUME NEW m \in packets PROVE
          /\ m.to \in End
          /\ m.through \in INPUT_DELAY .. frame'[Peer(m.to)] + INPUT_DELAY - 1
          /\ m.bits \in [DOMAIN m.bits -> Bits]
          /\ DOMAIN m.bits \subseteq 0 .. m.through
          /\ \A g \in DOMAIN m.bits : m.bits[g] = At(local'[Peer(m.to)], g)
    <3>1. /\ m.to \in End
          /\ m.through \in INPUT_DELAY .. frame[Peer(m.to)] + INPUT_DELAY - 1
          /\ m.bits \in [DOMAIN m.bits -> Bits]
          /\ DOMAIN m.bits \subseteq 0 .. m.through
          /\ \A g \in DOMAIN m.bits : m.bits[g] = At(local[Peer(m.to)], g)
      BY CoreParts DEF PacketInv
    <3>2. CASE m.to = e
      BY <1>4, <3>1, <3>2
    <3>3. CASE m.to = p
      <4>1. \A g \in DOMAIN m.bits : g \in Int /\ g < at
        BY <1>1, <3>1, <3>3
      <4>2. QED
        BY <1>1, <1>4, <1>6, <3>1, <3>3, <4>1
    <3>4. QED
      BY <1>1, <3>1, <3>2, <3>3
  <2>2. ASSUME NEW m, m = InputWindow(e, local'[e], at) PROVE
          /\ m.to \in End
          /\ m.through \in INPUT_DELAY .. frame'[Peer(m.to)] + INPUT_DELAY - 1
          /\ m.bits \in [DOMAIN m.bits -> Bits]
          /\ DOMAIN m.bits \subseteq 0 .. m.through
          /\ \A g \in DOMAIN m.bits : m.bits[g] = At(local'[Peer(m.to)], g)
    <3>1. \A g \in Nat : At(local'[e], g) \in Bits
      BY <1>5, NeutralAssumption DEF At
    <3>2. at \in Nat
      BY <1>1
    <3>3. /\ m.to = p /\ m.through = at /\ m.bits \in [DOMAIN m.bits -> Bits]
          /\ DOMAIN m.bits \subseteq 0 .. at
          /\ \A g \in DOMAIN m.bits : m.bits[g] = At(local'[e], g)
      BY <2>2, <3>1, <3>2, InputWindowFacts
    <3>4. QED
      BY <1>1, <1>4, <3>3
  <2>3. QED
    BY <1>2, <2>1, <2>2 DEF PacketInv
<1>9. EndInv(p)'
  <2>1. KnownInv(p) /\ ConfirmedInv(p) /\ FedInv(p) /\ WindowInv(p) /\ SumInv(p)
    BY <1>1, CoreParts
  <2>2. KnownInv(p)'
    <3>1. \A g \in DOMAIN remote[p] : g \in Int /\ g < at
      BY <1>1, <2>1 DEF KnownInv
    <3>2. QED
      BY <1>1, <1>2, <1>4, <1>6, <2>1, <3>1 DEF KnownInv
  <2>3. ConfirmedInv(p)'
    BY <1>1, <1>2, <1>4, <2>1 DEF ConfirmedInv
  <2>4. FedInv(p)' /\ WindowInv(p)' /\ SumInv(p)'
    BY <1>1, <1>2, <1>4, <2>1 DEF FedInv, WindowInv, SumInv, StateAt
  <2>5. QED
    BY <2>2, <2>3, <2>4 DEF EndInv
<1>10. EndInv(e)' /\ (\A g \in 0 .. f - 1 : sim'[e][g] = sim[e][g])
  <2>1. KnownInv(e) /\ ConfirmedInv(e) /\ FedInv(e) /\ WindowInv(e) /\ SumInv(e)
    BY CoreParts
  <2>2. KnownInv(e)' /\ ConfirmedInv(e)'
    BY <1>1, <1>2, <1>4, <2>1 DEF KnownInv, ConfirmedInv
  <2>3. theirs \in Bits /\ (f \in DOMAIN remote[e] => theirs = remote[e][f])
    <3>1. remote[e] \in [DOMAIN remote[e] -> Bits] /\ DOMAIN remote[e] \subseteq Nat
      BY <2>1 DEF KnownInv
    <3>2. QED
      BY <1>1, <3>1, RemoteAtFacts
  <2>4. used'[e] \in [0 .. f -> Bits] /\ (\A g \in 0 .. f - 1 : used'[e][g] = used[e][g])
        /\ used'[e][f] = theirs
    BY <1>1, <1>4, <2>1, <2>3 DEF FedInv, Put
  <2>5. /\ DOMAIN sim[e] = 0 .. f - 1
        /\ \A g \in 0 .. f - 1 : sim[e][g] = Pair(e, At(local[e], g), used[e][g])
    BY <2>1 DEF FedInv
  <2>6. /\ sim'[e] = [g \in 0 .. f |-> sim'[e][g]]
        /\ \A g \in 0 .. f - 1 : sim'[e][g] = sim[e][g]
        /\ sim'[e][f] = Pair(e, At(local'[e], f), theirs)
    BY <1>1, <1>4, <2>5 DEF Put
  <2>7. \A g \in 0 .. f : sim'[e][g] = Pair(e, At(local'[e], g), used'[e][g])
    <3>1. ASSUME NEW g \in 0 .. f - 1
          PROVE  sim'[e][g] = Pair(e, At(local'[e], g), used'[e][g])
      <4>1. At(local'[e], g) = At(local[e], g)
        BY <1>1, <1>6
      <4>2. QED
        BY <2>4, <2>5, <2>6, <4>1
    <3>2. \A g \in 0 .. f : g \in 0 .. f - 1 \/ g = f
      BY <1>1
    <3>3. QED
      BY <2>4, <2>6, <3>1, <3>2
  <2>8. FedInv(e)'
    <3>1. \A g \in DOMAIN remote[e] : g < f + 1 => used'[e][g] = remote[e][g]
      <4> SUFFICES ASSUME NEW g \in DOMAIN remote[e], g < f + 1
                   PROVE  used'[e][g] = remote[e][g]
        OBVIOUS
      <4>1. g \in Int /\ 0 <= g
        BY <1>1, <2>1 DEF KnownInv
      <4>2. g = f \/ (g \in 0 .. f - 1 /\ g < frame[e])
        BY <1>1, <4>1
      <4>3. g < frame[e] => used[e][g] = remote[e][g]
        BY <2>1 DEF FedInv
      <4>4. QED
        BY <2>3, <2>4, <4>2, <4>3
    <3>2. (f + 1) - 1 = f
      BY <1>1
    <3>3. sim'[e] = [g \in 0 .. f |-> Pair(e, At(local'[e], g), used'[e][g])]
      BY <2>6, <2>7
    <3>4. QED
      BY <1>2, <1>4, <2>4, <3>1, <3>2, <3>3 DEF FedInv
  <2>9. WindowInv(e)'
    BY <1>1, <1>2, <1>4 DEF WindowInv, MustStall
  <2>10. SumInv(e)'
    <3>1. CHECKSUM_EVERY \in Nat /\ CHECKSUM_EVERY # 0
      BY NumbersAssumption
    <3>2. \A g \in 1 .. f : Hash(version[e], sim'[e], g) = Hash(version[e], sim[e], g)
      <4> SUFFICES ASSUME NEW g \in 1 .. f
                   PROVE  Hash(version[e], sim'[e], g) = Hash(version[e], sim[e], g)
        OBVIOUS
      <4>1. \A h \in 0 .. g - 1 : h \in 0 .. f - 1 /\ h \in 0 .. f
        BY <1>1
      <4>2. DOMAIN sim'[e] = 0 .. f
        BY <2>6
      <4>3. \A h \in 0 .. g - 1 :
              h \in DOMAIN sim[e] /\ h \in DOMAIN sim'[e] /\ sim'[e][h] = sim[e][h]
        BY <2>5, <2>6, <4>1, <4>2
      <4>4. QED
        BY <4>3, HashKept
    <3>3. DOMAIN sums[e] = {g \in 1 .. f : g % CHECKSUM_EVERY = 0}
          /\ \A g \in DOMAIN sums[e] : sums[e][g] = Hash(version[e], sim[e], g)
      BY <2>1 DEF SumInv, StateAt
    <3>4. CASE (f + 1) % CHECKSUM_EVERY = 0
      <4>1. sums'[e] = Put(sums[e], f + 1, Hash(version[e], sim'[e], f + 1))
        BY <1>2, <1>3, <3>4 DEF Arrays
      <4>2. DOMAIN sums'[e] = {g \in 1 .. f + 1 : g % CHECKSUM_EVERY = 0}
        <5>1. DOMAIN sums'[e] = DOMAIN sums[e] \cup {f + 1}
          BY <4>1 DEF Put
        <5>2. \A g : g \in 1 .. f + 1 <=> g \in 1 .. f \/ g = f + 1
          BY <1>1
        <5>3. QED
          BY <3>3, <3>4, <5>1, <5>2
      <4>3. \A g \in DOMAIN sums'[e] : sums'[e][g] = Hash(version[e], sim'[e], g)
        <5>1. \A g \in 1 .. f : g # f + 1
          BY <1>1
        <5>2. /\ sums'[e][f + 1] = Hash(version[e], sim'[e], f + 1)
              /\ \A g \in DOMAIN sums[e] : g # f + 1 => sums'[e][g] = sums[e][g]
              /\ DOMAIN sums'[e] = DOMAIN sums[e] \cup {f + 1}
          BY <4>1 DEF Put
        <5>3. \A g \in DOMAIN sums[e] : sums'[e][g] = Hash(version[e], sim'[e], g)
          BY <3>2, <3>3, <5>1, <5>2
        <5>4. QED
          BY <5>2, <5>3
      <4>4. QED
        BY <1>2, <1>4, <4>2, <4>3 DEF SumInv, StateAt
    <3>5. CASE (f + 1) % CHECKSUM_EVERY # 0
      <4>1. sums'[e] = sums[e]
        BY <1>2, <3>5
      <4>2. {g \in 1 .. f + 1 : g % CHECKSUM_EVERY = 0} = {g \in 1 .. f : g % CHECKSUM_EVERY = 0}
        BY <1>1, <3>1, <3>5
      <4>3. QED
        BY <1>1, <1>2, <1>4, <3>2, <3>3, <4>1, <4>2 DEF SumInv, StateAt
    <3>6. QED
      BY <3>4, <3>5
  <2>11. QED
    BY <2>2, <2>6, <2>8, <2>9, <2>10 DEF EndInv
<1>11. CoreInv'
  <2>1. CorrectionsInTime'
    BY <1>2 DEF CoreInv, CorrectionsInTime
  <2>2. \A q \in End : EndInv(q)'
    BY <1>1, <1>9, <1>10
  <2>3. QED
    BY <1>7, <1>8, <2>1, <2>2 DEF CoreInv
<1>12. SettledKept
  <2>1. \A q \in End : Settled(q) \in Int /\ Settled(q) <= frame[q] - 1
    BY CoreTypes
  <2>2. Settled(p)' = Settled(p)
    BY <1>1, <1>2, <1>4 DEF Settled
  <2>3. Settled(e) <= Settled(e)'
    <3>1. Settled(e) = IF confirmed[e] <= f - 1 THEN confirmed[e] ELSE f - 1
      BY <1>1, SettledIs
    <3>2. Settled(e)' = IF confirmed[e] <= (f + 1) - 1 THEN confirmed[e] ELSE (f + 1) - 1
      BY <1>1, <1>2, <1>4, PairMin, (f + 1) - 1 \in Int DEF Settled
    <3>3. QED
      BY <1>1, <3>1, <3>2
  <2>4. QED
    BY <1>1, <1>2, <1>4, <1>10, <2>1, <2>2, <2>3 DEF SettledKept
<1>13. QED
  BY <1>11, <1>12

\* What the news in a packet leave of the guesses: nothing wrong.
LEMMA ReceiveCore ==
  ASSUME CoreInv, NEW e \in End, NEW m \in packets, ReceiveInputs(e, m)
  PROVE  CoreInv' /\ SettledKept
<1> DEFINE n == frame[e]
           p == Peer(e)
           wrong == Mispredicted(e, m.bits)
<1>1. /\ p \in End /\ p # e /\ Peer(p) = e /\ (\A q \in End : q = e \/ q = p)
      /\ n \in Nat /\ frame[p] \in Nat /\ INPUT_DELAY \in Nat
      /\ confirmed[e] \in Int /\ confirmed[e] >= -1 /\ confirmed[p] \in Int
      /\ MAX_ROLLBACK \in Nat /\ SimMaxRollback \in Nat
  BY EndFacts, CoreTypes, NumbersAssumption
<1>2. /\ m.to = e
      /\ remote' = [remote EXCEPT ![e] = Learn(@, m.bits)]
      /\ \/ wrong = {} /\ UNCHANGED <<used, sim, sums, dropped>>
         \/ \E to \in wrong : (\A f \in wrong : to <= f) /\ Rollback(e, to)
      /\ version' = version /\ frame' = frame /\ local' = local /\ packets' = packets
  BY DEF ReceiveInputs
<1>3. PICK c \in {confirmed[e]} \cup DOMAIN remote'[e] :
        /\ confirmed[e] <= c
        /\ confirmed[e] + 1 .. c \subseteq DOMAIN remote'[e]
        /\ c + 1 \notin DOMAIN remote'[e]
        /\ confirmed' = [confirmed EXCEPT ![e] = c]
  BY DEF ReceiveInputs
<1>4. /\ Arrays /\ KnownInv(e) /\ ConfirmedInv(e) /\ FedInv(e) /\ WindowInv(e) /\ SumInv(e)
      /\ KnownInv(p) /\ ConfirmedInv(p) /\ FedInv(p) /\ WindowInv(p) /\ SumInv(p)
  BY <1>1, CoreParts
<1>5. /\ m.through \in INPUT_DELAY .. frame[p] + INPUT_DELAY - 1
      /\ m.bits \in [DOMAIN m.bits -> Bits]
      /\ DOMAIN m.bits \subseteq 0 .. m.through
      /\ \A f \in DOMAIN m.bits : m.bits[f] = At(local[p], f)
  BY <1>2, CoreParts DEF PacketInv
<1>6. /\ remote'[e] = Learn(remote[e], m.bits) /\ remote'[p] = remote[p]
      /\ confirmed'[e] = c /\ confirmed'[p] = confirmed[p] /\ DOMAIN remote' = End
      /\ DOMAIN confirmed' = End
  BY <1>1, <1>2, <1>3, <1>4 DEF Arrays
<1>7. /\ DOMAIN remote'[e] = DOMAIN remote[e] \cup DOMAIN m.bits
      /\ \A f \in DOMAIN remote[e] : remote'[e][f] = remote[e][f]
      /\ \A f \in DOMAIN m.bits \ DOMAIN remote[e] : remote'[e][f] = m.bits[f]
      /\ remote'[e] = [f \in DOMAIN remote'[e] |-> remote'[e][f]]
  BY <1>6 DEF Learn
<1>8. KnownInv(e)'
  <2>1. DOMAIN remote[e] \subseteq 0 .. frame[p] + INPUT_DELAY - 1
    BY <1>4 DEF KnownInv
  <2>2. DOMAIN m.bits \subseteq 0 .. frame[p] + INPUT_DELAY - 1
    BY <1>1, <1>5
  <2>3. \A f \in DOMAIN remote'[e] : remote'[e][f] \in Bits
    BY <1>4, <1>5, <1>7 DEF KnownInv
  <2>4. \A f \in DOMAIN remote'[e] : remote'[e][f] = At(local[p], f)
    BY <1>4, <1>5, <1>7 DEF KnownInv
  <2>5. remote'[e] \in [DOMAIN remote'[e] -> Bits]
    BY <1>7, <2>3
  <2>6. DOMAIN remote'[e] \subseteq 0 .. frame[p] + INPUT_DELAY - 1
    BY <1>7, <2>1, <2>2
  <2>7. QED
    BY <1>2, <2>4, <2>5, <2>6 DEF KnownInv
<1>9. c \in -1 .. frame[p] + INPUT_DELAY - 1 /\ c \in Int
  <2>1. confirmed[e] \in -1 .. frame[p] + INPUT_DELAY - 1
    BY <1>4 DEF ConfirmedInv
  <2>2. DOMAIN remote'[e] \subseteq 0 .. frame[p] + INPUT_DELAY - 1
    BY <1>2, <1>8 DEF KnownInv
  <2>3. QED
    BY <1>1, <1>3, <2>1, <2>2
<1>10. ConfirmedInv(e)'
  <2>1. 0 .. confirmed[e] \subseteq DOMAIN remote'[e]
    BY <1>4, <1>7 DEF ConfirmedInv
  <2>2. \A f \in 0 .. c : f \in 0 .. confirmed[e] \/ f \in confirmed[e] + 1 .. c
    BY <1>1, <1>9
  <2>3. 0 .. c \subseteq DOMAIN remote'[e]
    BY <1>3, <2>1, <2>2
  <2>4. QED
    BY <1>2, <1>3, <1>6, <1>9, <2>3 DEF ConfirmedInv
<1>11. WindowInv(e)'
  BY <1>1, <1>2, <1>3, <1>4, <1>6, <1>9 DEF WindowInv
<1>12. Arrays' /\ PacketInv'
  <2>1. PacketInv'
    BY <1>2, CoreParts DEF PacketInv
  <2>2. confirmed' \in [End -> Int]
    BY <1>1, <1>3, <1>4, <1>9 DEF Arrays
  <2>3. /\ DOMAIN used' = End /\ DOMAIN sim' = End /\ DOMAIN sums' = End
        /\ dropped' \in [End -> Nat]
    <3>1. /\ DOMAIN used = End /\ DOMAIN sim = End /\ DOMAIN sums = End
          /\ dropped \in [End -> Nat]
      BY <1>4 DEF Arrays
    <3>2. ASSUME NEW to, Replay(e, to) PROVE
            /\ DOMAIN used' = End /\ DOMAIN sim' = End /\ DOMAIN sums' = End
            /\ dropped' \in [End -> Nat]
      BY <3>1, <3>2 DEF Replay
    <3>3. ASSUME NEW to, Rollback(e, to) PROVE
            /\ DOMAIN used' = End /\ DOMAIN sim' = End /\ DOMAIN sums' = End
            /\ dropped' \in [End -> Nat]
      BY <3>1, <3>2, <3>3 DEF Rollback
    <3>4. QED
      BY <1>2, <3>1, <3>3
  <2>4. QED
    BY <1>2, <1>4, <1>6, <2>1, <2>2, <2>3 DEF Arrays
<1>13. /\ used'[p] = used[p] /\ sim'[p] = sim[p] /\ sums'[p] = sums[p]
  <2>1. CASE UNCHANGED <<used, sim, sums>>
    BY <2>1
  <2>2. CASE \E to \in wrong : Replay(e, to)
    BY <1>1, <1>4, <2>2 DEF Replay, Arrays
  <2>3. QED
    BY <1>2, <2>1, <2>2 DEF Rollback
<1>14. EndInv(p)'
  <2>1. KnownInv(p)'
    BY <1>1, <1>2, <1>4, <1>6 DEF KnownInv
  <2>2. ConfirmedInv(p)' /\ WindowInv(p)'
    BY <1>1, <1>2, <1>4, <1>6 DEF ConfirmedInv, WindowInv
  <2>3. FedInv(p)'
    BY <1>2, <1>4, <1>6, <1>13 DEF FedInv
  <2>4. SumInv(p)'
    BY <1>2, <1>4, <1>13 DEF SumInv, StateAt
  <2>5. QED
    BY <2>1, <2>2, <2>3, <2>4 DEF EndInv
<1>15. \A f \in DOMAIN m.bits \ DOMAIN remote[e] :
         f < n => (f \in wrong <=> used[e][f] # m.bits[f])
  BY DEF Mispredicted
<1>16. ASSUME wrong = {}, UNCHANGED <<used, sim, sums, dropped>>
       PROVE  CoreInv' /\ sim' = sim
  <2>1. \A f \in DOMAIN remote'[e] : f < n => used[e][f] = remote'[e][f]
    BY <1>4, <1>7, <1>15, <1>16 DEF FedInv
  <2>2. FedInv(e)' /\ SumInv(e)'
    BY <1>2, <1>4, <1>16, <2>1 DEF FedInv, SumInv, StateAt
  <2>3. CorrectionsInTime'
    BY <1>16 DEF CoreInv, CorrectionsInTime
  <2>4. QED
    BY <1>1, <1>8, <1>10, <1>11, <1>12, <1>14, <1>16, <2>2, <2>3 DEF CoreInv, EndInv
<1>17. ASSUME NEW to \in wrong, \A f \in wrong : to <= f, Rollback(e, to)
       PROVE  CoreInv' /\ (\A f \in 0 .. confirmed[e] : sim'[e][f] = sim[e][f])
  <2>1. to \in DOMAIN m.bits /\ to \notin DOMAIN remote[e] /\ to < n
    BY DEF Mispredicted
  <2>2. to \in Int /\ 0 <= to
    BY <1>1, <1>5, <2>1
  <2>3. confirmed[e] < to
    <3>1. to \notin 0 .. confirmed[e]
      BY <1>4, <2>1 DEF ConfirmedInv
    <3>2. QED
      BY <1>1, <2>2, <3>1
  <2>4. CanRewind(n, to)
    <3>1. n <= confirmed[e] + MAX_ROLLBACK + 1
      BY <1>4 DEF WindowInv
    <3>2. n - to <= SimMaxRollback
      BY <1>1, <2>2, <2>3, <3>1, WindowAssumption
    <3>3. QED
      BY <2>1, <3>2 DEF CanRewind
  <2>5. Replay(e, to)
    BY <2>4, <1>17 DEF Rollback
  <2>6. /\ DOMAIN used[e] = 0 .. n - 1 /\ (\A f \in 0 .. n - 1 : used[e][f] \in Bits)
        /\ DOMAIN sim[e] = 0 .. n - 1
        /\ \A f \in 0 .. n - 1 : sim[e][f] = Pair(e, At(local[e], f), used[e][f])
        /\ \A f \in DOMAIN remote[e] : f < n => used[e][f] = remote[e][f]
    BY <1>4 DEF FedInv
  <2>7. /\ used'[e] = [f \in 0 .. n - 1 |-> IF f < to THEN used[e][f] ELSE RemoteAt(remote'[e], f)]
        /\ sim'[e] = [f \in 0 .. n - 1 |-> IF f < to THEN sim[e][f]
                                           ELSE Pair(e, At(local[e], f), used'[e][f])]
        /\ sums'[e] = [f \in DOMAIN sums[e] |-> IF f <= to THEN sums[e][f]
                                                ELSE Hash(version[e], sim'[e], f)]
        /\ dropped' = dropped
    BY <1>4, <2>5, <2>6 DEF Replay, Arrays
  <2>8. /\ remote'[e] \in [DOMAIN remote'[e] -> Bits]
        /\ DOMAIN remote'[e] \subseteq 0 .. frame[p] + INPUT_DELAY - 1
    BY <1>2, <1>8 DEF KnownInv
  <2>9. \A f \in 0 .. n - 1 : /\ RemoteAt(remote'[e], f) \in Bits
                              /\ f \in DOMAIN remote'[e] => RemoteAt(remote'[e], f) = remote'[e][f]
    <3>1. DOMAIN remote'[e] \subseteq Nat
      BY <1>1, <2>8
    <3>2. \A f \in 0 .. n - 1 : f \in Nat
      BY <1>1
    <3>3. QED
      BY <2>8, <3>1, <3>2, RemoteAtFacts
  <2>10. FedInv(e)'
    <3>1. used'[e] \in [0 .. n - 1 -> Bits]
      BY <2>6, <2>7, <2>9
    <3>2. ASSUME NEW f \in 0 .. n - 1 PROVE sim'[e][f] = Pair(e, At(local[e], f), used'[e][f])
      <4>1. CASE f < to
        BY <2>6, <2>7, <4>1
      <4>2. CASE ~ (f < to)
        BY <2>7, <4>2
      <4>3. QED
        BY <4>1, <4>2
    <3>3. sim'[e] = [f \in 0 .. n - 1 |-> Pair(e, At(local[e], f), used'[e][f])]
      BY <2>7, <3>2
    <3>4. ASSUME NEW f \in DOMAIN remote'[e], f < n PROVE used'[e][f] = remote'[e][f]
      <4>1. f \in 0 .. n - 1
        BY <1>1, <2>8, <3>4
      <4>2. CASE f < to
        <5>1. f \notin wrong
          BY <1>1, <1>17, <2>2, <4>1, <4>2
        <5>2. used'[e][f] = used[e][f]
          BY <2>7, <4>1, <4>2
        <5>3. f \in DOMAIN remote[e] => used[e][f] = remote'[e][f]
          BY <1>7, <2>6, <3>4
        <5>4. f \notin DOMAIN remote[e] => used[e][f] = remote'[e][f]
          BY <1>7, <1>15, <3>4, <5>1
        <5>5. QED
          BY <5>2, <5>3, <5>4
      <4>3. CASE ~ (f < to)
        BY <2>7, <2>9, <4>1, <4>3
      <4>4. QED
        BY <4>2, <4>3
    <3>5. QED
      BY <1>2, <3>1, <3>3, <3>4 DEF FedInv
  <2>11. SumInv(e)'
    <3>1. /\ DOMAIN sums[e] = {f \in 1 .. n : f % CHECKSUM_EVERY = 0}
          /\ \A f \in DOMAIN sums[e] : sums[e][f] = Hash(version[e], sim[e], f)
      BY <1>4 DEF SumInv, StateAt
    <3>2. ASSUME NEW f \in DOMAIN sums[e] PROVE sums'[e][f] = Hash(version[e], sim'[e], f)
      <4>1. f \in Nat /\ f <= n /\ f \in Int
        BY <1>1, <3>1
      <4>2. CASE f <= to
        <5>1. \A g \in 0 .. f - 1 : g \in 0 .. n - 1 /\ g < to
          BY <1>1, <2>2, <4>1, <4>2
        <5>2. \A g \in 0 .. f - 1 :
                g \in DOMAIN sim[e] /\ g \in DOMAIN sim'[e] /\ sim'[e][g] = sim[e][g]
          BY <2>6, <2>7, <5>1
        <5>3. Hash(version[e], sim'[e], f) = Hash(version[e], sim[e], f)
          BY <5>2, HashKept
        <5>4. QED
          BY <2>7, <3>1, <4>2, <5>3
      <4>3. CASE ~ (f <= to)
        BY <2>7, <4>3
      <4>4. QED
        BY <4>2, <4>3
    <3>3. DOMAIN sums'[e] = DOMAIN sums[e]
      BY <2>7
    <3>4. QED
      BY <1>2, <3>1, <3>2, <3>3 DEF SumInv, StateAt
  <2>12. CorrectionsInTime'
    BY <2>7 DEF CoreInv, CorrectionsInTime
  <2>13. CoreInv'
    BY <1>1, <1>8, <1>10, <1>11, <1>12, <1>14, <2>10, <2>11, <2>12 DEF CoreInv, EndInv
  <2>14. ASSUME NEW f \in 0 .. confirmed[e] PROVE sim'[e][f] = sim[e][f]
    <3>1. f < to /\ f \in 0 .. n - 1
      BY <1>1, <2>1, <2>2, <2>3
    <3>2. QED
      BY <2>7, <3>1
  <2>15. QED
    BY <2>13, <2>14
<1>18. CoreInv' /\ (\A f \in 0 .. confirmed[e] : sim'[e][f] = sim[e][f])
  BY <1>2, <1>16, <1>17
<1>19. SettledKept
  <2>1. Settled(p)' = Settled(p)
    BY <1>2, <1>6 DEF Settled
  <2>2. Settled(e) = IF confirmed[e] <= n - 1 THEN confirmed[e] ELSE n - 1
    BY <1>1, SettledIs
  <2>3. Settled(e)' = IF c <= n - 1 THEN c ELSE n - 1
    BY <1>1, <1>2, <1>6, <1>9, PairMin, n - 1 \in Int DEF Settled
  <2>4. Settled(e) <= Settled(e)' /\ Settled(e) <= confirmed[e] /\ Settled(p) \in Int
    BY <1>1, <1>3, <1>9, <2>2, <2>3, CoreTypes
  <2>5. \A f \in 0 .. Settled(e) : f \in 0 .. confirmed[e]
    BY <1>1, <2>2
  <2>6. QED
    BY <1>1, <1>2, <1>13, <1>18, <2>1, <2>4, <2>5 DEF SettledKept
<1>20. QED
  BY <1>18, <1>19

\* The other handlers leave the driver's arrays alone.
LEMMA QuietCore ==
  ASSUME CoreInv, PacketInv', UNCHANGED <<version, simVars, remote, confirmed, dropped>>
  PROVE  CoreInv' /\ SettledKept
<1>1. /\ version' = version /\ frame' = frame /\ local' = local /\ used' = used
      /\ sim' = sim /\ sums' = sums /\ remote' = remote /\ confirmed' = confirmed
      /\ dropped' = dropped
  BY DEF simVars
<1>2. Arrays' /\ CorrectionsInTime'
  BY <1>1 DEF CoreInv, Arrays, CorrectionsInTime
<1>3. ASSUME NEW e \in End PROVE EndInv(e)'
  <2>1. KnownInv(e) /\ ConfirmedInv(e) /\ FedInv(e) /\ WindowInv(e) /\ SumInv(e)
    BY CoreParts
  <2>2. KnownInv(e)' /\ ConfirmedInv(e)' /\ WindowInv(e)'
    BY <1>1, <2>1 DEF KnownInv, ConfirmedInv, WindowInv
  <2>3. FedInv(e)' /\ SumInv(e)'
    BY <1>1, <2>1 DEF FedInv, SumInv, StateAt
  <2>4. QED
    BY <2>2, <2>3 DEF EndInv
<1>4. SettledKept
  <2>1. \A q \in End : Settled(q)' = Settled(q) /\ Settled(q) \in Int /\ frame[q] \in Nat
    BY <1>1, CoreTypes DEF Settled
  <2>2. QED
    BY <1>1, <2>1 DEF SettledKept
<1>5. QED
  BY <1>2, <1>3, <1>4 DEF CoreInv

\* What a stalled or skipping end sends again is as true as the first time.
LEMMA ResendPackets ==
  ASSUME CoreInv, TickInv, NEW e \in End, ResendInputs(e), frame' = frame, local' = local
  PROVE  PacketInv'
<1> DEFINE p == Peer(e)
           through == sentInputsThrough[e]
           new == InputWindow(e, local[e], through)
<1>1. p \in End /\ Peer(p) = e /\ frame[e] \in Nat /\ INPUT_DELAY \in Nat
  BY EndFacts, CoreTypes
<1>2. through = IF frame[e] = 0 THEN -1 ELSE frame[e] + INPUT_DELAY - 1
  BY DEF TickInv
<1>3. PacketInv
  BY <1>1, CoreParts
<1>4. CASE through < 0
  BY <1>3, <1>4 DEF PacketInv, ResendInputs
<1>5. CASE ~ (through < 0)
  <2>1. /\ through \in Nat
        /\ through \in INPUT_DELAY .. frame[e] + INPUT_DELAY - 1
    BY <1>1, <1>2, <1>5
  <2>2. \A f \in Nat : At(local[e], f) \in Bits
    BY AtType, CoreParts, \A f \in Nat : f \in Int
  <2>3. /\ new.to = p /\ new.through = through
        /\ new.bits \in [DOMAIN new.bits -> Bits]
        /\ DOMAIN new.bits \subseteq 0 .. through
        /\ \A f \in DOMAIN new.bits : new.bits[f] = At(local[e], f)
    BY <2>1, <2>2, InputWindowFacts
  <2>4. packets' = packets \cup {new}
    BY <1>5 DEF ResendInputs
  <2>5. QED
    BY <1>1, <1>3, <2>1, <2>3, <2>4 DEF PacketInv
<1>6. QED
  BY <1>4, <1>5

\* Every step keeps the core invariant: one case for each action of Next.
LEMMA CoreStep ==
  ASSUME CoreInv, TickInv, [Next]_vars
  PROVE  CoreInv' /\ SettledKept
<1>1. PacketInv
  BY EndFacts, CoreParts DEF CoreInv
<1>2. ASSUME NEW e \in End, Stall(e) PROVE CoreInv' /\ SettledKept
  <2>1. /\ ResendInputs(e)
        /\ UNCHANGED <<version, simVars, remote, confirmed, dropped>>
    BY <1>2 DEF Stall
  <2>2. QED
    BY <2>1, ResendPackets, QuietCore DEF simVars
<1>3. ASSUME NEW e \in End, Skip(e) PROVE CoreInv' /\ SettledKept
  <2>1. /\ ResendInputs(e)
        /\ UNCHANGED <<version, simVars, remote, confirmed, dropped>>
    BY <1>3 DEF Skip
  <2>2. QED
    BY <2>1, ResendPackets, QuietCore DEF simVars
<1>4. ASSUME \/ \E e \in End : \/ \E m \in checksums : ReceiveChecksum(e, m)
                               \/ ReceiveHello(e) \/ ReceivePong(e) \/ ResetStats(e)
             \/ \E m \in packets : Lose(m)
             \/ UNCHANGED vars
      PROVE  CoreInv' /\ SettledKept
  <2>1. UNCHANGED <<version, simVars, remote, confirmed, dropped>> /\ packets' \subseteq packets
    BY <1>4 DEF ReceiveChecksum, ReceiveHello, ReceivePong, ResetStats, Lose, vars, simVars
  <2>2. PacketInv'
    BY <1>1, <2>1 DEF PacketInv, simVars
  <2>3. QED
    BY <2>1, <2>2, QuietCore
<1>5. QED
  BY <1>2, <1>3, <1>4, AdvanceCore, ReceiveCore DEF Next

-----------------------------------------------------------------------------
(* Logs, checksums and verdicts look at settled frames only. *)

\* The hash of a final state stays what it is.
LEMMA FinalHashKept ==
  ASSUME CoreInv, CoreInv', SettledKept, NEW q \in End, NEW f, NEW s, FinalHash(q, f, s)
  PROVE  FinalHash(q, f, s)'
<1>1. /\ f \in 1 .. frame[q] /\ f <= Settled(q) + 1 /\ s = StateAt(q, f)
      /\ frame[q] \in Nat /\ frame'[q] \in Nat
      /\ Settled(q) \in Int /\ Settled(q)' \in Int
  BY FinalsHold, FinalsNext DEF FinalHash, Finals
<1>2. /\ version' = version /\ Settled(q) <= Settled(q)' /\ frame[q] <= frame'[q]
      /\ \A g \in 0 .. Settled(q) : sim'[q][g] = sim[q][g]
  BY DEF SettledKept
<1>3. f \in 1 .. frame'[q] /\ f <= Settled(q)' + 1 /\ f \in Nat /\ f <= frame[q]
  BY <1>1, <1>2
<1>4. \A g \in 0 .. f - 1 : sim'[q][g] = sim[q][g]
  BY <1>1, <1>2
<1>5. DOMAIN sim[q] = 0 .. frame[q] - 1 /\ DOMAIN sim'[q] = 0 .. frame'[q] - 1
  BY DEF CoreInv, EndInv, FedInv
<1>6. Hash(version[q], sim'[q], f) = Hash(version[q], sim[q], f)
  <2>1. \A g \in 0 .. f - 1 : g \in 0 .. frame[q] - 1 /\ g \in 0 .. frame'[q] - 1
    BY <1>1, <1>2, <1>3
  <2>2. \A g \in 0 .. f - 1 :
          g \in DOMAIN sim[q] /\ g \in DOMAIN sim'[q] /\ sim'[q][g] = sim[q][g]
    BY <1>4, <1>5, <2>1
  <2>3. QED
    BY <2>2, HashKept
<1>7. QED
  BY <1>1, <1>2, <1>3, <1>6 DEF FinalHash, StateAt

\* settle(): logs, announces and judges nothing but what is final.
LEMMA SettleStep ==
  ASSUME CoreInv, CoreInv', SettledKept, SettledInv,
         NEW e \in End, NEW held, Settle(e, held),
         frame'[Peer(e)] = frame[Peer(e)], confirmed'[Peer(e)] = confirmed[Peer(e)],
         \A f \in DOMAIN held : FinalHash(Peer(e), f, held[f])
  PROVE  SettledInv'
<1> DEFINE p == Peer(e)
           final == confirmed'[e] + 1
           ours == sums'[e]
           due == {f \in DOMAIN ours :
                    /\ sentThrough[e] < f /\ f <= final
                    /\ \A g \in sentThrough[e] + 1 .. f :
                         g % CHECKSUM_EVERY = 0 => g \in DOMAIN ours}
           judged == {f \in DOMAIN held : f <= final} \cap DOMAIN ours
           stale == {f \in {f \in DOMAIN held : f <= final} \ judged :
                       f < final - CHECKSUM_EVERY * 4}
<1>1. p \in End /\ p # e /\ Peer(p) = e /\ (\A q \in End : q = e \/ q = p)
  BY EndFacts
<1>2. /\ Record(e)
      /\ checksums' = checksums \cup {ChecksumPacket(e, f, ours[f]) : f \in due}
      /\ sentThrough' = [sentThrough EXCEPT ![e] = Max({@} \cup due)]
      /\ theirSums' = [theirSums EXCEPT ![e] = Keep(held, DOMAIN held \ (judged \cup stale))]
      /\ verified' = [verified EXCEPT ![e] = @ \cup {f \in judged : ours[f] = held[f]}]
      /\ desynced' = [desynced EXCEPT ![e] = @ \cup {f \in judged : ours[f] # held[f]}]
  BY DEF Settle, FinalState
<1> HIDE DEF due, judged, stale
<1>3. Finals /\ Finals'
  BY FinalsHold, FinalsNext
<1>4. /\ DOMAIN log = End /\ DOMAIN theirSums = End /\ DOMAIN verified = End
      /\ DOMAIN desynced = End /\ DOMAIN sentThrough = End
      /\ LogInv(e) /\ HeldInv(e) /\ VerdictInv(e)
      /\ LogInv(p) /\ HeldInv(p) /\ VerdictInv(p)
      /\ AnnouncedInv
  BY <1>1 DEF SettledInv
<1>5. /\ version' = version
      /\ \A q \in End :
           /\ Settled(q) <= Settled(q)' /\ frame[q] <= frame'[q]
           /\ \A f \in 0 .. Settled(q) : sim'[q][f] = sim[q][f]
  BY DEF SettledKept
<1>6. \A q \in End : /\ frame[q] \in Nat /\ frame'[q] \in Nat /\ Settled(q) \in Int
                     /\ Settled(q)' \in Int /\ confirmed'[q] \in Int
                     /\ Settled(q)' >= -1 /\ Settled(q) >= -1
                     /\ DOMAIN sums[q] = {f \in 1 .. frame[q] : f % CHECKSUM_EVERY = 0}
                     /\ DOMAIN sums'[q] = {f \in 1 .. frame'[q] : f % CHECKSUM_EVERY = 0}
                     /\ \A f \in DOMAIN sums'[q] : sums'[q][f] = StateAt(q, f)'
  BY <1>3 DEF Finals, CoreInv, EndInv, SumInv
<1>7. \A q \in End : DOMAIN sums[q] \subseteq DOMAIN sums'[q]
  BY <1>5, <1>6
<1>8. Settled(p)' = Settled(p)
  BY DEF Settled
<1>9. /\ log'[p] = log[p] /\ theirSums'[p] = theirSums[p] /\ verified'[p] = verified[p]
      /\ desynced'[p] = desynced[p] /\ sentThrough'[p] = sentThrough[p]
      /\ DOMAIN log' = End /\ DOMAIN theirSums' = End /\ DOMAIN verified' = End
      /\ DOMAIN desynced' = End /\ DOMAIN sentThrough' = End
  BY <1>1, <1>2, <1>4 DEF Record
<1>10. LogInv(p)'
  BY <1>1, <1>4, <1>5, <1>8, <1>9 DEF LogInv
<1>11. LogInv(e)'
  <2>1. /\ DOMAIN log[e] = 0 .. Settled(e)
        /\ \A f \in 0 .. Settled(e) : log[e][f] = sim[e][f]
    BY <1>4 DEF LogInv
  <2>2. log'[e] = [f \in DOMAIN log[e] \cup 0 .. Settled(e)' |->
                     IF f \in DOMAIN log[e] THEN log[e][f]
                     ELSE Pair(e, At(local'[e], f), At(remote'[e], f))]
    BY <1>2, <1>4 DEF Record
  <2>3. 0 .. Settled(e) \cup 0 .. Settled(e)' = 0 .. Settled(e)'
    BY <1>5, <1>6
  <2>4. ASSUME NEW f \in 0 .. Settled(e)', f \notin 0 .. Settled(e)
        PROVE  log'[e][f] = sim'[e][f]
    <3>1. log'[e][f] = Pair(e, At(local'[e], f), At(remote'[e], f))
      BY <2>1, <2>2, <2>4
    <3>2. f \in 0 .. confirmed'[e]
      <4>1. Settled(e)' <= confirmed'[e]
        BY <1>3 DEF Finals
      <4>2. QED
        BY <1>6, <4>1
    <3>3. f \in DOMAIN remote'[e] /\ remote'[e][f] = At(local'[p], f)
      BY <3>2 DEF CoreInv, EndInv, KnownInv, ConfirmedInv
    <3>4. At(remote'[e], f) = At(local'[p], f)
      BY <3>3 DEF At
    <3>5. sim'[e][f] = Truth(f)'
      BY <1>3 DEF Finals
    <3>6. QED
      BY <3>1, <3>4, <3>5 DEF Pair, Truth, Peer, End
  <2>5. ASSUME NEW f \in 0 .. Settled(e) PROVE log'[e][f] = sim'[e][f]
    BY <1>5, <2>1, <2>2
  <2>6. log'[e] = [f \in 0 .. Settled(e)' |-> log'[e][f]]
    BY <2>1, <2>2, <2>3
  <2>7. QED
    BY <2>4, <2>5, <2>6 DEF LogInv
<1>12. HeldInv(p)'
  BY <1>1, <1>4, <1>9, FinalHashKept DEF HeldInv
<1>13. \A f \in DOMAIN held : FinalHash(p, f, held[f])'
  BY <1>1, FinalHashKept
<1>14. HeldInv(e)'
  <2>1. theirSums'[e] = Keep(held, DOMAIN held \ (judged \cup stale))
    BY <1>2, <1>4
  <2>2. \A f \in DOMAIN theirSums'[e] : f \in DOMAIN held /\ theirSums'[e][f] = held[f]
    BY <2>1 DEF Keep
  <2>3. QED
    BY <1>13, <2>2 DEF HeldInv
<1>15. VerdictInv(p)'
  BY <1>1, <1>4, <1>5, <1>6, <1>7, <1>9 DEF VerdictInv
<1>16. ASSUME NEW f \in judged
       PROVE  /\ f \in DOMAIN sums'[e]
              /\ f <= Settled(e)' + 1 /\ f <= Settled(p)' + 1 /\ f <= frame'[p]
              /\ ours[f] = held[f] <=> version[e] = version[p]
  <2>1. f \in DOMAIN held /\ f \in DOMAIN ours /\ f <= final
    BY DEF judged
  <2>2. f \in 1 .. frame'[e] /\ ours[f] = StateAt(e, f)'
    BY <1>6, <2>1
  <2>3. f <= Settled(e)' + 1
    <3>1. Settled(e)' = confirmed'[e] \/ Settled(e)' = frame'[e] - 1
      BY <1>3 DEF Finals
    <3>2. QED
      BY <1>6, <2>1, <2>2, <3>1
  <2>4. f \in 1 .. frame'[p] /\ f <= Settled(p)' + 1 /\ held[f] = StateAt(p, f)'
    BY <1>13, <2>1 DEF FinalHash
  <2>5. /\ ours[f] = [version |-> version'[e], inputs |-> [g \in 0 .. f - 1 |-> Truth(g)']]
        /\ held[f] = [version |-> version'[p], inputs |-> [g \in 0 .. f - 1 |-> Truth(g)']]
    BY <1>1, <1>3, <2>2, <2>3, <2>4 DEF Finals
  <2>6. f <= frame'[p]
    BY <1>1, <1>6, <2>4
  <2>7. ours[f] = held[f] <=> version'[e] = version'[p]
    <3> DEFINE truth == [g \in 0 .. f - 1 |-> Truth(g)']
    <3>1. [version |-> version'[e], inputs |-> truth].version = version'[e]
          /\ [version |-> version'[p], inputs |-> truth].version = version'[p]
      OBVIOUS
    <3>2. ours[f].version = version'[e] /\ held[f].version = version'[p]
      BY <2>5, <3>1, Zenon
    <3>3. version'[e] = version'[p] => ours[f] = held[f]
      BY <2>5, Zenon
    <3>4. QED
      BY <3>2, <3>3
  <2>8. version' = version /\ f \in DOMAIN sums'[e]
    BY <1>5, <2>1
  <2>9. QED
    BY <2>3, <2>4, <2>6, <2>7, <2>8
<1>17. version[e] = version[p] <=> version[0] = version[1]
  BY DEF Peer, End
<1>18. VerdictInv(e)'
  <2>1. /\ verified'[e] = verified[e] \cup {f \in judged : ours[f] = held[f]}
        /\ desynced'[e] = desynced[e] \cup {f \in judged : ours[f] # held[f]}
    BY <1>2, <1>4
  <2>2. verified'[e] \cup desynced'[e] \subseteq DOMAIN sums'[e]
    BY <1>4, <1>7, <1>16, <2>1 DEF VerdictInv
  <2>3. ASSUME NEW f \in verified'[e]
        PROVE  /\ version'[0] = version'[1]
               /\ f <= Settled(e)' + 1 /\ f <= Settled(p)' + 1 /\ f <= frame'[p]
    <3>1. CASE f \in judged /\ ours[f] = held[f]
      BY <1>5, <1>16, <1>17, <3>1
    <3>2. CASE f \in verified[e]
      <4>1. /\ version[0] = version[1] /\ f \in DOMAIN sums[e]
            /\ f <= Settled(e) + 1 /\ f <= Settled(p) + 1 /\ f <= frame[p]
        BY <1>4, <3>2 DEF VerdictInv
      <4>2. f \in Int
        BY <1>6, <4>1
      <4>3. QED
        BY <1>1, <1>5, <1>6, <4>1, <4>2
    <3>3. QED
      BY <2>1, <3>1, <3>2
  <2>4. desynced'[e] # {} => version'[0] # version'[1]
    BY <1>4, <1>5, <1>16, <1>17, <2>1 DEF VerdictInv
  <2>5. QED
    BY <2>2, <2>3, <2>4 DEF VerdictInv
<1>19. AnnouncedInv'
  <2>1. ASSUME NEW m \in checksums' PROVE m.to \in End /\ FinalHash(Peer(m.to), m.frame, m.sum)'
    <3>1. CASE m \in checksums
      <4>1. m.to \in End /\ FinalHash(Peer(m.to), m.frame, m.sum)
        BY <1>4, <3>1 DEF AnnouncedInv
      <4>2. Peer(m.to) \in End
        BY <4>1, EndFacts
      <4>3. QED
        BY <4>1, <4>2, FinalHashKept
    <3>2. CASE m \notin checksums
      <4>1. PICK f \in due : m = ChecksumPacket(e, f, ours[f])
        BY <1>2, <3>2
      <4>2. m.to = p /\ m.frame = f /\ m.sum = ours[f]
        BY <4>1 DEF ChecksumPacket
      <4>3. f \in DOMAIN ours /\ f <= final
        BY DEF due
      <4>4. f \in 1 .. frame'[e] /\ ours[f] = StateAt(e, f)'
        BY <1>6, <4>3
      <4>5. Settled(e)' = confirmed'[e] \/ Settled(e)' = frame'[e] - 1
        BY <1>3 DEF Finals
      <4>6. f <= Settled(e)' + 1
        BY <1>6, <4>3, <4>4, <4>5
      <4>7. QED
        BY <1>1, <4>2, <4>4, <4>6 DEF FinalHash
    <3>3. QED
      BY <3>1, <3>2
  <2>2. sentThrough'[e] \in 0 .. frame'[e]
    <3>1. sentThrough[e] \in 0 .. frame[e]
      BY <1>4 DEF AnnouncedInv
    <3>2. {sentThrough[e]} \cup due \in SUBSET (0 .. frame'[e])
      <4>1. due \subseteq 0 .. frame'[e]
        BY <1>6 DEF due
      <4>2. sentThrough[e] \in 0 .. frame'[e]
        BY <1>5, <1>6, <3>1
      <4>3. QED
        BY <4>1, <4>2
    <3>3. Max({sentThrough[e]} \cup due) \in {sentThrough[e]} \cup due
      BY <1>6, <3>2, IntervalMax, 0 \in Int, frame'[e] \in Int
    <3>4. sentThrough'[e] = Max({sentThrough[e]} \cup due)
      BY <1>2, <1>4
    <3>5. QED
      BY <3>2, <3>3, <3>4
  <2>3. sentThrough'[p] \in 0 .. frame'[p]
    BY <1>1, <1>4, <1>9 DEF AnnouncedInv
  <2>4. QED
    BY <1>1, <2>1, <2>2, <2>3 DEF AnnouncedInv
<1>20. QED
  BY <1>1, <1>9, <1>10, <1>11, <1>12, <1>14, <1>15, <1>18, <1>19 DEF SettledInv

\* A step that leaves the sim and the confirmed line alone settles nothing.
LEMMA QuietSettled ==
  ASSUME CoreInv, CoreInv', SettledKept, SettledInv,
         UNCHANGED <<sumVars, simVars, version, confirmed>>
  PROVE  SettledInv'
<1>1. /\ frame' = frame /\ sim' = sim /\ sums' = sums /\ confirmed' = confirmed
      /\ version' = version /\ theirSums' = theirSums /\ sentThrough' = sentThrough
      /\ verified' = verified /\ desynced' = desynced /\ log' = log /\ checksums' = checksums
  BY DEF sumVars, simVars
<1>2. \A q \in End : Settled(q)' = Settled(q)
  BY <1>1 DEF Settled
<1>3. ASSUME NEW e \in End PROVE LogInv(e)' /\ HeldInv(e)' /\ VerdictInv(e)'
  <2>1. LogInv(e) /\ HeldInv(e) /\ VerdictInv(e) /\ Peer(e) \in End
    BY EndFacts DEF SettledInv
  <2>2. LogInv(e)'
    BY <1>1, <1>2, <2>1 DEF LogInv
  <2>3. HeldInv(e)'
    BY <1>1, <2>1, FinalHashKept DEF HeldInv
  <2>4. VerdictInv(e)'
    BY <1>1, <1>2, <2>1 DEF VerdictInv
  <2>5. QED
    BY <2>2, <2>3, <2>4
<1>4. AnnouncedInv'
  BY <1>1, EndFacts, FinalHashKept DEF SettledInv, AnnouncedInv
<1>5. QED
  BY <1>1, <1>3, <1>4 DEF SettledInv

\* No step changes the inputs of a frame that was settled before it.
LEMMA SettledStep ==
  ASSUME CoreInv, CoreInv', SettledKept, SettledInv, [Next]_vars
  PROVE  SettledInv'
<1>1. ASSUME NEW e \in End, NEW bits \in Bits, Advance(e, bits) PROVE SettledInv'
  <2>1. Peer(e) \in End /\ Peer(e) # e
    BY EndFacts
  <2>2. /\ frame' = [frame EXCEPT ![e] = frame[e] + 1] /\ confirmed' = confirmed
        /\ Settle(e, theirSums[e])
    BY <1>1 DEF Advance
  <2>3. frame'[Peer(e)] = frame[Peer(e)] /\ confirmed'[Peer(e)] = confirmed[Peer(e)]
    BY <2>1, <2>2 DEF CoreInv, Arrays
  <2>4. \A f \in DOMAIN theirSums[e] : FinalHash(Peer(e), f, theirSums[e][f])
    BY DEF SettledInv, HeldInv
  <2>5. QED
    BY <2>2, <2>3, <2>4, SettleStep
<1>2. ASSUME NEW e \in End, NEW m \in packets, ReceiveInputs(e, m) PROVE SettledInv'
  <2>1. Peer(e) \in End /\ Peer(e) # e
    BY EndFacts
  <2>2. /\ frame' = frame /\ \E c : confirmed' = [confirmed EXCEPT ![e] = c]
        /\ Settle(e, theirSums[e])
    BY <1>2 DEF ReceiveInputs
  <2>3. frame'[Peer(e)] = frame[Peer(e)] /\ confirmed'[Peer(e)] = confirmed[Peer(e)]
    BY <2>1, <2>2 DEF CoreInv, Arrays
  <2>4. \A f \in DOMAIN theirSums[e] : FinalHash(Peer(e), f, theirSums[e][f])
    BY DEF SettledInv, HeldInv
  <2>5. QED
    BY <2>2, <2>3, <2>4, SettleStep
<1>3. ASSUME NEW e \in End, NEW m \in checksums, ReceiveChecksum(e, m) PROVE SettledInv'
  <2> DEFINE held == Put(theirSums[e], m.frame, m.sum)
  <2>1. m.to = e /\ frame' = frame /\ confirmed' = confirmed /\ Settle(e, held)
    BY <1>3 DEF ReceiveChecksum, simVars
  <2>2. FinalHash(Peer(e), m.frame, m.sum)
    BY <2>1 DEF SettledInv, AnnouncedInv
  <2>3. \A f \in DOMAIN theirSums[e] : FinalHash(Peer(e), f, theirSums[e][f])
    BY DEF SettledInv, HeldInv
  <2>4. \A f \in DOMAIN held : \/ f = m.frame /\ held[f] = m.sum
                               \/ f \in DOMAIN theirSums[e] /\ held[f] = theirSums[e][f]
    BY DEF Put
  <2>5. \A f \in DOMAIN held : FinalHash(Peer(e), f, held[f])
    BY <2>2, <2>3, <2>4
  <2> HIDE DEF held
  <2>6. QED
    BY <2>1, <2>5, SettleStep
<1>4. ASSUME \/ \E e \in End : \/ Stall(e) \/ Skip(e)
                               \/ ReceiveHello(e) \/ ReceivePong(e) \/ ResetStats(e)
             \/ \E m \in packets : Lose(m)
             \/ UNCHANGED vars
      PROVE  SettledInv'
  <2>1. UNCHANGED <<sumVars, simVars, version, confirmed>>
    BY <1>4 DEF Stall, Skip, ReceiveHello, ReceivePong, ResetStats, Lose, vars, sumVars, simVars
  <2>2. QED
    BY <2>1, QuietSettled
<1>5. QED
  BY <1>1, <1>2, <1>3, <1>4 DEF Next

-----------------------------------------------------------------------------
LEMMA TickStep ==
  ASSUME CoreInv, TickInv, [Next]_vars
  PROVE  TickInv'
<1>1. ASSUME NEW e \in End, NEW bits \in Bits, Advance(e, bits) PROVE TickInv'
  <2>1. /\ Peer(e) \in End /\ Peer(e) # e /\ Peer(Peer(e)) = e
        /\ \A q \in End : q = e \/ q = Peer(e)
        /\ \A q \in End : frame[q] \in Nat
        /\ INPUT_DELAY \in Nat
    BY EndFacts, CoreTypes
  <2>2. /\ frame' = [frame EXCEPT ![e] = frame[e] + 1]
        /\ sentInputsThrough' = [sentInputsThrough EXCEPT ![e] = frame[e] + INPUT_DELAY]
        /\ UNCHANGED <<theirFrame, flight, lastSkip, mismatch, lost>>
    BY <1>1 DEF Advance
  <2>3. /\ frame'[e] = frame[e] + 1 /\ frame'[Peer(e)] = frame[Peer(e)]
    BY <2>1, <2>2 DEF CoreInv, Arrays
  <2>4. /\ sentInputsThrough'[e] = frame[e] + INPUT_DELAY
        /\ sentInputsThrough'[Peer(e)] = sentInputsThrough[Peer(e)]
    BY <2>1, <2>2 DEF TickInv
  <2>5. sentInputsThrough'[e] = IF frame'[e] = 0 THEN -1 ELSE frame'[e] + INPUT_DELAY - 1
    BY <2>1, <2>3, <2>4
  <2>6. \A q \in End : theirFrame[q] \in -1 .. frame[Peer(q)] - 1
    BY DEF TickInv
  <2>7. theirFrame'[e] \in -1 .. frame'[Peer(e)] - 1
    BY <2>2, <2>3, <2>6
  <2>8. theirFrame'[Peer(e)] \in -1 .. frame'[e] - 1
    BY <2>1, <2>2, <2>3, <2>6
  <2>9. \A q \in End :
          /\ sentInputsThrough'[q] =
               IF frame'[q] = 0 THEN -1 ELSE frame'[q] + INPUT_DELAY - 1
          /\ theirFrame'[q] \in -1 .. frame'[Peer(q)] - 1
    BY <2>1, <2>3, <2>4, <2>5, <2>7, <2>8 DEF TickInv
  <2>10. QED
    BY <2>2, <2>9 DEF TickInv
<1>2. ASSUME NEW e \in End, NEW m \in packets, ReceiveInputs(e, m) PROVE TickInv'
  <2>1. /\ m.to = e /\ frame' = frame
        /\ theirFrame' = [theirFrame EXCEPT ![e] = Max({@, m.through - INPUT_DELAY})]
        /\ UNCHANGED <<sentInputsThrough, flight, lastSkip, mismatch, lost>>
    BY <1>2 DEF ReceiveInputs
  <2>2. /\ frame[Peer(e)] \in Nat /\ INPUT_DELAY \in Nat
        /\ theirFrame[e] \in -1 .. frame[Peer(e)] - 1
    BY EndFacts, CoreTypes DEF TickInv
  <2>3. m.through \in INPUT_DELAY .. frame[Peer(e)] + INPUT_DELAY - 1
    BY <2>1, CoreParts DEF PacketInv
  <2>4. m.through - INPUT_DELAY \in -1 .. frame[Peer(e)] - 1
    BY <2>2, <2>3
  <2>5. Max({theirFrame[e], m.through - INPUT_DELAY}) \in -1 .. frame[Peer(e)] - 1
    BY <2>2, <2>4, PairMax, \A x \in -1 .. frame[Peer(e)] - 1 : x \in Int
  <2>6. theirFrame'[e] = Max({theirFrame[e], m.through - INPUT_DELAY})
    BY <2>1 DEF TickInv
  <2>7. \A q \in End : theirFrame'[q] \in -1 .. frame[Peer(q)] - 1
    <3>1. \A q \in End : q # e => theirFrame'[q] = theirFrame[q]
      BY <2>1 DEF TickInv
    <3>2. QED
      BY <2>5, <2>6, <3>1 DEF TickInv
  <2>8. QED
    BY <2>1, <2>7 DEF TickInv
<1>3. ASSUME NEW e \in End, Skip(e) PROVE TickInv'
  <2>1. /\ frame' = frame /\ lastSkip' = [lastSkip EXCEPT ![e] = frame[e]]
        /\ UNCHANGED <<sentInputsThrough, theirFrame, flight, mismatch, lost>>
    BY <1>3 DEF Skip, simVars
  <2>2. frame[e] \in -SKIP_EVERY .. MaxFrame
    BY NumbersAssumption DEF CoreInv, Arrays
  <2>3. QED
    BY <2>1, <2>2 DEF TickInv
<1>4. ASSUME NEW e \in End, ReceiveHello(e) PROVE TickInv'
  <2>1. /\ frame' = frame
        /\ mismatch' = [mismatch EXCEPT ![e] = @ \/ version[Peer(e)] # version[e]]
        /\ UNCHANGED <<sentInputsThrough, theirFrame, flight, lastSkip, lost>>
    BY <1>4 DEF ReceiveHello, simVars
  <2>2. mismatch \in [End -> BOOLEAN] => mismatch' \in [End -> BOOLEAN]
    BY <2>1, Zenon
  <2>3. QED
    BY <2>1, <2>2 DEF TickInv
<1>5. ASSUME NEW e \in End, ReceivePong(e) PROVE TickInv'
  <2>1. PICK d \in Flights : flight' = [flight EXCEPT ![e] = d]
    BY <1>5 DEF ReceivePong
  <2>2. UNCHANGED <<frame, sentInputsThrough, theirFrame, lastSkip, mismatch, lost>>
    BY <1>5 DEF ReceivePong, simVars
  <2>3. QED
    BY <2>1, <2>2 DEF TickInv
<1>6. ASSUME NEW e \in End, ResetStats(e) PROVE TickInv'
  <2>1. /\ flight' = [flight EXCEPT ![e] = NoRtt]
        /\ UNCHANGED <<frame, sentInputsThrough, theirFrame, lastSkip, mismatch, lost>>
    BY <1>6 DEF ResetStats, simVars
  <2>2. QED
    BY <2>1 DEF TickInv
<1>7. ASSUME NEW m \in packets, Lose(m) PROVE TickInv'
  <2>1. /\ lost < MaxLost /\ lost' = lost + 1
        /\ UNCHANGED <<frame, sentInputsThrough, theirFrame, flight, lastSkip, mismatch>>
    BY <1>7 DEF Lose, simVars
  <2>2. QED
    BY <2>1, NumbersAssumption DEF TickInv
<1>8. ASSUME \/ \E e \in End : Stall(e) \/ \E m \in checksums : ReceiveChecksum(e, m)
             \/ UNCHANGED vars
      PROVE  TickInv'
  <2>1. UNCHANGED <<frame, sentInputsThrough, theirFrame, flight, lastSkip, mismatch, lost>>
    BY <1>8 DEF Stall, ReceiveChecksum, vars, simVars
  <2>2. QED
    BY <2>1 DEF TickInv
<1>9. QED
  BY <1>1, <1>2, <1>3, <1>4, <1>5, <1>6, <1>7, <1>8 DEF Next

-----------------------------------------------------------------------------
(* The inductive invariant holds of every behaviour. *)

\* The inductive invariant holds when the driver is created.
LEMMA InitInv == Init => IInv
<1> SUFFICES ASSUME Init PROVE IInv
  OBVIOUS
<1>1. INPUT_DELAY \in Nat /\ MAX_ROLLBACK \in Nat /\ MaxFrame \in Nat /\ SKIP_EVERY \in Nat
      /\ MaxLost \in Nat
  BY NumbersAssumption
<1>2. ASSUME NEW e \in End
      PROVE  /\ frame[e] = 0 /\ confirmed[e] = -1 /\ local[e] = Nothing /\ remote[e] = Nothing
             /\ used[e] = Nothing /\ sim[e] = Nothing /\ sums[e] = Nothing /\ log[e] = Nothing
             /\ theirSums[e] = Nothing /\ verified[e] = {} /\ desynced[e] = {}
             /\ sentThrough[e] = 0 /\ sentInputsThrough[e] = -1 /\ theirFrame[e] = -1
             /\ dropped[e] = 0
  BY DEF Init
<1>3. DOMAIN Nothing = {} /\ (\A S : Nothing \in [{} -> S])
  BY DEF Nothing
<1>4. \A e \in End : Settled(e) = -1
  <2>1. \A e \in End : frame[e] \in Nat /\ confirmed[e] \in Int
    BY <1>2
  <2>2. QED
    BY <1>2, <2>1, SettledIs
<1>5. Arrays
  <2>1. /\ version \in [End -> Versions] /\ frame \in [End -> 0 .. MaxFrame]
        /\ confirmed \in [End -> Int] /\ dropped \in [End -> Nat]
        /\ DOMAIN local = End /\ DOMAIN remote = End /\ DOMAIN used = End
        /\ DOMAIN sim = End /\ DOMAIN sums = End
    BY <1>1 DEF Init
  <2>2. INPUT_DELAY .. 0 + INPUT_DELAY - 1 = {}
    BY <1>1
  <2>3. QED
    BY <1>2, <1>3, <2>1, <2>2 DEF Arrays
<1>6. ASSUME NEW e \in End PROVE EndInv(e)
  <2>1. KnownInv(e)
    BY <1>2, <1>3 DEF KnownInv
  <2>2. ConfirmedInv(e)
    <3>1. /\ Peer(e) \in End /\ -1 \in -1 .. 0 + INPUT_DELAY - 1 /\ 0 .. -1 = {}
      BY <1>1, EndFacts
    <3>2. QED
      BY <1>2, <1>3, <3>1 DEF ConfirmedInv
  <2>3. FedInv(e)
    <3>1. 0 .. 0 - 1 = {}
      OBVIOUS
    <3>2. Nothing = [f \in {} |-> Pair(e, At(local[e], f), used[e][f])]
      BY DEF Nothing
    <3>3. QED
      BY <1>2, <1>3, <3>1, <3>2 DEF FedInv
  <2>4. WindowInv(e)
    BY <1>1, <1>2 DEF WindowInv
  <2>5. SumInv(e)
    BY <1>2, <1>3 DEF SumInv
  <2>6. QED
    BY <2>1, <2>2, <2>3, <2>4, <2>5 DEF EndInv
<1>7. CoreInv
  BY <1>2, <1>5, <1>6 DEF CoreInv, PacketInv, CorrectionsInTime, Init
<1>8. ASSUME NEW e \in End PROVE LogInv(e) /\ HeldInv(e) /\ VerdictInv(e)
  <2>1. 0 .. -1 = {} /\ Nothing = [f \in {} |-> sim[e][f]]
    BY DEF Nothing
  <2>2. QED
    BY <1>2, <1>3, <1>4, <2>1 DEF LogInv, HeldInv, VerdictInv
<1>9. SettledInv
  <2>1. AnnouncedInv
    BY <1>2 DEF AnnouncedInv, Init
  <2>2. QED
    BY <1>8, <2>1 DEF SettledInv, Init
<1>10. TickInv
  <2>1. \A e \in End : Peer(e) \in End
    BY EndFacts
  <2>2. -SKIP_EVERY \in -SKIP_EVERY .. MaxFrame /\ 0 \in 0 .. MaxLost
    BY <1>1
  <2>3. QED
    BY <1>2, <2>1, <2>2 DEF TickInv, Init
<1>11. QED
  BY <1>7, <1>9, <1>10 DEF IInv

\* Every step keeps the inductive invariant, and the settled frames as they are.
LEMMA InvStep == IInv /\ [Next]_vars => IInv' /\ SettledKept
<1> SUFFICES ASSUME IInv, [Next]_vars PROVE IInv' /\ SettledKept
  OBVIOUS
<1>1. CoreInv' /\ SettledKept
  BY CoreStep DEF IInv
<1>2. SettledInv'
  BY <1>1, SettledStep DEF IInv
<1>3. TickInv'
  BY TickStep DEF IInv
<1>4. QED
  BY <1>1, <1>2, <1>3 DEF IInv

\* The inductive invariant, from which everything below follows.
THEOREM Invariant == Spec => []IInv
  BY InitInv, InvStep, PTL DEF Spec

-----------------------------------------------------------------------------
(* The properties. *)

\* The inductive invariant implies the properties the runs check.
LEMMA InvFacts ==
  ASSUME IInv
  PROVE  /\ CoreInv /\ SettledInv /\ TickInv /\ Finals /\ Arrays
         /\ \A e \in End :
              /\ KnownInv(e) /\ FedInv(e) /\ SumInv(e)
              /\ LogInv(e) /\ HeldInv(e) /\ VerdictInv(e)
  BY FinalsHold, CoreParts DEF IInv, SettledInv, CoreInv, EndInv

\* Every variable stays in its range: the arrays of the driver have exactly
\* the places the frames they are about call for.
THEOREM TypesHold == Spec => []TypeOK
<1>1. IInv => TypeOK
  <2> SUFFICES ASSUME IInv PROVE TypeOK
    OBVIOUS
  <2>1. /\ Arrays /\ TickInv /\ SettledInv
        /\ confirmed \in [End -> Int] /\ dropped \in [End -> Nat]
    BY InvFacts DEF Arrays
  <2>2. ASSUME NEW e \in End
        PROVE  /\ local[e] \in [INPUT_DELAY .. frame[e] + INPUT_DELAY - 1 -> Bits]
               /\ DOMAIN remote[e] \subseteq 0 .. frame[Peer(e)] + INPUT_DELAY - 1
               /\ remote[e] \in [DOMAIN remote[e] -> Bits]
               /\ used[e] \in [0 .. frame[e] - 1 -> Bits]
               /\ sim[e] \in Histories(frame[e])
               /\ DOMAIN sums[e] = {f \in 1 .. frame[e] : f % CHECKSUM_EVERY = 0}
               /\ DOMAIN log[e] = 0 .. Settled(e)
               /\ log[e] \in [DOMAIN log[e] -> Pairs]
               /\ DOMAIN theirSums[e] \subseteq 1 .. frame[Peer(e)]
               /\ verified[e] \cup desynced[e] \subseteq DOMAIN sums[e]
               /\ sentThrough[e] \in 0 .. frame[e]
               /\ sentInputsThrough[e] =
                    IF frame[e] = 0 THEN -1 ELSE frame[e] + INPUT_DELAY - 1
               /\ theirFrame[e] \in -1 .. frame[Peer(e)] - 1
    <3>1. /\ KnownInv(e) /\ FedInv(e) /\ SumInv(e) /\ LogInv(e) /\ HeldInv(e) /\ VerdictInv(e)
          /\ Arrays /\ TickInv /\ AnnouncedInv /\ frame[e] \in Nat
          /\ Settled(e) \in Int /\ Settled(e) <= frame[e] - 1
      BY InvFacts DEF Finals, SettledInv
    <3>2. /\ sim[e] = [f \in 0 .. frame[e] - 1 |-> Pair(e, At(local[e], f), used[e][f])]
          /\ used[e] \in [0 .. frame[e] - 1 -> Bits]
      BY <3>1 DEF FedInv
    <3>3. \A f \in 0 .. frame[e] - 1 : Pair(e, At(local[e], f), used[e][f]) \in Pairs
      <4>1. \A f \in 0 .. frame[e] - 1 : At(local[e], f) \in Bits /\ used[e][f] \in Bits
        BY <3>1, <3>2, AtType
      <4>2. QED
        BY <4>1 DEF Pair, Pairs
    <3>4. sim[e] \in [0 .. frame[e] - 1 -> Pairs]
      BY <3>2, <3>3
    <3>5. \A f \in 0 .. Settled(e) : sim[e][f] \in Pairs
      BY <3>1, <3>4
    <3>6. DOMAIN log[e] = 0 .. Settled(e) /\ log[e] \in [0 .. Settled(e) -> Pairs]
      BY <3>1, <3>5 DEF LogInv
    <3>7. DOMAIN theirSums[e] \subseteq 1 .. frame[Peer(e)]
      BY <3>1 DEF HeldInv, FinalHash
    <3>8. local[e] \in [INPUT_DELAY .. frame[e] + INPUT_DELAY - 1 -> Bits]
      BY <3>1 DEF Arrays
    <3>9. /\ sentThrough[e] \in 0 .. frame[e]
          /\ verified[e] \cup desynced[e] \subseteq DOMAIN sums[e]
          /\ DOMAIN sums[e] = {f \in 1 .. frame[e] : f % CHECKSUM_EVERY = 0}
      BY <3>1 DEF AnnouncedInv, VerdictInv, SumInv
    <3>10. /\ DOMAIN remote[e] \subseteq 0 .. frame[Peer(e)] + INPUT_DELAY - 1
           /\ remote[e] \in [DOMAIN remote[e] -> Bits]
      BY <3>1 DEF KnownInv
    <3>11. /\ sentInputsThrough[e] =
                IF frame[e] = 0 THEN -1 ELSE frame[e] + INPUT_DELAY - 1
           /\ theirFrame[e] \in -1 .. frame[Peer(e)] - 1
      BY <3>1 DEF TickInv
    <3>12. QED
      BY <3>2, <3>4, <3>6, <3>7, <3>8, <3>9, <3>10, <3>11 DEF Histories
  <2>3. QED
    BY <2>1, <2>2 DEF TypeOK, Arrays, TickInv, SettledInv
<1>2. QED
  BY <1>1, Invariant, PTL

\* Whatever an end knows of the other's input is what the other plays there.
THEOREM InputsHold == Spec => []InputDecidedOnce
<1>1. IInv => InputDecidedOnce
  BY InvFacts DEF InputDecidedOnce, KnownInv
<1>2. QED
  BY <1>1, Invariant, PTL

\* The two replay logs never contradict each other.
THEOREM LogsHold == Spec => []LogsAgree
<1>1. IInv => LogsAgree
  <2> SUFFICES ASSUME IInv, NEW f \in DOMAIN log[0] \cap DOMAIN log[1]
               PROVE  log[0][f] = log[1][f]
    BY DEF LogsAgree
  <2>1. ASSUME NEW e \in End, f \in DOMAIN log[e] PROVE log[e][f] = Truth(f)
    <3>1. LogInv(e) /\ Finals
      BY InvFacts
    <3>2. f \in 0 .. Settled(e) /\ log[e][f] = sim[e][f]
      BY <2>1, <3>1 DEF LogInv
    <3>3. QED
      BY <3>1, <3>2 DEF Finals
  <2>2. QED
    BY <2>1 DEF End
<1>2. QED
  BY <1>1, Invariant, PTL

\* The log replays to the state the player saw.
THEOREM LogRuns == Spec => []LogIsWhatRan
<1>1. IInv => LogIsWhatRan
  BY InvFacts DEF LogIsWhatRan, LogInv
<1>2. QED
  BY <1>1, Invariant, PTL

\* The rewind a correction asks for is never refused.
THEOREM CorrectionsHold == Spec => []CorrectionsInTime
<1>1. IInv => CorrectionsInTime
  BY DEF IInv, CoreInv
<1>2. QED
  BY <1>1, Invariant, PTL

\* A verdict on a checkpoint is sound.
THEOREM VerdictsHold == Spec => []VerdictsSound
<1>1. IInv => VerdictsSound
  <2> SUFFICES ASSUME IInv, NEW e \in End
               PROVE  /\ \A f \in verified[e] : StateAt(0, f) = StateAt(1, f)
                      /\ \A f \in desynced[e] : version[0] # version[1]
    BY DEF VerdictsSound
  <2>1. VerdictInv(e) /\ Finals /\ SumInv(e) /\ 0 \in End /\ 1 \in End
    BY InvFacts DEF End
  <2>2. ASSUME NEW f \in verified[e] PROVE StateAt(0, f) = StateAt(1, f)
    <3>1. /\ version[0] = version[1] /\ f \in 1 .. frame[e]
          /\ f <= Settled(e) + 1 /\ f <= Settled(Peer(e)) + 1 /\ f <= frame[Peer(e)]
      BY <2>1 DEF VerdictInv, SumInv
    <3>2. /\ f <= Settled(0) + 1 /\ f <= Settled(1) + 1
          /\ f \in 1 .. frame[0] /\ f \in 1 .. frame[1]
      BY <2>1, <3>1 DEF Peer, End, Finals
    <3>3. QED
      BY <2>1, <3>1, <3>2 DEF Finals
  <2>3. QED
    BY <2>1, <2>2 DEF VerdictInv
<1>2. QED
  BY <1>1, Invariant, PTL

\* A settled frame is never simulated again with other inputs.
THEOREM SettledHolds == Spec => SettledIsFinal
<1>1. IInv /\ [Next]_vars =>
        [\A e \in End : \A f \in 0 .. Settled(e) : sim'[e][f] = sim[e][f]]_vars
  BY InvStep DEF SettledKept
<1>2. QED
  BY <1>1, Invariant, PTL DEF Spec, SettledIsFinal

-----------------------------------------------------------------------------
(* Netplay implements Lockstep: over a channel that loses, repeats and        *)
(* reorders, with both ends guessing, every step of the driver is a step of   *)
(* the match two players would have without a network, or none at all.        *)

\* The state of Lockstep that a state of Netplay stands for.
Decided == [e \in End |-> [i \in 1 .. frame[e] + INPUT_DELAY |-> At(local[e], i - 1)]]
Replays == [e \in End |-> [i \in 1 .. Settled(e) + 1 |-> log[e][i - 1]]]

\* The logs are what the decided inputs make up, as far as both are decided.
Shown ==
  \A e \in End :
    /\ Replays[e] = [i \in 1 .. Settled(e) + 1 |-> <<Decided[0][i], Decided[1][i]>>]
    /\ Len(Replays[e]) = Settled(e) + 1
    /\ Len(Decided[e]) = frame[e] + INPUT_DELAY
    /\ \A q \in End : Settled(e) + 1 <= frame[q] + INPUT_DELAY

\* What the refinement mapping shows of a state: two logs over decided inputs.
LEMMA ShownHolds == IInv => Shown
<1> SUFFICES ASSUME IInv, NEW e \in End
             PROVE  /\ Replays[e] = [i \in 1 .. Settled(e) + 1 |-> <<Decided[0][i], Decided[1][i]>>]
                    /\ Len(Replays[e]) = Settled(e) + 1
                    /\ Len(Decided[e]) = frame[e] + INPUT_DELAY
                    /\ \A q \in End : Settled(e) + 1 <= frame[q] + INPUT_DELAY
  BY DEF Shown
<1>1. /\ Finals /\ LogInv(e) /\ 0 \in End /\ 1 \in End /\ INPUT_DELAY \in Nat
      /\ CoreInv /\ Peer(e) \in End /\ (\A q \in End : q = e \/ q = Peer(e))
  BY InvFacts, EndFacts, NumbersAssumption DEF End
<1>2. /\ frame[e] \in Nat /\ frame[Peer(e)] \in Nat /\ Settled(e) \in Int /\ Settled(e) >= -1
      /\ Settled(e) <= confirmed[e] /\ Settled(e) <= frame[e] - 1 /\ confirmed[e] \in Int
  BY <1>1 DEF Finals
<1>3. confirmed[e] <= frame[Peer(e)] + INPUT_DELAY - 1
  <2>1. confirmed[e] \in -1 .. frame[Peer(e)] + INPUT_DELAY - 1
    BY <1>1, CoreParts DEF ConfirmedInv
  <2>2. QED
    BY <1>1, <1>2, <2>1
<1>4. \A q \in End : Settled(e) + 1 <= frame[q] + INPUT_DELAY /\ frame[q] \in Nat
  <2>1. Settled(e) + 1 <= frame[e] + INPUT_DELAY
    BY <1>1, <1>2
  <2>2. Settled(e) + 1 <= frame[Peer(e)] + INPUT_DELAY
    BY <1>1, <1>2, <1>3
  <2>3. QED
    BY <1>1, <1>2, <2>1, <2>2
<1>5. ASSUME NEW i \in 1 .. Settled(e) + 1
      PROVE  log[e][i - 1] = <<Decided[0][i], Decided[1][i]>>
  <2>1. i - 1 \in 0 .. Settled(e)
    BY <1>2
  <2>2. log[e][i - 1] = Truth(i - 1)
    BY <1>1, <2>1 DEF LogInv, Finals
  <2>3. ASSUME NEW q \in End PROVE Decided[q][i] = At(local[q], i - 1)
    <3>1. i \in 1 .. frame[q] + INPUT_DELAY
      BY <1>1, <1>2, <1>4
    <3>2. QED
      BY <3>1 DEF Decided
  <2>4. QED
    BY <1>1, <2>2, <2>3 DEF Truth
<1>6. Replays[e] = [i \in 1 .. Settled(e) + 1 |-> <<Decided[0][i], Decided[1][i]>>]
  BY <1>5 DEF Replays
<1>7. Len(Replays[e]) = Settled(e) + 1
  <2>1. Settled(e) + 1 \in Nat
    BY <1>2
  <2>2. QED
    BY <1>6, <2>1
<1>8. Len(Decided[e]) = frame[e] + INPUT_DELAY
  <2>1. frame[e] + INPUT_DELAY \in Nat
    BY <1>1, <1>2
  <2>2. QED
    BY <2>1 DEF Decided
<1>9. QED
  BY <1>4, <1>6, <1>7, <1>8

\* The same of the next state.
LEMMA ShownNext == IInv' => Shown'
  BY ShownHolds, PTL

\* An initial state of the driver maps to the initial state of Lockstep.
LEMMA MatchInit == Init => Match!Init
<1> SUFFICES ASSUME Init PROVE Match!Init
  OBVIOUS
<1>1. IInv /\ INPUT_DELAY \in Nat
  BY InitInv, NumbersAssumption
<1>2. \A e \in End : frame[e] = 0 /\ confirmed[e] = -1 /\ local[e] = Nothing
  BY DEF Init
<1>3. \A e \in End : Settled(e) = -1
  BY <1>2, SettledIs, \A e \in End : frame[e] \in Nat /\ confirmed[e] \in Int
<1>4. Decided = [e \in End |-> [i \in 1 .. INPUT_DELAY |-> Neutral]]
  <2>1. 0 + INPUT_DELAY = INPUT_DELAY
    BY <1>1
  <2>2. \A i : At(Nothing, i) = Neutral
    BY DEF At, Nothing
  <2>3. QED
    BY <1>2, <2>1, <2>2 DEF Decided
<1>5. Replays = [e \in End |-> <<>>]
  <2>1. \A e \in End : [i \in 1 .. Settled(e) + 1 |-> log[e][i - 1]] = <<>>
    BY <1>3
  <2>2. QED
    BY <2>1 DEF Replays
<1>6. QED
  BY <1>4, <1>5 DEF Match!Init, Match!Player, End, Decided, Replays

\* A settled frame enters the log of the end that settles it.
LEMMA MatchLog ==
  ASSUME IInv, IInv', SettledKept, NEW e \in End,
         Settled(Peer(e))' = Settled(Peer(e)), log'[Peer(e)] = log[Peer(e)]
  PROVE  Match!Log(e)
<1> DEFINE n == Settled(e)' + 1
<1>1. Shown /\ Shown' /\ Finals /\ Finals'
  BY ShownHolds, ShownNext, InvFacts, FinalsNext DEF IInv
<1>2. /\ Peer(e) \in End /\ Peer(e) # e /\ (\A q \in End : q = e \/ q = Peer(e))
      /\ 0 \in End /\ 1 \in End
  BY EndFacts DEF End
<1>3. /\ Len(Replays[e]) = Settled(e) + 1
      /\ Settled(e) \in Int /\ Settled(e)' \in Int /\ Settled(e) <= Settled(e)'
      /\ \A q \in End : Len(Decided'[q]) = frame'[q] + INPUT_DELAY /\ n <= Len(Decided'[q])
                        /\ frame'[q] \in Nat
  BY <1>1 DEF Shown, Finals, SettledKept
<1>4. n \in Len(Replays[e]) .. Len(Decided'[0]) /\ n <= Len(Decided'[1])
  <2>1. Len(Decided'[0]) \in Int
    BY <1>2, <1>3, NumbersAssumption
  <2>2. QED
    BY <1>2, <1>3, <2>1
<1>5. Replays' = [Replays EXCEPT ![e] = [i \in 1 .. n |-> <<Decided'[0][i], Decided'[1][i]>>]]
  <2>1. Replays'[e] = [i \in 1 .. n |-> <<Decided'[0][i], Decided'[1][i]>>]
    BY <1>1 DEF Shown
  <2>2. Replays'[Peer(e)] = Replays[Peer(e)]
    BY <1>2 DEF Replays
  <2>3. /\ Replays' = [q \in End |-> Replays'[q]]
        /\ DOMAIN Replays = End
    BY DEF Replays
  <2>4. QED
    BY <1>2, <2>1, <2>2, <2>3
<1>6. QED
  BY <1>4, <1>5 DEF Match!Log, Match!Played, Decided, Replays

\* An advancing end decides the input of the frame INPUT_DELAY ahead.
LEMMA MatchDecide ==
  ASSUME IInv, NEW e \in End, NEW bits \in Bits, Advance(e, bits)
  PROVE  Decided' = [Decided EXCEPT ![e] = Append(@, bits)]
<1> DEFINE n == frame[e] + INPUT_DELAY
           p == Peer(e)
<1>1. /\ frame[e] \in Nat /\ INPUT_DELAY \in Nat /\ Arrays
      /\ p \in End /\ p # e /\ (\A q \in End : q = e \/ q = p)
  BY InvFacts, EndFacts, NumbersAssumption DEF Finals
<1>2. /\ frame' = [frame EXCEPT ![e] = frame[e] + 1]
      /\ local' = [local EXCEPT ![e] = Put(@, n, bits)]
  BY DEF Advance
<1>3. /\ frame'[e] = frame[e] + 1 /\ frame'[p] = frame[p]
      /\ local'[e] = Put(local[e], n, bits) /\ local'[p] = local[p]
  BY <1>1, <1>2 DEF Arrays
<1>4. \A g : At(local'[e], g) = IF g = n THEN bits ELSE At(local[e], g)
  BY <1>3 DEF At, Put
<1>5. Decided'[e] = [i \in 1 .. n + 1 |-> At(local'[e], i - 1)]
  <2>1. frame'[e] + INPUT_DELAY = n + 1
    BY <1>1, <1>3
  <2>2. QED
    BY <2>1 DEF Decided
<1>6. Decided[e] = [i \in 1 .. n |-> At(local[e], i - 1)] /\ Len(Decided[e]) = n /\ n \in Nat
  <2>1. n \in Nat
    BY <1>1
  <2>2. QED
    BY <2>1 DEF Decided
<1>7. Append(Decided[e], bits) = [i \in 1 .. n + 1 |-> IF i = n + 1 THEN bits ELSE Decided[e][i]]
  BY <1>6
<1>8. ASSUME NEW i \in 1 .. n + 1
      PROVE  At(local'[e], i - 1) = IF i = n + 1 THEN bits ELSE Decided[e][i]
  <2>1. CASE i = n + 1
    BY <1>4, <1>6, <2>1
  <2>2. CASE i # n + 1
    <3>1. i \in 1 .. n /\ i - 1 # n
      BY <1>6, <2>2
    <3>2. QED
      BY <1>4, <1>6, <2>2, <3>1
  <2>3. QED
    BY <2>1, <2>2
<1>9. Decided'[e] = Append(Decided[e], bits)
  BY <1>5, <1>7, <1>8
<1>10. Decided'[p] = Decided[p]
  BY <1>1, <1>3 DEF Decided
<1>11. /\ Decided' = [q \in End |-> Decided'[q]]
       /\ DOMAIN Decided = End /\ Decided = [q \in End |-> Decided[q]]
  BY DEF Decided
<1>12. QED
  BY <1>1, <1>9, <1>10, <1>11

\* A step of the driver maps to a step of Lockstep or to a stutter.
LEMMA MatchStep == IInv /\ IInv' /\ SettledKept /\ [Next]_vars => [Match!Next]_(Match!vars)
<1> SUFFICES ASSUME IInv, IInv', SettledKept, [Next]_vars PROVE [Match!Next]_(Match!vars)
  OBVIOUS
<1>1. /\ DOMAIN log = End /\ DOMAIN confirmed = End /\ DOMAIN frame = End
  BY InvFacts DEF SettledInv, Arrays
<1>2. ASSUME NEW e \in End PROVE Peer(e) \in End /\ Peer(e) # e /\ e \in Match!Player
  BY EndFacts DEF End, Match!Player
<1>3. ASSUME NEW e \in End, NEW bits \in Bits, Advance(e, bits) PROVE Match!Next
  <2>1. /\ frame' = [frame EXCEPT ![e] = frame[e] + 1] /\ confirmed' = confirmed
        /\ Record(e)
    BY <1>3 DEF Advance, Settle
  <2>2. Settled(Peer(e))' = Settled(Peer(e)) /\ log'[Peer(e)] = log[Peer(e)]
    BY <1>1, <1>2, <2>1 DEF Settled, Record
  <2>3. Match!Log(e)
    BY <2>2, MatchLog
  <2>4. Match!Decide(e)
    BY <1>3, MatchDecide DEF Match!Decide, Decided
  <2>5. QED
    BY <1>2, <2>3, <2>4 DEF Match!Next
<1>4. ASSUME NEW e \in End, frame' = frame, local' = local, Record(e),
             \E c : confirmed' = [confirmed EXCEPT ![e] = c]
      PROVE  Match!Next
  <2>1. Settled(Peer(e))' = Settled(Peer(e)) /\ log'[Peer(e)] = log[Peer(e)]
    BY <1>1, <1>2, <1>4 DEF Settled, Record
  <2>2. Match!Log(e)
    BY <2>1, MatchLog
  <2>3. Match!Decide(e)
    BY <1>4 DEF Match!Decide
  <2>4. QED
    BY <1>2, <2>2, <2>3 DEF Match!Next
<1>5. ASSUME NEW e \in End, NEW m \in packets, ReceiveInputs(e, m) PROVE Match!Next
  BY <1>4, <1>5 DEF ReceiveInputs, Settle
<1>6. ASSUME NEW e \in End, NEW m \in checksums, ReceiveChecksum(e, m) PROVE Match!Next
  <2>1. frame' = frame /\ local' = local /\ Record(e) /\ confirmed' = confirmed
    BY <1>6 DEF ReceiveChecksum, Settle, simVars
  <2>2. confirmed' = [confirmed EXCEPT ![e] = confirmed[e]]
    BY <2>1, InvFacts DEF Arrays
  <2>3. QED
    BY <1>4, <2>1, <2>2
<1>7. ASSUME \/ \E e \in End : \/ Stall(e) \/ Skip(e)
                               \/ ReceiveHello(e) \/ ReceivePong(e) \/ ResetStats(e)
             \/ \E m \in packets : Lose(m)
             \/ UNCHANGED vars
      PROVE  UNCHANGED Match!vars
  <2>1. UNCHANGED <<frame, local, confirmed, log>>
    BY <1>7 DEF Stall, Skip, ReceiveHello, ReceivePong, ResetStats, Lose, vars, sumVars, simVars
  <2>2. \A e \in End : Settled(e)' = Settled(e)
    BY <2>1 DEF Settled
  <2>3. QED
    BY <2>1, <2>2 DEF Match!vars
<1>8. QED
  BY <1>3, <1>5, <1>6, <1>7 DEF Next

\* Both ends build the one log that two players without a network between
\* them would have built.
THEOREM Implements == Spec => ImplementsLockstep
<1>1. IInv /\ IInv' /\ [Next]_vars => [Match!Next]_(Match!vars)
  BY InvStep, MatchStep
<1>2. QED
  BY <1>1, Invariant, MatchInit, PTL DEF Spec, ImplementsLockstep, Match!Spec

=============================================================================
