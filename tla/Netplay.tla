------------------------------- MODULE Netplay -------------------------------
(***************************************************************************)
(* The rollback driver of both ends of one match                           *)
(* (client/src/net/netplay.ts), joined by the unreliable, unordered data   *)
(* channel it sends its packets over (packet.ts).                          *)
(*                                                                         *)
(* The sim is deterministic, so its state at the start of a frame is the   *)
(* sequence of input pairs that led there: sim[e][f] is the pair end e     *)
(* last advanced frame f with, and a state hash is that history together   *)
(* with the version of the character data.  Hashes are taken to be         *)
(* injective.                                                              *)
(*                                                                         *)
(* A packet that was sent stays in its channel: it can arrive late, in any *)
(* order, again, or never.  Lose also takes an input packet away for good, *)
(* at most MaxLost times, which only matters to what must happen           *)
(* eventually.                                                             *)
(*                                                                         *)
(* Left out: the statistics that no decision of the driver reads, the      *)
(* timeline the visualiser draws, packets that do not decode (they change  *)
(* a counter), and the ping traffic, of which only the outcome is kept: at *)
(* any moment a reply may give the driver a new estimate of the flight     *)
(* time.                                                                   *)
(***************************************************************************)
EXTENDS Integers, FiniteSetsExt

CONSTANTS
  INPUT_DELAY,     \* frames between pressing a button and the frame it acts on
  MAX_ROLLBACK,    \* the driver stalls rather than outrun the other end by more
  SimMaxRollback,  \* how far back sim.rewind reaches (MaxRollback in rollback.go)
  REDUNDANCY,      \* frames of history in every inputs packet
  AHEAD_LIMIT,     \* frames of lead tolerated before the leading end skips one
  SKIP_EVERY,      \* frames between two skips
  CHECKSUM_EVERY,  \* frames between two checkpoints
  Bits,            \* the values of an input word
  Neutral,         \* the word with no button held, 0 in the code
  Versions,        \* hashes of the character data a client may have loaded
  Flights,         \* one-way times, in frames, a ping may measure
  MaxFrame,        \* bound: no end simulates past this frame
  MaxLost          \* bound: how many input packets the channel may destroy

ASSUME NumbersAssumption ==
  /\ {INPUT_DELAY, MAX_ROLLBACK, SimMaxRollback, MaxFrame, MaxLost} \subseteq Nat
  /\ {REDUNDANCY, SKIP_EVERY, CHECKSUM_EVERY} \subseteq Nat \ {0}
  /\ AHEAD_LIMIT \in Nat
  /\ Flights \subseteq Nat

\* Both are 8 in the source: netplay.ts:27 and rollback.go:7.
ASSUME WindowAssumption == MAX_ROLLBACK <= SimMaxRollback

ASSUME NeutralAssumption == Neutral \in Bits

VARIABLES
  version,            \* version[e]: the character data e runs on
  frame,              \* frame[e]: the next frame e simulates
  local,              \* local[e][f]: e's own input for f, once decided
  remote,             \* remote[e][f]: the peer's input for f, for each f e knows
  used,               \* used[e][f]: what e fed the sim for the peer at f
  sim,                \* sim[e][f]: the pair e last advanced frame f with
  confirmed,          \* every peer input up to this frame is known to e
  theirFrame,         \* the newest frame e has seen the peer on
  flight,             \* e's estimate of the one-way time, or NoRtt
  lastSkip,           \* the frame e last skipped on
  sentInputsThrough,  \* the newest input e has put on the wire
  sums,               \* sums[e][f]: e's state hash at the start of checkpoint f
  theirSums,          \* theirSums[e][f]: the peer's, not judged yet
  sentThrough,        \* the newest checkpoint e has announced
  verified,           \* checkpoints at which e found the two hashes equal
  desynced,           \* ... and unequal
  log,                \* log[e][f]: the pair e's replay log holds for f
  dropped,            \* corrections of e that came too late to apply
  mismatch,           \* e has seen that the peer's character data differs
  packets,            \* inputs packets in flight
  checksums,          \* checksum packets in flight
  lost                \* input packets destroyed so far

vars == <<version, frame, local, remote, used, sim, confirmed, theirFrame, flight,
          lastSkip, sentInputsThrough, sums, theirSums, sentThrough, verified,
          desynced, log, dropped, mismatch, packets, checksums, lost>>

End == {0, 1}
Peer(e) == 1 - e

NoRtt == -1

-----------------------------------------------------------------------------
(* Partial functions, the sparse arrays of the driver. *)

Put(f, k, v) == [x \in DOMAIN f \cup {k} |-> IF x = k THEN v ELSE f[x]]
Keep(f, S) == [x \in DOMAIN f \cap S |-> f[x]]
Nothing == [x \in {} |-> x]

\* local[f] ?? 0: a hole of the array reads as no button.  Nothing is ever
\* recorded for the frames before the input delay.
At(words, f) == IF f \in DOMAIN words THEN words[f] ELSE Neutral

\* The sim takes (p1, p2) in that order on both machines.
Pair(e, mine, theirs) == IF e = 0 THEN <<mine, theirs>> ELSE <<theirs, mine>>

\* What the prediction may look at: known frames not too far before f.
Remembered(known, f) == {k \in DOMAIN known : k < f /\ f - k <= REDUNDANCY * 4}

\* The input assumed for the peer at f: the one known, or the last one seen.
RemoteAt(known, f) ==
  IF f \in DOMAIN known THEN known[f]
  ELSE IF Remembered(known, f) = {} THEN Neutral
  ELSE known[Max(Remembered(known, f))]

\* The hash of the state a history of inputs leaves at the start of frame f.
Hash(data, history, f) == [version |-> data, inputs |-> Keep(history, 0 .. f - 1)]

\* Defective: one word too many, one its sender has not decided yet.
InputWindowAhead(e, mine, through) ==
  [to      |-> Peer(e),
   through |-> through,
   bits    |-> [f \in Max({0, through - REDUNDANCY + 1}) .. through + 1 |-> At(mine, f)]]

\* Defective: one word too few.
InputWindowShort(e, mine, through) ==
  [to      |-> Peer(e),
   through |-> through,
   bits    |-> [f \in Max({0, through - REDUNDANCY + 2}) .. through |-> At(mine, f)]]

\* An inputs packet: the words up to frame through, as many as fit.
InputWindow(e, mine, through) ==
  [to      |-> Peer(e),
   through |-> through,
   bits    |-> [f \in Max({0, through - REDUNDANCY + 1}) .. through |-> At(mine, f)]]

ChecksumPacket(e, f, sum) == [to |-> Peer(e), frame |-> f, sum |-> sum]

\* Defective: a frame can be settled before it is simulated.
SettledUnsimulated(e) == confirmed[e]

\* Defective: the newest known frame, whatever is missing before it.
SettledNewest(e) == Min({Max({-1} \cup DOMAIN remote[e]), frame[e] - 1})

\* The newest frame of e that is both simulated and settled.
Settled(e) == Min({confirmed[e], frame[e] - 1})

\* Defective: announces a state that still rests on a guess.
FinalStateEarly(e) == confirmed[e] + 2

\* The newest frame at whose start e's state can no longer change.
FinalState(e) == confirmed[e] + 1

\* How far e leads, corrected for the flight time; unknown counts as level.
Advantage(e) ==
  IF theirFrame[e] < 0 \/ flight[e] = NoRtt THEN 0
  ELSE frame[e] - theirFrame[e] - flight[e]

\* Defective: the window is one frame too long.
MustStallLate(e) == frame[e] - confirmed[e] > MAX_ROLLBACK + 1

\* Defective: waits for the input of the very frame, as if nothing were guessed.
MustStallAlways(e) == frame[e] > confirmed[e]

\* The end of the rollback window.
MustStall(e) == frame[e] - confirmed[e] > MAX_ROLLBACK

MustSkip(e) == Advantage(e) > AHEAD_LIMIT /\ frame[e] - lastSkip[e] >= SKIP_EVERY

\* sim.rewind(to): the sim is at frame now.
CanRewind(now, to) == to < now /\ now - to <= SimMaxRollback

-----------------------------------------------------------------------------
(***************************************************************************)
(* settle() and record(), the end of every handler: extend the log by each *)
(* frame that has become final, announce the checkpoints whose state can   *)
(* no longer change, and judge the peer's.  They read the state the        *)
(* handler leaves behind; held is theirSums with what the handler added.   *)
(***************************************************************************)
Record(e) ==
  log' = [log EXCEPT ![e] =
            [f \in DOMAIN @ \cup 0 .. Settled(e)' |->
               IF f \in DOMAIN @ THEN @[f]
               ELSE Pair(e, At(local'[e], f), At(remote'[e], f))]]

Settle(e, held) ==
  LET final == FinalState(e)'
      ours  == sums'[e]
      due   == {f \in DOMAIN ours :
                  /\ sentThrough[e] < f /\ f <= final
                  /\ \A g \in sentThrough[e] + 1 .. f :
                       g % CHECKSUM_EVERY = 0 => g \in DOMAIN ours}
      ripe  == {f \in DOMAIN held : f <= final}
      judged == ripe \cap DOMAIN ours
      stale == {f \in ripe \ judged : f < final - CHECKSUM_EVERY * 4}
  IN  /\ Record(e)
      /\ checksums' = checksums \cup {ChecksumPacket(e, f, ours[f]) : f \in due}
      /\ sentThrough' = [sentThrough EXCEPT ![e] = Max({@} \cup due)]
      /\ theirSums' = [theirSums EXCEPT ![e] = Keep(held, DOMAIN held \ (judged \cup stale))]
      /\ verified' = [verified EXCEPT ![e] = @ \cup {f \in judged : ours[f] = held[f]}]
      /\ desynced' = [desynced EXCEPT ![e] = @ \cup {f \in judged : ours[f] # held[f]}]

\* resendInputs(): the window last sent, sent again.
ResendInputs(e) ==
  packets' = IF sentInputsThrough[e] < 0 THEN packets
             ELSE packets \cup {InputWindow(e, local[e], sentInputsThrough[e])}

-----------------------------------------------------------------------------
Init ==
  /\ version \in [End -> Versions]
  /\ frame = [e \in End |-> 0]
  /\ local = [e \in End |-> Nothing]
  /\ remote = [e \in End |-> Nothing]
  /\ used = [e \in End |-> Nothing]
  /\ sim = [e \in End |-> Nothing]
  /\ confirmed = [e \in End |-> -1]
  /\ theirFrame = [e \in End |-> -1]
  /\ flight = [e \in End |-> NoRtt]
  /\ lastSkip = [e \in End |-> -SKIP_EVERY]
  /\ sentInputsThrough = [e \in End |-> -1]
  /\ sums = [e \in End |-> Nothing]
  /\ theirSums = [e \in End |-> Nothing]
  /\ sentThrough = [e \in End |-> 0]
  /\ verified = [e \in End |-> {}]
  /\ desynced = [e \in End |-> {}]
  /\ log = [e \in End |-> Nothing]
  /\ dropped = [e \in End |-> 0]
  /\ mismatch = [e \in End |-> FALSE]
  /\ packets = {}
  /\ checksums = {}
  /\ lost = 0

simVars == <<frame, local, used, sim, sums>>
sumVars == <<theirSums, sentThrough, verified, desynced, log, checksums>>

(***************************************************************************)
(* step(bits), in the order of its guards: a stall at the end of the       *)
(* rollback window, a skip that lets the peer catch up, and the frame      *)
(* itself.  A tick against other character data does nothing at all.       *)
(***************************************************************************)
\* Defective: the input is recorded and sent before the guard.
StallRecording(e) ==
  LET at == frame[e] + INPUT_DELAY IN
  /\ MustStall(e)
  /\ \E bits \in Bits : local' = [local EXCEPT ![e] = Put(@, at, bits)]
  /\ sentInputsThrough' = [sentInputsThrough EXCEPT ![e] = at]
  /\ packets' = packets \cup {InputWindow(e, local'[e], at)}
  /\ UNCHANGED <<version, frame, remote, used, sim, sums, confirmed, theirFrame,
                 flight, lastSkip, sumVars, dropped, mismatch, lost>>

Stall(e) ==
  /\ MustStall(e)
  /\ ResendInputs(e)
  /\ UNCHANGED <<version, simVars, remote, confirmed, theirFrame, flight, lastSkip,
                 sentInputsThrough, sumVars, dropped, mismatch, lost>>

Skip(e) ==
  /\ ~ MustStall(e)
  /\ MustSkip(e)
  /\ lastSkip' = [lastSkip EXCEPT ![e] = frame[e]]
  /\ ResendInputs(e)
  /\ UNCHANGED <<version, simVars, remote, confirmed, theirFrame, flight,
                 sentInputsThrough, sumVars, dropped, mismatch, lost>>

Advance(e, bits) ==
  LET f      == frame[e]
      at     == f + INPUT_DELAY
      theirs == RemoteAt(remote[e], f)
  IN  /\ f < MaxFrame
      /\ ~ MustStall(e) /\ ~ MustSkip(e) /\ ~ mismatch[e]
      /\ local' = [local EXCEPT ![e] = Put(@, at, bits)]
      /\ sentInputsThrough' = [sentInputsThrough EXCEPT ![e] = at]
      /\ packets' = packets \cup {InputWindow(e, local'[e], at)}
      /\ used' = [used EXCEPT ![e] = Put(@, f, theirs)]
      /\ sim' = [sim EXCEPT ![e] = Put(@, f, Pair(e, At(local'[e], f), theirs))]
      /\ frame' = [frame EXCEPT ![e] = f + 1]
      /\ sums' = IF (f + 1) % CHECKSUM_EVERY = 0
                 THEN [sums EXCEPT ![e] = Put(@, f + 1, Hash(version[e], sim'[e], f + 1))]
                 ELSE sums
      /\ UNCHANGED <<version, remote, confirmed, theirFrame, flight, lastSkip, dropped,
                     mismatch, lost>>
      /\ Settle(e, theirSums[e])

(***************************************************************************)
(* receive(data): an inputs packet.  Every frame not known before becomes  *)
(* known; the earliest one that was simulated on a wrong guess is rolled   *)
(* back to, and everything since is replayed with what is known now.       *)
(***************************************************************************)
Replay(e, to) ==
  /\ used' = [used EXCEPT ![e] =
                [f \in DOMAIN @ |-> IF f < to THEN @[f] ELSE RemoteAt(remote'[e], f)]]
  /\ sim' = [sim EXCEPT ![e] =
               [f \in DOMAIN @ |->
                  IF f < to THEN @[f] ELSE Pair(e, At(local[e], f), used'[e][f])]]
  /\ sums' = [sums EXCEPT ![e] =
                [f \in DOMAIN @ |-> IF f <= to THEN @[f] ELSE Hash(version[e], sim'[e], f)]]
  /\ UNCHANGED dropped

Rollback(e, to) ==
  \/ CanRewind(frame[e], to) /\ Replay(e, to)
  \/ /\ ~ CanRewind(frame[e], to)
     /\ dropped' = [dropped EXCEPT ![e] = @ + 1]
     /\ UNCHANGED <<used, sim, sums>>

\* known[f] and remote[f] for the frames of the packet that are news.
Learn(known, bits) ==
  [f \in DOMAIN known \cup DOMAIN bits |-> IF f \in DOMAIN known THEN known[f] ELSE bits[f]]

\* Defective: the newest frame is taken for one not simulated yet.
MispredictedOlder(e, bits) ==
  {f \in DOMAIN bits \ DOMAIN remote[e] : f < frame[e] - 1 /\ used[e][f] # bits[f]}

\* The news that contradict what the sim was fed.
Mispredicted(e, bits) ==
  {f \in DOMAIN bits \ DOMAIN remote[e] : f < frame[e] /\ used[e][f] # bits[f]}

ReceiveInputs(e, m) ==
  LET wrong == Mispredicted(e, m.bits) IN
  /\ m.to = e
  /\ theirFrame' = [theirFrame EXCEPT ![e] = Max({@, m.through - INPUT_DELAY})]
  /\ remote' = [remote EXCEPT ![e] = Learn(@, m.bits)]
  /\ \E c \in {confirmed[e]} \cup DOMAIN remote'[e] :
       /\ confirmed[e] <= c
       /\ confirmed[e] + 1 .. c \subseteq DOMAIN remote'[e]
       /\ c + 1 \notin DOMAIN remote'[e]
       /\ confirmed' = [confirmed EXCEPT ![e] = c]
  /\ \/ wrong = {} /\ UNCHANGED <<used, sim, sums, dropped>>
     \/ \E to \in wrong : (\A f \in wrong : to <= f) /\ Rollback(e, to)
  /\ UNCHANGED <<version, frame, local, flight, lastSkip, sentInputsThrough, mismatch,
                 packets, lost>>
  /\ Settle(e, theirSums[e])

\* receive(data): a checksum packet, held until the checkpoint is final here.
ReceiveChecksum(e, m) ==
  /\ m.to = e
  /\ UNCHANGED <<version, simVars, remote, confirmed, theirFrame, flight, lastSkip,
                 sentInputsThrough, dropped, mismatch, packets, lost>>
  /\ Settle(e, Put(theirSums[e], m.frame, m.sum))

\* receive(data): the peer's hello, sent once, names its character data.
ReceiveHello(e) ==
  /\ mismatch' = [mismatch EXCEPT ![e] = @ \/ version[Peer(e)] # version[e]]
  /\ UNCHANGED <<version, simVars, remote, confirmed, theirFrame, flight, lastSkip,
                 sentInputsThrough, sumVars, dropped, packets, lost>>

\* receive(data): the reply to a ping, which moves the median round trip.
ReceivePong(e) ==
  /\ \E d \in Flights : flight' = [flight EXCEPT ![e] = d]
  /\ UNCHANGED <<version, simVars, remote, confirmed, theirFrame, lastSkip,
                 sentInputsThrough, sumVars, dropped, mismatch, packets, lost>>

\* resetStats(): a new measurement starts.  The driver's counters start again
\* too; verified, desynced and dropped stand for the whole match.
ResetStats(e) ==
  /\ flight' = [flight EXCEPT ![e] = NoRtt]
  /\ UNCHANGED <<version, simVars, remote, confirmed, theirFrame, lastSkip,
                 sentInputsThrough, sumVars, dropped, mismatch, packets, lost>>

\* The channel destroys a packet.
Lose(m) ==
  /\ lost < MaxLost
  /\ lost' = lost + 1
  /\ packets' = packets \ {m}
  /\ UNCHANGED <<version, simVars, remote, confirmed, theirFrame, flight, lastSkip,
                 sentInputsThrough, sumVars, dropped, mismatch>>

Next ==
  \/ \E e \in End :
       \/ Stall(e)
       \/ Skip(e)
       \/ \E bits \in Bits : Advance(e, bits)
       \/ \E m \in packets : ReceiveInputs(e, m)
       \/ \E m \in checksums : ReceiveChecksum(e, m)
       \/ ReceiveHello(e)
       \/ ReceivePong(e)
       \/ ResetStats(e)
  \/ \E m \in packets : Lose(m)

Spec == Init /\ [][Next]_vars

(***************************************************************************)
(* The ticker of game.ts calls step on every frame of a running match, so  *)
(* a tick that can do something is not put off for ever.  The channel may  *)
(* lose what it likes, but a packet that is in flight again and again gets *)
(* through in the end; there is at most one window per newest frame.       *)
(***************************************************************************)
Tick(e) == Stall(e) \/ Skip(e) \/ \E bits \in Bits : Advance(e, bits)

Deliver(e, through) ==
  \E m \in packets : m.through = through /\ ReceiveInputs(e, m)

Fairness ==
  \A e \in End :
    /\ WF_vars(Tick(e))
    /\ \A through \in INPUT_DELAY .. MaxFrame + INPUT_DELAY - 1 :
         SF_vars(Deliver(e, through))

FairSpec == Spec /\ Fairness

-----------------------------------------------------------------------------
Pairs == Bits \X Bits
Histories(n) == [0 .. n - 1 -> Pairs]

\* Every variable stays in its range (the shape of each array of the driver).
TypeOK ==
  /\ version \in [End -> Versions]
  /\ frame \in [End -> 0 .. MaxFrame]
  /\ DOMAIN local = End /\ DOMAIN remote = End /\ DOMAIN used = End
  /\ DOMAIN sim = End /\ DOMAIN sums = End /\ DOMAIN theirSums = End
  /\ DOMAIN log = End /\ DOMAIN verified = End /\ DOMAIN desynced = End
  /\ DOMAIN sentThrough = End /\ DOMAIN sentInputsThrough = End
  /\ DOMAIN theirFrame = End
  /\ \A e \in End :
       /\ local[e] \in [INPUT_DELAY .. frame[e] + INPUT_DELAY - 1 -> Bits]
       /\ DOMAIN remote[e] \subseteq 0 .. frame[Peer(e)] + INPUT_DELAY - 1
       /\ remote[e] \in [DOMAIN remote[e] -> Bits]
       /\ used[e] \in [0 .. frame[e] - 1 -> Bits]
       /\ sim[e] \in Histories(frame[e])
       /\ DOMAIN sums[e] = {f \in 1 .. frame[e] : f % CHECKSUM_EVERY = 0}
       /\ DOMAIN log[e] = 0 .. Settled(e)
       /\ log[e] \in [DOMAIN log[e] -> Pairs]
       /\ DOMAIN theirSums[e] \subseteq 1 .. frame[Peer(e)]
       /\ verified[e] \cup desynced[e] \subseteq DOMAIN sums[e]
       /\ sentThrough[e] \in 0 .. frame[e]
       /\ sentInputsThrough[e] = IF frame[e] = 0 THEN -1 ELSE frame[e] + INPUT_DELAY - 1
       /\ theirFrame[e] \in -1 .. frame[Peer(e)] - 1
  /\ confirmed \in [End -> Int]
  /\ flight \in [End -> Flights \cup {NoRtt}]
  /\ lastSkip \in [End -> -SKIP_EVERY .. MaxFrame]
  /\ dropped \in [End -> Nat]
  /\ mismatch \in [End -> BOOLEAN]
  /\ lost \in 0 .. MaxLost

\* A frame's input is decided once (netplay.ts:492): whatever one end knows of
\* the other's input for a frame is what the other end itself plays there,
\* however often a window was resent, lost, duplicated or overtaken.
InputDecidedOnce ==
  \A e \in End : \A f \in DOMAIN remote[e] : remote[e][f] = At(local[Peer(e)], f)

\* The two replay logs never contradict each other (netplay.ts:182): a frame in
\* both holds the same pair of inputs, whatever each end had guessed.
LogsAgree ==
  \A f \in DOMAIN log[0] \cap DOMAIN log[1] : log[0][f] = log[1][f]

\* The log replays to the state the player saw (netplay.ts:187): it holds every
\* settled frame, with exactly the inputs the sim last ran that frame with.
LogIsWhatRan ==
  \A e \in End : \A f \in 0 .. Settled(e) : f \in DOMAIN log[e] /\ log[e][f] = sim[e][f]

\* The stall keeps every correction inside the rollback window
\* (netplay.ts:506): sim.rewind never refuses one.
CorrectionsInTime == \A e \in End : dropped[e] = 0

StateAt(e, f) == Hash(version[e], sim[e], f)

\* A verdict on a checkpoint is sound (netplay.ts:382): "verified" means that
\* both ends are in the same state there, and "desync" is only ever said of
\* two ends with different character data, never of a guess.
VerdictsSound ==
  \A e \in End :
    /\ \A f \in verified[e] : StateAt(0, f) = StateAt(1, f)
    /\ \A f \in desynced[e] : version[0] # version[1]

\* A settled frame is never simulated again with other inputs (netplay.ts:167):
\* the effects fired for it were the right ones.
SettledIsFinal ==
  [][\A e \in End : \A f \in 0 .. Settled(e) : sim'[e][f] = sim[e][f]]_vars

\* A stall is a hitch and not the end of the match (netplay.ts:506): between two
\* ends with the same character data, whoever waits at the end of its rollback
\* window goes on eventually.
StallsEnd ==
  \A e \in End : MustStall(e) /\ version[0] = version[1] ~> ~ MustStall(e)

\* Skipping is a slowdown and not a freeze (netplay.ts:516): two ends with the
\* same character data simulate every frame of the match.
MatchGoesOn ==
  version[0] = version[1] => <>(\A e \in End : frame[e] = MaxFrame)

\* The match of Lockstep, seen in the driver: what is decided is each end's own
\* inputs through the input delay, and the logs are the logs.
Match == INSTANCE Lockstep WITH
  InputDelay <- INPUT_DELAY,
  decided <- [e \in End |-> [i \in 1 .. frame[e] + INPUT_DELAY |-> At(local[e], i - 1)]],
  replay <- [e \in End |-> [i \in 1 .. Settled(e) + 1 |-> log[e][i - 1]]]

\* Netplay over a lossy channel implements Lockstep: both ends build the one
\* log that two players without a network between them would have built.
ImplementsLockstep == Match!Spec

=============================================================================
