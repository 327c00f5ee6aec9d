# Verification of universus

Universus is a two player fighting game. A deterministic simulation (`sim/`, Go,
compiled to WASM for the client and natively for the server) is played over a
peer-to-peer channel with rollback (`client/src/net/netplay.ts`); a Go server
introduces the players, relays their packets if it must, stores the results both
upload, keeps a ladder and replays ranked matches to check them (`server/`).

This directory holds TLA+ models of the parts whose correctness depends on the
order in which things happen, the TLC configurations that check them on small
instances, and proofs, checked by TLAPS, of what holds for every instance.
`PROJECT.json` maps each definition to the source lines it models and lists the
hazards of the code with the properties that would notice them.

## 1. The system

| Part | State it keeps | Operations | Talks to |
|---|---|---|---|
| Rollback driver (`net/netplay.ts`, `packet.ts`) | inputs of both players per frame, what the sim was fed, checkpoints, replay log, newest frame confirmed, lead over the peer | `step` (stall, skip, advance), `receive` (inputs, checksum, ping, hello), `resetStats` | the peer's driver through an unreliable, unordered data channel or the relay; the sim |
| Rollback session (`sim/rollback.go`) | current state, ring of 12 states, ring of 64 event words | `Advance`, `Rewind`, `Adjust`, `EventsAt` | driver, view |
| Simulation (`sim/state.go`, `round.go`, `fighter.go`, `resource.go`, `throw.go`, `projectile.go`, `input.go`, `ai.go`) | two fighters with their input history, projectile pool, camera, hitstop, round and match phase, generator | `Advance(inputs)` | session, replay, verifier |
| Character data (`data/data.go`, `sim/character.go`) | characters and the balance sheet, constant after loading | `Load`, `LoadBalance`, `Version` | the simulation |
| Ticker and report (`game/game.ts`, `report.ts`) | clock, `opponentLeft`, `reported` | fixed-step tick, silence timeout, upload | driver, server |
| Room negotiation (`net/room.ts`, `peer.ts`) | role, transport | offer, answer, fallback, setup | the other client through the server's relay |
| Rooms and relay (`server/main.go`) | waiting client per code, peer of each socket | join, pair, relay, hang up | clients |
| Queue (`server/queue.go`) | waiting players per mode | enqueue, leave, sweep, introduce | clients, database |
| Results and ladder (`server/match.go`, `rating.go`) | rows of matches, submissions, jobs, ratings, accounts | upload, void, settle | database |
| Unilateral sweep (`server/unilateral.go`) | none of its own | settle a match with one report | database |
| Verification (`server/verify.go`) | none of its own | claim, judge, accept, reverse | database, sim |
| Accounts, migrations, plausibility, view, lab, tools | | | |

A match passes through the parts in this order: two pages meet in a room or in the
queue and agree on a transport (`Rooms`, `Negotiation`), play frame by frame over it
(`Netplay`, each frame being one step of `Fight`), upload what they saw, and the server
settles, and in ranked play replays, what it was sent (`Settlement`).

What is hard about them:

* **Driver.** Two machines that guess. Packets are lost, repeated and overtaken;
  every packet repeats eight frames; a wrong guess is replayed, at most eight
  frames back; both ends stall at the end of that window and slow down when they
  lead. It is correct when both machines simulate the same match, when what is
  final stays final (log, effects, verdicts about checksums rest on it), when no
  correction ever comes too late, and when a stall ends.
* **Results.** Requests of two players, a sweep and two workers meet in the same
  rows; some of what they act on was read before a lock or in another statement;
  any of them can die in between. It is correct when a match is paid once, taken
  back at most once and exactly, judged in the end, and when the accounts of both
  players move together.
* **Rooms, queue, negotiation.** Every socket has a goroutine, and the one that
  completes a pair writes to both sockets and hands each goroutine the other socket over a
  channel; clients close anywhere between these steps; timers of the pages race the
  answers. It is correct when nobody is paired twice, whoever waits can be found, both
  pages end up on one transport, and nobody waits for ever.
* **Simulation.** Sequential, one function per frame, but a long chain: eight steps
  that each read what the last one wrote, two seats of which one goes first, and
  debts (stun, juggle, landing, knockdown, combo) that one frame leaves to another. Hard
  where two of these meet: both players hit on one frame, the clock against a knockout, a
  gauge at its limit, a corner against a throw, a state entered by an unusual way.

## 2. Modules and plan

| Module | Models | Composed by |
|---|---|---|
| `Netplay`, `Lockstep` | both ends of the driver and the channel; the match without a network | `MCNetplay`; `Netplay!Match` refines `Lockstep` |
| `Settlement` | uploads, sweep and verification over row locks | `MCSettlement` |
| `Rooms` | rooms, queue, pairing, relay: the server's goroutines and mutexes | `Negotiation` |
| `Negotiation` | the pages, on the actions of `Rooms` | `MCRooms` |
| `Character`, `CharacterData` | what the sim asks of its data; what the loader accepts, as assumptions | `Fighter` |
| `Inputs` | history, motions, presses | `Fighter` |
| `Fighter` | one fighter: states, resources, gravity, damage taken | `Opponent`, `Fight` |
| `Opponent` | the scripted opponent | `Fight` |
| `Rounds` | clock, rounds, phases, winner | `Fight` |
| `Fight` | the arena and a frame of it, `GameState.Advance` | `MCFight` |
| `NetplayProofs`, `SettlementProofs`, `RoomsProofs`, `FramesProofs`, `FighterProofs`, `FightProofs`, `MovesProofs`, `SetFacts` | theorems | |

What remains of the plan, in this order:

1. `Report`: `Netplay` extended by the ticker's view of it (end of match, silence
   timeout, what is uploaded), with the hazards at `game.ts:510`, `game.ts:523` and
   `netplay.ts:633`. Today the uploads of `Settlement` are a free choice, which
   includes whatever such a model would produce.
2. `Session`: the rings of `rollback.go` against an unbounded history. `Netplay`
   checks that no rewind leaves the window, on which the rings rest.
3. The retry counter of the verification job and a log against other character data
   (`verify.go:132`, `verify.go:249`), which need a version in the log of `Settlement`.

## 3. The models

### Netplay

One variable per variable of `createNetplay`, indexed by end (0 is the first
player). The frame counter, `local`, `remote`, `used`, `sums`, `theirSums`, `sentThrough`,
`confirmed`, `theirFrame`, `lastSkip`, `sentInputsThrough` and `log` carry their
names. `sim[e][f]` is the pair of inputs end `e` last advanced frame `f` with; as
the simulation is deterministic this *is* its state, and a checksum is the history
of pairs before a frame together with the version of the character data, taken to
be injective. `verified`, `desynced` and `dropped` are the driver's statistics of
these names, kept as sets (or a count) for the whole match.

| Action | Code |
|---|---|
| `Stall`, `Skip`, `Advance` | the three outcomes of `step`, in the order of its guards, with everything `simulate`, `record` and `settle` do |
| `ReceiveInputs` | `receive` of an inputs packet: learn, confirm, find the earliest wrong guess, roll back and replay or drop the correction, then `settle` |
| `ReceiveChecksum`, `ReceiveHello`, `ReceivePong` | the other packets; of the ping traffic only the new estimate of the flight time remains |
| `ResetStats` | `resetStats` as far as the driver reads what it clears |
| `Lose` | the channel destroys an inputs packet |

Packets stay in `packets` after they are sent: a step may deliver any of them, any
number of times, in any order, or never. `settle` and `record` are not actions
but the tail of the handlers that call them.

`Lockstep` is the match with the network taken away: each player decides one input
per frame, and each end holds a log that is a prefix of the one sequence of pairs.
`Netplay!Match` maps the driver to it.

### Settlement

Processes are the requests (one per player and match, repeated at will), the sweep
and the workers; `proc[p]` says where one is, with the claim it works on, the rating
rows it has still to lock and the points it has read. Postgres at READ COMMITTED:
a statement outside a transaction is one step; a transaction is one step per row
lock that can make it wait, and its commit, where all its writes appear. Which
rows are locked follows from `proc`. The insert of an upload waits for a
transaction that holds the match FOR UPDATE (the foreign key takes a share lock)
but not for a settlement, which only updates it.

The two seats of a match may be one account: the queue does not look (`queue.go:275`).
Such a match takes one upload, the loser's rating is written over the winner's
(`AfterWrites`, `match.go:306`), the amounts are kept in a map by account, so both seats are
recorded with the loser's (`Recorded`, `match.go:325`), and a reversal takes one account's points
back twice, the second time from what the first has left (`AfterReversals`).

| Action | Code |
|---|---|
| `Submit`, `RecordUpload`, `CompareUploads` | `submitResult`: reads the winner; `record`: INSERT, then SELECT, each a statement of its own |
| `Void`, `BeginSettle`, `LockRating`, `CommitSettle` | `void`; `settle`, `settleTx`, `applyLadder`, `recordDisconnect` |
| `SweepPick`, `SweepLock` | the aggregate and the locked re-read of `sweepUnilateral`, which then goes through `LockRating` and `CommitSettle` too |
| `ClaimJob`, `Judge`, `CommitOk`, `CommitMismatch` | `verifier.step`, `judge`, `flagImplausible`, `reverseLadder` |
| `Deadlocked` | Postgres ends a transaction of a cycle of lock waits |
| `Fail` | a process dies, or a client hangs up, anywhere |

`paid`, `taken` and `reversals` are history: no action reads them. A log is the pair
of its length and what a replay of it shows (nothing comparable, no end, a winner).
The ladder arithmetic is modelled with the constants of `rating.go` and Go's rounding.

### Rooms and Negotiation

Threads are the handlers (one per client) and the queue's ticker; `pc[t]` is where one
is. `rooms`, `queue` and `peer` carry the names of the source; `paired[c]` is the
channel of capacity one over which `c`'s handler gets its partner; `work[t]` are the
pairs a thread has taken out of a queue and not yet introduced. `inbox` and `outbox` are
the two directions of a socket, `conn` its state; `page[c]` is the step of
`negotiate` the page is in, `channel` the ends at which WebRTC's data channel is open.
The clock is `age`, in steps of the table of bands, with `older` the order of arrival.
`pairs`, `noise` and `late` are history: who was matched, whose frame was dropped because the
server had no peer for it, and who was handed a partner after it had gone.

| Action | Code |
|---|---|
| `Join`, `Unregister`, `CloseNow` | `serveRoom`, `rooms.join`, the defers of a handler |
| `ReadClock`, `Enqueue` | `enqueue`, which reads the clock before it takes the mutex |
| `Sweep`, `Pick`, `Picked` | `sweep`, under the mutex, for each mode: `bestPair` until there is none, then the introductions outside it |
| `TellHost`, `TellGuest`, `HandHost`, `HandGuest` | the four steps of `pair`, each of which can fail |
| `Relay`, `ReadFails`, `HangUp` | `relay` and its end |
| `Pass`, `MeasureRTT` | time; `measureRTT` |
| `Open`, `Take`, `Signal`, `Decide`, `Meet`, `GiveUp` | `openRoom`, `negotiate`, `decide` and `follow` of `room.ts`; `Signal` sends the blob or fails without a word ("mute"), `Decide` chooses one of the two transports or fails over the answer or the channel |
| `ChannelOpens`, `Leave` | the browser: a data channel opens at one end; a tab is closed |

`Negotiation` is the composition: an action is one of the server's with the pages
unchanged, or one of a page that reads and writes its socket.

### Fight

The variables are the arena (players, projectiles, camera, hitstop, damage dealt), the
round flow, the age of the opponent's decision, and the bound `changes`. A player is a
record with the fields of `PlayerState`. Each function of the source that writes a player, an arena or a
flow is an operator of the same name that returns it, and `FightOn` composes them in the
order of `Advance`: inputs, states, gravity and landing, pushboxes and walls, facing, projectiles,
who connects (asked of both before either is resolved), hits, projectile hits, resources, the end of combos, camera.

| Action | Code |
|---|---|
| `HitstopFrame` | `Advance` while `Hitstop > 0`: only inputs are recorded |
| `PhaseFrame` | `Advance` between rounds: `advancePhase`, with `startRound` on its frame |
| `FightFrame` | `Advance` in the fight, then `updateRound` |
| `Over` | the match has ended |

Three things are relative where the program counts frames: the input history is a
sequence with the newest first instead of a ring, `Eaten` is the number of frames since,
and of the frame number only the age of the opponent's decision is kept. A roll of the
generator is a choice: a rule of the opponent with a percentage between 0 and 100 may be taken or passed over.
Fixed point numbers are integers in units of the smallest fraction, without a width.

`CharacterData` states what the loader checks as named assumptions on `Roster` and
`Balance`, with the limits of the source as the constant `Limits`; TLC evaluates them
on the six small characters of `MCFight`. The theorems rest on nothing else about the data, but for
`StayOnScreen`, which names what it needs (`ScreenFits`).

## 4. What is checked

| Run | Instance | Shows |
|---|---|---|
| `netplay` | two input words, delay 1, window 2, two frames per packet, four frames, every packet order | the inputs, logs and states of both ends agree; the refinement of `Lockstep` |
| `netplay_data` | no delay, window 1, a packet with two frames, checkpoints every second frame, equal or different character data | verdicts on checksums are sound and no correction is refused |
| `netplay_live` | one input word, three frames per packet, one packet destroyed | stalls end and the match is played to its end |
| `netplay_loss` | the same with two packets destroyed | **violated**: both ends stall for ever |
| `settlement` | a match of two accounts and a match of one of them against itself, each of either mode, two workers, a forged claim, one death anywhere (342,064 states) | judged once, taken back once, who is paid, counts consistent |
| `settlement_two` | two ranked matches of the same accounts with seats exchanged, one claim that is reversed, one worker | no lost update on a rating; settlements do not deadlock |
| `settlement_live` | one match of either mode, two requests, two workers, three claims (honest, contradicted by its log, left alone), where only the server's own processes die | every report is decided, every job judged, an ok rests on a replay of what the match now says |
| `settlement_paid` | one ranked match, two claims, nobody dies | **violated**: paid twice, recorded once |
| `settlement_void` | the same | **violated**: voided and paid |
| `rooms` | three clients under one code of whom one may leave, three in the ranked queue, two in the casual one of whom one may leave; WebRTC may fail any page before or after its blob (198,382 states) | nobody is paired twice or lost to the next joiner, frames arrive where they are expected, one transport for both, nobody waits for ever beside somebody else, but for the exceptions named below |
| `fight` | six setups of five small characters: two people, also of different widths, a person against the scripted opponent on its hardest tier (twice), the lab; rounds of eight frames, at most two (299,584 states; the sixth character is for `fight_air`) | what moves cost and burnout, debts, screen, books of the rounds; guard, juggle, single hits, damage dealt, no difference between the seats; the end of the match |
| `fight_air` | two people who jump and tap | **violated**: a dash in the air ends in a state that may act there |

Every property of a passing run has a mutant of the code (a definition marked
*defective* before the one it stands for) under which TLC finds it violated.

**Bounds.** `MaxFrame` ends a match after enough frames for the window to be
exhausted, a guess to be replayed over its whole depth and a checkpoint to
become final, two or three windows in all; `MaxLost` bounds destroyed packets
and matters to liveness only, since any packet may also just never be delivered. `MaxFailures`
bounds deaths to one, which suffices to leave any single piece of work undone.
The windows, delays and intervals of the source (8, 2, 30) are scaled down together; the theorems hold for all values.
Settlement needs no other bound: a player can upload once, so a match can be
settled at most three times. Its runs do not look for deadlocks of the model: once everybody has
uploaded and every job is judged, the server is idle; neither does `rooms`, where
everybody plays or has gone in the end.

`rooms` needs three clients, so that the third finds what the first two left behind, and
`leaves` bounds the tabs that close: one at any point of a meeting of two. Two bands stand for the
table of the source, the first with limits, the last without.

`fight` is small where the source is wide: a stage of fourteen units to each side, moves of three
frames, gauges of a few units, and `changes`, which bounds how often the keyboards change in
a match to one or two, since a fighting game without it has every sequence of inputs as a behaviour. Two
changes reach a move, its block, its punish and, held through, everything after. `FrameCap` saturates the
count of frames in a state where no move counts that far. The characters are chosen so that each
mechanism of the code (throw and tech, armor, launch and juggle, projectile, super and its cancel, drive cost
and burnout, low and overhead, invulnerable start) occurs in at least one setup.

**What some properties of the fight leave out, and why.** `DealtAdds` and the part of
`SetupSurvives` about damage are about matches that count: in the lab gauges are refilled,
and chip damage at no health heals to one. `SeatBlind` leaves out throws, projectiles and fighters on one
spot: there the code prefers a seat on purpose (throw.go:119-124, and the pool is resolved
slot by slot). `GuardHolds` speaks of opponents who come from the floor, are neither stunned nor in a throw,
and whose overheads are strikes from the air that fire nothing. `OnScreen` allows the wider of two
fighters an overhang: when both stand at the edges the camera centres on their middles, and half the difference of
their pushboxes is cut off until the walls of the next frame (`updateCamera` runs last); the giant and the imp of
`MCFight` do that, and the shipped shoto (24 wide) and grappler (28) can too. At the cap of rounds the damage dealt
decides, also against who has won more rounds; `RoundBooks` says so by naming the winner only
where somebody has won enough.

**Fairness.** Netplay: the ticker calls `step` on every frame, so a tick that can
do something happens (weak fairness of `Tick`). A stalled end resends its window on
every tick, so the channel has infinitely many chances to deliver it and is
assumed not to lose all of them (strong fairness of delivery per window).
Settlement: requests, sweep and workers are goroutines, locks are granted in the
order of arrival (strong fairness per process); nothing makes a client upload.
Rooms: every goroutine that can take a step takes one, every page reads its socket and its timers
fire, and time passes (weak fairness of each). Nobody has to come or to leave,
and no data channel has to open. A match needs none: `MatchAdvances` gives a measure
that every frame lowers, and a frame is always possible.

**Findings.**

* `netplay_loss`: redundancy does not replace retransmission once the sender has stalled.
* `settlement_paid`, `settlement_void`: an upload that overlaps with the other one, or with
  the sweep, is settled or voided on top of a settlement.
* `fight_air`: two taps of a direction in a jump start a dash there, against the
  comment of `fighter.go:253`.
* `ReportsAreDecided` holds only while no request dies between storing the second upload
  and settling it; such a match is never decided, because the players may
  not upload again and the sweep looks for matches with exactly one upload. A
  settlement and a reversal can deadlock (`Deadlocked` fires in `settlement_two`),
  and so can two casual disconnects, which count the loser first.
* An account paired with itself (`queue.go:275`). Its ranked match, which the sweep settles,
  is recorded with a negative payment, or none, for both seats; the winner's new points are
  overwritten; a reversal takes back twice, clamped at zero, and two matches for no win. `WinnerIsPaid` says which
  seat is paid with this case in it; `LadderBalances` and `CountsFit` except accounts
  that play themselves (`PlaysItself`), for which they are false.
* Rooms, where the properties have exceptions that name what the code does:
  `NobodyLeftBehind` excepts `late`. A host whose socket ends between being told and the send of
  `main.go:226` finds no peer on its way out, and the guest that is handed to it is
  not hung up on, which `main.go:237-240` says the relay sees to. `PairsSettle` excepts
  `noise`. What an end sends before it has been handed its partner is dropped, and
  `text.next()` of `room.ts` waits without a timeout. Telling the guest can fail after the host has
  been told (`main.go:223`); the host then waits on a match that was made, and a ranked pair
  that fails is not put back into the queue (`queue.go:183-198`). `PairsSettle` also excepts `Silenced`: when a page's WebRTC rejects before
  its offer or answer is sent (`room.ts:146-149`, `peer.ts:66-97`), the page shows a failure, its socket stays
  open, and the other page waits at `text.next()`, which has no timer. Once a page has
  the other's blob nothing holds it: a host whose answer or channel is refused sends no verdict,
  and the guest's timer ends its wait. A page that is refused after the upgrade
  (`main.go:143-178`) is not told either: its `onclose` is gone (`room.ts:276`), and it stays in "opening". `WaitersMeet`
  holds because the last band has no limits; until it is reached only the oldest waiter is tried.

## 5. What is proved

Constants are arbitrary up to the named assumptions of the modules. For `Netplay`:
numbers are natural, intervals positive, the neutral word is a word, and
`MAX_ROLLBACK <= SimMaxRollback` (both are 8 in the source).

`NetplayProofs` proves `Spec => []IInv` and from it the shapes of all arrays
(`TypesHold`), `InputsHold`, `LogsHold`, `LogRuns`, `CorrectionsHold`, `VerdictsHold`
and `SettledHolds`. None of the properties is inductive. The argument, which is also how
`IInv` is built:

1. *What travels is true* (`KnownInv`, `PacketInv`): an input is decided once, when
   its frame is ticked, and packets copy decided inputs.
2. *Known frames were fed the known input* (`FedInv`): the step that learns an input
   replays from the earliest frame it contradicts.
3. *That replay is possible* (`WindowInv`): the stall keeps the first unknown frame
   within the window.
4. So both sims ran the same pairs up to what each has settled (`Finals`), logs hold
   these pairs (`LogInv`), and checksums held, in flight or judged are hashes of
   states that are final at their sender (`HeldInv`, `AnnouncedInv`, `VerdictInv`).

It also proves `Spec => ImplementsLockstep`: the mapping of a state is two
logs over the decided inputs (`Shown`), initial states map to the initial state, and a step
maps to a step or a stutter.

For `Settlement` nothing is assumed of the matches, accounts, claims and workers but
that ids are naturals and names of processes do not collide; one account may hold both seats. `SettlementProofs` proves `Spec => []IInv`, whose parts lean on each other:

1. *A row is locked by one process* (`RowInv`) and *a job is held by one worker*
   (`JobInv`): transactions start on free rows, claims on free jobs.
2. *So what a process saw stays true until it commits* (`StateOK`): a worker's claim
   is an upload, its replay verdict still fits the row, and a settlement or reversal
   has both ratings locked when nothing is left to lock.
3. *So what a commit writes is right* (`MatchInv`): a job that was reversed is done, a
   match marked ok has an upload that replays to it, a recorded payment is positive for
   the winner's seat alone, and of a match of one account for neither. The last also needs the arithmetic of the ladder
   (`LpChangeRange`, `ApplyLossRange`, `SeatChangesRange`).

`TypeCorrect`, `JudgedOnce`, `OkMeansReplayed` and `PositiveForWinner` follow.

The ladder's books are a second invariant (`Ledger`). `LadderBalances` relates the points of an account to
a sum over all its matches of what was paid and taken back; it is not inductive, because a commit adds to the
points it *read*: `ReadInv` says that what a process has read is locked by it alone and
still what the row holds. `CountsInv` relates a rating row to the sets of matches won and lost. A commit changes one match
and two accounts, so a sum changes by one summand; that is a lemma about sums over any finite set
(`SetFacts`), and the one new assumption, `MatchesAssumption`, is that matches are finitely many. From it
follow `PointsBalance` and `WinsWithinMatches`, for every account that never plays itself. A match somebody plays
against themselves touches no other account, so it does not disturb those of the others.
`LadderNeverDeadlocks` adds `OrderInv` (the lower id is locked first): of a circle of
settlements, the one that holds the lowest id would be waited for by one that holds
a lower one still.

For `Rooms` and `Negotiation` nothing is assumed but that bands and measurements are
naturals and that queues and codes differ. `RoomsProofs` proves `Spec => []IInv`, where `IInv` is `TypeOK`, `ServerInv` and `PagesInv`:

1. *Whoever waits is in the room or queue the next one looks in* (`FoundInv`), and *who has been chosen is
   out of it*: `Pick` takes both out of the queue in the step that makes the pair, so no
   later sweep, by whatever thread, can choose them again. What a thread has left to introduce is a pair.
2. *A role goes to the end that has it*: whoever is told it is the host, or is in a state of the host's
   side of the negotiation, is the host of a pair, and the same for the guest (`RoleInv`). Two small facts close the
   induction: pages never send a role, so the relay forwards none (`SentInv`), and a client that has
   not come has no handler (`AwayInv`).
3. *The host decides* (`VerdictInv`, `PlayInv`): a verdict under way means that its sender plays that transport or
   has left, and a guest plays what it was told.

`TypeCorrect`, `PairsDisjoint`, `WaitersAreFound` and `TransportsAgree` follow, for any
number of clients, codes and bands.

`FramesProofs` shows that no page is ever sent a frame it cannot use (`FramesFit`). The property looks at the
head of a queue only, and says nothing of how the frame got there, so `FrameInv` adds, for the time before a page reads:
how far each introduction has come, with the sockets handed over only after both ends have been told
(`TellInv`, `HandedInv`); that nothing is under way at a client nobody has chosen (`QuietInv`); that the role is the
first frame and the only of its kind (`FirstInv`); and for the two pages of a pair which frames each can have under
way to the other in its state, of each at most one, and in which order (`StreamInv`). `FramesAreUsable` follows.

For the simulation the assumptions are those of `CharacterData` (what the loader accepts),
at most four projectiles, a history and a press buffer of at least one frame (`InputsAssumption`), and the round numbers of the balance sheet.
Numbers are integers without a width: the loader bounds no damage or health from above, and a
cast with values near 2^31 would overflow the `int32` of the source, so "every cast the loader accepts" means
every cast whose sums stay below that. `FighterProofs` shows of every
operator on a player that it keeps a *sound* fighter sound: gauges within their
sizes, debts only in the states that owe them, an attack with a move of the character, and in
the air either above the floor or leaving it with the jump velocity. The last is
what makes gravity take off: the loader refuses jumps shorter than three frames, so the first frame of a jump is
above the floor. `FightProofs` lifts this over the chain of a frame: `Strikes(a, b)` says that
`b` is `a` after some of this frame's hits, with health lost equal to damage dealt, is transitive, and holds
of each connect. `FightOnStands` is the frame; with `PhaseAdvances` and `RoundAdvances` for the flow it
makes `IInv` inductive. From it follow `DebtsAreHeld`, `BooksAreKept`,
`DamageIsDealt`, `ChipSpares`, `SetupIsKept` and `MatchComesToAnEnd`: whatever the characters, the balance, the
number of rounds and the inputs.

`MovesProofs` proves what a single frame may do. `MovesInv` says what a fighter can be between two frames: an attack
is past its first frame, nobody in the air state is on the floor, an air move is held above it, only the hit
and the thrown leave it otherwise, and what flies was fired by a move that fires. Each of three properties then
becomes a condition on a fighter in the middle of a frame (`Helpless`: hit in the air, or knocked down where it
came to the floor; `Spent`: its move has connected and nothing flies; `OnGuard`: it waits with down-back held, and
what can reach it need not be blocked high) that every link of the chain keeps: the fighter's own step, walls and facing, the hits of either player in their order, the pool, throws and techs, the
end of the frame. `LaunchedComeDown`, `MovesHitOnce` and `GuardIsOpenedByThrows` read the property off the last link.

The fourth is `GaugesAreHonest`. A gauge in its range says nothing of how it got there, since `spendDrive` clamps at zero: a
move that costs more than there is would pass. So the property is about steps: a fighter that has just begun a move could
afford it and has paid its Drive, burnout comes with the gauge that was emptied and ends with the full one. Along the frame, `Pays` says
that what was spent on a move was there and has gone, `Drains` that anything else takes Drive outside
of burnout only (a block, `absorbs`), and `Refuels` what step 8 gives back. `JustBegun` recognises the
first frame of a move by its presses: a move uses up all of them, and the next frame records one before anything else.

`TypeCorrect` and `StayOnScreen` (`FightProofs`) come from `TInv`. Types alone would not do: the damage dealt is a
natural number only because a seat is credited with all the health the other is missing (`Owed`), which is what a refill in the
lab can take back at most. For the screen, `Walled` (both pushboxes inside walls and screen) is established by step 4
and kept by everything until the camera moves: a connect moves nobody, and a tech pushes apart through the same
clamp. The clamp is the delicate part: the corner rule moves the other fighter after it has been clamped, so it is clamped again.
The camera lemma (`CameraFollows`) then turns `Walled` into `Displayed` for the new camera, by cases of `updateCamera`,
with the rounding of the halved sum. `StayOnScreen` has the hypothesis `ScreenFits`: pushboxes are centred, half of one
fits the camera's margin (`resource.go:128` asks for it, the loader does not look), and rounds start inside the screen. The
shipped characters satisfy it. Two facts about inputs are assumed: a keyboard delivers buttons and directions (`KeyboardAssumption`), and
rounds start a natural distance from the centre (`StartAssumption`).

`SetFacts` has the facts about `Min`, `Max` and sums over finite sets that all of them use.

**Model-checked only:** liveness (`StallsEnd`, `MatchGoesOn`, `ReportsAreDecided`,
`JobsAreJudged`, `WaitersMeet`, `PairsSettle`, `NobodyLeftBehind`), which needs ENABLED and fairness, and
`SeatBlind`, which compares two runs of a whole frame. That settlements cannot deadlock is proved where
only the ladder is played, because with casual disconnects among them they can:
those lock the loser's rating first.

## 6. What is not modelled

The parts, with their reasons, are listed under `components` in `PROJECT.json`; what is
planned, in section 2. Left out for good: rendering, forms, devices, assets,
migrations, tokens, byte layouts (snapshot, dump, replay log, packets), the generator's
arithmetic, and the statistics that no decision reads. Within the models:

* `Settlement`: the locks on the rows of the accounts table (taken last, just before the
  commit), errors of a single statement that are not the death of its transaction, and time.
* `Rooms`: the database's part in an introduction (its row is where `Settlement` starts), HTTP
  and tokens. `Negotiation`: ICE and the blobs of the two descriptions.
* `Fight`: the width of numbers (see section 5), the effect flags, which nothing in the simulation reads, and `AIDevice`.
* `Netplay`: the measured statistics and the sampled timeline.

Hazards without a property are marked with the reason in `PROJECT.json`.
