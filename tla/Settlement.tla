------------------------------ MODULE Settlement ------------------------------
(***************************************************************************)
(* What the server does with the results of matches: the request that      *)
(* stores an upload and compares it with the other player's (match.go),    *)
(* the sweep that settles a match only one side reported on                *)
(* (unilateral.go), and the workers that replay a ranked match and take    *)
(* back what it paid when the replay disagrees (verify.go).                *)
(*                                                                         *)
(* The processes meet in Postgres, at its default isolation: a query       *)
(* outside a transaction is one step, a transaction holds the rows it has  *)
(* locked until it commits, its writes show at the commit, and what it     *)
(* read without a lock may be out of date by then.  A transaction is the   *)
(* sequence of its row locks, each a step of its own, and its commit.      *)
(*                                                                         *)
(* A log is what a replay of it shows.  Left out: the fields that are only *)
(* measured, the account checks before a request is accepted, an upload    *)
(* that does not decode, the tier (a function of the points, always        *)
(* written with them), the locks on the accounts' own rows (taken last,    *)
(* just before a commit), and time: a lone upload may be old enough for    *)
(* the sweep at any moment.  The worker's own retries never count in the   *)
(* model: every error it can meet is one of the database, which undoes the *)
(* transaction the retry would have been counted in.                       *)
(***************************************************************************)
EXTENDS Integers, Sequences, FiniteSetsExt

CONSTANTS
  Matches,      \* matches the queue has recorded
  Modes,        \* the queues they may have come from
  Users,        \* account ids
  Player,       \* Player[m][s]: the account in seat s of match m
  Claims,       \* what a client may upload, see Claim
  StartLP,      \* the ladder points every account starts with
  Workers,      \* verification workers
  Sweeper,      \* the one goroutine of runUnilateral
  Fallible,     \* processes whose work may end in the middle
  MaxFailures,  \* bound: how often one does
  NoMatch       \* what an idle process works on

Seat == {1, 2}
Other(s) == 3 - s

\* Nothing keeps the queue from pairing two pages of one account (queue.go:275).
TwoAccounts(m) == Player[m][1] # Player[m][2]
PlaysItself(u) == \E m \in Matches : Player[m][1] = u /\ Player[m][2] = u

\* A request is one player's upload for one match.
Requests == Matches \X Seat
Procs == Requests \cup Workers \cup {Sweeper}

\* What the log of an upload replays to: nothing that can be compared with the
\* uploaded checksums, a match without an end, or the seat that won it.
Garbage == -1
Unfinished == 0

Logs == [end : Nat \ {0}, shows : {Garbage, Unfinished} \cup Seat]
Claim == [winner : Seat, log : Logs, disconnect : BOOLEAN]

\* The matches of a database that are looked at are finitely many.
ASSUME MatchesAssumption == IsFiniteSet(Matches)

ASSUME PlayersAssumption ==
  /\ Users \subseteq Nat
  /\ Modes \subseteq {"ranked", "casual"}
  /\ Player \in [Matches -> Users \X Users]

\* What kind of process a process is follows from its name.
ASSUME ProcsAssumption ==
  /\ Workers \cap Requests = {}
  /\ Sweeper \notin Workers \cup Requests
  /\ NoMatch \notin Matches

ASSUME InputsAssumption ==
  /\ Claims \subseteq Claim
  /\ StartLP \in [Users -> Nat]
  /\ MaxFailures \in Nat
  /\ Fallible \subseteq Procs

VARIABLES
  match,     \* match[m]: the row of matches, see MatchRow
  uploads,   \* uploads[m][s]: the submission of seat s, for each that is in
  job,       \* job[m]: the verification job
  rating,    \* rating[u]: the row of ratings
  flagged,   \* accounts marked for a person to look at
  proc,      \* proc[p]: where process p is
  failures,  \* how many have failed
  paid,      \* history: paid[m][s], the points all settlements of m recorded for seat s
  taken,     \* history: taken[m][s], the points all reversals of m took back
  reversals  \* history: how often m was reversed

vars == <<match, uploads, job, rating, flagged, proc, failures, paid, taken, reversals>>

history == <<paid, taken, reversals>>

Unpaid == <<>>

MatchRow ==
  [mode         : Modes,
   winner       : Seat \cup {0},           \* 0: nobody yet
   end          : Nat,
   disconnected : BOOLEAN,
   verified     : {"pending", "ok", "mismatch"},
   change       : {Unpaid} \cup (Int \X Int)]   \* the points paid, per seat

Ranked(m) == match[m].mode = "ranked"

Nobody == [x \in {} |-> x]
Put(f, k, v) == [x \in DOMAIN f \cup {k} |-> IF x = k THEN v ELSE f[x]]
NoClaim == Nobody

\* at: the next thing to do; todo: rating rows still to be locked, in order;
\* read: the points in the rows locked so far.
Idle == [at |-> "idle", on |-> NoMatch, claim |-> NoClaim, todo |-> <<>>, read |-> Nobody]

-----------------------------------------------------------------------------
(* The ladder (rating.go). *)

lpBase == 30
lpMin == 10
lpMax == 50
lpGapPerPoint == 40
TierFloors == {0, 1000, 2500, 5000, 8000, 12000}

\* Go's integer division rounds towards zero.
Quotient(a, b) == IF a >= 0 THEN a \div b ELSE -((-a) \div b)

LpChange(winnerLP, loserLP) ==
  Min({Max({lpBase + Quotient(loserLP - winnerLP, lpGapPerPoint), lpMin}), lpMax})

TierFloor(lp) == Max({f \in TierFloors : f <= lp})

\* Defective: without the floor of the tier.
ApplyLossUnfloored(lp, change) == lp - change

ApplyLoss(lp, change) == Max({lp - change, TierFloor(lp)})

\* Defective: the changes in the order winner, loser, whatever the seats.
SeatChangesByResult(winnerSeat, lps) ==
  LET change == LpChange(lps[winnerSeat], lps[Other(winnerSeat)])
  IN  <<change, ApplyLoss(lps[Other(winnerSeat)], change) - lps[Other(winnerSeat)]>>

\* What a win of winnerSeat pays the two seats, who have lps[1] and lps[2].
SeatChanges(winnerSeat, lps) ==
  LET change == LpChange(lps[winnerSeat], lps[Other(winnerSeat)])
      Of(s)  == IF s = winnerSeat THEN change ELSE ApplyLoss(lps[s], change) - lps[s]
  IN  <<Of(1), Of(2)>>

\* The amounts to record, by account: of a match of one account, the loser's.
Recorded(m, winnerSeat, change) ==
  IF TwoAccounts(m) THEN change
  ELSE <<change[Other(winnerSeat)], change[Other(winnerSeat)]>>

-----------------------------------------------------------------------------
(* Row locks: what a process holds follows from where it is. *)

Holds(p, m) == proc[p].at = "inside" /\ proc[p].on = m
RowFree(m) == \A p \in Procs : ~ Holds(p, m)
RatingFree(u) == \A p \in Procs : u \notin DOMAIN proc[p].read
JobFree(m) == \A w \in Workers : proc[w].on # m

\* The sweep and the workers lock the row FOR UPDATE, which keeps out even the
\* foreign key check of a new submission; the UPDATE of a settlement does not.
InsertBlocked(m) == \E p \in Workers \cup {Sweeper} : Holds(p, m)

\* Whoever holds a row has it when it asks for it again.
Once(pair) == IF pair[1] = pair[2] THEN <<pair[1]>> ELSE pair

\* Defective: seat order, as in the reversal.
LadderLocksBySeat(m, claim) == IF Ranked(m) THEN Once(Player[m]) ELSE <<>>

\* The ratings a settlement locks: both, lowest id first, for the ladder, and
\* for a casual disconnect the ones it counts, the loser's first.
LadderLocks(m, claim) ==
  LET users == {Player[m][1], Player[m][2]} IN
  IF Ranked(m) THEN Once(<<Min(users), Max(users)>>)
  ELSE IF claim.disconnect
  THEN Once(<<Player[m][Other(claim.winner)], Player[m][claim.winner]>>)
  ELSE <<>>

\* check 1: measurements and the disconnect flag are not compared.
Agree(a, b) == a.winner = b.winner /\ a.log = b.log

\* check 2: the log runs to its own hashes for as long as reported, and unless
\* somebody left, to the reported winner.
Replays(row, log) ==
  /\ log.shows # Garbage
  /\ log.end = row.end
  /\ row.disconnected \/ log.shows = row.winner

\* The submission the worker reads: that of the lowest account id.
FirstUpload(m) ==
  LET first == CHOOSE s \in DOMAIN uploads[m] :
                 \A t \in DOMAIN uploads[m] : Player[m][s] <= Player[m][t]
  IN  uploads[m][first]

Become(p, state) == proc' = [proc EXCEPT ![p] = state]

-----------------------------------------------------------------------------
Init ==
  /\ match \in [Matches ->
       [mode : Modes, winner : {0}, end : {0}, disconnected : {FALSE},
        verified : {"pending"}, change : {Unpaid}]]
  /\ uploads = [m \in Matches |-> Nobody]
  /\ job = [m \in Matches |-> "none"]
  /\ rating = [u \in Users |->
       [lp |-> StartLP[u], matches |-> 0, wins |-> 0, disconnects |-> 0,
        unilateralWins |-> 0]]
  /\ flagged = {}
  /\ proc = [p \in Procs |-> Idle]
  /\ failures = 0
  /\ paid = [m \in Matches |-> <<0, 0>>]
  /\ taken = [m \in Matches |-> <<0, 0>>]
  /\ reversals = [m \in Matches |-> 0]

(***************************************************************************)
(* POST /api/match/{id}/result (submitResult).  The row is read first, the *)
(* upload is stored next, the other one is looked for after that, and only *)
(* then does a transaction begin.                                          *)
(***************************************************************************)
Submit(m, s, claim) ==
  /\ proc[<<m, s>>] = Idle
  /\ match[m].winner = 0
  /\ Become(<<m, s>>, [Idle EXCEPT !.at = "accepted", !.on = m, !.claim = claim])
  /\ UNCHANGED <<match, uploads, job, rating, flagged, failures, history>>

\* An account has one upload of a match, whichever of its pages sent it.
Sent(m, s) == \E t \in DOMAIN uploads[m] : Player[m][t] = Player[m][s]

RecordUpload(m, s) ==
  LET p == <<m, s>> IN
  /\ proc[p].at = "accepted"
  /\ ~ InsertBlocked(m)
  /\ \/ /\ Sent(m, s)
        /\ Become(p, Idle)
        /\ UNCHANGED uploads
     \/ /\ ~ Sent(m, s)
        /\ uploads' = [uploads EXCEPT ![m] = Put(@, s, proc[p].claim)]
        /\ Become(p, [proc[p] EXCEPT !.at = "recorded"])
  /\ UNCHANGED <<match, job, rating, flagged, failures, history>>

CompareUploads(m, s) ==
  LET p == <<m, s>> IN
  /\ proc[p].at = "recorded"
  /\ \/ /\ Other(s) \notin DOMAIN uploads[m]
        /\ Become(p, Idle)
     \/ /\ Other(s) \in DOMAIN uploads[m]
        /\ Become(p, [proc[p] EXCEPT !.at =
             IF Agree(proc[p].claim, uploads[m][Other(s)]) THEN "settling" ELSE "voiding"])
  /\ UNCHANGED <<match, uploads, job, rating, flagged, failures, history>>

Void(m, s) ==
  /\ proc[<<m, s>>].at = "voiding"
  /\ RowFree(m)
  /\ match' = [match EXCEPT ![m].verified = "mismatch"]
  /\ flagged' = flagged \cup {Player[m][1], Player[m][2]}
  /\ Become(<<m, s>>, Idle)
  /\ UNCHANGED <<uploads, job, rating, failures, history>>

\* settle(): the UPDATE of the match takes its row.
BeginSettle(m, s) ==
  LET p == <<m, s>> IN
  /\ proc[p].at = "settling"
  /\ RowFree(m)
  /\ Become(p, [proc[p] EXCEPT !.at = "inside", !.todo = LadderLocks(m, proc[p].claim)])
  /\ UNCHANGED <<match, uploads, job, rating, flagged, failures, history>>

(***************************************************************************)
(* sweepUnilateral(): the aggregate picks a match with one upload, the row *)
(* is locked and its winner read again, and the upload that is read next   *)
(* is settled as a disconnect.                                             *)
(***************************************************************************)
\* Defective: counts the uploads wrong.
SweepPickTwo(m) ==
  /\ proc[Sweeper] = Idle
  /\ match[m].winner = 0
  /\ DOMAIN uploads[m] = Seat
  /\ Become(Sweeper, [Idle EXCEPT !.at = "picked", !.on = m])
  /\ UNCHANGED <<match, uploads, job, rating, flagged, failures, history>>

SweepPick(m) ==
  /\ proc[Sweeper] = Idle
  /\ match[m].winner = 0
  /\ \E s \in Seat : DOMAIN uploads[m] = {s}
  /\ Become(Sweeper, [Idle EXCEPT !.at = "picked", !.on = m])
  /\ UNCHANGED <<match, uploads, job, rating, flagged, failures, history>>

SweepLock ==
  LET m == proc[Sweeper].on IN
  /\ proc[Sweeper].at = "picked"
  /\ RowFree(m)
  /\ \/ /\ match[m].winner # 0
        /\ Become(Sweeper, Idle)
     \/ /\ match[m].winner = 0
        /\ \E s \in DOMAIN uploads[m] :
             LET claim == [uploads[m][s] EXCEPT !.disconnect = TRUE] IN
             Become(Sweeper, [proc[Sweeper] EXCEPT !.at = "inside", !.claim = claim,
                                                   !.todo = LadderLocks(m, claim)])
  /\ UNCHANGED <<match, uploads, job, rating, flagged, failures, history>>

(***************************************************************************)
(* settleTx() from its last lock to its commit: the result, the ladder,    *)
(* the verification job and the disconnect counts.  The points written are *)
(* computed from those read under the locks; the counts are relative.      *)
(***************************************************************************)
\* Defective: a match judged before keeps its verdict.
SettledKeepingVerdict(row, claim, ranked, change) ==
  [row EXCEPT !.winner = claim.winner, !.end = claim.log.end,
              !.disconnected = claim.disconnect,
              !.verified = IF ranked THEN @ ELSE "ok",
              !.change = IF ranked THEN change ELSE @]

Settled(row, claim, ranked, change) ==
  [row EXCEPT !.winner = claim.winner, !.end = claim.log.end,
              !.disconnected = claim.disconnect,
              !.verified = IF ranked THEN "pending" ELSE "ok",
              !.change = IF ranked THEN change ELSE @]

\* The rating row of an account that held seat s, after the match is settled.
AfterSettle(row, s, claim, ranked, lp) ==
  LET won  == s = claim.winner
      left == claim.disconnect
  IN  [lp             |-> IF ranked THEN lp ELSE row.lp,
       matches        |-> row.matches + (IF ranked THEN 1 ELSE 0),
       wins           |-> row.wins + (IF ranked /\ won THEN 1 ELSE 0),
       disconnects    |-> row.disconnects + (IF left /\ ~ won THEN 1 ELSE 0),
       unilateralWins |-> row.unilateralWins + (IF left /\ won THEN 1 ELSE 0)]

SeatOf(m, u) == IF u = Player[m][1] THEN 1 ELSE 2

\* The winner's row is written first, then the loser's, each with the points
\* its seat held when they were read, and what the match pays that seat.
AfterWrites(m, claim, ranked, read, change) ==
  LET w == claim.winner
      l == Other(w)
      won == [rating EXCEPT ![Player[m][w]] =
                AfterSettle(@, w, claim, ranked, read[Player[m][w]] + change[w])]
  IN  [won EXCEPT ![Player[m][l]] =
         AfterSettle(@, l, claim, ranked, read[Player[m][l]] + change[l])]

CommitSettle(p) ==
  LET m      == proc[p].on
      claim  == proc[p].claim
      ranked == Ranked(m)
      read   == proc[p].read
      change == SeatChanges(claim.winner, <<read[Player[m][1]], read[Player[m][2]]>>)
      amounts == Recorded(m, claim.winner, change)
  IN  /\ proc[p].at = "inside" /\ proc[p].todo = <<>>
      /\ match' = [match EXCEPT ![m] = Settled(@, claim, ranked, amounts)]
      /\ rating' = AfterWrites(m, claim, ranked, read, change)
      /\ job' = IF ranked /\ job[m] = "none" THEN [job EXCEPT ![m] = "queued"] ELSE job
      /\ paid' = IF ranked
                 THEN [paid EXCEPT ![m] = <<@[1] + amounts[1], @[2] + amounts[2]>>]
                 ELSE paid
      /\ Become(p, Idle)
      /\ UNCHANGED <<uploads, flagged, failures, taken, reversals>>

(***************************************************************************)
(* verifier.step(): claim a job that nobody holds, lock its match, replay, *)
(* and either accept it or take back what was paid.                        *)
(***************************************************************************)
\* Defective: the claim does not skip the jobs that are being worked on.
ClaimJobLocked(w, m) ==
  /\ proc[w] = Idle
  /\ job[m] = "queued"
  /\ Become(w, [Idle EXCEPT !.at = "claimed", !.on = m])
  /\ UNCHANGED <<match, uploads, job, rating, flagged, failures, history>>

\* Defective: the claim is committed before the work is done.
ClaimJobRunning(w, m) ==
  /\ proc[w] = Idle
  /\ job[m] = "queued"
  /\ job' = [job EXCEPT ![m] = "running"]
  /\ Become(w, [Idle EXCEPT !.at = "claimed", !.on = m])
  /\ UNCHANGED <<match, uploads, rating, flagged, failures, history>>

ClaimJob(w, m) ==
  /\ proc[w] = Idle
  /\ job[m] = "queued"
  /\ JobFree(m)
  /\ Become(w, [Idle EXCEPT !.at = "claimed", !.on = m])
  /\ UNCHANGED <<match, uploads, job, rating, flagged, failures, history>>

Judge(w) ==
  LET m == proc[w].on IN
  /\ proc[w].at = "claimed"
  /\ RowFree(m)
  /\ Become(w, [proc[w] EXCEPT
       !.at = "inside",
       !.claim = FirstUpload(m),
       !.todo = IF Replays(match[m], FirstUpload(m).log) \/ match[m].change = Unpaid
                THEN <<>> ELSE Once(Player[m])])
  /\ UNCHANGED <<match, uploads, job, rating, flagged, failures, history>>

\* Check 3 flags whom it likes and changes nothing else.
CommitOk(w) ==
  LET m == proc[w].on IN
  /\ proc[w].at = "inside" /\ proc[w].todo = <<>>
  /\ Replays(match[m], proc[w].claim.log)
  /\ match' = [match EXCEPT ![m].verified = "ok"]
  /\ \E implausible \in SUBSET {Player[m][1], Player[m][2]} :
       flagged' = flagged \cup implausible
  /\ job' = [job EXCEPT ![m] = "done"]
  /\ Become(w, Idle)
  /\ UNCHANGED <<uploads, rating, failures, history>>

\* Defective: a loser who paid nothing is taken for the winner.
AfterReversalOfLoss(m, s, row, lp) ==
  LET change == match[m].change
      won    == (Player[m][s] = Player[m][1]) <=> (change[1] >= 0)
  IN  [row EXCEPT !.lp = Max({lp - change[s], 0}),
                  !.matches = Max({@ - 1, 0}),
                  !.wins = Max({@ - (IF won THEN 1 ELSE 0), 0})]

\* The rating row of seat s of m, who has lp points, with the match taken back.
AfterReversal(m, s, row, lp) ==
  LET change == match[m].change
      won    == (Player[m][s] = Player[m][1]) <=> (change[1] > 0)
  IN  [row EXCEPT !.lp = Max({lp - change[s], 0}),
                  !.matches = Max({@ - 1, 0}),
                  !.wins = Max({@ - (IF won THEN 1 ELSE 0), 0})]

\* reverseLadder(): seat 1, then seat 2, which finds what seat 1 was left.
AfterReversals(m, read) ==
  LET first == [rating EXCEPT ![Player[m][1]] = AfterReversal(m, 1, @, read[Player[m][1]])]
  IN  [first EXCEPT ![Player[m][2]] =
         AfterReversal(m, 2, @, IF TwoAccounts(m) THEN read[Player[m][2]] ELSE @.lp)]

CommitMismatch(w) ==
  LET m      == proc[w].on
      change == match[m].change
      back   == [s \in Seat |-> Min({change[s], proc[w].read[Player[m][s]]})]
  IN  /\ proc[w].at = "inside" /\ proc[w].todo = <<>>
      /\ ~ Replays(match[m], proc[w].claim.log)
      /\ match' = [match EXCEPT ![m].verified = "mismatch"]
      /\ flagged' = flagged \cup {Player[m][1], Player[m][2]}
      /\ rating' = AfterReversals(m, proc[w].read)
      /\ taken' = [taken EXCEPT ![m] = <<@[1] + back[1], @[2] + back[2]>>]
      /\ reversals' = [reversals EXCEPT ![m] = @ + 1]
      /\ job' = [job EXCEPT ![m] = "done"]
      /\ Become(w, Idle)
      /\ UNCHANGED <<uploads, failures, paid>>

(***************************************************************************)
(* Locks and failures.                                                     *)
(***************************************************************************)
\* Defective: the points are read without a lock.
LockRatingUnlocked(p) ==
  LET u == Head(proc[p].todo) IN
  /\ proc[p].at = "inside" /\ proc[p].todo # <<>>
  /\ Become(p, [proc[p] EXCEPT !.todo = Tail(@), !.read = Put(@, u, rating[u].lp)])
  /\ UNCHANGED <<match, uploads, job, rating, flagged, failures, history>>

\* SELECT ... FOR UPDATE, or the row lock of an UPDATE, on the next rating.
LockRating(p) ==
  LET u == Head(proc[p].todo) IN
  /\ proc[p].at = "inside" /\ proc[p].todo # <<>>
  /\ RatingFree(u)
  /\ Become(p, [proc[p] EXCEPT !.todo = Tail(@), !.read = Put(@, u, rating[u].lp)])
  /\ UNCHANGED <<match, uploads, job, rating, flagged, failures, history>>

\* The holder of the rating a transaction waits for.  Whoever waits for the row
\* of a match holds nothing yet that anybody else could wait for.
Waiting(p) == proc[p].at = "inside" /\ proc[p].todo # <<>>
WaitsFor(p) == {q \in Procs : Waiting(p) /\ Head(proc[p].todo) \in DOMAIN proc[q].read}

\* Each of S waits for another of S, and for nobody else.
Cycle(S) == S # {} /\ UNION {WaitsFor(q) : q \in S} = S

\* Postgres ends one of the transactions of a cycle; nothing of it stays, and
\* an upload it was to settle has been stored before it began.
Deadlocked(p) ==
  /\ \E S \in SUBSET {q \in Procs : Waiting(q)} : p \in S /\ Cycle(S)
  /\ Become(p, Idle)
  /\ UNCHANGED <<match, uploads, job, rating, flagged, failures, history>>

\* A request whose client hangs up, a connection that is lost, a restart.
Fail(p) ==
  /\ p \in Fallible /\ failures < MaxFailures
  /\ proc[p] # Idle
  /\ failures' = failures + 1
  /\ Become(p, Idle)
  /\ UNCHANGED <<match, uploads, job, rating, flagged, history>>

Next ==
  \/ \E m \in Matches, s \in Seat :
       \/ \E claim \in Claims : Submit(m, s, claim)
       \/ RecordUpload(m, s)
       \/ CompareUploads(m, s)
       \/ Void(m, s)
       \/ BeginSettle(m, s)
  \/ \E m \in Matches : SweepPick(m)
  \/ SweepLock
  \/ \E p \in Requests \cup {Sweeper} : CommitSettle(p)
  \/ \E w \in Workers :
       \/ \E m \in Matches : ClaimJob(w, m)
       \/ Judge(w)
       \/ CommitOk(w)
       \/ CommitMismatch(w)
  \/ \E p \in Procs : LockRating(p) \/ Deadlocked(p) \/ Fail(p)

Spec == Init /\ [][Next]_vars

(***************************************************************************)
(* Every process is a goroutine of its own and a lock that is given back   *)
(* goes to whoever has waited longest, so a process that is able to go on  *)
(* again and again goes on.  The sweep and the workers look for work for   *)
(* ever.  Nothing makes a client upload.                                   *)
(***************************************************************************)
Transact(p) == CommitSettle(p) \/ LockRating(p) \/ Deadlocked(p)

Serve(m, s) ==
  \/ RecordUpload(m, s) \/ CompareUploads(m, s) \/ Void(m, s) \/ BeginSettle(m, s)
  \/ Transact(<<m, s>>)

Sweep == (\E m \in Matches : SweepPick(m)) \/ SweepLock \/ Transact(Sweeper)

Verify(w) ==
  \/ \E m \in Matches : ClaimJob(w, m)
  \/ Judge(w) \/ CommitOk(w) \/ CommitMismatch(w)
  \/ LockRating(w) \/ Deadlocked(w)

Fairness ==
  /\ \A m \in Matches, s \in Seat : SF_vars(Serve(m, s))
  /\ SF_vars(Sweep)
  /\ \A w \in Workers : SF_vars(Verify(w))

FairSpec == Spec /\ Fairness

-----------------------------------------------------------------------------
Stages == {"idle", "accepted", "recorded", "voiding", "settling", "picked", "claimed",
           "inside"}

\* Every variable stays in its range.
TypeOK ==
  /\ match \in [Matches -> MatchRow]
  /\ \A m \in Matches :
       DOMAIN uploads[m] \subseteq Seat /\ uploads[m] \in [DOMAIN uploads[m] -> Claims]
  /\ job \in [Matches -> {"none", "queued", "done"}]
  /\ rating \in [Users -> [lp : Nat, matches : Nat, wins : Nat, disconnects : Nat,
                          unilateralWins : Nat]]
  /\ flagged \subseteq Users
  /\ \A p \in Procs :
       /\ proc[p].at \in Stages
       /\ proc[p].on \in Matches \cup {NoMatch}
       /\ DOMAIN proc[p].read \subseteq Users
  /\ failures \in 0 .. MaxFailures

PointsMoved(u) ==
  SumFunction([m \in Matches |->
    IF u \in {Player[m][1], Player[m][2]}
    THEN paid[m][SeatOf(m, u)] - taken[m][SeatOf(m, u)] ELSE 0])

\* No rating change is lost (match.go:276, verify.go:354): whatever settlements
\* and reversals overlap, the points of an account that never met itself are
\* what it started with and everything it was paid and had taken back.  (In a
\* match against itself the loser's write covers the winner's.)
LadderBalances ==
  \A u \in Users : ~ PlaysItself(u) => rating[u].lp = StartLP[u] + PointsMoved(u)

\* A match is judged once (verify.go:108): however many workers look for jobs,
\* and wherever one of them dies, what a match paid is taken back at most once.
ReversedOnce ==
  \A m \in Matches : reversals[m] <= 1 /\ (reversals[m] = 1 => job[m] = "done")

\* The counts of an account stay consistent through payments and reversals in
\* any order (verify.go:369): nobody who never met themselves has won more
\* matches than they played, although the reversal has to infer who won from
\* the sign of a payment.  (A match against oneself pays neither seat, and its
\* reversal takes two matches and no win.)
CountsFit ==
  \A u \in Users : ~ PlaysItself(u) => rating[u].wins <= rating[u].matches

\* A recorded payment is positive for the winner's seat and for no other, even
\* when the loser is at the floor of a tier (rating.go:57); of a match of one
\* account it is positive for neither.
WinnerIsPaid ==
  \A m \in Matches : match[m].change # Unpaid =>
    \A s \in Seat : match[m].change[s] > 0 <=> TwoAccounts(m) /\ s = match[m].winner

\* A ranked match is only marked ok when a replay of an uploaded log shows what
\* the match says (verify.go:197), whatever arrived while it was replayed.
OkIsReplayed ==
  \A m \in Matches : Ranked(m) /\ match[m].verified = "ok" =>
    \E s \in DOMAIN uploads[m] : Replays(match[m], uploads[m][s].log)

\* Two settlements for the ladder never wait for each other (match.go:276),
\* whichever seats the same accounts have in the two matches.
SettlementsDontDeadlock ==
  \A S \in SUBSET {p \in Requests \cup {Sweeper} : Waiting(p)} : ~ Cycle(S)

\* The worker can take back exactly what was paid (match.go:206): the amounts
\* recorded with a match are the ones it paid.
RecordedAsPaid ==
  \A m \in Matches : match[m].change # Unpaid => match[m].change = paid[m]

\* Two disagreeing claims void the match (unilateral.go:33): it pays nothing.
DisagreementPaysNothing ==
  \A m \in Matches :
    DOMAIN uploads[m] = Seat /\ ~ Agree(uploads[m][1], uploads[m][2]) => paid[m] = <<0, 0>>

Decided(m) == match[m].winner # 0 \/ match[m].verified = "mismatch"

\* A match that anybody reported on is decided (unilateral.go:48, match.go:348).
ReportsAreDecided ==
  \A m \in Matches : DOMAIN uploads[m] # {} ~> Decided(m)

\* Every job is judged in the end, although workers die (verify.go:93).
JobsAreJudged == \A m \in Matches : job[m] = "queued" ~> job[m] = "done"

=============================================================================
