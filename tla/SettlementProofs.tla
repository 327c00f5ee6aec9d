--------------------------- MODULE SettlementProofs ---------------------------
(***************************************************************************)
(* What Settlement guarantees for every set of matches, accounts, claims   *)
(* and workers.  All of it follows from one inductive invariant, IInv:     *)
(* what each process may assume about the match it works on (StateOK),     *)
(* that a row is locked by one process at a time (RowInv), that no two     *)
(* workers hold the same job (JobInv), and what a row records (MatchInv).  *)
(* Two more build on it: OrderInv, the order of the rating locks, and      *)
(* Ledger, that counts, points and what has been read of them agree.       *)
(***************************************************************************)
EXTENDS Settlement, SetFacts

Players(m) == {Player[m][1], Player[m][2]}
Elems(q) == {q[i] : i \in 1 .. Len(q)}

RatingRow ==
  [lp : Nat, matches : Nat, wins : Nat, disconnects : Nat, unilateralWins : Nat]

Uploads == UNION {[D -> Claims] : D \in SUBSET Seat}
Readings == UNION {[D -> Nat] : D \in SUBSET Users}

ProcState ==
  [at : Stages, on : Matches \cup {NoMatch}, claim : Claim \cup {NoClaim},
   todo : Seq(Users), read : Readings]

Types ==
  /\ match \in [Matches -> MatchRow]
  /\ uploads \in [Matches -> Uploads]
  /\ job \in [Matches -> {"none", "queued", "done"}]
  /\ rating \in [Users -> RatingRow]
  /\ flagged \in SUBSET Users
  /\ proc \in [Procs -> ProcState]
  /\ failures \in 0 .. MaxFailures
  /\ reversals \in [Matches -> {0, 1}]

\* Both ratings are locked, or will be before the commit.
Locked(s) == Players(s.on) \subseteq Elems(s.todo) \cup DOMAIN s.read

Uploaded(m) == {uploads[m][t] : t \in DOMAIN uploads[m]}

\* What holds while process p is in state s.
StateOK(p, s) ==
  /\ s.at # "idle" => s.on \in Matches
  /\ s.at \notin {"idle", "accepted"} => DOMAIN uploads[s.on] # {}
  /\ p \in Requests /\ s.at # "idle" => s.on = p[1] /\ s.claim \in Claims
  /\ p \in Workers =>
       /\ s.at = "idle" => s.on = NoMatch
       /\ s.at # "idle" => job[s.on] = "queued"
       /\ s.at = "inside" => /\ s.claim \in Uploaded(s.on)
                             /\ Replays(match[s.on], s.claim.log) \/ Locked(s)
  /\ p \notin Workers /\ s.at = "inside" =>
       s.claim \in Claim /\ (Ranked(s.on) => Locked(s))

ProcInv == \A p \in Procs : StateOK(p, proc[p])

RowInv ==
  \A p \in Procs, q \in Procs :
    proc[p].at = "inside" /\ proc[q].at = "inside" /\ proc[p].on = proc[q].on => p = q

JobInv ==
  \A v \in Workers, w \in Workers :
    proc[v].on # NoMatch /\ proc[v].on = proc[w].on => v = w

MatchOK(m) ==
  /\ ~ Ranked(m) => match[m].change = Unpaid /\ job[m] = "none"
  /\ job[m] # "none" => match[m].change # Unpaid /\ DOMAIN uploads[m] # {}
  /\ reversals[m] = 1 => job[m] = "done"
  /\ match[m].change # Unpaid =>
       \A s \in Seat : match[m].change[s] > 0 <=> TwoAccounts(m) /\ s = match[m].winner
  /\ Ranked(m) /\ match[m].verified = "ok" =>
       \E c \in Uploaded(m) : Replays(match[m], c.log)

MatchInv == \A m \in Matches : MatchOK(m)

IInv == Types /\ ProcInv /\ RowInv /\ JobInv /\ MatchInv

-----------------------------------------------------------------------------
(* Sequences and readings. *)

\* Taking the head off a sequence leaves the other elements.
LEMMA TailElems ==
  ASSUME NEW S, NEW q \in Seq(S), q # <<>>
  PROVE  /\ Head(q) \in S /\ Tail(q) \in Seq(S)
         /\ Elems(q) = {Head(q)} \cup Elems(Tail(q))
<1>1. Head(q) \in S /\ Tail(q) \in Seq(S) /\ Len(q) \in Nat /\ Len(q) # 0
  OBVIOUS
<1>2. Len(Tail(q)) = Len(q) - 1 /\ \A i \in 1 .. Len(q) - 1 : Tail(q)[i] = q[i + 1]
  OBVIOUS
<1>3. ASSUME NEW x \in Elems(q) PROVE x \in {Head(q)} \cup Elems(Tail(q))
  <2>1. PICK i \in 1 .. Len(q) : x = q[i]
    BY DEF Elems
  <2>2. CASE i = 1
    BY <2>1, <2>2
  <2>3. CASE i # 1
    <3>1. i - 1 \in 1 .. Len(q) - 1 /\ (i - 1) + 1 = i
      BY <1>1, <2>3
    <3>2. Tail(q)[i - 1] = x
      BY <1>2, <2>1, <3>1
    <3>3. QED
      BY <1>2, <3>1, <3>2 DEF Elems
  <2>4. QED
    BY <2>2, <2>3
<1>4. ASSUME NEW x \in {Head(q)} \cup Elems(Tail(q)) PROVE x \in Elems(q)
  <2>1. CASE x = Head(q)
    BY <1>1, <2>1 DEF Elems
  <2>2. CASE x \in Elems(Tail(q))
    <3>1. PICK i \in 1 .. Len(q) - 1 : x = Tail(q)[i]
      BY <1>2, <2>2 DEF Elems
    <3>2. i + 1 \in 1 .. Len(q) /\ x = q[i + 1]
      BY <1>1, <1>2, <3>1
    <3>3. QED
      BY <3>2 DEF Elems
  <2>3. QED
    BY <2>1, <2>2
<1>5. QED
  BY <1>1, <1>3, <1>4

\* The sequence of two accounts.
LEMMA PairElems ==
  ASSUME NEW S, NEW a \in S, NEW b \in S
  PROVE  /\ <<a, b>> \in Seq(S) /\ Elems(<<a, b>>) = {a, b}
<1>1. <<a, b>> \in Seq(S) /\ Len(<<a, b>>) = 2 /\ <<a, b>>[1] = a /\ <<a, b>>[2] = b
  OBVIOUS
<1>2. 1 .. 2 = {1, 2}
  OBVIOUS
<1>3. Elems(<<a, b>>) = {a, b}
  BY <1>1, <1>2 DEF Elems
<1>4. QED
  BY <1>1, <1>3

\* The locks of two accounts, which may be one.
LEMMA OnceElems ==
  ASSUME NEW S, NEW a \in S, NEW b \in S
  PROVE  /\ Once(<<a, b>>) \in Seq(S) /\ Elems(Once(<<a, b>>)) = {a, b}
         /\ a # b => Once(<<a, b>>) = <<a, b>>
         /\ a = b => Once(<<a, b>>) = <<a>>
<1>1. CASE a = b
  <2>1. Once(<<a, b>>) = <<a>>
    BY <1>1 DEF Once
  <2>2. <<a>> \in Seq(S) /\ Len(<<a>>) = 1 /\ <<a>>[1] = a /\ 1 .. 1 = {1}
    OBVIOUS
  <2>3. Elems(<<a>>) = {a}
    BY <2>2 DEF Elems
  <2>4. QED
    BY <1>1, <2>1, <2>2, <2>3
<1>2. CASE a # b
  <2>1. Once(<<a, b>>) = <<a, b>>
    BY <1>2 DEF Once
  <2>2. <<a, b>> \in Seq(S) /\ Elems(<<a, b>>) = {a, b}
    BY PairElems
  <2>3. QED
    BY <1>2, <2>1, <2>2, Zenon
<1>3. QED
  BY <1>1, <1>2

\* One more reading.
LEMMA PutReading ==
  ASSUME NEW r \in Readings, NEW u \in Users, NEW n \in Nat
  PROVE  Put(r, u, n) \in Readings /\ DOMAIN Put(r, u, n) = DOMAIN r \cup {u}
<1>1. PICK D \in SUBSET Users : r \in [D -> Nat]
  BY DEF Readings
<1>2. Put(r, u, n) \in [D \cup {u} -> Nat]
  BY <1>1 DEF Put
<1>3. D \cup {u} \in SUBSET Users
  OBVIOUS
<1>4. QED
  BY <1>1, <1>2, <1>3 DEF Readings

\* One more upload.
LEMMA PutUpload ==
  ASSUME NEW r \in Uploads, NEW s \in Seat, NEW c \in Claims
  PROVE  /\ Put(r, s, c) \in Uploads /\ DOMAIN Put(r, s, c) = DOMAIN r \cup {s}
         /\ Put(r, s, c)[s] = c
         /\ \A t \in DOMAIN r : t # s => Put(r, s, c)[t] = r[t]
<1>1. PICK D \in SUBSET Seat : r \in [D -> Claims]
  BY DEF Uploads
<1>2. Put(r, s, c) \in [D \cup {s} -> Claims]
  BY <1>1 DEF Put
<1>3. D \cup {s} \in SUBSET Seat
  OBVIOUS
<1>4. Put(r, s, c) \in Uploads
  BY <1>2, <1>3 DEF Uploads
<1>5. QED
  BY <1>1, <1>2, <1>4 DEF Put

\* Nothing has been read or uploaded at first.
LEMMA NothingYet ==
  /\ Nobody \in Readings /\ Nobody \in Uploads /\ DOMAIN Nobody = {}
  /\ Idle \in ProcState /\ Idle.at = "idle" /\ Idle.on = NoMatch
  /\ Idle.todo = <<>> /\ Idle.read = Nobody
<1>1. DOMAIN Nobody = {} /\ Nobody \in [{} -> Nat] /\ Nobody \in [{} -> Claims]
  BY DEF Nobody
<1>2. Nobody \in Readings /\ Nobody \in Uploads
  BY <1>1 DEF Readings, Uploads
<1>3. <<>> \in Seq(Users) /\ "idle" \in Stages
  BY DEF Stages
<1>4. QED
  BY <1>1, <1>2, <1>3 DEF Idle, ProcState

\* The players of a match are accounts, and two of them have a seat each.
LEMMA PlayersOf ==
  ASSUME NEW m \in Matches
  PROVE  /\ Player[m][1] \in Users /\ Player[m][2] \in Users
         /\ Player[m] = <<Player[m][1], Player[m][2]>>
         /\ Player[m] \in Seq(Users) /\ Elems(Player[m]) = Players(m)
         /\ \A u \in Players(m) : SeatOf(m, u) \in Seat /\ Player[m][SeatOf(m, u)] = u
         /\ TwoAccounts(m) => SeatOf(m, Player[m][1]) = 1 /\ SeatOf(m, Player[m][2]) = 2
<1>1. Player[m] \in Users \X Users
  BY PlayersAssumption
<1>2. Player[m][1] \in Users /\ Player[m][2] \in Users
      /\ Player[m] = <<Player[m][1], Player[m][2]>>
  BY <1>1
<1>3. Player[m] \in Seq(Users) /\ Elems(Player[m]) = Players(m)
  <2> DEFINE pair == <<Player[m][1], Player[m][2]>>
  <2>1. pair \in Seq(Users) /\ Elems(pair) = {Player[m][1], Player[m][2]}
    BY <1>2, PairElems
  <2> HIDE DEF pair
  <2>2. Player[m] = pair
    BY <1>2 DEF pair
  <2>3. QED
    BY <2>1, <2>2, Zenon DEF Players
<1>4. QED
  BY <1>1, <1>2, <1>3 DEF Players, SeatOf, Seat, TwoAccounts

\* Whoever never meets itself has another account for an opponent.
LEMMA OpponentOf ==
  ASSUME NEW u \in Users, ~ PlaysItself(u), NEW m \in Matches, u \in Players(m)
  PROVE  TwoAccounts(m)
BY DEF PlaysItself, TwoAccounts, Players

-----------------------------------------------------------------------------
(* The ladder. *)

\* A win moves between 10 and 50 points.
LEMMA LpChangeRange ==
  ASSUME NEW a \in Nat, NEW b \in Nat
  PROVE  LpChange(a, b) \in Int /\ 10 <= LpChange(a, b) /\ LpChange(a, b) <= 50
<1> DEFINE q == Quotient(b - a, 40)
<1>1. q \in Int
  <2>1. b - a >= 0 => (b - a) \div 40 \in Int
    OBVIOUS
  <2>2. (-(b - a)) \div 40 \in Int
    OBVIOUS
  <2>3. QED
    BY <2>1, <2>2 DEF Quotient
<1>2. Max({30 + q, 10}) \in Int /\ Max({30 + q, 10}) >= 10
  BY <1>1, PairMax
<1>3. LpChange(a, b) = Min({Max({30 + q, 10}), 50})
  BY DEF LpChange, lpBase, lpMin, lpMax, lpGapPerPoint
<1> HIDE DEF q
<1>4. \A x \in Int : x >= 10 => Min({x, 50}) \in Int /\ 10 <= Min({x, 50}) /\ Min({x, 50}) <= 50
  BY PairMin
<1> DEFINE top == Max({30 + q, 10})
<1>5. LpChange(a, b) = Min({top, 50}) /\ top \in Int /\ top >= 10
  BY <1>2, <1>3
<1> HIDE DEF top
<1>6. QED
  BY <1>4, <1>5

\* A loss costs nobody more than they have, and pays nobody.
LEMMA ApplyLossRange ==
  ASSUME NEW lp \in Nat, NEW c \in Nat
  PROVE  ApplyLoss(lp, c) \in Nat /\ ApplyLoss(lp, c) <= lp
<1> DEFINE F == {f \in TierFloors : f <= lp}
<1>1. F \in SUBSET (0 .. lp) /\ F # {}
  BY DEF TierFloors
<1>2. TierFloor(lp) \in F
  <2>1. TierFloor(lp) = Max(F)
    BY DEF TierFloor
  <2> HIDE DEF F
  <2>2. Max(F) \in F
    <3>1. 0 \in Int /\ lp \in Int /\ F \in SUBSET (0 .. lp) /\ F # {}
      BY <1>1
    <3>2. QED
      BY <3>1, IntervalMax, Zenon
  <2>3. QED
    BY <2>1, <2>2
<1>3. TierFloor(lp) \in Nat /\ TierFloor(lp) <= lp
  BY <1>1, <1>2
<1>4. QED
  BY <1>3, PairMax DEF ApplyLoss

\* The winner's seat gains, the other does not, and nobody falls below zero.
LEMMA SeatChangesRange ==
  ASSUME NEW w \in Seat, NEW a \in Nat, NEW b \in Nat
  PROVE  LET c == SeatChanges(w, <<a, b>>) IN
         /\ c \in Int \X Int
         /\ \A s \in Seat : c[s] > 0 <=> s = w
         /\ a + c[1] \in Nat /\ b + c[2] \in Nat
<1>1. CASE w = 1
  <2>1. SeatChanges(1, <<a, b>>) = <<LpChange(a, b), ApplyLoss(b, LpChange(a, b)) - b>>
    BY DEF SeatChanges, Other
  <2>2. LpChange(a, b) \in Nat /\ LpChange(a, b) > 0
    BY LpChangeRange
  <2>3. ApplyLoss(b, LpChange(a, b)) \in Nat /\ ApplyLoss(b, LpChange(a, b)) <= b
    BY <2>2, ApplyLossRange
  <2>4. QED
    BY <1>1, <2>1, <2>2, <2>3 DEF Seat
<1>2. CASE w = 2
  <2>1. SeatChanges(2, <<a, b>>) = <<ApplyLoss(a, LpChange(b, a)) - a, LpChange(b, a)>>
    BY DEF SeatChanges, Other
  <2>2. LpChange(b, a) \in Nat /\ LpChange(b, a) > 0
    BY LpChangeRange
  <2>3. ApplyLoss(a, LpChange(b, a)) \in Nat /\ ApplyLoss(a, LpChange(b, a)) <= a
    BY <2>2, ApplyLossRange
  <2>4. QED
    BY <1>2, <2>1, <2>2, <2>3 DEF Seat
<1>3. QED
  BY <1>1, <1>2 DEF Seat

-----------------------------------------------------------------------------
(* Steps that move one process and leave the tables alone. *)

\* What a process is, from its name.
LEMMA Kinds ==
  /\ \A m \in Matches, s \in Seat :
       /\ <<m, s>> \in Requests /\ <<m, s>> \in Procs /\ <<m, s>> \notin Workers
       /\ <<m, s>>[1] = m /\ <<m, s>> # Sweeper
  /\ Sweeper \in Procs /\ Sweeper \notin Workers /\ Sweeper \notin Requests
  /\ \A w \in Workers : w \in Procs /\ w \notin Requests /\ w # Sweeper
BY ProcsAssumption DEF Requests, Procs

\* Where the processes are after one of them has moved.
LEMMA Moved ==
  ASSUME Types, NEW p \in Procs, NEW s \in ProcState, Become(p, s)
  PROVE  /\ proc' \in [Procs -> ProcState]
         /\ proc'[p] = s
         /\ \A q \in Procs : q # p => proc'[q] = proc[q]
<1>1. proc \in [Procs -> ProcState]
  BY DEF Types
<1>2. QED
  BY <1>1 DEF Become

\* A process that locks no row but one that is free, and takes no job but one
\* that is free, keeps the invariant if it may be where it goes.
LEMMA MoveKeeps ==
  ASSUME IInv, NEW p \in Procs, NEW s \in ProcState, Become(p, s),
         UNCHANGED <<match, uploads, job, rating, flagged, reversals>>,
         failures' \in 0 .. MaxFailures,
         StateOK(p, s),
         s.at = "inside" =>
           RowFree(s.on) \/ (proc[p].at = "inside" /\ proc[p].on = s.on),
         p \in Workers /\ s.on # NoMatch => JobFree(s.on) \/ proc[p].on = s.on
  PROVE  IInv'
<1>1. /\ proc' \in [Procs -> ProcState] /\ proc'[p] = s
      /\ \A q \in Procs : q # p => proc'[q] = proc[q]
  BY Moved DEF IInv
<1>2. Types'
  BY <1>1 DEF IInv, Types
<1>3. ProcInv'
  <2>1. \A q \in Procs : StateOK(q, proc'[q])
    BY <1>1 DEF IInv, ProcInv
  <2>2. QED
    BY <2>1, Zenon DEF ProcInv, StateOK, Uploaded, Ranked, Locked, Replays
<1>4. RowInv'
  <2>1. ASSUME NEW q \in Procs, q # p, s.at = "inside", proc[q].at = "inside",
               proc[q].on = s.on
        PROVE  FALSE
    BY <2>1 DEF IInv, RowInv, RowFree, Holds
  <2>2. QED
    BY <1>1, <2>1 DEF IInv, RowInv
<1>5. JobInv'
  <2>1. \A w \in Workers : w \in Procs
    BY Kinds
  <2>2. ASSUME NEW w \in Workers, w # p, p \in Workers, s.on # NoMatch, proc[w].on = s.on
        PROVE  FALSE
    BY <2>2 DEF IInv, JobInv, JobFree
  <2>3. QED
    BY <1>1, <2>1, <2>2 DEF IInv, JobInv
<1>6. MatchInv'
  BY DEF IInv, MatchInv, MatchOK, Ranked, Uploaded, Replays
<1>7. QED
  BY <1>2, <1>3, <1>4, <1>5, <1>6 DEF IInv

\* Where a process may always be.
LEMMA IdleOK == \A p : StateOK(p, Idle)
BY NothingYet DEF StateOK

\* A process that is done holds no row and no job, whatever it wrote.
LEMMA EndFrees ==
  ASSUME IInv, NEW p \in Procs, Become(p, Idle)
  PROVE  /\ proc' \in [Procs -> ProcState] /\ proc'[p] = Idle
         /\ \A q \in Procs : q # p => proc'[q] = proc[q]
         /\ RowInv' /\ JobInv'
<1>1. /\ proc' \in [Procs -> ProcState] /\ proc'[p] = Idle
      /\ \A q \in Procs : q # p => proc'[q] = proc[q]
  BY Moved, NothingYet DEF IInv
<1>2. Idle.at # "inside" /\ Idle.on = NoMatch
  BY NothingYet
<1>3. RowInv'
  BY <1>1, <1>2 DEF IInv, RowInv
<1>4. JobInv'
  BY <1>1, <1>2, Kinds DEF IInv, JobInv
<1>5. QED
  BY <1>1, <1>3, <1>4

\* A process that gives up keeps the invariant.
LEMMA GiveUp ==
  ASSUME IInv, NEW p \in Procs, Become(p, Idle),
         UNCHANGED <<match, uploads, job, rating, flagged, reversals>>,
         failures' \in 0 .. MaxFailures
  PROVE  IInv'
<1>1. Idle \in ProcState /\ Idle.at # "inside" /\ Idle.on = NoMatch
  BY NothingYet
<1>2. StateOK(p, Idle)
  BY IdleOK
<1>3. QED
  BY <1>1, <1>2, MoveKeeps

\* A settlement locks the ratings of the two players, and for the ladder both.
LEMMA LadderLocksRange ==
  ASSUME NEW m \in Matches, NEW c \in Claim
  PROVE  /\ LadderLocks(m, c) \in Seq(Users)
         /\ Ranked(m) => Players(m) \subseteq Elems(LadderLocks(m, c))
<1> DEFINE a == Player[m][1]
           b == Player[m][2]
<1>1. a \in Users /\ b \in Users /\ a \in Int /\ b \in Int
  <2>1. a \in Users /\ b \in Users
    BY PlayersOf
  <2>2. \A u \in Users : u \in Int
    BY PlayersAssumption
  <2>3. QED
    BY <2>1, <2>2
<1>2. c.winner \in Seat /\ Player[m][c.winner] \in {a, b} /\ Player[m][Other(c.winner)] \in {a, b}
  BY DEF Claim, Seat, Other
<1>3. CASE Ranked(m)
  <2>1. Min({a, b}) = (IF a <= b THEN a ELSE b) /\ Max({a, b}) = (IF a <= b THEN b ELSE a)
    BY <1>1, PairMin, PairMax
  <2>2. Min({a, b}) \in Users /\ Max({a, b}) \in Users /\ {Min({a, b}), Max({a, b})} = {a, b}
    BY <1>1, <2>1
  <2>3. LadderLocks(m, c) = Once(<<Min({a, b}), Max({a, b})>>)
    BY <1>3 DEF LadderLocks
  <2> DEFINE lo == Min({a, b})
             hi == Max({a, b})
  <2>4. lo \in Users /\ hi \in Users /\ {lo, hi} = {a, b} /\ LadderLocks(m, c) = Once(<<lo, hi>>)
    BY <2>2, <2>3
  <2> HIDE DEF lo, hi
  <2>5. LadderLocks(m, c) \in Seq(Users) /\ Elems(LadderLocks(m, c)) = {a, b}
    BY <2>4, OnceElems
  <2>6. QED
    BY <2>5 DEF Players
<1>4. CASE ~ Ranked(m)
  <2>1. Player[m][c.winner] \in Users /\ Player[m][Other(c.winner)] \in Users
    BY <1>1, <1>2
  <2>2. Once(<<Player[m][Other(c.winner)], Player[m][c.winner]>>) \in Seq(Users)
    BY <2>1, OnceElems
  <2>3. QED
    BY <1>4, <2>2 DEF LadderLocks
<1>5. QED
  BY <1>3, <1>4

\* The fields of a process.
LEMMA Fields ==
  ASSUME Types, NEW p \in Procs
  PROVE  /\ proc[p] \in ProcState
         /\ proc[p].on \in Matches \cup {NoMatch} /\ proc[p].claim \in Claim \cup {NoClaim}
         /\ proc[p].todo \in Seq(Users) /\ proc[p].read \in Readings
BY DEF Types, ProcState

\* A claim that is a submission.
LEMMA UploadsAreClaims ==
  ASSUME Types, NEW m \in Matches
  PROVE  /\ uploads[m] \in Uploads /\ DOMAIN uploads[m] \subseteq Seat
         /\ \A s \in DOMAIN uploads[m] : uploads[m][s] \in Claims /\ uploads[m][s] \in Claim
<1>1. uploads[m] \in Uploads
  BY DEF Types
<1>2. PICK D \in SUBSET Seat : uploads[m] \in [D -> Claims]
  BY <1>1 DEF Uploads
<1>3. QED
  BY <1>1, <1>2, InputsAssumption

\* Accepting a request touches nothing that anybody holds.
LEMMA SubmitKeeps ==
  ASSUME IInv, NEW m \in Matches, NEW s \in Seat, NEW c \in Claims, Submit(m, s, c)
  PROVE  IInv'
<1> DEFINE st == [Idle EXCEPT !.at = "accepted", !.on = m, !.claim = c]
<1>1. st \in ProcState /\ st.at = "accepted" /\ st.on = m /\ st.claim = c
  BY NothingYet, InputsAssumption DEF ProcState, Stages
<1>2. Become(<<m, s>>, st)
  BY DEF Submit
<1>3. failures' \in 0 .. MaxFailures
      /\ UNCHANGED <<match, uploads, job, rating, flagged, reversals>>
  BY DEF Submit, IInv, Types, history
<1> HIDE DEF st
<1>4. StateOK(<<m, s>>, st)
  BY <1>1, Kinds DEF StateOK
<1>5. QED
  BY <1>1, <1>2, <1>3, <1>4, Kinds, MoveKeeps

\* Looking for the other upload only decides what the request does next.
LEMMA CompareUploadsKeeps ==
  ASSUME IInv, NEW m \in Matches, NEW s \in Seat, CompareUploads(m, s)
  PROVE  IInv'
<1> DEFINE p == <<m, s>>
           next == IF Agree(proc[p].claim, uploads[m][Other(s)]) THEN "settling" ELSE "voiding"
           st == [proc[p] EXCEPT !.at = next]
<1>1. p \in Procs /\ p \in Requests /\ p \notin Workers /\ p[1] = m
  BY Kinds
<1>2. failures' \in 0 .. MaxFailures
      /\ UNCHANGED <<match, uploads, job, rating, flagged, reversals>>
  BY DEF CompareUploads, IInv, Types, history
<1>3. CASE Become(p, Idle)
  BY <1>1, <1>2, <1>3, GiveUp
<1>4. CASE Become(p, st)
  <2>1. proc[p] \in ProcState /\ StateOK(p, proc[p]) /\ proc[p].at = "recorded"
    BY <1>1 DEF CompareUploads, IInv, Types, ProcInv
  <2>2. st \in ProcState /\ st.at \in {"settling", "voiding"} /\ st.on = proc[p].on
        /\ st.claim = proc[p].claim
    BY <2>1 DEF ProcState, Stages
  <2> HIDE DEF st, p
  <2>3. StateOK(p, st)
    BY <1>1, <2>1, <2>2 DEF StateOK
  <2>4. QED
    BY <1>1, <1>2, <1>4, <2>2, <2>3, MoveKeeps
<1>5. QED
  BY <1>3, <1>4 DEF CompareUploads

\* A settlement begins by locking a row that is free.
LEMMA BeginSettleKeeps ==
  ASSUME IInv, NEW m \in Matches, NEW s \in Seat, BeginSettle(m, s)
  PROVE  IInv'
<1> DEFINE p == <<m, s>>
           st == [proc[p] EXCEPT !.at = "inside", !.todo = LadderLocks(m, proc[p].claim)]
<1>1. p \in Procs /\ p \in Requests /\ p \notin Workers /\ p[1] = m
  BY Kinds
<1>2. failures' \in 0 .. MaxFailures
      /\ UNCHANGED <<match, uploads, job, rating, flagged, reversals>>
      /\ Become(p, st) /\ RowFree(m) /\ proc[p].at = "settling"
  BY DEF BeginSettle, IInv, Types, history
<1>3. proc[p] \in ProcState /\ StateOK(p, proc[p])
  BY <1>1 DEF IInv, Types, ProcInv
<1>4. proc[p].on = m /\ proc[p].claim \in Claim /\ DOMAIN uploads[m] # {}
      /\ proc[p].claim \in Claims
  BY <1>1, <1>2, <1>3, InputsAssumption DEF StateOK
<1>5. LadderLocks(m, proc[p].claim) \in Seq(Users)
      /\ (Ranked(m) => Players(m) \subseteq Elems(LadderLocks(m, proc[p].claim)))
  BY <1>4, LadderLocksRange
<1>6. st \in ProcState /\ st.at = "inside" /\ st.on = m /\ st.claim = proc[p].claim
      /\ st.todo = LadderLocks(m, proc[p].claim)
  BY <1>3, <1>4, <1>5 DEF ProcState, Stages
<1> HIDE DEF st, p
<1>7. StateOK(p, st)
  BY <1>1, <1>4, <1>5, <1>6 DEF StateOK, Locked
<1>8. QED
  BY <1>1, <1>2, <1>6, <1>7, MoveKeeps

\* The sweep picks a match that somebody reported on.
LEMMA SweepPickKeeps ==
  ASSUME IInv, NEW m \in Matches, SweepPick(m)
  PROVE  IInv'
<1> DEFINE st == [Idle EXCEPT !.at = "picked", !.on = m]
<1>1. st \in ProcState /\ st.at = "picked" /\ st.on = m
  BY NothingYet DEF ProcState, Stages
<1>2. Become(Sweeper, st)
  BY DEF SweepPick
<1>3. failures' \in 0 .. MaxFailures
      /\ UNCHANGED <<match, uploads, job, rating, flagged, reversals>>
  BY DEF SweepPick, IInv, Types, history
<1> HIDE DEF st
<1>4. DOMAIN uploads[m] # {}
  BY DEF SweepPick
<1>5. StateOK(Sweeper, st)
  BY <1>1, <1>4, Kinds DEF StateOK
<1>6. QED
  BY <1>1, <1>2, <1>3, <1>5, Kinds, MoveKeeps

\* The sweep goes on with a row that is free, or leaves the match alone.
LEMMA SweepLockKeeps ==
  ASSUME IInv, SweepLock
  PROVE  IInv'
<1> DEFINE m == proc[Sweeper].on
<1>1. failures' \in 0 .. MaxFailures
      /\ UNCHANGED <<match, uploads, job, rating, flagged, reversals>>
      /\ RowFree(m) /\ proc[Sweeper].at = "picked"
  BY DEF SweepLock, IInv, Types, history
<1>2. proc[Sweeper] \in ProcState /\ StateOK(Sweeper, proc[Sweeper]) /\ Sweeper \in Procs
  BY Kinds DEF IInv, Types, ProcInv
<1>3. m \in Matches /\ DOMAIN uploads[m] # {}
  BY <1>1, <1>2 DEF StateOK
<1>4. CASE Become(Sweeper, Idle)
  BY <1>1, <1>2, <1>4, GiveUp
<1>5. ASSUME NEW s \in DOMAIN uploads[m],
             LET claim == [uploads[m][s] EXCEPT !.disconnect = TRUE] IN
             Become(Sweeper, [proc[Sweeper] EXCEPT !.at = "inside", !.claim = claim,
                                                   !.todo = LadderLocks(m, claim)])
      PROVE  IInv'
  <2> DEFINE claim == [uploads[m][s] EXCEPT !.disconnect = TRUE]
             st == [proc[Sweeper] EXCEPT !.at = "inside", !.claim = claim,
                                         !.todo = LadderLocks(m, claim)]
  <2>1. Become(Sweeper, st)
    BY <1>5
  <2>2. claim \in Claim
    BY <1>3, UploadsAreClaims DEF IInv, Claim
  <2>3. LadderLocks(m, claim) \in Seq(Users)
        /\ (Ranked(m) => Players(m) \subseteq Elems(LadderLocks(m, claim)))
    BY <1>3, <2>2, LadderLocksRange
  <2> HIDE DEF claim
  <2>4. st \in ProcState /\ st.at = "inside" /\ st.on = m /\ st.claim = claim
        /\ st.todo = LadderLocks(m, claim)
    BY <1>2, <2>2, <2>3 DEF ProcState, Stages
  <2> HIDE DEF st
  <2>5. StateOK(Sweeper, st)
    BY <1>3, <2>2, <2>3, <2>4, Kinds DEF StateOK, Locked
  <2>6. QED
    BY <1>1, <1>2, <2>1, <2>4, <2>5, Kinds, MoveKeeps
<1>6. QED
  BY <1>4, <1>5 DEF SweepLock

\* A worker takes a job nobody holds, which is about a match with an upload.
LEMMA ClaimJobKeeps ==
  ASSUME IInv, NEW w \in Workers, NEW m \in Matches, ClaimJob(w, m)
  PROVE  IInv'
<1> DEFINE st == [Idle EXCEPT !.at = "claimed", !.on = m]
<1>1. st \in ProcState /\ st.at = "claimed" /\ st.on = m
  BY NothingYet DEF ProcState, Stages
<1>2. Become(w, st) /\ job[m] = "queued" /\ JobFree(m)
  BY DEF ClaimJob
<1>3. failures' \in 0 .. MaxFailures
      /\ UNCHANGED <<match, uploads, job, rating, flagged, reversals>>
  BY DEF ClaimJob, IInv, Types, history
<1> HIDE DEF st
<1>4. DOMAIN uploads[m] # {}
  BY <1>2 DEF IInv, MatchInv, MatchOK
<1>5. StateOK(w, st)
  BY <1>1, <1>2, <1>4, Kinds DEF StateOK
<1>6. QED
  BY <1>1, <1>2, <1>3, <1>5, Kinds, MoveKeeps

\* The submission of the lowest account is one of the submissions.
LEMMA FirstUploadIsOne ==
  ASSUME Types, NEW m \in Matches, DOMAIN uploads[m] # {}
  PROVE  FirstUpload(m) \in Uploaded(m) /\ FirstUpload(m) \in Claim
<1> DEFINE D == DOMAIN uploads[m]
           First(s) == \A t \in D : Player[m][s] <= Player[m][t]
<1>1. D \subseteq Seat /\ \A s \in D : uploads[m][s] \in Claim
  BY UploadsAreClaims
<1>2. Player[m][1] \in Int /\ Player[m][2] \in Int
  <2>1. Player[m][1] \in Users /\ Player[m][2] \in Users
    BY PlayersOf
  <2>2. \A u \in Users : u \in Int
    BY PlayersAssumption
  <2>3. QED
    BY <2>1, <2>2
<1>3. \E s \in D : First(s)
  BY <1>1, <1>2 DEF Seat
<1>4. (CHOOSE s \in D : First(s)) \in D
  BY <1>3
<1>5. FirstUpload(m) = uploads[m][CHOOSE s \in D : First(s)]
  BY DEF FirstUpload
<1>6. QED
  BY <1>1, <1>4, <1>5 DEF Uploaded

\* A worker judges with the row of its match locked.
LEMMA JudgeKeeps ==
  ASSUME IInv, NEW w \in Workers, Judge(w)
  PROVE  IInv'
<1> DEFINE m == proc[w].on
           c == FirstUpload(m)
           locks == IF Replays(match[m], c.log) \/ match[m].change = Unpaid
                    THEN <<>> ELSE Once(Player[m])
           st == [proc[w] EXCEPT !.at = "inside", !.claim = c, !.todo = locks]
<1>1. failures' \in 0 .. MaxFailures
      /\ UNCHANGED <<match, uploads, job, rating, flagged, reversals>>
      /\ RowFree(m) /\ proc[w].at = "claimed" /\ Become(w, st)
  BY DEF Judge, IInv, Types, history
<1>2. proc[w] \in ProcState /\ StateOK(w, proc[w]) /\ w \in Procs /\ w \notin Requests
  BY Kinds DEF IInv, Types, ProcInv
<1>3. m \in Matches /\ DOMAIN uploads[m] # {} /\ job[m] = "queued"
  BY <1>1, <1>2 DEF StateOK
<1>4. match[m].change # Unpaid
  BY <1>3 DEF IInv, MatchInv, MatchOK
<1>5. c \in Uploaded(m) /\ c \in Claim
  BY <1>3, FirstUploadIsOne DEF IInv
<1>6. locks \in Seq(Users) /\ (Replays(match[m], c.log) \/ Players(m) \subseteq Elems(locks))
  <2>1. Once(Player[m]) \in Seq(Users) /\ Elems(Once(Player[m])) = Players(m)
        /\ <<>> \in Seq(Users)
    <3> DEFINE a == Player[m][1]
               b == Player[m][2]
    <3>1. a \in Users /\ b \in Users /\ Player[m] = <<a, b>> /\ Players(m) = {a, b}
      BY <1>3, PlayersOf DEF Players
    <3> HIDE DEF a, b
    <3>2. Once(<<a, b>>) \in Seq(Users) /\ Elems(Once(<<a, b>>)) = {a, b}
      BY <3>1, OnceElems
    <3>3. QED
      BY <3>1, <3>2
  <2>2. CASE Replays(match[m], c.log)
    BY <2>1, <2>2
  <2>3. CASE ~ Replays(match[m], c.log)
    <3>1. locks = Once(Player[m])
      BY <1>4, <2>3
    <3>2. QED
      BY <2>1, <3>1
  <2>4. QED
    BY <2>2, <2>3
<1> HIDE DEF c, locks
<1>7. st \in ProcState /\ st.at = "inside" /\ st.on = m /\ st.claim = c /\ st.todo = locks
  BY <1>2, <1>5, <1>6 DEF ProcState, Stages
<1> HIDE DEF st
<1>8. StateOK(w, st)
  BY <1>2, <1>3, <1>5, <1>6, <1>7 DEF StateOK, Locked
<1>9. QED
  BY <1>1, <1>2, <1>7, <1>8, MoveKeeps

\* Locking a rating takes it from what is still to be locked to what has been
\* read, and changes nothing else.
LEMMA LockRatingKeeps ==
  ASSUME IInv, NEW p \in Procs, LockRating(p)
  PROVE  IInv'
<1> DEFINE u == Head(proc[p].todo)
           st == [proc[p] EXCEPT !.todo = Tail(@), !.read = Put(@, u, rating[u].lp)]
<1>1. failures' \in 0 .. MaxFailures
      /\ UNCHANGED <<match, uploads, job, rating, flagged, reversals>>
      /\ proc[p].at = "inside" /\ proc[p].todo # <<>> /\ Become(p, st)
  BY DEF LockRating, IInv, Types, history
<1>2. proc[p] \in ProcState /\ StateOK(p, proc[p])
  BY DEF IInv, Types, ProcInv
<1>3. proc[p].todo \in Seq(Users) /\ proc[p].read \in Readings
  BY <1>2 DEF ProcState
<1>4. u \in Users /\ Tail(proc[p].todo) \in Seq(Users)
      /\ Elems(proc[p].todo) = {u} \cup Elems(Tail(proc[p].todo))
  BY <1>1, <1>3, TailElems
<1>5. rating[u].lp \in Nat
  BY <1>4 DEF IInv, Types, RatingRow
<1>6. Put(proc[p].read, u, rating[u].lp) \in Readings
      /\ DOMAIN Put(proc[p].read, u, rating[u].lp) = DOMAIN proc[p].read \cup {u}
  BY <1>3, <1>4, <1>5, PutReading
<1>7. /\ st.at = "inside" /\ st.on = proc[p].on /\ st.claim = proc[p].claim
      /\ st.todo = Tail(proc[p].todo) /\ st.read = Put(proc[p].read, u, rating[u].lp)
      /\ st \in ProcState
  BY <1>1, <1>2, <1>4, <1>6 DEF ProcState
<1> HIDE DEF st
<1>8. Locked(proc[p]) => Locked(st)
  BY <1>4, <1>6, <1>7 DEF Locked
<1>9. StateOK(p, st)
  BY <1>1, <1>2, <1>7, <1>8 DEF StateOK
<1>10. QED
  BY <1>1, <1>7, <1>9, MoveKeeps

\* A transaction that Postgres ends, or a process that fails, leaves no trace.
LEMMA DeadlockedKeeps ==
  ASSUME IInv, NEW p \in Procs, Deadlocked(p) \/ Fail(p)
  PROVE  IInv'
<1>1. Become(p, Idle) /\ UNCHANGED <<match, uploads, job, rating, flagged, reversals>>
  BY DEF Deadlocked, Fail, history
<1>2. failures' \in 0 .. MaxFailures
  BY InputsAssumption DEF Deadlocked, Fail, IInv, Types
<1>3. QED
  BY <1>1, <1>2, GiveUp

-----------------------------------------------------------------------------
(* Steps that write. *)

\* Storing an upload takes nothing away from what was there.
LEMMA RecordUploadKeeps ==
  ASSUME IInv, NEW m \in Matches, NEW s \in Seat, RecordUpload(m, s)
  PROVE  IInv'
<1> DEFINE p == <<m, s>>
           st == [proc[p] EXCEPT !.at = "recorded"]
           put == Put(uploads[m], s, proc[p].claim)
<1>1. p \in Procs /\ p \in Requests /\ p \notin Workers /\ p[1] = m
  BY Kinds
<1>2. UNCHANGED <<match, job, rating, flagged, failures, reversals>>
      /\ proc[p].at = "accepted"
  BY DEF RecordUpload, history
<1>3. CASE Become(p, Idle) /\ UNCHANGED uploads
  BY <1>1, <1>2, <1>3, GiveUp DEF IInv, Types
<1>4. CASE s \notin DOMAIN uploads[m] /\ Become(p, st)
           /\ uploads' = [uploads EXCEPT ![m] = put]
  <2>1. proc[p] \in ProcState /\ StateOK(p, proc[p])
    BY <1>1 DEF IInv, Types, ProcInv
  <2>2. proc[p].on = m /\ proc[p].claim \in Claims
    BY <1>1, <1>2, <2>1 DEF StateOK
  <2>3. uploads \in [Matches -> Uploads]
    BY DEF IInv, Types
  <2>4. /\ put \in Uploads /\ DOMAIN put = DOMAIN uploads[m] \cup {s}
        /\ \A t \in DOMAIN uploads[m] : put[t] = uploads[m][t]
    BY <1>4, <2>2, <2>3, PutUpload
  <2> HIDE DEF put
  <2>5. /\ uploads' \in [Matches -> Uploads] /\ uploads'[m] = put
        /\ \A n \in Matches : n # m => uploads'[n] = uploads[n]
    BY <1>4, <2>3, <2>4
  <2>6. \A n \in Matches : Uploaded(n) \subseteq Uploaded(n)'
                           /\ DOMAIN uploads[n] \subseteq DOMAIN uploads'[n]
    <3>1. ASSUME NEW n \in Matches
          PROVE  \A t \in DOMAIN uploads[n] : t \in DOMAIN uploads'[n]
                                              /\ uploads'[n][t] = uploads[n][t]
      BY <2>4, <2>5
    <3>2. QED
      BY <3>1 DEF Uploaded
  <2>7. st \in ProcState /\ st.at = "recorded" /\ st.on = m /\ st.claim = proc[p].claim
    BY <2>1, <2>2 DEF ProcState, Stages
  <2> HIDE DEF st, p
  <2>8. /\ proc' \in [Procs -> ProcState] /\ proc'[p] = st
        /\ \A q \in Procs : q # p => proc'[q] = proc[q]
    BY <1>1, <1>4, <2>7, Moved DEF IInv
  <2>9. Types'
    BY <1>2, <2>5, <2>8 DEF IInv, Types
  <2>10. ProcInv'
    <3>1. ASSUME NEW q \in Procs, q = p PROVE StateOK(q, proc[q])'
      BY <1>1, <2>2, <2>4, <2>5, <2>7, <2>8, <3>1 DEF StateOK
    <3>2. ASSUME NEW q \in Procs, q # p PROVE StateOK(q, proc[q])'
      <4>1. StateOK(q, proc[q]) /\ proc'[q] = proc[q]
        BY <2>8, <3>2 DEF IInv, ProcInv
      <4>2. proc[q].at # "idle" =>
              /\ DOMAIN uploads[proc[q].on] # {} => DOMAIN uploads'[proc[q].on] # {}
              /\ proc[q].claim \in Uploaded(proc[q].on) => (proc[q].claim \in Uploaded(proc[q].on))'
        BY <2>6, <4>1 DEF StateOK
      <4>3. QED
        BY <1>2, <4>1, <4>2 DEF StateOK, Ranked, Locked, Replays
    <3>3. QED
      BY <3>1, <3>2 DEF ProcInv
  <2>11. RowInv'
    BY <2>7, <2>8 DEF IInv, RowInv
  <2>12. JobInv'
    BY <1>1, <2>8, Kinds DEF IInv, JobInv
  <2>13. MatchInv'
    <3>1. ASSUME NEW n \in Matches PROVE MatchOK(n)'
      BY <1>2, <2>6 DEF IInv, MatchInv, MatchOK, Ranked, Replays
    <3>2. QED
      BY <3>1 DEF MatchInv
  <2>14. QED
    BY <2>9, <2>10, <2>11, <2>12, <2>13 DEF IInv
<1>5. ~ Sent(m, s) => s \notin DOMAIN uploads[m]
  BY DEF Sent
<1>6. QED
  BY <1>3, <1>4, <1>5 DEF RecordUpload

\* Voiding a match finds nobody inside it.
LEMMA VoidKeeps ==
  ASSUME IInv, NEW m \in Matches, NEW s \in Seat, Void(m, s)
  PROVE  IInv'
<1> DEFINE p == <<m, s>>
           row == [match[m] EXCEPT !.verified = "mismatch"]
<1>1. p \in Procs
  BY Kinds
<1>2. /\ UNCHANGED <<uploads, job, rating, failures, reversals>>
      /\ RowFree(m) /\ Become(p, Idle)
      /\ match' = [match EXCEPT ![m] = row]
      /\ flagged' = flagged \cup Players(m)
  BY DEF Void, history, Players
<1>3. /\ proc' \in [Procs -> ProcState] /\ proc'[p] = Idle
      /\ \A q \in Procs : q # p => proc'[q] = proc[q]
      /\ RowInv' /\ JobInv'
  BY <1>1, <1>2, EndFrees
<1>4. match \in [Matches -> MatchRow]
  BY DEF IInv, Types
<1>5. /\ row \in MatchRow /\ row.mode = match[m].mode /\ row.change = match[m].change
      /\ row.winner = match[m].winner /\ row.verified = "mismatch"
  BY <1>4 DEF MatchRow
<1> HIDE DEF row, p
<1>6. /\ match' \in [Matches -> MatchRow] /\ match'[m] = row
      /\ \A n \in Matches : n # m => match'[n] = match[n]
  BY <1>2, <1>4, <1>5
<1>7. Types'
  <2>1. Players(m) \subseteq Users
    BY PlayersOf DEF Players
  <2>2. flagged' \in SUBSET Users
    BY <1>2, <2>1 DEF IInv, Types
  <2>3. QED
    BY <1>2, <1>3, <1>6, <2>2 DEF IInv, Types
<1>8. ProcInv'
  <2>1. ASSUME NEW q \in Procs PROVE StateOK(q, proc[q])'
    <3>1. CASE q = p
      BY <1>3, <3>1, NothingYet DEF StateOK
    <3>2. CASE q # p
      <4>1. StateOK(q, proc[q]) /\ proc'[q] = proc[q]
        BY <1>3, <3>2 DEF IInv, ProcInv
      <4>2. proc[q].at = "inside" => proc[q].on \in Matches /\ proc[q].on # m
        BY <1>2, <4>1 DEF RowFree, Holds, StateOK
      <4>3. proc[q].at = "inside" => match'[proc[q].on] = match[proc[q].on]
        BY <1>6, <4>2
      <4>4. QED
        BY <1>2, <4>1, <4>3 DEF StateOK, Ranked, Locked, Replays, Uploaded
    <3>3. QED
      BY <3>1, <3>2
  <2>2. QED
    BY <2>1 DEF ProcInv
<1>9. MatchInv'
  <2>1. ASSUME NEW n \in Matches PROVE MatchOK(n)'
    <3>1. MatchOK(n)
      BY DEF IInv, MatchInv
    <3>2. CASE n = m
      BY <1>2, <1>5, <1>6, <3>1, <3>2 DEF MatchOK, Ranked
    <3>3. CASE n # m
      BY <1>2, <1>6, <3>1, <3>3 DEF MatchOK, Ranked, Uploaded, Replays
    <3>4. QED
      BY <3>2, <3>3
  <2>2. QED
    BY <2>1 DEF MatchInv
<1>10. QED
  BY <1>3, <1>7, <1>8, <1>9 DEF IInv

\* What a settlement records: the result, and for the ladder points that are
\* positive for the winner alone.
LEMMA SettledRow ==
  ASSUME NEW row \in MatchRow, NEW c \in Claim, NEW ranked \in BOOLEAN, NEW change,
         ranked => change \in Int \X Int
  PROVE  LET new == Settled(row, c, ranked, change) IN
         /\ new \in MatchRow
         /\ new.mode = row.mode /\ new.winner = c.winner
         /\ new.change = (IF ranked THEN change ELSE row.change)
         /\ ranked => new.verified # "ok"
<1>1. c.winner \in Seat /\ c.log.end \in Nat /\ c.disconnect \in BOOLEAN
  BY DEF Claim, Logs
<1>2. QED
  BY <1>1 DEF Settled, MatchRow

\* The rating row of one of the players stays a rating row.
LEMMA AfterSettleRow ==
  ASSUME NEW row \in RatingRow, NEW s \in Seat, NEW c \in Claim, NEW ranked \in BOOLEAN,
         NEW lp, ranked => lp \in Nat
  PROVE  AfterSettle(row, s, c, ranked, lp) \in RatingRow
BY DEF AfterSettle, RatingRow

\* What is recorded: of two accounts what each was paid, of one a loss twice.
LEMMA RecordedRange ==
  ASSUME NEW m \in Matches, NEW w \in Seat, NEW change \in Int \X Int,
         \A s \in Seat : change[s] > 0 <=> s = w
  PROVE  /\ Recorded(m, w, change) \in Int \X Int
         /\ \A s \in Seat : Recorded(m, w, change)[s] > 0 <=> TwoAccounts(m) /\ s = w
         /\ TwoAccounts(m) => Recorded(m, w, change) = change
<1>1. CASE TwoAccounts(m)
  BY <1>1 DEF Recorded
<1>2. CASE ~ TwoAccounts(m)
  <2> DEFINE loss == change[Other(w)]
  <2>1. loss \in Int /\ ~ (loss > 0)
    BY DEF Other, Seat
  <2>2. Recorded(m, w, change) = <<loss, loss>>
    BY <1>2 DEF Recorded
  <2> HIDE DEF loss
  <2>3. QED
    BY <1>2, <2>1, <2>2 DEF Seat
<1>3. QED
  BY <1>1, <1>2

\* The rows a settlement leaves: of the players a rating row each, and of two
\* accounts one write each; of everybody else the old one.
LEMMA WritesRange ==
  ASSUME rating \in [Users -> RatingRow], NEW m \in Matches, NEW c \in Claim,
         NEW ranked \in BOOLEAN, NEW read, NEW change,
         ranked => \A s \in Seat : read[Player[m][s]] + change[s] \in Nat
  PROVE  LET new == AfterWrites(m, c, ranked, read, change) IN
         /\ new \in [Users -> RatingRow]
         /\ \A u \in Users : u \notin Players(m) => new[u] = rating[u]
         /\ \A u \in Users : ~ ranked => new[u].lp = rating[u].lp
                                       /\ new[u].wins = rating[u].wins
                                       /\ new[u].matches = rating[u].matches
         /\ TwoAccounts(m) => \A u \in Players(m) :
              new[u] = AfterSettle(rating[u], SeatOf(m, u), c, ranked,
                                   read[u] + change[SeatOf(m, u)])
<1> DEFINE w == c.winner
           l == Other(w)
           a == Player[m][w]
           b == Player[m][l]
           x == read[a] + change[w]
           y == read[b] + change[l]
           one == AfterSettle(rating[a], w, c, ranked, x)
           won == [rating EXCEPT ![a] = one]
           two == AfterSettle(won[b], l, c, ranked, y)
           new == [won EXCEPT ![b] = two]
<1>1. w \in Seat /\ l \in Seat /\ {w, l} = {1, 2}
  BY DEF Claim, Seat, Other
<1>2. AfterWrites(m, c, ranked, read, change) = new
  BY DEF AfterWrites
<1>3. a \in Users /\ b \in Users /\ Players(m) = {a, b}
  BY <1>1, PlayersOf DEF Players, Seat
<1>4. ranked => x \in Nat /\ y \in Nat
  BY <1>1
<1>5. TwoAccounts(m) => a # b /\ SeatOf(m, a) = w /\ SeatOf(m, b) = l
  <2>1. \/ w = 1 /\ l = 2 /\ a = Player[m][1] /\ b = Player[m][2]
        \/ w = 2 /\ l = 1 /\ a = Player[m][2] /\ b = Player[m][1]
    BY <1>1 DEF Other, Seat
  <2>2. TwoAccounts(m) => /\ Player[m][1] # Player[m][2]
                          /\ SeatOf(m, Player[m][1]) = 1 /\ SeatOf(m, Player[m][2]) = 2
    BY PlayersOf DEF TwoAccounts
  <2> HIDE DEF w, l, a, b
  <2>3. QED
    BY <2>1, <2>2
<1>6. one \in RatingRow /\ (~ ranked => /\ one.lp = rating[a].lp
                                        /\ one.wins = rating[a].wins
                                        /\ one.matches = rating[a].matches)
  <2> HIDE DEF w, l, a, b, x
  <2>1. rating[a] \in RatingRow
    BY <1>3
  <2>2. one \in RatingRow
    BY <1>1, <1>4, <2>1, AfterSettleRow
  <2>3. QED
    BY <2>1, <2>2 DEF AfterSettle, RatingRow
<1> HIDE DEF one
<1>7. /\ won \in [Users -> RatingRow] /\ won[a] = one
      /\ \A u \in Users : u # a => won[u] = rating[u]
  <2> HIDE DEF a
  <2>1. QED
    BY <1>3, <1>6
<1> HIDE DEF won
<1>8. two \in RatingRow /\ (~ ranked => /\ two.lp = won[b].lp
                                        /\ two.wins = won[b].wins
                                        /\ two.matches = won[b].matches)
  <2> HIDE DEF w, l, a, b, y
  <2>1. won[b] \in RatingRow
    BY <1>3, <1>7
  <2>2. two \in RatingRow
    BY <1>1, <1>4, <2>1, AfterSettleRow
  <2>3. QED
    BY <2>1, <2>2 DEF AfterSettle, RatingRow
<1>9. TwoAccounts(m) => /\ one = AfterSettle(rating[a], SeatOf(m, a), c, ranked,
                                             read[a] + change[SeatOf(m, a)])
                        /\ two = AfterSettle(rating[b], SeatOf(m, b), c, ranked,
                                             read[b] + change[SeatOf(m, b)])
  <2> SUFFICES ASSUME TwoAccounts(m)
               PROVE  /\ one = AfterSettle(rating[a], SeatOf(m, a), c, ranked,
                                           read[a] + change[SeatOf(m, a)])
                      /\ two = AfterSettle(rating[b], SeatOf(m, b), c, ranked,
                                           read[b] + change[SeatOf(m, b)])
    OBVIOUS
  <2>1. won[b] = rating[b] /\ SeatOf(m, a) = w /\ SeatOf(m, b) = l
    BY <1>3, <1>5, <1>7
  <2>2. one = AfterSettle(rating[a], w, c, ranked, read[a] + change[w])
    BY DEF one
  <2>3. two = AfterSettle(rating[b], l, c, ranked, read[b] + change[l])
    BY <2>1
  <2> HIDE DEF w, l, a, b, two
  <2>4. QED
    BY <2>1, <2>2, <2>3, Zenon
<1> HIDE DEF two, w, l, a, b, x, y
<1>10. /\ new \in [Users -> RatingRow] /\ new[b] = two
       /\ \A u \in Users : u # b => new[u] = won[u]
  BY <1>3, <1>7, <1>8
<1> HIDE DEF new
<1>11. \A u \in Users : u \notin Players(m) => new[u] = rating[u]
  BY <1>3, <1>7, <1>10
<1>12. \A u \in Users : ~ ranked => /\ new[u].lp = rating[u].lp
                                    /\ new[u].wins = rating[u].wins
                                    /\ new[u].matches = rating[u].matches
  <2>1. ASSUME NEW u \in Users, ~ ranked
        PROVE  /\ won[u].lp = rating[u].lp /\ won[u].wins = rating[u].wins
               /\ won[u].matches = rating[u].matches
    BY <1>6, <1>7, <2>1
  <2>2. ASSUME NEW u \in Users, ~ ranked
        PROVE  /\ new[u].lp = won[u].lp /\ new[u].wins = won[u].wins
               /\ new[u].matches = won[u].matches
    BY <1>8, <1>10, <2>2
  <2>3. QED
    BY <2>1, <2>2
<1>13. ASSUME TwoAccounts(m), NEW u \in Players(m)
       PROVE  new[u] = AfterSettle(rating[u], SeatOf(m, u), c, ranked,
                                   read[u] + change[SeatOf(m, u)])
  <2>1. new[a] = one /\ new[b] = two
    BY <1>3, <1>5, <1>7, <1>10, <1>13
  <2>2. u = a \/ u = b
    BY <1>3
  <2>3. QED
    BY <1>9, <1>13, <2>1, <2>2, Zenon
<1>14. QED
  BY <1>2, <1>10, <1>11, <1>12, <1>13

\* A settlement commits with its row and, for the ladder, both ratings locked.
LEMMA CommitSettleKeeps ==
  ASSUME IInv, NEW p \in Requests \cup {Sweeper}, CommitSettle(p)
  PROVE  IInv'
<1> DEFINE m == proc[p].on
           c == proc[p].claim
           read == proc[p].read
           change == SeatChanges(c.winner, <<read[Player[m][1]], read[Player[m][2]]>>)
           amounts == Recorded(m, c.winner, change)
           row == Settled(match[m], c, Ranked(m), amounts)
<1>1. p \in Procs /\ p \notin Workers
  BY Kinds, ProcsAssumption DEF Procs
<1>2. /\ proc[p].at = "inside" /\ proc[p].todo = <<>> /\ Become(p, Idle)
      /\ match' = [match EXCEPT ![m] = row]
      /\ job' = IF Ranked(m) /\ job[m] = "none" THEN [job EXCEPT ![m] = "queued"] ELSE job
      /\ UNCHANGED <<uploads, flagged, failures, reversals>>
  BY DEF CommitSettle
<1>3. rating' = AfterWrites(m, c, Ranked(m), read, change)
  BY DEF CommitSettle
<1>4. proc[p] \in ProcState /\ StateOK(p, proc[p])
  BY <1>1 DEF IInv, Types, ProcInv
<1>5. /\ m \in Matches /\ c \in Claim /\ read \in Readings /\ c.winner \in Seat
      /\ DOMAIN uploads[m] # {}
  BY <1>1, <1>2, <1>4 DEF StateOK, ProcState, Claim
<1>6. Ranked(m) => Players(m) \subseteq DOMAIN read
  BY <1>1, <1>2, <1>4 DEF StateOK, Locked, Elems
<1>7. Ranked(m) => /\ read[Player[m][1]] \in Nat /\ read[Player[m][2]] \in Nat
  BY <1>5, <1>6 DEF Readings, Players
<1>8. Ranked(m) => /\ change \in Int \X Int
                   /\ \A s \in Seat : change[s] > 0 <=> s = c.winner
                   /\ read[Player[m][1]] + change[1] \in Nat
                   /\ read[Player[m][2]] + change[2] \in Nat
  BY <1>5, <1>7, SeatChangesRange
<1> HIDE DEF change
<1>9. match \in [Matches -> MatchRow] /\ Ranked(m) \in BOOLEAN
  BY DEF IInv, Types, Ranked
<1>10. /\ row \in MatchRow /\ row.mode = match[m].mode /\ row.winner = c.winner
       /\ row.change = (IF Ranked(m) THEN amounts ELSE match[m].change)
       /\ Ranked(m) => row.verified # "ok"
       /\ Ranked(m) => \A s \in Seat : amounts[s] > 0 <=> TwoAccounts(m) /\ s = c.winner
       /\ Ranked(m) => amounts \in Int \X Int
  <2>1. Ranked(m) => /\ amounts \in Int \X Int
                     /\ \A s \in Seat : amounts[s] > 0 <=> TwoAccounts(m) /\ s = c.winner
    BY <1>5, <1>8, RecordedRange
  <2> HIDE DEF amounts
  <2>2. QED
    BY <1>5, <1>9, <2>1, SettledRow
<1> HIDE DEF amounts
<1> HIDE DEF row
<1>11. /\ match' \in [Matches -> MatchRow] /\ match'[m] = row
       /\ \A n \in Matches : n # m => match'[n] = match[n]
  BY <1>2, <1>5, <1>9, <1>10
<1>12. /\ proc' \in [Procs -> ProcState] /\ proc'[p] = Idle
       /\ \A q \in Procs : q # p => proc'[q] = proc[q]
       /\ RowInv' /\ JobInv'
  BY <1>1, <1>2, EndFrees
<1>13. /\ job' \in [Matches -> {"none", "queued", "done"}]
       /\ \A n \in Matches : job[n] = "queued" => job'[n] = "queued"
       /\ \A n \in Matches : n # m => job'[n] = job[n]
       /\ Ranked(m) => job'[m] # "none"
       /\ ~ Ranked(m) => job'[m] = job[m]
       /\ job[m] # "none" => job'[m] = job[m]
  BY <1>2, <1>5 DEF IInv, Types
<1>14. rating' \in [Users -> RatingRow]
  <2>1. rating \in [Users -> RatingRow]
    BY DEF IInv, Types
  <2>2. Ranked(m) => \A s \in Seat : read[Player[m][s]] + change[s] \in Nat
    BY <1>8 DEF Seat
  <2>3. QED
    BY <1>3, <1>5, <1>9, <2>1, <2>2, WritesRange
<1>15. Types'
  BY <1>2, <1>11, <1>12, <1>13, <1>14 DEF IInv, Types
<1>16. ProcInv'
  <2>1. ASSUME NEW q \in Procs PROVE StateOK(q, proc[q])'
    <3>1. CASE q = p
      BY <1>12, <3>1, NothingYet DEF StateOK
    <3>2. CASE q # p
      <4>1. StateOK(q, proc[q]) /\ proc'[q] = proc[q]
        BY <1>12, <3>2 DEF IInv, ProcInv
      <4>2. proc[q].at = "inside" => proc[q].on # m
        BY <1>1, <1>2, <3>2 DEF IInv, RowInv
      <4>3. /\ proc[q].at # "idle" => proc[q].on \in Matches
            /\ proc[q].at = "inside" => match'[proc[q].on] = match[proc[q].on]
        BY <1>11, <4>1, <4>2 DEF StateOK
      <4>4. q \in Workers /\ proc[q].at # "idle" => job'[proc[q].on] = "queued"
        BY <1>13, <4>1, <4>3 DEF StateOK
      <4>5. QED
        BY <1>2, <4>1, <4>3, <4>4 DEF StateOK, Ranked, Locked, Replays, Uploaded
    <3>3. QED
      BY <3>1, <3>2
  <2>2. QED
    BY <2>1 DEF ProcInv
<1>17. MatchInv'
  <2>1. ASSUME NEW n \in Matches PROVE MatchOK(n)'
    <3>1. MatchOK(n)
      BY DEF IInv, MatchInv
    <3>2. CASE n = m /\ Ranked(m)
      <4>1. amounts # Unpaid
        <5>1. amounts \in Int \X Int
          BY <1>10, <3>2
        <5>2. Unpaid \notin Int \X Int
          BY DEF Unpaid
        <5>3. QED
          BY <5>1, <5>2
      <4>2. reversals[m] = 1 => job'[m] = "done"
        BY <1>13, <3>1, <3>2 DEF MatchOK
      <4>3. QED
        BY <1>2, <1>5, <1>8, <1>10, <1>11, <1>13, <3>2, <4>1, <4>2 DEF MatchOK, Ranked
    <3>3. CASE n = m /\ ~ Ranked(m)
      BY <1>2, <1>10, <1>11, <1>13, <3>1, <3>3 DEF MatchOK, Ranked
    <3>4. CASE n # m
      BY <1>2, <1>11, <1>13, <3>1, <3>4 DEF MatchOK, Ranked, Uploaded, Replays
    <3>5. QED
      BY <3>2, <3>3, <3>4
  <2>2. QED
    BY <2>1 DEF MatchInv
<1>18. QED
  BY <1>12, <1>15, <1>16, <1>17 DEF IInv

\* A worker that is inside has its match to itself: nobody else is inside it,
\* and no other worker holds its job.
LEMMA WorkerInside ==
  ASSUME IInv, NEW w \in Workers, proc[w].at = "inside"
  PROVE  /\ w \in Procs /\ proc[w].on \in Matches /\ job[proc[w].on] = "queued"
         /\ proc[w].claim \in Uploaded(proc[w].on)
         /\ reversals[proc[w].on] = 0 /\ match[proc[w].on].change # Unpaid
         /\ Ranked(proc[w].on)
         /\ Replays(match[proc[w].on], proc[w].claim.log) \/ Locked(proc[w])
         /\ \A q \in Procs : q # w /\ proc[q].at = "inside" => proc[q].on # proc[w].on
         /\ \A v \in Workers : v # w => proc[v].on # proc[w].on
<1>1. w \in Procs
  BY Kinds
<1>2. StateOK(w, proc[w])
  BY <1>1 DEF IInv, ProcInv
<1>3. /\ proc[w].on \in Matches /\ job[proc[w].on] = "queued"
      /\ proc[w].claim \in Uploaded(proc[w].on)
      /\ Replays(match[proc[w].on], proc[w].claim.log) \/ Locked(proc[w])
  BY <1>2 DEF StateOK
<1>4. MatchOK(proc[w].on) /\ reversals[proc[w].on] \in {0, 1}
  BY <1>3 DEF IInv, MatchInv, Types
<1>5. proc[w].on # NoMatch
  BY <1>3, ProcsAssumption
<1>6. \A q \in Procs : q # w /\ proc[q].at = "inside" => proc[q].on # proc[w].on
  BY <1>1 DEF IInv, RowInv
<1>7. \A v \in Workers : v # w => proc[v].on # proc[w].on
  BY <1>5 DEF IInv, JobInv
<1>8. QED
  BY <1>1, <1>3, <1>4, <1>6, <1>7 DEF MatchOK

\* When a worker has judged its match, all others are where they were.
LEMMA JudgedKeepsProcs ==
  ASSUME IInv, NEW w \in Workers, proc[w].at = "inside", Become(w, Idle),
         UNCHANGED uploads,
         \A n \in Matches : n # proc[w].on => match'[n] = match[n] /\ job'[n] = job[n],
         match'[proc[w].on].mode = match[proc[w].on].mode
  PROVE  /\ proc' \in [Procs -> ProcState] /\ RowInv' /\ JobInv' /\ ProcInv'
<1> DEFINE m == proc[w].on
<1>1. /\ w \in Procs
      /\ \A q \in Procs : q # w /\ proc[q].at = "inside" => proc[q].on # m
      /\ \A v \in Workers : v # w => proc[v].on # m
  BY WorkerInside
<1>2. /\ proc' \in [Procs -> ProcState] /\ proc'[w] = Idle
      /\ \A q \in Procs : q # w => proc'[q] = proc[q]
      /\ RowInv' /\ JobInv'
  BY <1>1, EndFrees
<1> HIDE DEF m
<1>3. ASSUME NEW q \in Procs PROVE StateOK(q, proc[q])'
  <2>1. CASE q = w
    BY <1>2, <2>1, NothingYet DEF StateOK
  <2>2. CASE q # w
    <3>1. StateOK(q, proc[q]) /\ proc'[q] = proc[q]
      BY <1>2, <2>2 DEF IInv, ProcInv
    <3>2. /\ proc[q].at # "idle" => proc[q].on \in Matches
          /\ proc[q].at = "inside" => match'[proc[q].on] = match[proc[q].on]
          /\ q \in Workers /\ proc[q].at # "idle" => job'[proc[q].on] = job[proc[q].on]
      BY <1>1, <2>2, <3>1 DEF StateOK, m
    <3>3. QED
      BY <3>1, <3>2 DEF StateOK, Ranked, Locked, Replays, Uploaded
  <2>3. QED
    BY <2>1, <2>2
<1>4. ProcInv'
  BY <1>3 DEF ProcInv
<1>5. QED
  BY <1>2, <1>4

\* A match is accepted on the strength of an upload that replays.
LEMMA CommitOkKeeps ==
  ASSUME IInv, NEW w \in Workers, CommitOk(w)
  PROVE  IInv'
<1> DEFINE m == proc[w].on
           c == proc[w].claim
           row == [match[m] EXCEPT !.verified = "ok"]
<1>1. /\ proc[w].at = "inside" /\ Become(w, Idle) /\ Replays(match[m], c.log)
      /\ match' = [match EXCEPT ![m] = row] /\ job' = [job EXCEPT ![m] = "done"]
      /\ UNCHANGED <<uploads, rating, failures, reversals>>
  BY DEF CommitOk, history
<1>2. PICK implausible \in SUBSET Players(m) : flagged' = flagged \cup implausible
  BY DEF CommitOk, Players
<1>3. /\ m \in Matches /\ c \in Uploaded(m) /\ match[m].change # Unpaid
      /\ reversals[m] = 0 /\ job[m] = "queued" /\ Ranked(m)
  BY <1>1, WorkerInside
<1>4. match \in [Matches -> MatchRow] /\ job \in [Matches -> {"none", "queued", "done"}]
  BY DEF IInv, Types
<1>5. /\ row \in MatchRow /\ row.mode = match[m].mode /\ row.change = match[m].change
      /\ row.winner = match[m].winner /\ row.verified = "ok"
      /\ row.end = match[m].end /\ row.disconnected = match[m].disconnected
  BY <1>3, <1>4 DEF MatchRow
<1>6. Replays(row, c.log)
  BY <1>1, <1>5 DEF Replays
<1> HIDE DEF row
<1>7. /\ match' \in [Matches -> MatchRow] /\ match'[m] = row
      /\ job' \in [Matches -> {"none", "queued", "done"}] /\ job'[m] = "done"
      /\ \A n \in Matches : n # m => match'[n] = match[n] /\ job'[n] = job[n]
  BY <1>1, <1>3, <1>4, <1>5
<1>8. proc' \in [Procs -> ProcState] /\ RowInv' /\ JobInv' /\ ProcInv'
  BY <1>1, <1>5, <1>7, JudgedKeepsProcs
<1>9. Types'
  <2>1. Players(m) \subseteq Users
    BY <1>3, PlayersOf DEF Players
  <2>2. flagged' \in SUBSET Users
    BY <1>2, <2>1 DEF IInv, Types
  <2>3. QED
    BY <1>1, <1>7, <1>8, <2>2 DEF IInv, Types
<1>10. MatchInv'
  <2>1. ASSUME NEW n \in Matches PROVE MatchOK(n)'
    <3>1. MatchOK(n)
      BY DEF IInv, MatchInv
    <3>2. CASE n = m
      <4>1. \E d \in Uploaded(m) : Replays(row, d.log)
        BY <1>3, <1>6
      <4>2. (\E d \in Uploaded(n) : Replays(match[n], d.log))'
        BY <1>1, <1>7, <3>2, <4>1 DEF Uploaded, Replays
      <4>3. QED
        BY <1>1, <1>3, <1>5, <1>7, <3>1, <3>2, <4>2 DEF MatchOK, Ranked
    <3>3. CASE n # m
      BY <1>1, <1>7, <3>1, <3>3 DEF MatchOK, Ranked, Uploaded, Replays
    <3>4. QED
      BY <3>2, <3>3
  <2>2. QED
    BY <2>1 DEF MatchInv
<1>11. QED
  BY <1>8, <1>9, <1>10 DEF IInv

\* A reversal leaves a rating row behind.
LEMMA AfterReversalRow ==
  ASSUME NEW row \in RatingRow, NEW m, NEW s \in Seat, match[m].change \in Int \X Int,
         NEW lp \in Nat
  PROVE  AfterReversal(m, s, row, lp) \in RatingRow
<1> DEFINE change == match[m].change
<1>1. \A x \in Int : Max({x, 0}) \in Nat
  BY PairMax
<1>2. lp - change[s] \in Int /\ row.matches - 1 \in Int
      /\ row.wins - 1 \in Int /\ row.wins - 0 \in Int
  BY DEF Seat, RatingRow
<1>3. Max({lp - change[s], 0}) \in Nat /\ Max({row.matches - 1, 0}) \in Nat
      /\ Max({row.wins - 1, 0}) \in Nat /\ Max({row.wins - 0, 0}) \in Nat
  BY <1>1, <1>2
<1> DEFINE won == (Player[m][s] = Player[m][1]) <=> (change[1] > 0)
           wins == Max({row.wins - (IF won THEN 1 ELSE 0), 0})
           points == Max({lp - change[s], 0})
           matches == Max({row.matches - 1, 0})
<1>4. wins \in Nat
  <2>1. CASE won
    BY <1>3, <2>1
  <2>2. CASE ~ won
    BY <1>3, <2>2
  <2>3. QED
    BY <2>1, <2>2
<1>5. AfterReversal(m, s, row, lp) =
        [row EXCEPT !.lp = points, !.matches = matches, !.wins = wins]
  BY DEF AfterReversal
<1>6. points \in Nat /\ matches \in Nat
  BY <1>3
<1> HIDE DEF points, matches, wins
<1>7. QED
  BY <1>4, <1>5, <1>6 DEF RatingRow

\* The rows a reversal leaves, as after a settlement.
LEMMA ReversalsRange ==
  ASSUME rating \in [Users -> RatingRow], NEW m \in Matches,
         match[m].change \in Int \X Int, NEW read,
         read[Player[m][1]] \in Nat, read[Player[m][2]] \in Nat
  PROVE  LET new == AfterReversals(m, read) IN
         /\ new \in [Users -> RatingRow]
         /\ \A u \in Users : u \notin Players(m) => new[u] = rating[u]
         /\ TwoAccounts(m) => \A u \in Players(m) :
              new[u] = AfterReversal(m, SeatOf(m, u), rating[u], read[u])
<1> DEFINE a == Player[m][1]
           b == Player[m][2]
           one == AfterReversal(m, 1, rating[a], read[a])
           first == [rating EXCEPT ![a] = one]
           left == IF TwoAccounts(m) THEN read[b] ELSE first[b].lp
           two == AfterReversal(m, 2, first[b], left)
           new == [first EXCEPT ![b] = two]
<1>1. AfterReversals(m, read) = new
  BY DEF AfterReversals
<1>2. a \in Users /\ b \in Users /\ Players(m) = {a, b}
  BY PlayersOf DEF Players
<1>3. TwoAccounts(m) => a # b /\ SeatOf(m, a) = 1 /\ SeatOf(m, b) = 2
  BY PlayersOf DEF TwoAccounts
<1>4. read[a] \in Nat /\ read[b] \in Nat
  OBVIOUS
<1>5. one = AfterReversal(m, 1, rating[a], read[a])
  OBVIOUS
<1> HIDE DEF a, b, one
<1>6. one \in RatingRow
  BY <1>2, <1>4, <1>5, AfterReversalRow DEF Seat
<1>7. /\ first \in [Users -> RatingRow] /\ first[a] = one
      /\ \A u \in Users : u # a => first[u] = rating[u]
  BY <1>2, <1>6
<1> HIDE DEF first
<1>8. left \in Nat
  BY <1>2, <1>4, <1>7 DEF RatingRow
<1>9. TwoAccounts(m) => two = AfterReversal(m, 2, rating[b], read[b])
  BY <1>2, <1>3, <1>7
<1> HIDE DEF left
<1>10. two \in RatingRow
  BY <1>2, <1>7, <1>8, AfterReversalRow DEF Seat
<1> HIDE DEF two
<1>11. /\ new \in [Users -> RatingRow] /\ new[b] = two
       /\ \A u \in Users : u # b => new[u] = first[u]
  BY <1>2, <1>7, <1>10
<1> HIDE DEF new
<1>12. \A u \in Users : u \notin Players(m) => new[u] = rating[u]
  BY <1>2, <1>7, <1>11
<1>13. ASSUME TwoAccounts(m), NEW u \in Players(m)
       PROVE  new[u] = AfterReversal(m, SeatOf(m, u), rating[u], read[u])
  <2>1. new[a] = one /\ new[b] = two
    BY <1>2, <1>3, <1>7, <1>11, <1>13
  <2>2. u = a \/ u = b
    BY <1>2
  <2>3. QED
    BY <1>3, <1>5, <1>9, <1>13, <2>1, <2>2, Zenon
<1>14. QED
  BY <1>1, <1>11, <1>12, <1>13

\* A match is taken back by the one worker that holds its job, once.
LEMMA CommitMismatchKeeps ==
  ASSUME IInv, NEW w \in Workers, CommitMismatch(w)
  PROVE  IInv'
<1> DEFINE m == proc[w].on
           read == proc[w].read
           change == match[m].change
           row == [match[m] EXCEPT !.verified = "mismatch"]
<1>1. /\ proc[w].at = "inside" /\ proc[w].todo = <<>> /\ Become(w, Idle)
      /\ ~ Replays(match[m], proc[w].claim.log)
      /\ match' = [match EXCEPT ![m] = row] /\ job' = [job EXCEPT ![m] = "done"]
      /\ flagged' = flagged \cup Players(m)
      /\ reversals' = [reversals EXCEPT ![m] = @ + 1]
      /\ UNCHANGED <<uploads, failures>>
  BY DEF CommitMismatch, Players
<1>2. rating' = AfterReversals(m, read)
  BY DEF CommitMismatch
<1>3. /\ w \in Procs /\ m \in Matches /\ match[m].change # Unpaid
      /\ reversals[m] = 0 /\ job[m] = "queued" /\ Ranked(m) /\ Locked(proc[w])
  BY <1>1, WorkerInside
<1>4. /\ match \in [Matches -> MatchRow] /\ job \in [Matches -> {"none", "queued", "done"}]
      /\ reversals \in [Matches -> {0, 1}] /\ read \in Readings
  BY <1>3, Fields DEF IInv, Types
<1>5. /\ row \in MatchRow /\ row.mode = match[m].mode /\ row.change = match[m].change
      /\ row.winner = match[m].winner /\ row.verified = "mismatch"
  BY <1>3, <1>4 DEF MatchRow
<1>6. change \in Int \X Int
  BY <1>3, <1>4 DEF MatchRow
<1>7. \A u \in Players(m) : read[u] \in Nat
  <2>1. Players(m) \subseteq DOMAIN read
    BY <1>1, <1>3 DEF Locked, Elems
  <2>2. QED
    BY <1>4, <2>1 DEF Readings
<1> HIDE DEF row
<1>8. /\ match' \in [Matches -> MatchRow] /\ match'[m] = row
      /\ job' \in [Matches -> {"none", "queued", "done"}] /\ job'[m] = "done"
      /\ \A n \in Matches : n # m => match'[n] = match[n] /\ job'[n] = job[n]
                                     /\ reversals'[n] = reversals[n]
      /\ reversals' \in [Matches -> {0, 1}]
  BY <1>1, <1>3, <1>4, <1>5
<1>9. proc' \in [Procs -> ProcState] /\ RowInv' /\ JobInv' /\ ProcInv'
  BY <1>1, <1>5, <1>8, JudgedKeepsProcs
<1> HIDE DEF change
<1>10. rating' \in [Users -> RatingRow]
  <2>1. rating \in [Users -> RatingRow]
    BY DEF IInv, Types
  <2>2. read[Player[m][1]] \in Nat /\ read[Player[m][2]] \in Nat
    BY <1>7 DEF Players
  <2>3. match[m].change \in Int \X Int
    BY <1>6 DEF change
  <2>4. QED
    BY <1>2, <1>3, <2>1, <2>2, <2>3, ReversalsRange
<1>11. Types'
  <2>1. Players(m) \subseteq Users
    BY <1>3, PlayersOf DEF Players
  <2>2. flagged' \in SUBSET Users
    BY <1>1, <2>1 DEF IInv, Types
  <2>3. QED
    BY <1>1, <1>8, <1>9, <1>10, <2>2 DEF IInv, Types
<1>12. MatchInv'
  <2>1. ASSUME NEW n \in Matches PROVE MatchOK(n)'
    <3>1. MatchOK(n)
      BY DEF IInv, MatchInv
    <3>2. CASE n = m
      BY <1>1, <1>3, <1>5, <1>8, <3>1, <3>2 DEF MatchOK, Ranked
    <3>3. CASE n # m
      BY <1>1, <1>8, <3>1, <3>3 DEF MatchOK, Ranked, Uploaded, Replays
    <3>4. QED
      BY <3>2, <3>3
  <2>2. QED
    BY <2>1 DEF MatchInv
<1>13. QED
  BY <1>9, <1>11, <1>12 DEF IInv

-----------------------------------------------------------------------------
(* The invariant holds. *)

\* Before anything is uploaded there is nothing to be wrong about.
LEMMA InitKeeps == Init => IInv
<1> SUFFICES ASSUME Init PROVE IInv
  OBVIOUS
<1>1. \A p \in Procs : proc[p] = Idle
  BY DEF Init
<1>2. Types
  <2>1. match \in [Matches -> MatchRow]
    <3> DEFINE New == [mode : Modes, winner : {0}, end : {0}, disconnected : {FALSE},
                       verified : {"pending"}, change : {Unpaid}]
    <3>1. match \in [Matches -> New]
      BY DEF Init
    <3>2. \A row \in New : row \in MatchRow
      <4>1. {0} \subseteq Seat \cup {0} /\ {0} \subseteq Nat
        OBVIOUS
      <4>2. {FALSE} \subseteq BOOLEAN /\ {"pending"} \subseteq {"pending", "ok", "mismatch"}
        OBVIOUS
      <4>3. {Unpaid} \subseteq {Unpaid} \cup (Int \X Int)
        OBVIOUS
      <4>4. QED
        BY <4>1, <4>2, <4>3, Zenon DEF MatchRow
    <3> HIDE DEF New
    <3>3. QED
      BY <3>1, <3>2
  <2>2. uploads \in [Matches -> Uploads]
    BY NothingYet DEF Init
  <2>3. rating \in [Users -> RatingRow]
    BY InputsAssumption DEF Init, RatingRow
  <2>4. proc \in [Procs -> ProcState]
    BY NothingYet DEF Init
  <2>5. job \in [Matches -> {"none", "queued", "done"}] /\ reversals \in [Matches -> {0, 1}]
    BY DEF Init
  <2>6. failures \in 0 .. MaxFailures /\ flagged \in SUBSET Users
    BY InputsAssumption DEF Init
  <2>7. QED
    BY <2>1, <2>2, <2>3, <2>4, <2>5, <2>6 DEF Types
<1>3. ProcInv
  BY <1>1, IdleOK DEF ProcInv
<1>4. RowInv
  BY <1>1, NothingYet DEF RowInv
<1>5. JobInv
  <2>1. \A w \in Workers : proc[w].on = NoMatch
    BY <1>1, NothingYet, Kinds
  <2>2. QED
    BY <2>1 DEF JobInv
<1>6. MatchInv
  <2>1. ASSUME NEW m \in Matches PROVE MatchOK(m)
    <3>1. /\ match[m].change = Unpaid /\ match[m].verified = "pending"
          /\ job[m] = "none" /\ reversals[m] = 0
      BY DEF Init
    <3>2. QED
      BY <3>1 DEF MatchOK
  <2>2. QED
    BY <2>1 DEF MatchInv
<1>7. QED
  BY <1>2, <1>3, <1>4, <1>5, <1>6 DEF IInv

\* Every step keeps the invariant.
LEMMA NextKeeps == IInv /\ [Next]_vars => IInv'
<1> SUFFICES ASSUME IInv, [Next]_vars PROVE IInv'
  OBVIOUS
<1>1. CASE UNCHANGED vars
  BY <1>1 DEF vars, IInv, Types, ProcInv, RowInv, JobInv, MatchInv, MatchOK, StateOK,
              Ranked, Uploaded, Locked, Replays
<1>2. ASSUME NEW m \in Matches, NEW s \in Seat,
             \/ \E claim \in Claims : Submit(m, s, claim)
             \/ RecordUpload(m, s)
             \/ CompareUploads(m, s)
             \/ Void(m, s)
             \/ BeginSettle(m, s)
      PROVE  IInv'
  BY <1>2, SubmitKeeps, RecordUploadKeeps, CompareUploadsKeeps, VoidKeeps, BeginSettleKeeps
<1>3. ASSUME NEW m \in Matches, SweepPick(m) PROVE IInv'
  BY <1>3, SweepPickKeeps
<1>4. CASE SweepLock
  BY <1>4, SweepLockKeeps
<1>5. ASSUME NEW p \in Requests \cup {Sweeper}, CommitSettle(p) PROVE IInv'
  BY <1>5, CommitSettleKeeps
<1>6. ASSUME NEW w \in Workers,
             \/ \E m \in Matches : ClaimJob(w, m)
             \/ Judge(w)
             \/ CommitOk(w)
             \/ CommitMismatch(w)
      PROVE  IInv'
  BY <1>6, ClaimJobKeeps, JudgeKeeps, CommitOkKeeps, CommitMismatchKeeps
<1>7. ASSUME NEW p \in Procs, LockRating(p) \/ Deadlocked(p) \/ Fail(p) PROVE IInv'
  BY <1>7, LockRatingKeeps, DeadlockedKeeps
<1>8. QED
  BY <1>1, <1>2, <1>3, <1>4, <1>5, <1>6, <1>7 DEF Next

\* The inductive invariant, for every set of matches, accounts, claims and
\* workers and any number of failures: processes agree on who holds a row and
\* a job, and each row records what a process may rely on (match.go, verify.go).
THEOREM Invariant == Spec => []IInv
<1>1. Init => IInv
  BY InitKeeps
<1>2. IInv /\ [Next]_vars => IInv'
  BY NextKeeps
<1>3. QED
  BY <1>1, <1>2, PTL DEF Spec

\* Every variable stays in its range; in particular neither a payment nor a
\* reversal takes an account below zero points.
THEOREM TypeCorrect == Spec => []TypeOK
<1>1. IInv => TypeOK
  <2> SUFFICES ASSUME IInv PROVE TypeOK
    OBVIOUS
  <2>1. Types
    BY DEF IInv
  <2>2. \A m \in Matches :
          DOMAIN uploads[m] \subseteq Seat /\ uploads[m] \in [DOMAIN uploads[m] -> Claims]
    <3>1. ASSUME NEW m \in Matches
          PROVE  DOMAIN uploads[m] \subseteq Seat /\ uploads[m] \in [DOMAIN uploads[m] -> Claims]
      BY <2>1 DEF Types, Uploads
    <3>2. QED
      BY <3>1
  <2>3. ASSUME NEW p \in Procs
        PROVE  proc[p].at \in Stages /\ proc[p].on \in Matches \cup {NoMatch}
               /\ DOMAIN proc[p].read \subseteq Users
    BY <2>1 DEF Types, ProcState, Readings
  <2>4. QED
    BY <2>1, <2>2, <2>3 DEF TypeOK, Types, RatingRow
<1>2. QED
  BY <1>1, Invariant, PTL

\* However many workers look for jobs, and wherever one of them dies, what a
\* match paid is taken back at most once (verify.go:108).
THEOREM JudgedOnce == Spec => []ReversedOnce
<1>1. IInv => ReversedOnce
  BY DEF IInv, Types, MatchInv, MatchOK, ReversedOnce
<1>2. QED
  BY <1>1, Invariant, PTL

\* A ranked match marked ok is one whose result an upload replays to, whatever
\* was uploaded, settled or voided while the worker replayed it (verify.go:197).
THEOREM OkMeansReplayed == Spec => []OkIsReplayed
<1>1. IInv => OkIsReplayed
  <2> SUFFICES ASSUME IInv, NEW m \in Matches, Ranked(m), match[m].verified = "ok"
               PROVE  \E s \in DOMAIN uploads[m] : Replays(match[m], uploads[m][s].log)
    BY DEF OkIsReplayed
  <2>1. \E c \in Uploaded(m) : Replays(match[m], c.log)
    BY DEF IInv, MatchInv, MatchOK
  <2>2. QED
    BY <2>1 DEF Uploaded
<1>2. QED
  BY <1>1, Invariant, PTL

\* Whatever points the players have, a recorded payment is positive for the
\* winner's seat and for no other, and of a match of one account for neither
\* (rating.go:57, match.go:325).
THEOREM PositiveForWinner == Spec => []WinnerIsPaid
<1>1. IInv => WinnerIsPaid
  BY DEF IInv, MatchInv, MatchOK, WinnerIsPaid
<1>2. QED
  BY <1>1, Invariant, PTL

-----------------------------------------------------------------------------
(***************************************************************************)
(* Settlements for the ladder do not wait for each other: each locks the   *)
(* rating of the lower account id first (OrderInv), so whoever waits while *)
(* it holds one waits for a higher one, and of a circle of them the one    *)
(* that holds the lowest would wait for one lower still.  A match of one   *)
(* account has one rating to lock, so whoever settles it holds none while  *)
(* it waits.                                                               *)
(***************************************************************************)
Low(m) == Min(Players(m))
High(m) == Max(Players(m))

OrderOK(s) ==
  /\ s.at # "inside" => DOMAIN s.read = {}
  /\ s.at = "inside" /\ DOMAIN s.read = {} => s.todo = Once(<<Low(s.on), High(s.on)>>)
  /\ s.at = "inside" /\ DOMAIN s.read # {} /\ s.todo # <<>> =>
       /\ s.todo = <<High(s.on)>> /\ DOMAIN s.read = {Low(s.on)}
       /\ Low(s.on) # High(s.on)

Settlers == Requests \cup {Sweeper}

OrderInv == \A p \in Settlers : OrderOK(proc[p])

\* The lower of two ids is not above the higher.
LEMMA LowBelowHigh ==
  ASSUME NEW m \in Matches
  PROVE  Low(m) \in Nat /\ High(m) \in Nat /\ Low(m) <= High(m)
<1> DEFINE a == Player[m][1]
           b == Player[m][2]
<1>1. a \in Nat /\ b \in Nat
  <2>1. a \in Users /\ b \in Users
    BY PlayersOf
  <2>2. \A u \in Users : u \in Nat
    BY PlayersAssumption
  <2>3. QED
    BY <2>1, <2>2
<1> HIDE DEF a, b
<1>2. Min({a, b}) = (IF a <= b THEN a ELSE b) /\ Max({a, b}) = (IF a <= b THEN b ELSE a)
  BY <1>1, PairMin, PairMax
<1>3. Low(m) = Min({a, b}) /\ High(m) = Max({a, b})
  BY DEF Low, High, Players, a, b
<1>4. QED
  BY <1>1, <1>2, <1>3

\* A step of one process is a step of no other.
LEMMA OrderMove ==
  ASSUME IInv, OrderInv, NEW p \in Procs, NEW s \in ProcState, Become(p, s),
         p \in Settlers => OrderOK(s)
  PROVE  OrderInv'
<1>1. /\ proc'[p] = s
      /\ \A q \in Procs : q # p => proc'[q] = proc[q]
  BY Moved DEF IInv
<1>2. \A q \in Settlers : q \in Procs
  BY DEF Settlers, Procs
<1>3. \A q \in Settlers : OrderOK(proc'[q])
  BY <1>1, <1>2 DEF OrderInv
<1>4. QED
  BY <1>3, Zenon DEF OrderInv, OrderOK

\* An idle process has locked nothing.
LEMMA IdleOrder == OrderOK(Idle)
BY NothingYet DEF OrderOK

\* Where only the ladder is played, settlements lock the lower id first.
LEMMA OrderKeeps ==
  ASSUME Modes = {"ranked"}, IInv, OrderInv, [Next]_vars
  PROVE  OrderInv'
<1>1. ASSUME NEW p \in Procs, Become(p, Idle) PROVE OrderInv'
  BY <1>1, NothingYet, IdleOrder, OrderMove
<1>2. \A m \in Matches : Ranked(m)
  BY DEF IInv, Types, MatchRow, Ranked
<1>3. \A m \in Matches, c \in Claim : LadderLocks(m, c) = Once(<<Low(m), High(m)>>)
  BY <1>2 DEF LadderLocks, Low, High, Players
<1>4. CASE UNCHANGED vars
  BY <1>4 DEF vars, OrderInv, OrderOK
<1>5. ASSUME NEW m \in Matches, NEW s \in Seat PROVE <<m, s>> \in Procs /\ <<m, s>> \in Settlers
  BY <1>5, Kinds DEF Settlers
<1>6. ASSUME NEW m \in Matches, NEW s \in Seat, NEW c \in Claims, Submit(m, s, c)
      PROVE  OrderInv'
  <2> DEFINE st == [Idle EXCEPT !.at = "accepted", !.on = m, !.claim = c]
  <2>1. st \in ProcState /\ st.at = "accepted" /\ DOMAIN st.read = {}
    BY NothingYet, InputsAssumption DEF ProcState, Stages
  <2>2. Become(<<m, s>>, st)
    BY <1>6 DEF Submit
  <2> HIDE DEF st
  <2>3. QED
    BY <1>5, <2>1, <2>2, OrderMove DEF OrderOK
<1>7. ASSUME NEW p \in Settlers, NEW next \in {"recorded", "voiding", "settling"},
             proc[p].at \in {"accepted", "recorded"},
             Become(p, [proc[p] EXCEPT !.at = next])
      PROVE  OrderInv'
  <2> DEFINE st == [proc[p] EXCEPT !.at = next]
  <2>1. p \in Procs /\ proc[p] \in ProcState /\ OrderOK(proc[p])
    BY DEF Settlers, Procs, IInv, Types, OrderInv
  <2>2. st \in ProcState /\ st.at # "inside" /\ DOMAIN st.read = {}
    BY <1>7, <2>1 DEF ProcState, Stages, OrderOK
  <2>3. Become(p, st)
    BY <1>7
  <2> HIDE DEF st
  <2>4. QED
    BY <2>1, <2>2, <2>3, OrderMove DEF OrderOK
<1>8. ASSUME NEW p \in Settlers, NEW c \in Claim, proc[p].at # "inside",
             proc[p].on \in Matches,
             Become(p, [proc[p] EXCEPT !.at = "inside", !.claim = c,
                                       !.todo = LadderLocks(proc[p].on, c)])
      PROVE  OrderInv'
  <2> DEFINE locks == LadderLocks(proc[p].on, c)
             st == [proc[p] EXCEPT !.at = "inside", !.claim = c, !.todo = locks]
  <2>1. p \in Procs /\ proc[p] \in ProcState /\ OrderOK(proc[p])
    BY DEF Settlers, Procs, IInv, Types, OrderInv
  <2>2. locks \in Seq(Users) /\ locks = Once(<<Low(proc[p].on), High(proc[p].on)>>)
    BY <1>3, <1>8, LadderLocksRange
  <2>3. Become(p, st)
    BY <1>8
  <2> HIDE DEF locks
  <2>4. /\ st \in ProcState /\ st.at = "inside" /\ DOMAIN st.read = {}
        /\ st.on = proc[p].on /\ st.todo = locks
    BY <1>8, <2>1, <2>2 DEF ProcState, Stages, OrderOK
  <2> HIDE DEF st
  <2>5. QED
    BY <2>1, <2>2, <2>3, <2>4, OrderMove DEF OrderOK
<1>9. ASSUME NEW m \in Matches, NEW s \in Seat, RecordUpload(m, s) PROVE OrderInv'
  BY <1>1, <1>5, <1>7, <1>9 DEF RecordUpload
<1>10. ASSUME NEW m \in Matches, NEW s \in Seat, CompareUploads(m, s) PROVE OrderInv'
  <2> DEFINE next == IF Agree(proc[<<m, s>>].claim, uploads[m][Other(s)])
                     THEN "settling" ELSE "voiding"
  <2>1. Become(<<m, s>>, Idle) \/ Become(<<m, s>>, [proc[<<m, s>>] EXCEPT !.at = next])
    BY <1>10 DEF CompareUploads
  <2>2. next \in {"recorded", "voiding", "settling"} /\ proc[<<m, s>>].at = "recorded"
    BY <1>10 DEF CompareUploads
  <2> HIDE DEF next
  <2>3. QED
    BY <1>1, <1>5, <1>7, <2>1, <2>2
<1>11. ASSUME NEW m \in Matches, NEW s \in Seat, BeginSettle(m, s) PROVE OrderInv'
  <2> DEFINE p == <<m, s>>
  <2>1. p \in Procs /\ p \in Settlers /\ p \in Requests /\ p[1] = m
    BY Kinds DEF Settlers
  <2>2. proc[p] \in ProcState /\ StateOK(p, proc[p]) /\ proc[p].at = "settling"
    BY <1>11, <2>1 DEF BeginSettle, IInv, Types, ProcInv
  <2>3. proc[p].on = m /\ proc[p].claim \in Claim
    BY <2>1, <2>2, InputsAssumption DEF StateOK
  <2>4. [proc[p] EXCEPT !.at = "inside", !.todo = LadderLocks(m, proc[p].claim)]
        = [proc[p] EXCEPT !.at = "inside", !.claim = proc[p].claim,
                          !.todo = LadderLocks(proc[p].on, proc[p].claim)]
    BY <2>2, <2>3 DEF ProcState
  <2>5. Become(p, [proc[p] EXCEPT !.at = "inside", !.todo = LadderLocks(m, proc[p].claim)])
    BY <1>11 DEF BeginSettle
  <2> HIDE DEF p
  <2>6. QED
    BY <1>8, <2>1, <2>2, <2>3, <2>4, <2>5
<1>12. CASE SweepLock
  <2> DEFINE m == proc[Sweeper].on
  <2>1. /\ Sweeper \in Procs /\ Sweeper \in Settlers
        /\ StateOK(Sweeper, proc[Sweeper]) /\ proc[Sweeper].at = "picked"
    BY <1>12, Kinds DEF SweepLock, Settlers, IInv, ProcInv
  <2>2. m \in Matches
    BY <2>1 DEF StateOK
  <2>3. ASSUME NEW s \in DOMAIN uploads[m],
               LET claim == [uploads[m][s] EXCEPT !.disconnect = TRUE] IN
               Become(Sweeper, [proc[Sweeper] EXCEPT !.at = "inside", !.claim = claim,
                                                     !.todo = LadderLocks(m, claim)])
        PROVE  OrderInv'
    <3> DEFINE claim == [uploads[m][s] EXCEPT !.disconnect = TRUE]
    <3>1. claim \in Claim
      BY <2>2, UploadsAreClaims DEF IInv, Claim
    <3>2. Become(Sweeper, [proc[Sweeper] EXCEPT !.at = "inside", !.claim = claim,
                                                !.todo = LadderLocks(m, claim)])
      BY <2>3
    <3> HIDE DEF claim
    <3>3. QED
      BY <1>8, <2>1, <2>2, <3>1, <3>2
  <2>4. QED
    BY <1>1, <1>12, <2>1, <2>3 DEF SweepLock
<1>13. ASSUME NEW m \in Matches, SweepPick(m) PROVE OrderInv'
  <2> DEFINE st == [Idle EXCEPT !.at = "picked", !.on = m]
  <2>1. st \in ProcState /\ st.at = "picked" /\ DOMAIN st.read = {}
    BY NothingYet DEF ProcState, Stages
  <2>2. Become(Sweeper, st)
    BY <1>13 DEF SweepPick
  <2> HIDE DEF st
  <2>3. QED
    BY <2>1, <2>2, Kinds, OrderMove DEF OrderOK
<1>14. ASSUME NEW m \in Matches, NEW s \in Seat, Void(m, s) PROVE OrderInv'
  BY <1>1, <1>5, <1>14 DEF Void
<1>15. ASSUME NEW p \in Requests \cup {Sweeper}, CommitSettle(p) PROVE OrderInv'
  BY <1>1, <1>15 DEF CommitSettle, Procs
<1>16. ASSUME NEW w \in Workers, NEW st, Become(w, st) PROVE OrderInv'
  <2>1. w \in Procs /\ w \notin Settlers
    BY Kinds DEF Settlers
  <2>2. \A q \in Settlers : q \in Procs /\ q # w
    BY <2>1 DEF Settlers, Procs
  <2>3. \A q \in Settlers : proc'[q] = proc[q]
    BY <1>16, <2>2 DEF Become, IInv, Types
  <2>4. QED
    BY <2>3 DEF OrderInv, OrderOK
<1>17. ASSUME NEW p \in Procs, LockRating(p) PROVE OrderInv'
  <2> DEFINE u == Head(proc[p].todo)
             st == [proc[p] EXCEPT !.todo = Tail(@), !.read = Put(@, u, rating[u].lp)]
  <2>1. Become(p, st) /\ proc[p].at = "inside" /\ proc[p].todo # <<>>
    BY <1>17 DEF LockRating
  <2>2. proc[p] \in ProcState /\ proc[p].todo \in Seq(Users) /\ proc[p].read \in Readings
    BY Fields DEF IInv
  <2>3. u \in Users /\ Tail(proc[p].todo) \in Seq(Users)
    BY <2>1, <2>2, TailElems
  <2>4. rating[u].lp \in Nat
    BY <2>3 DEF IInv, Types, RatingRow
  <2>5. Put(proc[p].read, u, rating[u].lp) \in Readings
        /\ DOMAIN Put(proc[p].read, u, rating[u].lp) = DOMAIN proc[p].read \cup {u}
    BY <2>2, <2>3, <2>4, PutReading
  <2>6. /\ st.at = "inside" /\ st.on = proc[p].on /\ st.todo = Tail(proc[p].todo)
        /\ DOMAIN st.read = DOMAIN proc[p].read \cup {u} /\ st \in ProcState
    BY <2>1, <2>2, <2>3, <2>5 DEF ProcState
  <2> HIDE DEF st
  <2>7. p \in Settlers => OrderOK(st)
    <3> SUFFICES ASSUME p \in Settlers PROVE OrderOK(st)
      OBVIOUS
    <3>1. OrderOK(proc[p])
      BY DEF OrderInv
    <3>2. CASE DOMAIN proc[p].read = {}
      <4>1. proc[p].todo = Once(<<Low(proc[p].on), High(proc[p].on)>>)
        BY <2>1, <3>1, <3>2 DEF OrderOK
      <4>2. CASE Low(proc[p].on) = High(proc[p].on)
        <5>1. proc[p].todo = <<Low(proc[p].on)>>
          BY <4>1, <4>2 DEF Once
        <5>2. st.todo = <<>> /\ DOMAIN st.read # {}
          BY <2>6, <3>2, <5>1
        <5>3. QED
          BY <2>6, <5>2 DEF OrderOK
      <4>3. CASE Low(proc[p].on) # High(proc[p].on)
        <5>1. proc[p].todo = <<Low(proc[p].on), High(proc[p].on)>>
          BY <4>1, <4>3 DEF Once
        <5>2. st.todo = <<High(st.on)>> /\ DOMAIN st.read = {Low(st.on)}
          BY <2>6, <3>2, <5>1
        <5>3. QED
          BY <2>6, <4>3, <5>2 DEF OrderOK
      <4>4. QED
        BY <4>2, <4>3
    <3>3. CASE DOMAIN proc[p].read # {}
      <4>1. proc[p].todo = <<High(proc[p].on)>>
        BY <2>1, <3>1, <3>3 DEF OrderOK
      <4>2. st.todo = <<>> /\ DOMAIN st.read # {}
        BY <2>6, <3>3, <4>1
      <4>3. QED
        BY <2>6, <4>2 DEF OrderOK
    <3>4. QED
      BY <3>2, <3>3
  <2>8. QED
    BY <2>1, <2>6, <2>7, OrderMove
<1>18. ASSUME NEW p \in Procs, Deadlocked(p) \/ Fail(p) PROVE OrderInv'
  BY <1>1, <1>18 DEF Deadlocked, Fail
<1>19. ASSUME NEW w \in Workers,
              \/ \E m \in Matches : ClaimJob(w, m)
              \/ Judge(w)
              \/ CommitOk(w)
              \/ CommitMismatch(w)
       PROVE  OrderInv'
  BY <1>16, <1>19 DEF ClaimJob, Judge, CommitOk, CommitMismatch
<1>20. QED
  BY <1>4, <1>6, <1>9, <1>10, <1>11, <1>12, <1>13, <1>14, <1>15, <1>17, <1>18, <1>19
     DEF Next

\* Settlements that lock in order are never in a circle.
LEMMA OrderExcludesCycles ==
  ASSUME IInv, OrderInv
  PROVE  SettlementsDontDeadlock
<1> SUFFICES ASSUME NEW S \in SUBSET {p \in Settlers : Waiting(p)}, Cycle(S) PROVE FALSE
  BY DEF SettlementsDontDeadlock, Settlers
<1>1. \A p \in S : p \in Settlers /\ p \in Procs /\ Waiting(p)
  BY DEF Settlers, Procs
<1>2. S # {} /\ \A q \in S : \E p \in S : q \in WaitsFor(p)
  BY DEF Cycle
<1>3. ASSUME NEW p \in S, NEW q \in S, q \in WaitsFor(p)
      PROVE  Head(proc[p].todo) \in DOMAIN proc[q].read
  BY <1>3 DEF WaitsFor
<1>4. ASSUME NEW q \in S
      PROVE  /\ proc[q].on \in Matches /\ proc[q].todo = <<High(proc[q].on)>>
             /\ DOMAIN proc[q].read = {Low(proc[q].on)}
             /\ Low(proc[q].on) # High(proc[q].on)
  <2>1. PICK p \in S : q \in WaitsFor(p)
    BY <1>2
  <2>2. DOMAIN proc[q].read # {}
    BY <1>3, <2>1
  <2>3. proc[q].at = "inside" /\ proc[q].todo # <<>> /\ OrderOK(proc[q]) /\ StateOK(q, proc[q])
    BY <1>1 DEF Waiting, OrderInv, IInv, ProcInv
  <2>4. QED
    BY <2>2, <2>3 DEF OrderOK, StateOK
<1> DEFINE L == {Low(proc[q].on) : q \in S}
<1>5. L \in SUBSET Nat /\ L # {}
  BY <1>2, <1>4, LowBelowHigh
<1>6. PICK least \in L : \A n \in L : least <= n
  BY <1>5, NatLeast
<1>7. PICK q \in S : least = Low(proc[q].on)
  BY <1>6
<1>8. PICK p \in S : q \in WaitsFor(p)
  BY <1>2
<1>9. High(proc[p].on) = Low(proc[q].on)
  <2>1. Head(proc[p].todo) = High(proc[p].on)
    BY <1>4
  <2>2. QED
    BY <1>3, <1>4, <1>8, <2>1
<1>10. Low(proc[p].on) \in Nat /\ Low(proc[p].on) < High(proc[p].on) /\ Low(proc[p].on) \in L
  BY <1>4, LowBelowHigh
<1>11. least <= Low(proc[p].on) /\ Low(proc[p].on) < least
       /\ least \in Nat /\ Low(proc[p].on) \in Nat
  BY <1>5, <1>6, <1>7, <1>9, <1>10
<1>12. QED
  BY <1>11

\* Where only the ladder is played, settlements never wait for each other in a
\* circle, whichever accounts meet in whichever seats (match.go:276).
THEOREM LadderNeverDeadlocks ==
  ASSUME Modes = {"ranked"}
  PROVE  Spec => []SettlementsDontDeadlock
<1>1. Init => OrderInv
  <2> SUFFICES ASSUME Init PROVE OrderInv
    OBVIOUS
  <2>1. \A p \in Settlers : proc[p] = Idle
    BY DEF Init, Settlers, Procs
  <2>2. QED
    BY <2>1, IdleOrder DEF OrderInv
<1>2. IInv /\ OrderInv /\ [Next]_vars => OrderInv'
  BY OrderKeeps
<1>3. IInv /\ OrderInv => SettlementsDontDeadlock
  BY OrderExcludesCycles
<1>4. QED
  BY <1>1, <1>2, <1>3, Invariant, PTL DEF Spec

-----------------------------------------------------------------------------
(* Counts and points.  A reversal takes one match and perhaps one win off    *)
(* an account, so the counts only fit because every match that can still be  *)
(* reversed has been counted; and it writes points it has read before, so    *)
(* the ladder only balances because what a process has read under a lock is  *)
(* what the row still says.                                                  *)

\* A payment that can still be taken back, and how the reversal reads it.
Outstanding(m) == match[m].change # Unpaid /\ reversals[m] = 0
WonAs(s, change) == (s = 1) <=> (change[1] > 0)

Won(u) == {m \in Matches : /\ u \in Players(m) /\ Outstanding(m)
                           /\ WonAs(SeatOf(m, u), match[m].change)}
Lost(u) == {m \in Matches : /\ u \in Players(m) /\ Outstanding(m)
                            /\ ~ WonAs(SeatOf(m, u), match[m].change)}

\* The wins of an account cover those that can be taken back, and its other
\* matches cover the losses that can.
CountsInv ==
  \A u \in Users : ~ PlaysItself(u) =>
    /\ rating[u].wins >= Cardinality(Won(u))
    /\ rating[u].matches - rating[u].wins >= Cardinality(Lost(u))

\* What has been read is locked, by one process, and still true.
ReadInv ==
  /\ \A p \in Procs :
       /\ proc[p].at # "inside" => DOMAIN proc[p].read = {}
       /\ \A u \in DOMAIN proc[p].read : proc[p].read[u] = rating[u].lp
  /\ \A p \in Procs, q \in Procs, u \in Users :
       u \in DOMAIN proc[p].read /\ u \in DOMAIN proc[q].read => p = q

HistoryTypes == paid \in [Matches -> Int \X Int] /\ taken \in [Matches -> Int \X Int]

Ledger == CountsInv /\ ReadInv /\ HistoryTypes /\ LadderBalances

\* The sets of matches whose sizes are compared are finite.
LEMMA CountSets ==
  ASSUME NEW u
  PROVE  /\ IsFiniteSet(Won(u)) /\ Cardinality(Won(u)) \in Nat
         /\ IsFiniteSet(Lost(u)) /\ Cardinality(Lost(u)) \in Nat
<1>1. Won(u) \in SUBSET Matches /\ Lost(u) \in SUBSET Matches
  BY DEF Won, Lost
<1>2. QED
  BY <1>1, MatchesAssumption, FS_Subset, FS_CardinalityType

\* A step that pays and counts nothing keeps the counts and the balance.
LEMMA QuietLedger ==
  ASSUME CountsInv, HistoryTypes, LadderBalances,
         UNCHANGED <<paid, taken, reversals>>,
         \A m \in Matches : match'[m].change = match[m].change,
         \A u \in Users : /\ rating'[u].lp = rating[u].lp
                          /\ rating'[u].wins = rating[u].wins
                          /\ rating'[u].matches = rating[u].matches
  PROVE  CountsInv' /\ HistoryTypes' /\ LadderBalances'
<1>1. CountsInv'
  <2>1. ASSUME NEW u \in Users PROVE Won(u)' = Won(u) /\ Lost(u)' = Lost(u)
    BY DEF Won, Lost, Outstanding
  <2>2. QED
    BY <2>1 DEF CountsInv
<1>2. HistoryTypes'
  BY DEF HistoryTypes
<1>3. LadderBalances'
  <2>1. ASSUME NEW u \in Users PROVE PointsMoved(u)' = PointsMoved(u)
    BY DEF PointsMoved
  <2>2. QED
    BY <2>1 DEF LadderBalances
<1>4. QED
  BY <1>1, <1>2, <1>3

\* A process that moves keeps the readings true, if it gives its own up, or
\* adds one of a row that nobody holds, and others hold no row that changed.
LEMMA ReadMove ==
  ASSUME Types, ReadInv, NEW p \in Procs, NEW s, Become(p, s),
         DOMAIN s.read \subseteq Users,
         s.at # "inside" => DOMAIN s.read = {},
         \A u \in DOMAIN s.read : /\ s.read[u] = rating'[u].lp
                                  /\ u \in DOMAIN proc[p].read \/ RatingFree(u),
         \A q \in Procs : q # p => \A u \in DOMAIN proc[q].read : rating'[u].lp = rating[u].lp
  PROVE  ReadInv'
<1>1. proc'[p] = s /\ \A q \in Procs : q # p => proc'[q] = proc[q]
  BY DEF Become, Types
<1>2. ASSUME NEW q \in Procs
      PROVE  /\ proc'[q].at # "inside" => DOMAIN proc'[q].read = {}
             /\ \A u \in DOMAIN proc'[q].read : proc'[q].read[u] = rating'[u].lp
  <2>1. CASE q = p
    BY <1>1, <2>1
  <2>2. CASE q # p
    BY <1>1, <2>2 DEF ReadInv
  <2>3. QED
    BY <2>1, <2>2
<1>3. ASSUME NEW q \in Procs, q # p, NEW u \in Users, u \in DOMAIN s.read,
             u \in DOMAIN proc[q].read
      PROVE  FALSE
  BY <1>3 DEF ReadInv, RatingFree
<1>4. \A q \in Procs, r \in Procs, u \in Users :
        u \in DOMAIN proc'[q].read /\ u \in DOMAIN proc'[r].read => q = r
  BY <1>1, <1>3 DEF ReadInv
<1>5. QED
  BY <1>2, <1>4 DEF ReadInv

\* One that ends, or has read nothing yet.
LEMMA ReadNothing ==
  ASSUME Types, ReadInv, NEW p \in Procs, NEW s, Become(p, s), DOMAIN s.read = {},
         \A u \in Users : rating'[u].lp = rating[u].lp
  PROVE  ReadInv'
<1>1. \A q \in Procs : DOMAIN proc[q].read \subseteq Users
  BY Fields DEF Readings
<1>2. QED
  BY <1>1, ReadMove

\* A set with at most one element more.
LEMMA AtMostOneMore ==
  ASSUME NEW S, IsFiniteSet(S), NEW T, NEW m, T \subseteq S \cup {m}
  PROVE  /\ Cardinality(S) \in Nat /\ Cardinality(T) \in Nat
         /\ Cardinality(T) <= Cardinality(S) + 1
         /\ T \subseteq S => Cardinality(T) <= Cardinality(S)
<1>1. /\ IsFiniteSet(S \cup {m})
      /\ Cardinality(S \cup {m}) = IF m \in S THEN Cardinality(S) ELSE Cardinality(S) + 1
  BY FS_AddElement
<1>2. T \in SUBSET (S \cup {m}) /\ IsFiniteSet(T) /\ Cardinality(T) <= Cardinality(S \cup {m})
  BY <1>1, FS_Subset
<1>3. Cardinality(S) \in Nat /\ Cardinality(T) \in Nat
  BY <1>2, FS_CardinalityType
<1>4. T \subseteq S => Cardinality(T) <= Cardinality(S)
  BY FS_Subset
<1>5. QED
  BY <1>1, <1>2, <1>3, <1>4

\* When one match moves points, by as much for an account as its points
\* change, the ladder balances as before.
LEMMA Payment ==
  ASSUME NEW m \in Matches, NEW d \in [Seat -> Int],
         HistoryTypes, HistoryTypes', LadderBalances,
         \A n \in Matches : n # m => paid'[n] = paid[n] /\ taken'[n] = taken[n],
         \A s \in Seat : paid'[m][s] - taken'[m][s] = (paid[m][s] - taken[m][s]) + d[s],
         \A u \in Users : rating[u].lp \in Int,
         \A u \in Users : ~ PlaysItself(u) =>
           rating'[u].lp = IF u \in Players(m) THEN rating[u].lp + d[SeatOf(m, u)]
                           ELSE rating[u].lp
  PROVE  LadderBalances'
<1> SUFFICES ASSUME NEW u \in Users, ~ PlaysItself(u)
             PROVE  rating'[u].lp = StartLP[u] + PointsMoved(u)'
  BY DEF LadderBalances
<1> DEFINE f == [n \in Matches |-> IF u \in Players(n)
                                   THEN paid[n][SeatOf(n, u)] - taken[n][SeatOf(n, u)] ELSE 0]
           g == [n \in Matches |-> IF u \in Players(n)
                                   THEN paid'[n][SeatOf(n, u)] - taken'[n][SeatOf(n, u)] ELSE 0]
<1>1. PointsMoved(u) = SumFunctionOnSet(f, Matches)
      /\ PointsMoved(u)' = SumFunctionOnSet(g, Matches)
  BY DEF PointsMoved, SumFunction, Players, SeatOf
<1>2. \A n \in Matches : u \in Players(n) => SeatOf(n, u) \in {1, 2}
  BY PlayersOf DEF Seat
<1>3. \A n \in Matches : f[n] \in Int /\ g[n] \in Int
  BY <1>2 DEF HistoryTypes
<1>4. \A n \in Matches : n # m => g[n] = f[n]
  OBVIOUS
<1>5. g[m] - f[m] = IF u \in Players(m) THEN d[SeatOf(m, u)] ELSE 0
  BY <1>2, <1>3 DEF Seat
<1> HIDE DEF f, g
<1>6. SumFunctionOnSet(g, Matches) = SumFunctionOnSet(f, Matches) + (g[m] - f[m])
  BY <1>3, <1>4, MatchesAssumption, SumChange
<1>7. SumFunctionOnSet(f, Matches) \in Int
  BY <1>3, MatchesAssumption, SumType
<1>8. rating[u].lp = StartLP[u] + PointsMoved(u) /\ StartLP[u] \in Int
  BY InputsAssumption DEF LadderBalances
<1>9. CASE u \in Players(m)
  <2>1. d[SeatOf(m, u)] \in Int
    BY <1>2, <1>9 DEF Seat
  <2>2. QED
    BY <1>1, <1>5, <1>6, <1>7, <1>8, <1>9, <2>1
<1>10. CASE u \notin Players(m)
  BY <1>1, <1>5, <1>6, <1>7, <1>8, <1>10
<1>11. QED
  BY <1>9, <1>10

\* A settlement counts the match for both players, as won by the one it pays.
LEMMA SettleCounts ==
  ASSUME IInv, Ledger, NEW p \in Requests \cup {Sweeper}, CommitSettle(p)
  PROVE  Ledger'
<1> DEFINE m == proc[p].on
           c == proc[p].claim
           read == proc[p].read
           change == SeatChanges(c.winner, <<read[Player[m][1]], read[Player[m][2]]>>)
           amounts == Recorded(m, c.winner, change)
           row == Settled(match[m], c, Ranked(m), amounts)
<1>1. p \in Procs /\ p \notin Workers
  BY Kinds, ProcsAssumption DEF Procs
<1>2. /\ proc[p].at = "inside" /\ proc[p].todo = <<>> /\ Become(p, Idle)
      /\ match' = [match EXCEPT ![m] = row]
      /\ paid' = IF Ranked(m)
                 THEN [paid EXCEPT ![m] = <<@[1] + amounts[1], @[2] + amounts[2]>>] ELSE paid
      /\ UNCHANGED <<taken, reversals>>
  BY DEF CommitSettle
<1>3. rating' = AfterWrites(m, c, Ranked(m), read, change)
  BY DEF CommitSettle
<1>4. proc[p] \in ProcState /\ StateOK(p, proc[p])
  BY <1>1 DEF IInv, Types, ProcInv
<1>5. m \in Matches /\ c \in Claim /\ read \in Readings /\ c.winner \in Seat
  BY <1>1, <1>2, <1>4 DEF StateOK, ProcState, Claim
<1>6. Ranked(m) => Players(m) \subseteq DOMAIN read
  BY <1>1, <1>2, <1>4 DEF StateOK, Locked, Elems
<1>7. Ranked(m) => /\ read[Player[m][1]] \in Nat /\ read[Player[m][2]] \in Nat
  BY <1>5, <1>6 DEF Readings, Players
<1>8. Ranked(m) => /\ change \in Int \X Int
                   /\ \A s \in Seat : change[s] > 0 <=> s = c.winner
                   /\ read[Player[m][1]] + change[1] \in Nat
                   /\ read[Player[m][2]] + change[2] \in Nat
  <2>1. CASE Ranked(m)
    <3> DEFINE a == read[Player[m][1]]
               b == read[Player[m][2]]
    <3>1. a \in Nat /\ b \in Nat /\ change = SeatChanges(c.winner, <<a, b>>)
      BY <1>7, <2>1
    <3> HIDE DEF a, b, change
    <3>2. /\ change \in Int \X Int /\ \A s \in Seat : change[s] > 0 <=> s = c.winner
          /\ a + change[1] \in Nat /\ b + change[2] \in Nat
      BY <1>5, <3>1, SeatChangesRange
    <3>3. QED
      BY <3>2 DEF a, b
  <2>2. QED
    BY <2>1
<1> HIDE DEF change
<1>9. match \in [Matches -> MatchRow] /\ Ranked(m) \in BOOLEAN
      /\ rating \in [Users -> RatingRow] /\ reversals \in [Matches -> {0, 1}]
  BY DEF IInv, Types, Ranked
<1>10. /\ row.change = (IF Ranked(m) THEN amounts ELSE match[m].change)
       /\ Ranked(m) => /\ amounts \in Int \X Int
                       /\ TwoAccounts(m) => amounts = change
  <2>1. Ranked(m) => /\ amounts \in Int \X Int
                     /\ TwoAccounts(m) => amounts = change
    BY <1>5, <1>8, RecordedRange
  <2> HIDE DEF amounts
  <2>2. QED
    BY <1>5, <1>9, <2>1, SettledRow
<1> HIDE DEF row, amounts
<1>11. match'[m] = row /\ \A n \in Matches : n # m => match'[n] = match[n]
  BY <1>2, <1>5, <1>9
<1>12. \A u \in Users : u \in Players(m) => SeatOf(m, u) \in Seat
  BY <1>5, PlayersOf
<1>13. /\ \A u \in Users : u \notin Players(m) => rating'[u] = rating[u]
       /\ ~ Ranked(m) => \A u \in Users : /\ rating'[u].lp = rating[u].lp
                                          /\ rating'[u].wins = rating[u].wins
                                          /\ rating'[u].matches = rating[u].matches
       /\ Ranked(m) /\ TwoAccounts(m) => \A u \in Users : u \in Players(m) =>
            /\ rating'[u].lp = read[u] + change[SeatOf(m, u)]
            /\ rating'[u].matches = rating[u].matches + 1
            /\ rating'[u].wins = rating[u].wins
                 + (IF SeatOf(m, u) = c.winner THEN 1 ELSE 0)
  <2>1. Ranked(m) => \A s \in Seat : read[Player[m][s]] + change[s] \in Nat
    BY <1>8 DEF Seat
  <2>2. /\ \A u \in Users : u \notin Players(m) => rating'[u] = rating[u]
        /\ ~ Ranked(m) => \A u \in Users : /\ rating'[u].lp = rating[u].lp
                                           /\ rating'[u].wins = rating[u].wins
                                           /\ rating'[u].matches = rating[u].matches
        /\ TwoAccounts(m) => \A u \in Players(m) :
             rating'[u] = AfterSettle(rating[u], SeatOf(m, u), c, Ranked(m),
                                      read[u] + change[SeatOf(m, u)])
    BY <1>3, <1>5, <1>9, <2>1, WritesRange
  <2>3. ASSUME Ranked(m), TwoAccounts(m), NEW u \in Users, u \in Players(m)
        PROVE  /\ rating'[u].lp = read[u] + change[SeatOf(m, u)]
               /\ rating'[u].matches = rating[u].matches + 1
               /\ rating'[u].wins = rating[u].wins
                    + (IF SeatOf(m, u) = c.winner THEN 1 ELSE 0)
    <3> DEFINE points == read[u] + change[SeatOf(m, u)]
    <3>1. rating'[u] = AfterSettle(rating[u], SeatOf(m, u), c, Ranked(m), points)
      BY <2>2, <2>3
    <3> HIDE DEF points
    <3>2. /\ rating'[u].lp = points /\ rating'[u].matches = rating[u].matches + 1
          /\ rating'[u].wins = rating[u].wins
               + (IF SeatOf(m, u) = c.winner THEN 1 ELSE 0)
      BY <2>3, <3>1 DEF AfterSettle
    <3>3. QED
      BY <3>2 DEF points
  <2>4. QED
    BY <2>2, <2>3
<1>14. ASSUME NEW u \in Users, ~ PlaysItself(u), u \in Players(m), Ranked(m)
       PROVE  /\ TwoAccounts(m) /\ amounts = change
              /\ rating'[u].lp = read[u] + change[SeatOf(m, u)]
              /\ rating'[u].matches = rating[u].matches + 1
              /\ rating'[u].wins = rating[u].wins
                   + (IF SeatOf(m, u) = c.winner THEN 1 ELSE 0)
  BY <1>5, <1>10, <1>13, <1>14, OpponentOf
<1>15. \A u \in Users : rating[u].lp \in Nat /\ rating[u].wins \in Nat /\ rating[u].matches \in Nat
  BY <1>9 DEF RatingRow
<1>16. ReadInv'
  <2>1. DOMAIN Idle.read = {} /\ Idle.at = "idle"
    BY NothingYet
  <2>2. ASSUME NEW q \in Procs, q # p, NEW u \in DOMAIN proc[q].read
        PROVE  rating'[u].lp = rating[u].lp
    <3>1. u \in Users
      BY Fields DEF IInv, Readings
    <3>2. CASE u \in Players(m) /\ Ranked(m)
      BY <1>1, <1>6, <2>2, <3>1, <3>2 DEF Ledger, ReadInv
    <3>3. CASE u \in Players(m) /\ ~ Ranked(m)
      BY <1>13, <3>1, <3>3
    <3>4. CASE u \notin Players(m)
      BY <1>13, <3>1, <3>4
    <3>5. QED
      BY <3>2, <3>3, <3>4
  <2>3. QED
    BY <1>1, <1>2, <2>1, <2>2, ReadMove DEF IInv, Ledger
<1>17. CASE ~ Ranked(m)
  <2>1. \A n \in Matches : match'[n].change = match[n].change
    BY <1>10, <1>11, <1>17
  <2>2. \A u \in Users : /\ rating'[u].lp = rating[u].lp
                         /\ rating'[u].wins = rating[u].wins
                         /\ rating'[u].matches = rating[u].matches
    BY <1>13, <1>17
  <2>3. UNCHANGED <<paid, taken, reversals>>
    BY <1>2, <1>17
  <2>4. QED
    BY <1>16, <2>1, <2>2, <2>3, QuietLedger DEF Ledger
<1>18. CASE Ranked(m)
  <2>1. CountsInv'
    <3>1. ASSUME NEW u \in Users, ~ PlaysItself(u)
          PROVE  /\ rating'[u].wins >= Cardinality(Won(u)')
                 /\ rating'[u].matches - rating'[u].wins >= Cardinality(Lost(u)')
      <4>1. /\ Won(u)' \subseteq Won(u) \cup {m} /\ Lost(u)' \subseteq Lost(u) \cup {m}
            /\ u \notin Players(m) => Won(u)' \subseteq Won(u) /\ Lost(u)' \subseteq Lost(u)
        BY <1>2, <1>11 DEF Won, Lost, Outstanding
      <4>2. u \in Players(m) /\ SeatOf(m, u) = c.winner => Lost(u)' \subseteq Lost(u)
        <5>1. SUFFICES ASSUME u \in Players(m), SeatOf(m, u) = c.winner PROVE m \notin Lost(u)'
          BY <4>1
        <5>2. WonAs(SeatOf(m, u), match'[m].change)
          <6>1. match'[m].change = change /\ SeatOf(m, u) = c.winner
            BY <1>10, <1>11, <1>14, <1>18, <3>1, <5>1
          <6>2. QED
            BY <1>5, <1>8, <1>18, <6>1 DEF WonAs, Seat
        <5>3. QED
          BY <5>2 DEF Lost
      <4>3. u \in Players(m) /\ SeatOf(m, u) # c.winner => Won(u)' \subseteq Won(u)
        <5>1. SUFFICES ASSUME u \in Players(m), SeatOf(m, u) # c.winner PROVE m \notin Won(u)'
          BY <4>1
        <5>2. ~ WonAs(SeatOf(m, u), match'[m].change)
          <6>1. match'[m].change = change /\ SeatOf(m, u) # c.winner /\ SeatOf(m, u) \in Seat
            BY <1>10, <1>11, <1>12, <1>14, <1>18, <3>1, <5>1
          <6>2. QED
            BY <1>5, <1>8, <1>18, <6>1 DEF WonAs, Seat
        <5>3. QED
          BY <5>2 DEF Won
      <4> DEFINE W == Won(u)
                 L == Lost(u)
                 WW == Won(u)'
                 LL == Lost(u)'
      <4>4. /\ IsFiniteSet(W) /\ Cardinality(W) \in Nat
            /\ IsFiniteSet(L) /\ Cardinality(L) \in Nat
        BY CountSets
      <4> HIDE DEF W, L, WW, LL
      <4>5. /\ WW \subseteq W \cup {m} => Cardinality(WW) <= Cardinality(W) + 1
            /\ WW \subseteq W => Cardinality(WW) <= Cardinality(W)
            /\ Cardinality(WW) \in Nat
        BY <4>1, <4>4, AtMostOneMore DEF W, WW
      <4>6. /\ LL \subseteq L \cup {m} => Cardinality(LL) <= Cardinality(L) + 1
            /\ LL \subseteq L => Cardinality(LL) <= Cardinality(L)
            /\ Cardinality(LL) \in Nat
        BY <4>1, <4>4, AtMostOneMore DEF L, LL
      <4>7. rating[u].wins >= Cardinality(W) /\ rating[u].matches - rating[u].wins >= Cardinality(L)
        BY <3>1 DEF Ledger, CountsInv, W, L
      <4>8. /\ WW \subseteq W \cup {m} /\ LL \subseteq L \cup {m}
            /\ u \notin Players(m) => WW \subseteq W /\ LL \subseteq L
            /\ u \in Players(m) /\ SeatOf(m, u) = c.winner => LL \subseteq L
            /\ u \in Players(m) /\ SeatOf(m, u) # c.winner => WW \subseteq W
        BY <4>1, <4>2, <4>3 DEF W, L, WW, LL
      <4>9. rating'[u].wins >= Cardinality(WW)
            /\ rating'[u].matches - rating'[u].wins >= Cardinality(LL)
        <5>1. CASE u \notin Players(m)
          BY <1>13, <1>15, <4>4, <4>5, <4>6, <4>7, <4>8, <5>1
        <5>2. CASE u \in Players(m) /\ SeatOf(m, u) = c.winner
          BY <1>14, <1>15, <1>18, <3>1, <4>4, <4>5, <4>6, <4>7, <4>8, <5>2
        <5>3. CASE u \in Players(m) /\ SeatOf(m, u) # c.winner
          BY <1>14, <1>15, <1>18, <3>1, <4>4, <4>5, <4>6, <4>7, <4>8, <5>3
        <5>4. QED
          BY <5>1, <5>2, <5>3
      <4>10. QED
        BY <4>9 DEF WW, LL
    <3>2. QED
      BY <3>1 DEF CountsInv
  <2>2. paid \in [Matches -> Int \X Int] /\ taken \in [Matches -> Int \X Int]
    BY DEF Ledger, HistoryTypes
  <2>3. /\ paid'[m] = <<paid[m][1] + amounts[1], paid[m][2] + amounts[2]>>
        /\ \A n \in Matches : n # m => paid'[n] = paid[n]
        /\ paid' \in [Matches -> Int \X Int]
    BY <1>2, <1>5, <1>10, <1>18, <2>2
  <2>4. ASSUME NEW u \in Users, ~ PlaysItself(u), u \in Players(m)
        PROVE  rating'[u].lp = rating[u].lp + amounts[SeatOf(m, u)]
    BY <1>1, <1>6, <1>14, <1>18, <2>4 DEF Ledger, ReadInv
  <2>5. LadderBalances'
    <3> DEFINE d == [s \in Seat |-> amounts[s]]
    <3>1. d \in [Seat -> Int]
      BY <1>10, <1>18 DEF Seat
    <3>2. HistoryTypes /\ HistoryTypes' /\ LadderBalances
      BY <1>2, <2>2, <2>3 DEF HistoryTypes, Ledger
    <3>3. \A n \in Matches : n # m => paid'[n] = paid[n] /\ taken'[n] = taken[n]
      BY <1>2, <2>3
    <3>4. \A s \in Seat : paid'[m][s] - taken'[m][s] = (paid[m][s] - taken[m][s]) + d[s]
      <4>1. /\ amounts[1] \in Int /\ amounts[2] \in Int /\ d[1] = amounts[1] /\ d[2] = amounts[2]
            /\ paid[m][1] \in Int /\ paid[m][2] \in Int
            /\ taken[m][1] \in Int /\ taken[m][2] \in Int
        BY <1>5, <1>10, <1>18, <2>2 DEF Seat
      <4>2. /\ paid'[m][1] = paid[m][1] + amounts[1] /\ paid'[m][2] = paid[m][2] + amounts[2]
            /\ taken'[m] = taken[m]
        BY <1>2, <2>3
      <4> HIDE DEF d
      <4>3. QED
        BY <4>1, <4>2 DEF Seat
    <3>5. \A u \in Users : ~ PlaysItself(u) =>
            rating'[u].lp = IF u \in Players(m) THEN rating[u].lp + d[SeatOf(m, u)]
                            ELSE rating[u].lp
      BY <1>12, <1>13, <2>4
    <3> HIDE DEF d
    <3>6. \A u \in Users : rating[u].lp \in Int
      BY <1>15
    <3>7. QED
      BY <1>5, <3>1, <3>2, <3>3, <3>4, <3>5, <3>6, Payment
  <2>6. QED
    BY <1>2, <1>16, <2>1, <2>2, <2>3, <2>5 DEF Ledger, HistoryTypes
<1>19. QED
  BY <1>17, <1>18


\* A reversal takes off what was counted and paid, or all there is.
LEMMA ReversalCounts ==
  ASSUME IInv, Ledger, NEW w \in Workers, CommitMismatch(w)
  PROVE  Ledger'
<1> DEFINE m == proc[w].on
           read == proc[w].read
           change == match[m].change
           row == [match[m] EXCEPT !.verified = "mismatch"]
           back == [s \in Seat |-> Min({change[s], read[Player[m][s]]})]
<1>1. /\ proc[w].at = "inside" /\ proc[w].todo = <<>> /\ Become(w, Idle)
      /\ match' = [match EXCEPT ![m] = row]
      /\ reversals' = [reversals EXCEPT ![m] = @ + 1]
      /\ taken' = [taken EXCEPT ![m] = <<@[1] + back[1], @[2] + back[2]>>]
      /\ ~ Replays(match[m], proc[w].claim.log)
      /\ UNCHANGED paid
  BY DEF CommitMismatch
<1>2. rating' = AfterReversals(m, read)
  BY DEF CommitMismatch
<1>3. /\ w \in Procs /\ m \in Matches /\ change # Unpaid
      /\ reversals[m] = 0 /\ Locked(proc[w])
  BY <1>1, WorkerInside
<1>4. /\ match \in [Matches -> MatchRow] /\ rating \in [Users -> RatingRow]
      /\ reversals \in [Matches -> {0, 1}] /\ read \in Readings
  BY <1>3, Fields DEF IInv, Types
<1>5. row.change = change
  BY <1>3, <1>4 DEF MatchRow
<1>6. change \in Int \X Int /\ change[1] \in Int /\ change[2] \in Int
  BY <1>3, <1>4 DEF MatchRow
<1> HIDE DEF row
<1>7. /\ match'[m].change = change /\ reversals'[m] = 1
      /\ \A n \in Matches : n # m => match'[n] = match[n] /\ reversals'[n] = reversals[n]
  <2>1. match'[m] = row /\ \A n \in Matches : n # m => match'[n] = match[n]
    <3>1. match' = [match EXCEPT ![m] = row]
      BY <1>1
    <3>2. m \in Matches /\ match \in [Matches -> MatchRow]
      BY <1>3, <1>4
    <3> HIDE DEF m
    <3>3. QED
      BY <3>1, <3>2
  <2>2. reversals'[m] = 1 /\ \A n \in Matches : n # m => reversals'[n] = reversals[n]
    <3>1. reversals' = [reversals EXCEPT ![m] = reversals[m] + 1]
      BY <1>1
    <3>2. m \in Matches /\ reversals[m] = 0 /\ reversals \in [Matches -> {0, 1}]
      BY <1>3, <1>4
    <3> HIDE DEF m
    <3>3. QED
      BY <3>1, <3>2
  <2>3. QED
    BY <1>5, <2>1, <2>2, Zenon
<1>8. \A u \in Users : /\ rating[u].lp \in Nat /\ rating[u].wins \in Nat
                       /\ rating[u].matches \in Nat
  BY <1>4 DEF RatingRow
<1>9. ASSUME NEW u \in Players(m)
      PROVE  /\ u \in Users /\ SeatOf(m, u) \in Seat /\ Player[m][SeatOf(m, u)] = u
             /\ u \in DOMAIN read /\ read[u] = rating[u].lp
  <2>1. u \in Users /\ SeatOf(m, u) \in Seat /\ Player[m][SeatOf(m, u)] = u
    BY <1>3, PlayersOf DEF Players
  <2>2. u \in DOMAIN read
    BY <1>1, <1>3 DEF Locked, Elems
  <2>3. QED
    BY <1>3, <2>1, <2>2 DEF Ledger, ReadInv
<1>10. /\ \A u \in Users : u \notin Players(m) => rating'[u] = rating[u]
       /\ TwoAccounts(m) => \A u \in Players(m) :
            rating'[u] = AfterReversal(m, SeatOf(m, u), rating[u], read[u])
  <2>1. \A u \in Players(m) : read[u] \in Nat
    BY <1>8, <1>9
  <2>2. read[Player[m][1]] \in Nat /\ read[Player[m][2]] \in Nat
    BY <2>1 DEF Players
  <2>3. QED
    BY <1>2, <1>3, <1>4, <1>6, <2>2, ReversalsRange
<1>11. ASSUME NEW u \in Users, ~ PlaysItself(u), u \in Players(m)
       PROVE  /\ rating'[u].lp = Max({read[u] - change[SeatOf(m, u)], 0})
              /\ rating'[u].matches = Max({rating[u].matches - 1, 0})
              /\ rating'[u].wins =
                   Max({rating[u].wins - (IF WonAs(SeatOf(m, u), change) THEN 1 ELSE 0), 0})
  <2> DEFINE s == SeatOf(m, u)
  <2>1. TwoAccounts(m) /\ s \in Seat /\ Player[m][s] = u
    BY <1>3, <1>9, <1>11, OpponentOf
  <2>2. Player[m][s] = Player[m][1] <=> s = 1
    BY <2>1 DEF TwoAccounts, Seat
  <2>3. rating'[u] = AfterReversal(m, s, rating[u], read[u]) /\ rating[u] \in RatingRow
    BY <1>4, <1>10, <1>11, <2>1
  <2> HIDE DEF s
  <2>4. /\ rating'[u].lp = Max({read[u] - change[s], 0})
        /\ rating'[u].matches = Max({rating[u].matches - 1, 0})
        /\ rating'[u].wins = Max({rating[u].wins - (IF WonAs(s, change) THEN 1 ELSE 0), 0})
    BY <2>2, <2>3 DEF AfterReversal, WonAs, RatingRow
  <2>5. QED
    BY <2>4 DEF s
<1> HIDE DEF change, read
<1>12. ReadInv'
  <2>1. DOMAIN Idle.read = {} /\ Idle.at = "idle"
    BY NothingYet
  <2>2. ASSUME NEW q \in Procs, q # w, NEW u \in DOMAIN proc[q].read
        PROVE  rating'[u].lp = rating[u].lp
    <3>1. u \in Users
      BY Fields DEF IInv, Readings
    <3>2. u \notin Players(m)
      BY <1>3, <1>9, <2>2, <3>1 DEF Ledger, ReadInv, read
    <3>3. QED
      BY <1>10, <3>1, <3>2
  <2>3. QED
    BY <1>1, <1>3, <2>1, <2>2, ReadMove DEF IInv, Ledger
<1>13. CountsInv'
  <2>1. ASSUME NEW u \in Users, ~ PlaysItself(u)
        PROVE  /\ rating'[u].wins >= Cardinality(Won(u)')
               /\ rating'[u].matches - rating'[u].wins >= Cardinality(Lost(u)')
    <3>1. Won(u)' = Won(u) \ {m} /\ Lost(u)' = Lost(u) \ {m}
      BY <1>7 DEF Won, Lost, Outstanding
    <3>2. /\ IsFiniteSet(Won(u)) /\ Cardinality(Won(u)) \in Nat
          /\ IsFiniteSet(Lost(u)) /\ Cardinality(Lost(u)) \in Nat
      BY CountSets
    <3>3. /\ Cardinality(Won(u)') =
               IF m \in Won(u) THEN Cardinality(Won(u)) - 1 ELSE Cardinality(Won(u))
          /\ Cardinality(Lost(u)') =
               IF m \in Lost(u) THEN Cardinality(Lost(u)) - 1 ELSE Cardinality(Lost(u))
      BY <3>1, <3>2, FS_RemoveElement
    <3>4. /\ rating[u].wins >= Cardinality(Won(u))
          /\ rating[u].matches - rating[u].wins >= Cardinality(Lost(u))
      BY <2>1 DEF Ledger, CountsInv
    <3>5. Cardinality(Won(u)') \in Nat /\ Cardinality(Lost(u)') \in Nat
      <4>1. Won(u)' \subseteq Won(u) \cup {m} /\ Lost(u)' \subseteq Lost(u) \cup {m}
        BY <3>1
      <4>2. QED
        <5> DEFINE W == Won(u)
                   L == Lost(u)
                   WW == Won(u)'
                   LL == Lost(u)'
        <5>1. /\ IsFiniteSet(W) /\ IsFiniteSet(L)
              /\ WW \subseteq W \cup {m} /\ LL \subseteq L \cup {m}
          BY <3>2, <4>1
        <5> HIDE DEF W, L, WW, LL
        <5>2. Cardinality(WW) \in Nat /\ Cardinality(LL) \in Nat
          BY <5>1, AtMostOneMore
        <5>3. QED
          BY <5>2 DEF WW, LL
    <3>6. CASE u \notin Players(m)
      BY <1>8, <1>10, <3>2, <3>3, <3>4, <3>6 DEF Won, Lost
    <3>7. CASE u \in Players(m) /\ WonAs(SeatOf(m, u), change)
      <4>1. m \in Won(u) /\ m \notin Lost(u)
        BY <1>3, <3>7 DEF Won, Lost, Outstanding, change
      <4>2. rating[u].wins >= 1 /\ rating[u].matches >= 1
        BY <1>8, <3>2, <3>3, <3>4, <3>5, <4>1
      <4>3. rating'[u].wins = rating[u].wins - 1 /\ rating'[u].matches = rating[u].matches - 1
        <5>1. /\ rating'[u].wins = Max({rating[u].wins - 1, 0})
              /\ rating'[u].matches = Max({rating[u].matches - 1, 0})
          BY <1>11, <2>1, <3>7
        <5>2. rating[u].wins - 1 \in Int /\ rating[u].matches - 1 \in Int
          BY <1>8
        <5>3. \A x \in Int : x >= 0 => Max({x, 0}) = x
          BY PairMax
        <5>4. rating[u].wins - 1 >= 0 /\ rating[u].matches - 1 >= 0
          BY <1>8, <4>2
        <5>5. QED
          BY <5>1, <5>2, <5>3, <5>4
      <4>4. QED
        BY <1>8, <3>2, <3>3, <3>4, <4>1, <4>3
    <3>8. CASE u \in Players(m) /\ ~ WonAs(SeatOf(m, u), change)
      <4>1. m \notin Won(u) /\ m \in Lost(u)
        BY <1>3, <3>8 DEF Won, Lost, Outstanding, change
      <4>2. rating[u].matches >= 1
        BY <1>8, <3>2, <3>3, <3>4, <3>5, <4>1
      <4>3. rating'[u].wins = rating[u].wins /\ rating'[u].matches = rating[u].matches - 1
        <5>1. /\ rating'[u].wins = Max({rating[u].wins - 0, 0})
              /\ rating'[u].matches = Max({rating[u].matches - 1, 0})
          BY <1>11, <2>1, <3>8
        <5>2. rating[u].wins - 0 \in Int /\ rating[u].matches - 1 \in Int
          BY <1>8
        <5>3. QED
          BY <1>8, <4>2, <5>1, <5>2, PairMax
      <4>4. QED
        BY <1>8, <3>2, <3>3, <3>4, <4>1, <4>3
    <3>9. QED
      BY <3>6, <3>7, <3>8
  <2>2. QED
    BY <2>1 DEF CountsInv
<1>14. paid \in [Matches -> Int \X Int] /\ taken \in [Matches -> Int \X Int]
  BY DEF Ledger, HistoryTypes
<1>15. \A s \in Seat : Player[m][s] \in Players(m) /\ change[s] \in Int
  BY <1>6 DEF Seat, Players
<1>16. \A s \in Seat : /\ read[Player[m][s]] \in Nat
                       /\ back[s] \in Int
                       /\ Max({read[Player[m][s]] - change[s], 0}) = read[Player[m][s]] - back[s]
  <2>1. ASSUME NEW s \in Seat
        PROVE  /\ read[Player[m][s]] \in Nat
               /\ back[s] \in Int
               /\ Max({read[Player[m][s]] - change[s], 0}) = read[Player[m][s]] - back[s]
    <3> DEFINE r == read[Player[m][s]]
               c == change[s]
    <3>1. r \in Nat /\ c \in Int
      BY <1>8, <1>9, <1>15
    <3>2. back[s] = Min({c, r})
      OBVIOUS
    <3> HIDE DEF r, c, back
    <3>3. Min({c, r}) = (IF c <= r THEN c ELSE r)
          /\ Max({r - c, 0}) = (IF r - c <= 0 THEN 0 ELSE r - c)
      BY <3>1, PairMin, PairMax
    <3>4. back[s] \in Int /\ Max({r - c, 0}) = r - back[s]
      BY <3>1, <3>2, <3>3
    <3>5. QED
      BY <3>1, <3>4 DEF r, c
  <2>2. QED
    BY <2>1
<1> HIDE DEF back
<1>17. /\ taken'[m] = <<taken[m][1] + back[1], taken[m][2] + back[2]>>
       /\ \A n \in Matches : n # m => taken'[n] = taken[n]
       /\ taken' \in [Matches -> Int \X Int]
  <2>1. back[1] \in Int /\ back[2] \in Int
    BY <1>16 DEF Seat
  <2>2. taken[m][1] \in Int /\ taken[m][2] \in Int
    BY <1>3, <1>14
  <2>3. <<taken[m][1] + back[1], taken[m][2] + back[2]>> \in Int \X Int
    BY <2>1, <2>2
  <2>4. QED
    BY <1>1, <1>3, <1>14, <2>3
<1>18. HistoryTypes'
  BY <1>1, <1>14, <1>17 DEF HistoryTypes
<1>19. LadderBalances'
  <2> DEFINE d == [s \in Seat |-> -back[s]]
  <2>1. d \in [Seat -> Int]
    <3>1. \A s \in Seat : back[s] \in Int
      BY <1>16
    <3>2. QED
      BY <3>1
  <2>2. \A n \in Matches : n # m => paid'[n] = paid[n] /\ taken'[n] = taken[n]
    BY <1>1, <1>17
  <2>3. \A s \in Seat : paid'[m][s] - taken'[m][s] = (paid[m][s] - taken[m][s]) + d[s]
    <3>1. /\ back[1] \in Int /\ back[2] \in Int /\ d[1] = -back[1] /\ d[2] = -back[2]
          /\ paid[m][1] \in Int /\ paid[m][2] \in Int
          /\ taken[m][1] \in Int /\ taken[m][2] \in Int
      <4>1. back[1] \in Int /\ back[2] \in Int
        BY <1>16 DEF Seat
      <4>2. QED
        BY <1>3, <1>14, <4>1 DEF Seat
    <3>2. /\ taken'[m][1] = taken[m][1] + back[1] /\ taken'[m][2] = taken[m][2] + back[2]
          /\ paid'[m] = paid[m]
      BY <1>1, <1>17
    <3> HIDE DEF d
    <3>3. QED
      BY <3>1, <3>2 DEF Seat
  <2>4. \A u \in Users : ~ PlaysItself(u) =>
          rating'[u].lp = IF u \in Players(m) THEN rating[u].lp + d[SeatOf(m, u)]
                          ELSE rating[u].lp
    <3>1. ASSUME NEW u \in Users, ~ PlaysItself(u), u \in Players(m)
          PROVE  rating'[u].lp = rating[u].lp + d[SeatOf(m, u)]
      <4> DEFINE s == SeatOf(m, u)
      <4>1. s \in Seat /\ Player[m][s] = u /\ read[u] = rating[u].lp
        BY <1>9, <3>1
      <4>2. rating'[u].lp = Max({read[u] - change[s], 0})
        BY <1>11, <3>1
      <4>3. Max({read[u] - change[s], 0}) = read[u] - back[s] /\ back[s] \in Int
        BY <1>16, <4>1
      <4>4. d[s] = -back[s]
        BY <4>1
      <4>5. rating[u].lp \in Int
        BY <1>8
      <4> HIDE DEF s, d
      <4>6. rating'[u].lp = rating[u].lp + d[s]
        BY <4>1, <4>2, <4>3, <4>4, <4>5
      <4>7. QED
        BY <4>6 DEF s
    <3>2. QED
      BY <1>10, <3>1
  <2> HIDE DEF d
  <2>5. \A u \in Users : rating[u].lp \in Int
    BY <1>8
  <2>6. QED
    BY <1>3, <1>18, <2>1, <2>2, <2>3, <2>4, <2>5, Payment DEF Ledger
<1>20. QED
  BY <1>12, <1>13, <1>18, <1>19 DEF Ledger

\* Every step keeps the ledger.
LEMMA LedgerKeeps == IInv /\ Ledger /\ [Next]_vars => Ledger'
<1> SUFFICES ASSUME IInv, Ledger, [Next]_vars PROVE Ledger'
  OBVIOUS
<1> DEFINE Quiet == /\ UNCHANGED <<rating, paid, taken, reversals>>
                    /\ \A m \in Matches : match'[m].change = match[m].change
<1>1. ASSUME Quiet, ReadInv' PROVE Ledger'
  BY <1>1, QuietLedger DEF Ledger
<1>2. \A p \in Procs : /\ proc[p] \in ProcState
                       /\ proc[p].at # "inside" => DOMAIN proc[p].read = {}
  BY DEF IInv, Types, Ledger, ReadInv
<1>3. ASSUME NEW p \in Procs, NEW s, Become(p, s), DOMAIN s.read = {}, Quiet PROVE Ledger'
  BY <1>1, <1>3, ReadNothing DEF IInv, Ledger
<1>4. ASSUME NEW p \in Procs, Become(p, Idle), Quiet PROVE Ledger'
  BY <1>3, <1>4, NothingYet
<1> HIDE DEF Quiet
<1>5. CASE UNCHANGED vars
  <2>1. Quiet
    BY <1>5 DEF vars, Quiet
  <2>2. ReadInv'
    BY <1>5 DEF vars, Ledger, ReadInv
  <2>3. QED
    BY <1>1, <2>1, <2>2
<1>6. ASSUME NEW m \in Matches, NEW s \in Seat, NEW claim \in Claims, Submit(m, s, claim)
      PROVE  Ledger'
  <2> DEFINE st == [Idle EXCEPT !.at = "accepted", !.on = m, !.claim = claim]
  <2>1. Become(<<m, s>>, st) /\ Quiet
    BY <1>6 DEF Submit, Quiet, history
  <2>2. DOMAIN st.read = {}
    BY NothingYet DEF ProcState
  <2> HIDE DEF st
  <2>3. QED
    BY <1>3, <2>1, <2>2, Kinds
<1>7. ASSUME NEW m \in Matches, NEW s \in Seat, RecordUpload(m, s) PROVE Ledger'
  <2> DEFINE p == <<m, s>>
             st == [proc[p] EXCEPT !.at = "recorded"]
  <2>1. Quiet /\ p \in Procs
    BY <1>7, Kinds DEF RecordUpload, Quiet, history
  <2>2. DOMAIN st.read = {}
    BY <1>2, <1>7, <2>1 DEF RecordUpload, ProcState
  <2>3. Become(p, Idle) \/ Become(p, st)
    BY <1>7 DEF RecordUpload
  <2> HIDE DEF st, p
  <2>4. QED
    BY <1>3, <1>4, <2>1, <2>2, <2>3
<1>8. ASSUME NEW m \in Matches, NEW s \in Seat, CompareUploads(m, s) PROVE Ledger'
  <2> DEFINE p == <<m, s>>
             next == IF Agree(proc[p].claim, uploads[m][Other(s)]) THEN "settling" ELSE "voiding"
             st == [proc[p] EXCEPT !.at = next]
  <2>1. Quiet /\ p \in Procs
    BY <1>8, Kinds DEF CompareUploads, Quiet, history
  <2>2. DOMAIN st.read = {}
    BY <1>2, <1>8, <2>1 DEF CompareUploads, ProcState
  <2>3. Become(p, Idle) \/ Become(p, st)
    BY <1>8 DEF CompareUploads
  <2> HIDE DEF st, p
  <2>4. QED
    BY <1>3, <1>4, <2>1, <2>2, <2>3
<1>9. ASSUME NEW m \in Matches, NEW s \in Seat, Void(m, s) PROVE Ledger'
  <2>1. \A n \in Matches : match'[n].change = match[n].change
    BY <1>9 DEF Void, IInv, Types, MatchRow
  <2>2. Quiet /\ Become(<<m, s>>, Idle)
    BY <1>9, <2>1 DEF Void, Quiet, history
  <2>3. QED
    BY <1>4, <2>2, Kinds
<1>10. ASSUME NEW m \in Matches, NEW s \in Seat, BeginSettle(m, s) PROVE Ledger'
  <2> DEFINE p == <<m, s>>
             st == [proc[p] EXCEPT !.at = "inside", !.todo = LadderLocks(m, proc[p].claim)]
  <2>1. Quiet /\ p \in Procs /\ Become(p, st)
    BY <1>10, Kinds DEF BeginSettle, Quiet, history
  <2>2. DOMAIN st.read = {}
    BY <1>2, <1>10, <2>1 DEF BeginSettle, ProcState
  <2> HIDE DEF st, p
  <2>3. QED
    BY <1>3, <2>1, <2>2
<1>11. ASSUME NEW m \in Matches, SweepPick(m) PROVE Ledger'
  <2> DEFINE st == [Idle EXCEPT !.at = "picked", !.on = m]
  <2>1. Quiet /\ Become(Sweeper, st)
    BY <1>11 DEF SweepPick, Quiet, history
  <2>2. DOMAIN st.read = {}
    BY NothingYet DEF ProcState
  <2> HIDE DEF st
  <2>3. QED
    BY <1>3, <2>1, <2>2, Kinds
<1>12. CASE SweepLock
  <2> DEFINE m == proc[Sweeper].on
             claim(s) == [uploads[m][s] EXCEPT !.disconnect = TRUE]
             st(s) == [proc[Sweeper] EXCEPT !.at = "inside", !.claim = claim(s),
                                            !.todo = LadderLocks(m, claim(s))]
  <2>1. Quiet /\ Sweeper \in Procs
    BY <1>12, Kinds DEF SweepLock, Quiet, history
  <2>2. \A s : DOMAIN st(s).read = {}
    BY <1>2, <1>12, <2>1 DEF SweepLock, ProcState
  <2>3. Become(Sweeper, Idle) \/ \E s : Become(Sweeper, st(s))
    BY <1>12, Zenon DEF SweepLock
  <2> HIDE DEF st
  <2>4. QED
    BY <1>3, <1>4, <2>1, <2>2, <2>3
<1>13. ASSUME NEW p \in Requests \cup {Sweeper}, CommitSettle(p) PROVE Ledger'
  BY <1>13, SettleCounts
<1>14. ASSUME NEW w \in Workers, NEW m \in Matches, ClaimJob(w, m) PROVE Ledger'
  <2> DEFINE st == [Idle EXCEPT !.at = "claimed", !.on = m]
  <2>1. Quiet /\ Become(w, st)
    BY <1>14 DEF ClaimJob, Quiet, history
  <2>2. DOMAIN st.read = {}
    BY NothingYet DEF ProcState
  <2> HIDE DEF st
  <2>3. QED
    BY <1>3, <2>1, <2>2, Kinds
<1>15. ASSUME NEW w \in Workers, Judge(w) PROVE Ledger'
  <2> DEFINE m == proc[w].on
             locks == IF Replays(match[m], FirstUpload(m).log) \/ match[m].change = Unpaid
                      THEN <<>> ELSE Once(Player[m])
             st == [proc[w] EXCEPT !.at = "inside", !.claim = FirstUpload(m), !.todo = locks]
  <2>1. Quiet /\ w \in Procs /\ Become(w, st)
    BY <1>15, Kinds DEF Judge, Quiet, history
  <2> HIDE DEF locks
  <2>2. DOMAIN st.read = {}
    BY <1>2, <1>15, <2>1 DEF Judge, ProcState
  <2> HIDE DEF st
  <2>3. QED
    BY <1>3, <2>1, <2>2
<1>16. ASSUME NEW w \in Workers, CommitOk(w) PROVE Ledger'
  <2>1. \A n \in Matches : match'[n].change = match[n].change
    BY <1>16 DEF CommitOk, IInv, Types, MatchRow
  <2>2. Quiet /\ Become(w, Idle)
    BY <1>16, <2>1 DEF CommitOk, Quiet, history
  <2>3. QED
    BY <1>4, <2>2, Kinds
<1>17. ASSUME NEW w \in Workers, CommitMismatch(w) PROVE Ledger'
  BY <1>17, ReversalCounts
<1>18. ASSUME NEW p \in Procs, LockRating(p) PROVE Ledger'
  <2> DEFINE u == Head(proc[p].todo)
             st == [proc[p] EXCEPT !.todo = Tail(@), !.read = Put(@, u, rating[u].lp)]
  <2>1. /\ Quiet /\ Become(p, st) /\ proc[p].at = "inside" /\ proc[p].todo # <<>>
        /\ RatingFree(u) /\ UNCHANGED rating
    BY <1>18 DEF LockRating, Quiet, history
  <2>2. proc[p] \in ProcState /\ proc[p].todo \in Seq(Users) /\ proc[p].read \in Readings
    BY Fields DEF IInv
  <2>3. u \in Users /\ rating[u].lp \in Nat
    BY <2>1, <2>2, TailElems DEF IInv, Types, RatingRow
  <2>4. st.at = "inside" /\ st.read = Put(proc[p].read, u, rating[u].lp)
    BY <2>1, <2>2 DEF ProcState
  <2>5. DOMAIN st.read = DOMAIN proc[p].read \cup {u} /\ DOMAIN st.read \subseteq Users
    <3>1. DOMAIN proc[p].read \subseteq Users
      BY <2>2 DEF Readings
    <3> HIDE DEF st, u
    <3>2. DOMAIN st.read = DOMAIN proc[p].read \cup {u}
      BY <2>2, <2>3, <2>4, PutReading
    <3>3. QED
      BY <2>3, <3>1, <3>2
  <2>6. \A x \in DOMAIN st.read : /\ st.read[x] = rating'[x].lp
                                  /\ x \in DOMAIN proc[p].read \/ RatingFree(x)
    BY <2>1, <2>4, <2>5 DEF Put, Ledger, ReadInv
  <2> HIDE DEF st, u
  <2>7. ReadInv'
    BY <2>1, <2>4, <2>5, <2>6, ReadMove DEF IInv, Ledger
  <2>8. QED
    BY <1>1, <2>1, <2>7
<1>19. ASSUME NEW p \in Procs, Deadlocked(p) \/ Fail(p) PROVE Ledger'
  <2>1. Quiet /\ Become(p, Idle)
    BY <1>19 DEF Deadlocked, Fail, Quiet, history
  <2>2. QED
    BY <1>4, <2>1
<1>20. QED
  BY <1>5, <1>6, <1>7, <1>8, <1>9, <1>10, <1>11, <1>12, <1>13, <1>14, <1>15, <1>16, <1>17,
     <1>18, <1>19 DEF Next

\* At first there is nothing to count and nothing to add up.
LEMMA InitLedger == Init => Ledger
<1> SUFFICES ASSUME Init PROVE Ledger
  OBVIOUS
<1>1. \A p \in Procs : proc[p] = Idle
  BY DEF Init
<1>2. ReadInv
  BY <1>1, NothingYet DEF ReadInv
<1>3. CountsInv
  <2>1. ASSUME NEW u \in Users PROVE Won(u) = {} /\ Lost(u) = {}
    BY DEF Init, Won, Lost, Outstanding
  <2>2. \A u \in Users : rating[u].wins = 0 /\ rating[u].matches = 0
    BY DEF Init
  <2>3. QED
    BY <2>1, <2>2, FS_EmptySet DEF CountsInv
<1>4. HistoryTypes
  BY DEF Init, HistoryTypes
<1>5. LadderBalances
  <2> SUFFICES ASSUME NEW u \in Users PROVE rating[u].lp = StartLP[u] + PointsMoved(u)
    BY DEF LadderBalances
  <2> DEFINE f == [n \in Matches |-> IF u \in Players(n)
                                     THEN paid[n][SeatOf(n, u)] - taken[n][SeatOf(n, u)] ELSE 0]
  <2>1. PointsMoved(u) = SumFunctionOnSet(f, Matches)
    BY DEF PointsMoved, SumFunction, Players, SeatOf
  <2>2. \A n \in Matches : f[n] = 0
    <3>1. \A n \in Matches : paid[n] = <<0, 0>> /\ taken[n] = <<0, 0>>
      BY DEF Init
    <3>2. \A n \in Matches : SeatOf(n, u) \in {1, 2}
      BY DEF SeatOf
    <3>3. QED
      BY <3>1, <3>2
  <2> HIDE DEF f
  <2>3. SumFunctionOnSet(f, Matches) = 0
    BY <2>2, MatchesAssumption, SumZero
  <2>4. rating[u].lp = StartLP[u] /\ StartLP[u] \in Nat
    BY InputsAssumption DEF Init
  <2>5. QED
    BY <2>1, <2>3, <2>4
<1>6. QED
  BY <1>2, <1>3, <1>4, <1>5 DEF Ledger

\* Counts, locks and points agree, whatever settlements, reversals, failures
\* and deadlocks overlap (match.go:276, verify.go:354).
THEOREM LedgerInvariant == Spec => []Ledger
<1>1. Init => Ledger
  BY InitLedger
<1>2. IInv /\ Ledger /\ [Next]_vars => Ledger'
  BY LedgerKeeps
<1>3. QED
  BY <1>1, <1>2, Invariant, PTL DEF Spec

\* No rating change is lost: the points of an account that never met itself are
\* what it started with and everything it was paid and had taken back, whoever
\* else meets itself (match.go:276, verify.go:354).
THEOREM PointsBalance == Spec => []LadderBalances
<1>1. Ledger => LadderBalances
  BY DEF Ledger
<1>2. QED
  BY <1>1, LedgerInvariant, PTL

\* Nobody who never met themselves has won more matches than they played, in
\* whatever order their matches are settled, settled again and reversed
\* (verify.go:369).
THEOREM WinsWithinMatches == Spec => []CountsFit
<1>1. IInv /\ Ledger => CountsFit
  <2> SUFFICES ASSUME IInv, Ledger, NEW u \in Users, ~ PlaysItself(u)
               PROVE  rating[u].wins <= rating[u].matches
    BY DEF CountsFit
  <2>1. Cardinality(Lost(u)) \in Nat
    BY CountSets
  <2>2. rating[u].wins \in Nat /\ rating[u].matches \in Nat
    BY DEF IInv, Types, RatingRow
  <2>3. QED
    BY <2>1, <2>2 DEF Ledger, CountsInv
<1>2. QED
  BY <1>1, Invariant, LedgerInvariant, PTL

=============================================================================
