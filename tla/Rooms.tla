-------------------------------- MODULE Rooms --------------------------------
(***************************************************************************)
(* The meeting place of the server: rooms by code, the matchmaking queues, *)
(* the introduction of a pair and the relay (src/server/main.go,           *)
(* src/server/queue.go).  One handler per connection and the ticker of the *)
(* queues run concurrently; what each does under a mutex is one step, what *)
(* it does outside one is a step per write, send and close.                *)
(*                                                                         *)
(* A connection is its client, who connects once.  The row that introduce  *)
(* writes is the initial state of Settlement and is left out here; so are  *)
(* the contents of the relayed frames.                                     *)
(***************************************************************************)
EXTENDS Integers, Sequences

CONSTANTS
  Clients, Codes,
  Lp, Rtt,       \* [Clients -> Nat]: ladder points, round trip to the server
  Bands,         \* rows [after, ranked, casual, maxPing], by growing after
  Unlimited      \* larger than every gap and every sum of two round trips

ASSUME RoomsAssumption ==
  /\ Clients # {} /\ "ticker" \notin Clients
  /\ Codes \cap {"ranked", "casual"} = {}
  /\ Lp \in [Clients -> Nat] /\ Rtt \in [Clients -> Nat \ {0}] /\ Unlimited \in Nat
  /\ Bands \in Seq([after : Nat, ranked : Nat, casual : Nat, maxPing : Nat])
  /\ Len(Bands) > 0

Modes == {"ranked", "casual"}
Ticker == "ticker"
Threads == Clients \cup {Ticker}

VARIABLES
  conn,      \* [Clients -> "none", "open", "closed" by the client, "hungup" by the server]
  inbox,     \* [Clients -> Seq]: sent by the client and not read by its handler
  outbox,    \* [Clients -> Seq]: written to the client and not read by it
  place,     \* [Clients -> the code or the mode it asked for]
  rooms,     \* [Codes -> the set of the one client waiting, or {}]
  queue,     \* [Modes -> SUBSET Clients]
  ahead,     \* who stands before whom in the slice of a queue
  older,     \* whose joined time is earlier than whose
  age,       \* [Clients -> Nat]: how long since, up to the last band
  rtt,       \* [Clients -> Nat]: the measured round trip, 0 before that
  pc,        \* [Threads -> what it does next]
  work,      \* [Threads -> Seq(pairs)]: chosen, not introduced yet
  paired,    \* [Clients -> set]: the channel of one slot
  peer,      \* [Clients -> set]: what the relay loop resolved
  pairs,     \* every pair ever chosen (history)
  noise,     \* clients of whom a frame was dropped for want of a peer (history)
  late       \* clients whose handler had looked for a peer for the last time when
             \* it was handed one (history)

server == <<rooms, queue, ahead, older, age, rtt, pc, work, paired, peer, pairs, noise, late>>
sockets == <<conn, inbox, outbox>>

Pair == [host : Clients, guest : Clients]

RoomsInit ==
  /\ conn = [c \in Clients |-> "none"]
  /\ inbox = [c \in Clients |-> <<>>] /\ outbox = [c \in Clients |-> <<>>]
  /\ rooms = [r \in Codes |-> {}] /\ queue = [m \in Modes |-> {}]
  /\ ahead = {} /\ older = {}
  /\ age = [c \in Clients |-> 0] /\ rtt = [c \in Clients |-> 0]
  /\ pc = [t \in Threads |-> IF t = Ticker THEN "idle" ELSE "off"]
  /\ work = [t \in Threads |-> <<>>]
  /\ paired = [c \in Clients |-> {}] /\ peer = [c \in Clients |-> {}]
  /\ pairs = {} /\ noise = {} /\ late = {}

Goto(t, label) == pc' = [pc EXCEPT ![t] = label]

(***************************************************************************)
(* A write to a connection.  One that was hung up fails; one whose client  *)
(* has left, or no longer drains it, may still swallow the frame.          *)
(***************************************************************************)
Written(c, frame) ==
  \/ conn[c] = "open" /\ outbox' = [outbox EXCEPT ![c] = Append(@, frame)]
  \/ conn[c] = "closed" /\ UNCHANGED outbox

CanFail(c) == conn[c] # "open"

(***************************************************************************)
(* The rooms.                                                              *)
(***************************************************************************)
\* The first client waits under the code, the second frees it and introduces.
Join(c) ==
  LET r == place[c]
  IN  /\ pc[c] = "joining" /\ r \in Codes
      /\ \/ /\ rooms[r] = {}
            /\ rooms' = [rooms EXCEPT ![r] = {c}]
            /\ Goto(c, "relay") /\ UNCHANGED <<work, pairs>>
         \/ \E other \in rooms[r] :
              LET met == [host |-> other, guest |-> c]
              IN  /\ rooms' = [rooms EXCEPT ![r] = {}]
                  /\ work' = [work EXCEPT ![c] = <<met>>]
                  /\ pairs' = pairs \cup {met}
                  /\ Goto(c, "tellHost")
      /\ UNCHANGED <<queue, ahead, older, age, rtt, paired, peer, noise, late, sockets, place>>

\* What leaving a code does to it: it may hold somebody else by now.
AfterLeaveBlind(held, c) == {}   \* defective: frees the code whoever holds it

AfterLeave(held, c) == held \ {c}

(***************************************************************************)
(* The queues.                                                             *)
(***************************************************************************)
bandForShort(waited) ==   \* defective: the last row is never reached
  LET earned == {i \in 1 .. Len(Bands) - 1 : waited >= Bands[i].after}
  IN  Bands[CHOOSE i \in earned \cup {1} : \A j \in earned : j <= i]

\* The last row whose wait has been reached, the first one if none.
bandFor(waited) ==
  LET earned == {i \in DOMAIN Bands : waited >= Bands[i].after}
  IN  Bands[CHOOSE i \in earned \cup {1} : \A j \in earned : j <= i]

lpGap(a, b) == IF Lp[a] > Lp[b] THEN Lp[a] - Lp[b] ELSE Lp[b] - Lp[a]

\* The band of the longer wait; a round trip that is not measured passes.
acceptable(mode, a, b) ==
  LET band == bandFor(IF age[a] > age[b] THEN age[a] ELSE age[b])
      lp == IF mode = "ranked" THEN band.ranked ELSE band.casual
  IN  /\ lp = Unlimited \/ lpGap(a, b) <= lp
      /\ rtt[a] > 0 /\ rtt[b] > 0 => rtt[a] + rtt[b] <= band.maxPing

\* No opponent of a is closer, nor as close and earlier in the slice.
Closest(a, b, suits) ==
  \A d \in suits \ {b} :
    lpGap(a, b) < lpGap(a, d) \/ (lpGap(a, b) = lpGap(a, d) /\ <<b, d>> \in ahead)

\* The longest waiter and the acceptable opponent closest to it, if there is one.
bestPair(mode, q) ==
  {met \in [host : q, guest : q] :
     LET suits == {d \in q \ {met.host} : acceptable(mode, met.host, d)}
     IN  /\ \A d \in q \ {met.host} : <<met.host, d>> \in older
         /\ met.guest \in suits /\ Closest(met.host, met.guest, suits)}

RemovedHost(q, met) == q \ {met.host}   \* defective: leaves the guest in
Removed(q, met) == q \ {met.host, met.guest}

\* The mutex of the queues is held by the thread that is picking.
Locked == \E t \in Threads : pc[t] = "pick"

\* Who has a joined time in a mode: the queued, and who is about to be.
Waiting(mode) == queue[mode] \cup {c \in Clients : pc[c] = "enqueue" /\ place[c] = mode}
WaitingAnywhere == UNION {Waiting(mode) : mode \in Modes}

\* The order and the wait of those who leave a queue go with their entry.
Forget(gone) ==
  /\ ahead' = {e \in ahead : {e[1], e[2]} \cap gone = {}}
  /\ older' = {e \in older : {e[1], e[2]} \cap gone = {}}
  /\ age' = [c \in Clients |-> IF c \in gone THEN 0 ELSE age[c]]

\* joined is read before the lock is taken, and another may overtake there.
ReadClock(c) ==
  /\ pc[c] = "joining" /\ place[c] \in Modes
  /\ older' = older \cup (Waiting(place[c]) \X {c})
  /\ Goto(c, "enqueue")
  /\ UNCHANGED <<rooms, queue, ahead, age, rtt, work, paired, peer, pairs, noise, late, sockets, place>>

Enqueue(c) ==
  /\ pc[c] = "enqueue" /\ ~Locked
  /\ queue' = [queue EXCEPT ![place[c]] = @ \cup {c}]
  /\ ahead' = ahead \cup (queue[place[c]] \X {c})
  /\ Goto(c, "sweep")
  /\ UNCHANGED <<rooms, older, age, rtt, work, paired, peer, pairs, noise, late, sockets, place>>

\* What a thread does when it has no more pairs to introduce.
HomeOfTicker(t) == "idle"   \* defective: the handler never gets to its relay loop
Home(t) == IF t = Ticker THEN "idle" ELSE "relay"

NoPair == \A mode \in Modes : bestPair(mode, queue[mode]) = {}

\* A sweep, by a handler that has just queued its client or by the ticker: it
\* picks pairs under the lock until no queue has one, and introduces them after.
Sweep(t) ==
  /\ pc[t] = (IF t = Ticker THEN "idle" ELSE "sweep") /\ ~Locked
  /\ Goto(t, IF NoPair THEN Home(t) ELSE "pick")
  /\ UNCHANGED <<rooms, queue, ahead, older, age, rtt, work, paired, peer, pairs, noise, late, sockets, place>>

Pick(t) ==
  /\ pc[t] = "pick"
  /\ \E mode \in Modes : \E met \in bestPair(mode, queue[mode]) :
       /\ queue' = [queue EXCEPT ![mode] = Removed(@, met)]
       /\ work' = [work EXCEPT ![t] = Append(@, met)]
       /\ pairs' = pairs \cup {met}
       /\ Forget({met.host, met.guest})
  /\ UNCHANGED <<rooms, rtt, pc, paired, peer, noise, late, sockets, place>>

Picked(t) ==
  /\ pc[t] = "pick" /\ NoPair
  /\ Goto(t, IF work[t] = <<>> THEN Home(t) ELSE "tellHost")
  /\ UNCHANGED <<rooms, queue, ahead, older, age, rtt, work, paired, peer, pairs, noise, late, sockets, place>>

\* Time passes for those who wait.  A sweep has read the clock once.
LastBand == Bands[Len(Bands)].after
Pass ==
  /\ ~Locked
  /\ \E c \in WaitingAnywhere : age[c] < LastBand
  /\ age' = [c \in Clients |-> IF c \in WaitingAnywhere /\ age[c] < LastBand
                               THEN age[c] + 1 ELSE age[c]]
  /\ UNCHANGED <<rooms, queue, ahead, older, rtt, pc, work, paired, peer, pairs, noise, late, sockets, place>>

\* One ping beside the relay loop, answered while the handler reads; out of the
\* queue nothing asks for it any more.
MeasureRTT(c) ==
  /\ pc[c] = "relay" /\ place[c] \in Modes /\ c \in queue[place[c]] /\ rtt[c] = 0 /\ conn[c] = "open"
  /\ rtt' = [rtt EXCEPT ![c] = Rtt[c]]
  /\ UNCHANGED <<rooms, queue, ahead, older, age, pc, work, paired, peer, pairs, noise, late, sockets, place>>

(***************************************************************************)
(* pair: the roles first, then each is handed the other's socket.          *)
(***************************************************************************)
NextPair(t) ==
  /\ work' = [work EXCEPT ![t] = Tail(@)]
  /\ Goto(t, IF Len(work[t]) = 1 THEN Home(t) ELSE "tellHost")

\* pair has failed: the handler of a room returns, a sweep goes on.
UnpairedAlways(t) ==   \* defective: a failed pair ends the sweep and its thread
  Goto(t, "close") /\ work' = [work EXCEPT ![t] = <<>>]

Unpaired(t) ==
  IF t \in Clients /\ place[t] \in Codes
  THEN Goto(t, "close") /\ work' = [work EXCEPT ![t] = <<>>]
  ELSE NextPair(t)

AtPair == <<rooms, queue, ahead, older, age, rtt, peer, pairs, noise, conn, inbox, place>>

TellHostHanding(t) ==   \* defective: the host is handed the guest before the guest is told
  /\ pc[t] = "tellHost"
  /\ LET met == Head(work[t])
     IN  /\ Written(met.host, "host") /\ Goto(t, "tellGuest") /\ UNCHANGED work
         /\ paired' = [paired EXCEPT ![met.host] = {met.guest}]
  /\ UNCHANGED <<AtPair, late>>

TellHost(t) ==
  /\ pc[t] = "tellHost"
  /\ LET c == Head(work[t]).host
     IN  \/ Written(c, "host") /\ Goto(t, "tellGuest") /\ UNCHANGED work
         \/ CanFail(c) /\ Unpaired(t) /\ UNCHANGED outbox
  /\ UNCHANGED <<AtPair, paired, late>>

TellGuest(t) ==
  /\ pc[t] = "tellGuest"
  /\ LET c == Head(work[t]).guest
     IN  \/ Written(c, "guest") /\ Goto(t, "handHost") /\ UNCHANGED work
         \/ CanFail(c) /\ Unpaired(t) /\ UNCHANGED outbox
  /\ UNCHANGED <<AtPair, paired, late>>

\* A send on a full channel blocks.
Hand(c, p) ==
  /\ paired[c] = {}
  /\ paired' = [paired EXCEPT ![c] = {p}]
  /\ late' = IF pc[c] \in {"unregister", "close", "done"} THEN late \cup {c} ELSE late

HandHost(t) ==
  LET met == Head(work[t])
  IN  /\ pc[t] = "handHost" /\ Hand(met.host, met.guest)
      /\ Goto(t, "handGuest")
      /\ UNCHANGED <<AtPair, work, outbox>>

HandGuest(t) ==
  LET met == Head(work[t])
  IN  /\ pc[t] = "handGuest" /\ Hand(met.guest, met.host)
      /\ NextPair(t)
      /\ UNCHANGED <<AtPair, outbox>>

(***************************************************************************)
(* relay: every frame goes to the peer, once there is one.                 *)
(***************************************************************************)
peerOfKnown(c) == peer[c]   \* defective: the channel is not looked at

peerOf(c) == IF peer[c] = {} THEN paired[c] ELSE peer[c]

Resolve(c) ==
  /\ peer' = [peer EXCEPT ![c] = peerOf(c)]
  /\ paired' = [paired EXCEPT ![c] = IF peerOf(c) = peer[c] THEN @ ELSE {}]

Relay(c) ==
  /\ pc[c] = "relay" /\ conn[c] \in {"open", "closed"} /\ inbox[c] # <<>>
  /\ inbox' = [inbox EXCEPT ![c] = Tail(@)]
  /\ Resolve(c)
  /\ \/ peerOf(c) = {} /\ noise' = noise \cup {c} /\ UNCHANGED <<outbox, pc>>
     \/ \E p \in peerOf(c) :
          /\ UNCHANGED noise
          /\ \/ Written(p, Head(inbox[c])) /\ UNCHANGED pc
             \/ CanFail(p) /\ Goto(c, "leaving") /\ UNCHANGED outbox
  /\ UNCHANGED <<rooms, queue, ahead, older, age, rtt, work, pairs, late, conn, place>>

\* The read fails once the client's last frame has been read, or at once on a
\* socket that was hung up.
ReadFails(c) ==
  /\ pc[c] = "relay"
  /\ conn[c] = "hungup" \/ (conn[c] = "closed" /\ inbox[c] = <<>>)
  /\ Goto(c, "leaving")
  /\ UNCHANGED <<rooms, queue, ahead, older, age, rtt, work, paired, peer, pairs, noise, late, sockets, place>>

\* Hanging up on the peer, who is looked for on the way out too.
HangUp(c) ==
  /\ pc[c] = "leaving"
  /\ Resolve(c)
  /\ conn' = [p \in Clients |-> IF p \in peerOf(c) THEN "hungup" ELSE conn[p]]
  /\ Goto(c, "unregister")
  /\ UNCHANGED <<rooms, queue, ahead, older, age, rtt, work, pairs, noise, late, inbox, outbox, place>>

\* The client who waited leaves its room or its queue, matched or not.
Unregister(c) ==
  LET at == place[c]
  IN  /\ pc[c] = "unregister" /\ (at \in Modes => ~Locked)
      /\ queue' = IF at \in Modes
                  THEN [queue EXCEPT ![at] = @ \ {c}] ELSE queue
      /\ Forget({c})
      /\ rooms' = IF at \in Codes /\ \A met \in pairs : met.guest # c
                  THEN [rooms EXCEPT ![at] = AfterLeave(@, c)] ELSE rooms
      /\ Goto(c, "close")
      /\ UNCHANGED <<rtt, work, paired, peer, pairs, noise, late, sockets, place>>

CloseNow(c) ==
  /\ pc[c] = "close"
  /\ conn' = [conn EXCEPT ![c] = "hungup"]
  /\ Goto(c, "done")
  /\ UNCHANGED <<rooms, queue, ahead, older, age, rtt, work, paired, peer, pairs, noise, late, inbox, outbox, place>>

Handler(c) ==
  \/ Join(c) \/ ReadClock(c) \/ Enqueue(c) \/ Relay(c) \/ ReadFails(c)
  \/ HangUp(c) \/ Unregister(c) \/ CloseNow(c)

Introduce(t) == TellHost(t) \/ TellGuest(t) \/ HandHost(t) \/ HandGuest(t)

ServerNext ==
  \/ \E c \in Clients : Handler(c) \/ MeasureRTT(c)
  \/ \E t \in Threads : Sweep(t) \/ Pick(t) \/ Picked(t) \/ Introduce(t)
  \/ Pass

(***************************************************************************)
(* Properties.                                                             *)
(***************************************************************************)
Ends(met) == {met.host, met.guest}

\* Nobody is ever chosen twice, by the sweeps of two threads or by two joiners
\* of one code, so no send on a channel ever blocks; and whoever is handed a
\* socket is handed its partner's.
OnePairEach ==
  /\ \A m1, m2 \in pairs : Ends(m1) \cap Ends(m2) # {} => m1 = m2
  /\ \A met \in pairs : met.host # met.guest
  /\ \A c \in Clients : \A p \in peer[c] \cup paired[c] :
       [host |-> c, guest |-> p] \in pairs \/ [host |-> p, guest |-> c] \in pairs

\* A client whose handler waits for a partner can be found by the next one:
\* it holds its code, or it is in its queue, as long as nobody has chosen it.
WaitersFindable ==
  \A c \in Clients :
    pc[c] = "relay" /\ (\A met \in pairs : c \notin Ends(met)) =>
      IF place[c] \in Codes THEN c \in rooms[place[c]]
      ELSE c \in queue[place[c]]
=============================================================================
