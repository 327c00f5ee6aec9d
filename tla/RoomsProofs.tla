----------------------------- MODULE RoomsProofs -----------------------------
(***************************************************************************)
(* What Rooms and Negotiation guarantee for every set of clients and codes *)
(* and every way to come.  The safety properties follow from one inductive *)
(* invariant, IInv: where a client whose handler runs is to be found       *)
(* (ServerInv), and what the frames under way say of the two pages of a    *)
(* pair (PagesInv).                                                        *)
(***************************************************************************)
EXTENDS Negotiation, TLAPS

Telling == Sweeping \ {"pick"}

\* The handler has put its client in its room or its queue, or has a partner
\* for it, and has not taken it out.
Served == Sweeping \cup {"sweep", "relay", "leaving", "unregister"}

Chosen(c) == \E met \in pairs : c \in Ends(met)
IsHost(c) == \E met \in pairs : met.host = c
IsGuest(c) == \E met \in pairs : met.guest = c

PlaceInv ==
  \A c \in Clients :
    /\ pc[c] \notin {"off", "done"} => place[c] \in Codes \cup Modes
    /\ pc[c] \in {"enqueue", "sweep", "pick"} => place[c] \in Modes
    /\ pc[c] \in {"off", "joining", "enqueue"} => ~Chosen(c)
    /\ pc[c] \in Telling /\ place[c] \in Codes => Chosen(c)

RoomInv ==
  \A r \in Codes : \A c \in rooms[r] :
    /\ place[c] = r /\ ~Chosen(c) /\ pc[c] \in {"relay", "leaving", "unregister"}
    /\ \A d \in rooms[r] : c = d

QueueInv ==
  \A m \in Modes : \A c \in queue[m] : place[c] = m /\ ~Chosen(c) /\ pc[c] \in Served

\* The strengthening of WaitersFindable: from the place a handler takes to the
\* place it gives up.
FoundInv ==
  \A c \in Clients : pc[c] \in Served /\ ~Chosen(c) =>
    /\ place[c] \in Codes => c \in rooms[place[c]]
    /\ place[c] \in Modes => c \in queue[place[c]]

WorkInv ==
  \A t \in Threads :
    /\ \A i \in 1 .. Len(work[t]) : work[t][i] \in pairs
    /\ pc[t] \in Telling => work[t] # <<>>

ServerInv == PlaceInv /\ RoomInv /\ QueueInv /\ FoundInv /\ WorkInv /\ OnePairEach

InQueue(f, q) == \E i \in 1 .. Len(q) : q[i] = f

Verdicts == {"useP2p", "useRelay"}
Kind(v) == IF v = "useP2p" THEN "p2p" ELSE "relay"

\* The host of g's pair plays on k, or did until its tab was closed.
HostPlays(g, k) == \E met \in pairs : met.guest = g /\ page[met.host] \in {k, "left"}

RoleInv ==
  \A c \in Clients :
    /\ page[c] \in {"offering", "toAnswer", "deciding"} \/ InQueue("host", outbox[c]) => IsHost(c)
    /\ page[c] \in {"toOffer", "answering", "following", "meeting"} \/ InQueue("guest", outbox[c])
         => IsGuest(c)

VerdictInv ==
  \A c \in Clients : \A v \in Verdicts :
    /\ InQueue(v, inbox[c]) => IsHost(c) /\ page[c] \in {Kind(v), "left"}
    /\ InQueue(v, outbox[c]) => HostPlays(c, Kind(v))

PlayInv ==
  \A c \in Clients :
    /\ page[c] = "meeting" => HostPlays(c, "p2p")
    /\ page[c] \in Playing => IsHost(c) \/ HostPlays(c, page[c])

SentInv == \A c \in Clients : ~InQueue("host", inbox[c]) /\ ~InQueue("guest", inbox[c])

\* The handler of a client starts when it comes.
AwayInv == \A c \in Clients : page[c] = "away" => pc[c] = "off"

PagesInv == RoleInv /\ VerdictInv /\ PlayInv /\ SentInv /\ AwayInv

IInv == TypeOK /\ ServerInv /\ PagesInv

(***************************************************************************)
(* Sequences of frames.                                                    *)
(***************************************************************************)
\* What stands in a queue of frames after one was written or read stood there
\* before, or is the frame that was written.
LEMMA InAppend ==
  ASSUME NEW S, NEW q \in Seq(S), NEW x \in S, NEW f, InQueue(f, Append(q, x))
  PROVE  InQueue(f, q) \/ f = x
<1>1. PICK i \in 1 .. Len(Append(q, x)) : Append(q, x)[i] = f
  BY DEF InQueue
<1>2. i \in 1 .. Len(q) \/ i = Len(q) + 1
  BY <1>1
<1>3. QED
  BY <1>1, <1>2 DEF InQueue

LEMMA InTail ==
  ASSUME NEW S, NEW q \in Seq(S), q # <<>>, NEW f, InQueue(f, Tail(q))
  PROVE  InQueue(f, q)
<1>1. PICK i \in 1 .. Len(Tail(q)) : Tail(q)[i] = f
  BY DEF InQueue
<1>2. i + 1 \in 1 .. Len(q) /\ Tail(q)[i] = q[i + 1]
  BY <1>1
<1>3. QED
  BY <1>1, <1>2 DEF InQueue

LEMMA InHead ==
  ASSUME NEW S, NEW q \in Seq(S), q # <<>>
  PROVE  InQueue(Head(q), q) /\ Head(q) \in S
<1>1. 1 \in 1 .. Len(q) /\ Head(q) = q[1]
  OBVIOUS
<1>2. QED
  BY <1>1 DEF InQueue

(***************************************************************************)
(* Initially.                                                              *)
(***************************************************************************)
LEMMA LastBandNat == LastBand \in Nat
<1> DEFINE Row == [after : Nat, ranked : Nat, casual : Nat, maxPing : Nat]
<1>1. Bands \in Seq(Row) /\ Len(Bands) > 0
  BY RoomsAssumption
<1>2. Bands[Len(Bands)] \in Row
  <2> HIDE DEF Row
  <2> QED
    BY <1>1
<1>3. QED
  BY <1>2 DEF LastBand

LEMMA InitIInv == Init => IInv
<1> SUFFICES ASSUME Init PROVE IInv
  OBVIOUS
<1> USE DEF Init, RoomsInit
<1>1. TypeOK
  <2>1. leaves \in Nat
    BY VisitsAssumption
  <2>2. LastBand \in Nat
    BY LastBandNat
  <2>3. QED
    BY <2>1, <2>2 DEF TypeOK, Threads, Labels, Sweeping, PageStates
<1>2. PlaceInv /\ RoomInv /\ QueueInv
  BY RoomsAssumption DEF PlaceInv, RoomInv, QueueInv, Chosen, Telling, Sweeping, Threads, Ticker
<1>3. FoundInv
  BY RoomsAssumption DEF FoundInv, Served, Sweeping, Threads, Ticker
<1>4. WorkInv
  BY DEF WorkInv, Telling, Sweeping
<1>5. OnePairEach
  BY DEF OnePairEach
<1>6. PagesInv
  BY RoomsAssumption DEF PagesInv, RoleInv, VerdictInv, PlayInv, SentInv, AwayInv, InQueue, Playing,
         Threads, Ticker
<1>7. QED
  BY <1>1, <1>2, <1>3, <1>4, <1>5, <1>6 DEF IInv, ServerInv

(***************************************************************************)
(* The server: where a client whose handler runs is to be found.           *)
(***************************************************************************)
\* Steps of the pages, the clock and the pings do not touch it.
LEMMA ServerKept ==
  ASSUME ServerInv, UNCHANGED <<rooms, queue, pc, work, paired, peer, pairs, place>>
  PROVE  ServerInv'
  BY DEF ServerInv, PlaceInv, RoomInv, QueueInv, FoundInv, WorkInv, OnePairEach, Chosen, Ends

\* A client nobody has chosen can be paired with another one nobody has chosen:
\* the new pair meets no other.
LEMMA NewPair ==
  ASSUME TypeOK, OnePairEach, NEW met \in Pair, met.host # met.guest,
         ~Chosen(met.host), ~Chosen(met.guest),
         pairs' = pairs \cup {met}, UNCHANGED <<peer, paired>>
  PROVE  OnePairEach'
<1>1. \A m \in pairs : Ends(m) \cap Ends(met) = {}
  BY DEF Chosen, Ends
<1>2. \A m1, m2 \in pairs' : Ends(m1) \cap Ends(m2) # {} => m1 = m2
  BY <1>1, Zenon DEF OnePairEach
<1>3. \A m \in pairs' : m.host # m.guest
  BY DEF OnePairEach
<1>4. \A c \in Clients : \A p \in peer'[c] \cup paired'[c] :
        [host |-> c, guest |-> p] \in pairs' \/ [host |-> p, guest |-> c] \in pairs'
  BY DEF OnePairEach
<1>5. QED
  BY <1>2, <1>3, <1>4 DEF OnePairEach

LEMMA JoinServer ==
  ASSUME TypeOK, ServerInv, NEW c \in Clients, Join(c)
  PROVE  ServerInv'
<1> USE DEF ServerInv
<1> DEFINE r == place[c]
<1>1. r \in Codes /\ r \notin Modes /\ pc[c] = "joining" /\ ~Chosen(c)
  BY RoomsAssumption DEF Join, PlaceInv, Modes
<1>2. pc \in [Threads -> Labels] /\ work \in [Threads -> Seq(Pair)] /\ c \in Threads
      /\ rooms \in [Codes -> SUBSET Clients]
  BY DEF TypeOK, Threads
<1>3. CASE rooms[r] = {} /\ rooms' = [rooms EXCEPT ![r] = {c}] /\ Goto(c, "relay")
           /\ UNCHANGED <<work, pairs>>
  <2>1. UNCHANGED <<queue, work, pairs, peer, paired, place>>
    BY <1>3 DEF Join
  <2>2. pc' = [pc EXCEPT ![c] = "relay"]
    BY <1>3 DEF Goto
  <2> USE <1>1, <1>2, <1>3, <2>1, <2>2
  <2>3. \A d : Chosen(d)' = Chosen(d)
    BY DEF Chosen, Ends
  <2>4. PlaceInv'
    BY <2>3 DEF PlaceInv, Telling, Sweeping
  <2>5. RoomInv'
    BY <2>3 DEF RoomInv
  <2>6. QueueInv'
    BY <2>3 DEF QueueInv
  <2>7. FoundInv'
    BY <2>3 DEF FoundInv
  <2>8. WorkInv'
    BY DEF WorkInv, Telling, Sweeping
  <2>9. OnePairEach'
    BY DEF OnePairEach, Ends
  <2>10. QED
    BY <2>4, <2>5, <2>6, <2>7, <2>8, <2>9
<1>4. ASSUME NEW other \in rooms[r], NEW met, met = [host |-> other, guest |-> c],
             rooms' = [rooms EXCEPT ![r] = {}], work' = [work EXCEPT ![c] = <<met>>],
             pairs' = pairs \cup {met}, Goto(c, "tellHost")
      PROVE  ServerInv'
  <2>1. UNCHANGED <<queue, peer, paired, place>>
    BY DEF Join
  <2>2. pc' = [pc EXCEPT ![c] = "tellHost"]
    BY <1>4 DEF Goto
  <2>3. other \in Clients /\ ~Chosen(other) /\ other # c /\ place[other] = r
        /\ \A d \in rooms[r] : d = other
    <3>1. other \in Clients
      BY <1>1, <1>2
    <3>2. /\ place[other] = r /\ ~Chosen(other) /\ pc[other] \in {"relay", "leaving", "unregister"}
          /\ \A d \in rooms[r] : other = d
      <4> HIDE DEF r
      <4> QED
        BY <1>1, <1>4 DEF RoomInv
    <3>3. QED
      BY <3>1, <3>2, <1>1
  <2>4. met \in Pair /\ met.host = other /\ met.guest = c /\ Ends(met) = {other, c}
    BY <1>4, <2>3 DEF Pair, Ends
  <2>5. OnePairEach'
    BY <1>1, <1>4, <2>1, <2>3, <2>4, NewPair
  <2>6. \A d : Chosen(d)' <=> Chosen(d) \/ d \in {other, c}
    BY <1>4, <2>4 DEF Chosen
  <2> HIDE DEF r
  <2> USE <1>1, <1>2, <1>4, <2>1, <2>2, <2>3, <2>6
  <2>7. PlaceInv'
    <3>1. pc[other] \in {"relay", "leaving", "unregister"}
      BY DEF RoomInv
    <3> SUFFICES ASSUME NEW d \in Clients
                 PROVE  /\ pc'[d] \notin {"off", "done"} => place[d] \in Codes \cup Modes
                        /\ pc'[d] \in {"enqueue", "sweep", "pick"} => place[d] \in Modes
                        /\ pc'[d] \in {"off", "joining", "enqueue"} => ~Chosen(d)'
                        /\ pc'[d] \in Telling /\ place[d] \in Codes => Chosen(d)'
      BY DEF PlaceInv
    <3>2. CASE d = c
      BY <3>2 DEF Telling, Sweeping, r
    <3>3. CASE d # c
      BY <3>1, <3>3 DEF PlaceInv
    <3>4. QED
      BY <3>2, <3>3
  <2>8. RoomInv'
    BY DEF RoomInv
  <2>9. QueueInv'
    <3> SUFFICES ASSUME NEW m \in Modes, NEW d \in queue[m]
                 PROVE  place[d] = m /\ ~Chosen(d)' /\ pc'[d] \in Served
      BY DEF QueueInv
    <3>1. place[d] = m /\ ~Chosen(d) /\ pc[d] \in Served
      BY DEF QueueInv
    <3>2. d # c /\ d # other
      BY <3>1 DEF r
    <3>3. QED
      BY <3>1, <3>2
  <2>10. FoundInv'
    BY DEF FoundInv, r
  <2>11. WorkInv'
    <3>1. \A i \in 1 .. Len(<<met>>) : <<met>>[i] \in pairs'
      OBVIOUS
    <3>2. QED
      BY <3>1 DEF WorkInv, Telling, Sweeping
  <2>12. QED
    BY <2>5, <2>7, <2>8, <2>9, <2>10, <2>11
<1>5. QED
  BY <1>3, <1>4, <1>1 DEF Join

\* A thread goes from a point to a point and leaves the places alone: what is left
\* to show is what the point it comes to asks.
LEMMA GoesOn ==
  ASSUME TypeOK, ServerInv, NEW t \in Threads, NEW label \in Labels, Goto(t, label),
         UNCHANGED <<rooms, queue, pairs, place>>, WorkInv', OnePairEach',
         t \in Clients =>
           /\ pc[t] # "off" /\ pc[t] # "done"
           /\ label \notin {"off", "joining"}
           /\ label \in {"enqueue", "sweep", "pick"} => place[t] \in Modes
           /\ label = "enqueue" => pc[t] = "joining"
           /\ label \in Telling => pc[t] \in Sweeping
           /\ label \in Telling /\ place[t] \in Codes => Chosen(t)
           /\ label \in Served => pc[t] \in Served
           /\ label \notin {"relay", "leaving", "unregister"} => \A r \in Codes : t \notin rooms[r]
           /\ label \notin Served => \A m \in Modes : t \notin queue[m]
  PROVE  ServerInv'
<1> USE DEF ServerInv
<1>1. pc' = [pc EXCEPT ![t] = label] /\ pc \in [Threads -> Labels]
  BY DEF Goto, TypeOK
<1>2. \A d : Chosen(d)' = Chosen(d)
  BY DEF Chosen, Ends
<1>3. PlaceInv'
  <2> SUFFICES ASSUME NEW d \in Clients
               PROVE  /\ pc'[d] \notin {"off", "done"} => place[d] \in Codes \cup Modes
                      /\ pc'[d] \in {"enqueue", "sweep", "pick"} => place[d] \in Modes
                      /\ pc'[d] \in {"off", "joining", "enqueue"} => ~Chosen(d)
                      /\ pc'[d] \in Telling /\ place[d] \in Codes => Chosen(d)
    BY <1>2 DEF PlaceInv
  <2>1. CASE d # t
    BY <1>1, <2>1 DEF PlaceInv, Threads
  <2>2. CASE d = t
    BY <1>1, <2>2 DEF PlaceInv
  <2>3. QED
    BY <2>1, <2>2
<1>4. RoomInv'
  <2> SUFFICES ASSUME NEW r \in Codes, NEW d \in rooms[r]
               PROVE  /\ place[d] = r /\ ~Chosen(d) /\ pc'[d] \in {"relay", "leaving", "unregister"}
                      /\ \A e \in rooms[r] : d = e
    BY <1>2 DEF RoomInv
  <2>1. d \in Clients
    BY DEF TypeOK
  <2>2. QED
    BY <1>1, <2>1 DEF RoomInv, Threads
<1>5. QueueInv'
  <2> SUFFICES ASSUME NEW m \in Modes, NEW d \in queue[m]
               PROVE  place[d] = m /\ ~Chosen(d) /\ pc'[d] \in Served
    BY <1>2 DEF QueueInv
  <2>1. d \in Clients
    BY DEF TypeOK
  <2>2. QED
    BY <1>1, <2>1 DEF QueueInv, Threads
<1>6. FoundInv'
  <2> SUFFICES ASSUME NEW d \in Clients, pc'[d] \in Served, ~Chosen(d)
               PROVE  /\ place[d] \in Codes => d \in rooms[place[d]]
                      /\ place[d] \in Modes => d \in queue[place[d]]
    BY <1>2 DEF FoundInv
  <2>1. pc[d] \in Served
    BY <1>1 DEF Threads
  <2>2. QED
    BY <2>1 DEF FoundInv
<1>7. QED
  BY <1>3, <1>4, <1>5, <1>6

\* Nothing was chosen and nothing handed over.
LEMMA BooksKept ==
  ASSUME TypeOK, ServerInv, NEW t \in Threads, NEW label, Goto(t, label),
         UNCHANGED <<work, paired, peer, pairs>>, label \in Telling => work[t] # <<>>
  PROVE  WorkInv' /\ OnePairEach'
<1>1. pc' = [pc EXCEPT ![t] = label] /\ pc \in [Threads -> Labels]
  BY DEF Goto, TypeOK
<1>2. WorkInv'
  BY <1>1 DEF WorkInv, ServerInv
<1>3. OnePairEach'
  BY DEF OnePairEach, Ends, ServerInv
<1>4. QED
  BY <1>2, <1>3

LEMMA ReadClockServer ==
  ASSUME TypeOK, ServerInv, NEW c \in Clients, ReadClock(c)
  PROVE  ServerInv'
<1>1. c \in Threads /\ "enqueue" \in Labels /\ Goto(c, "enqueue") /\ pc[c] = "joining" /\ place[c] \in Modes
  BY DEF Threads, Labels, ReadClock
<1>2. UNCHANGED <<rooms, queue, work, paired, peer, pairs, place>>
  BY DEF ReadClock
<1>3. \A r \in Codes : c \notin rooms[r]
  BY <1>1 DEF ServerInv, RoomInv
<1>4. \A m \in Modes : c \notin queue[m]
  BY <1>1 DEF ServerInv, QueueInv, Served, Sweeping
<1>5. WorkInv' /\ OnePairEach'
  BY <1>1, <1>2, BooksKept DEF Telling, Sweeping
<1>6. QED
  BY <1>1, <1>2, <1>3, <1>4, <1>5, GoesOn DEF Telling, Sweeping, Served

\* Only a handler that sweeps, or the ticker, is at a label of a sweep.
LEMMA SweepServer ==
  ASSUME TypeOK, ServerInv, NEW t \in Threads, Sweep(t)
  PROVE  ServerInv'
<1> DEFINE label == IF NoPair THEN Home(t) ELSE "pick"
<1>1. Goto(t, label) /\ UNCHANGED <<rooms, queue, work, paired, peer, pairs, place>>
  BY DEF Sweep
<1>2. label \in {"pick", "idle", "relay"} /\ (t \in Clients => label \in {"pick", "relay"})
  BY RoomsAssumption DEF Home, Ticker, Threads
<1>3. t \in Clients => pc[t] = "sweep" /\ place[t] \in Modes
  BY RoomsAssumption DEF Sweep, Ticker, ServerInv, PlaceInv
<1>4. t \in Clients => \A r \in Codes : t \notin rooms[r]
  BY <1>3, RoomsAssumption DEF ServerInv, RoomInv, Modes
<1> HIDE DEF label
<1>5. WorkInv' /\ OnePairEach'
  BY <1>1, <1>2, BooksKept DEF Telling, Sweeping
<1>6. QED
  BY <1>1, <1>2, <1>3, <1>4, <1>5, GoesOn DEF Telling, Sweeping, Served, Labels

LEMMA PickedServer ==
  ASSUME TypeOK, ServerInv, NEW t \in Threads, Picked(t)
  PROVE  ServerInv'
<1> DEFINE label == IF work[t] = <<>> THEN Home(t) ELSE "tellHost"
<1>1. Goto(t, label) /\ UNCHANGED <<rooms, queue, work, paired, peer, pairs, place>> /\ pc[t] = "pick"
  BY DEF Picked
<1>2. label \in {"tellHost", "idle", "relay"} /\ (t \in Clients => label \in {"tellHost", "relay"})
      /\ (label = "tellHost" => work[t] # <<>>)
  BY RoomsAssumption DEF Home, Ticker, Threads
<1>3. t \in Clients => place[t] \in Modes /\ place[t] \notin Codes
  BY <1>1, RoomsAssumption DEF ServerInv, PlaceInv, Modes
<1>4. t \in Clients => \A r \in Codes : t \notin rooms[r]
  BY <1>3 DEF ServerInv, RoomInv
<1> HIDE DEF label
<1>5. WorkInv' /\ OnePairEach'
  BY <1>1, <1>2, BooksKept DEF Telling, Sweeping
<1>6. QED
  BY <1>1, <1>2, <1>3, <1>4, <1>5, GoesOn DEF Telling, Sweeping, Served, Labels

LEMMA ReadFailsServer ==
  ASSUME TypeOK, ServerInv, NEW c \in Clients, ReadFails(c)
  PROVE  ServerInv'
<1>1. c \in Threads /\ "leaving" \in Labels /\ Goto(c, "leaving") /\ pc[c] = "relay"
  BY DEF Threads, Labels, ReadFails
<1>2. UNCHANGED <<rooms, queue, work, paired, peer, pairs, place>>
  BY DEF ReadFails
<1>3. WorkInv' /\ OnePairEach'
  BY <1>1, <1>2, BooksKept DEF Telling, Sweeping
<1>4. QED
  BY <1>1, <1>2, <1>3, GoesOn DEF Telling, Sweeping, Served

LEMMA CloseNowServer ==
  ASSUME TypeOK, ServerInv, NEW c \in Clients, CloseNow(c)
  PROVE  ServerInv'
<1>1. c \in Threads /\ "done" \in Labels /\ Goto(c, "done") /\ pc[c] = "close"
  BY DEF Threads, Labels, CloseNow
<1>2. UNCHANGED <<rooms, queue, work, paired, peer, pairs, place>>
  BY DEF CloseNow
<1>3. \A r \in Codes : c \notin rooms[r]
  BY <1>1 DEF ServerInv, RoomInv
<1>4. \A m \in Modes : c \notin queue[m]
  BY <1>1 DEF ServerInv, QueueInv, Served, Sweeping
<1>5. WorkInv' /\ OnePairEach'
  BY <1>1, <1>2, BooksKept DEF Telling, Sweeping
<1>6. QED
  BY <1>1, <1>2, <1>3, <1>4, <1>5, GoesOn DEF Telling, Sweeping, Served

\* What a handler finds when it looks for its peer is its partner.
LEMMA ResolveBooks ==
  ASSUME TypeOK, ServerInv, NEW c \in Clients, Resolve(c), UNCHANGED <<work, pairs>>,
         \A t \in Threads : pc'[t] \in Telling => pc[t] \in Telling
  PROVE  WorkInv' /\ OnePairEach'
<1>1. WorkInv'
  BY DEF WorkInv, ServerInv
<1>2. \A d \in Clients : peer'[d] \cup paired'[d] \subseteq peer[d] \cup paired[d]
  BY DEF Resolve, peerOf, TypeOK
<1>3. OnePairEach'
  BY <1>2 DEF OnePairEach, Ends, ServerInv
<1>4. QED
  BY <1>1, <1>3

LEMMA HangUpServer ==
  ASSUME TypeOK, ServerInv, NEW c \in Clients, HangUp(c)
  PROVE  ServerInv'
<1>1. c \in Threads /\ "unregister" \in Labels /\ Goto(c, "unregister") /\ pc[c] = "leaving"
  BY DEF Threads, Labels, HangUp
<1>2. UNCHANGED <<rooms, queue, work, pairs, place>> /\ Resolve(c)
  BY DEF HangUp
<1>3. \A t \in Threads : pc'[t] \in Telling => pc[t] \in Telling
  BY <1>1 DEF Goto, TypeOK, Telling, Sweeping
<1>4. WorkInv' /\ OnePairEach'
  BY <1>2, <1>3, ResolveBooks
<1>5. QED
  BY <1>1, <1>2, <1>4, GoesOn DEF Telling, Sweeping, Served

LEMMA RelayServer ==
  ASSUME TypeOK, ServerInv, NEW c \in Clients, Relay(c)
  PROVE  ServerInv'
<1>1. UNCHANGED <<rooms, queue, work, pairs, place>> /\ Resolve(c) /\ pc[c] = "relay"
  BY DEF Relay
<1>2. pc \in [Threads -> Labels] /\ c \in Threads
  BY DEF TypeOK, Threads
<1>3. UNCHANGED pc \/ Goto(c, "leaving")
  BY DEF Relay
<1>4. \A t \in Threads : pc'[t] \in Telling => pc[t] \in Telling
  BY <1>2, <1>3 DEF Goto, Telling, Sweeping
<1>5. WorkInv' /\ OnePairEach'
  BY <1>1, <1>4, ResolveBooks
<1>6. CASE UNCHANGED pc
  BY <1>1, <1>5, <1>6 DEF ServerInv, PlaceInv, RoomInv, QueueInv, FoundInv, Chosen, Ends
<1>7. CASE Goto(c, "leaving")
  BY <1>1, <1>2, <1>5, <1>7, GoesOn DEF Telling, Sweeping, Served, Labels
<1>8. QED
  BY <1>3, <1>6, <1>7

(***************************************************************************)
(* A pair is introduced.                                                   *)
(***************************************************************************)
\* A thread at work on a pair goes on with it, with the next one, or home.
LEMMA IntroducesOn ==
  ASSUME TypeOK, ServerInv, NEW t \in Threads, pc[t] \in Telling,
         NEW label, Goto(t, label), label \in Telling \cup {Home(t), "close"},
         label = "close" => t \in Clients /\ place[t] \in Codes,
         UNCHANGED <<rooms, queue, pairs, place>>, WorkInv', OnePairEach'
  PROVE  ServerInv'
<1>1. label \in Labels
  BY DEF Labels, Telling, Home
<1>2. t \in Clients => Home(t) = "relay"
  BY RoomsAssumption DEF Home, Ticker
<1>3. t \in Clients => \A r \in Codes : t \notin rooms[r]
  BY DEF ServerInv, RoomInv, Telling, Sweeping
<1>4. label = "close" => \A m \in Modes : t \notin queue[m]
  BY RoomsAssumption DEF ServerInv, QueueInv, Modes
<1>5. t \in Clients /\ place[t] \in Codes => Chosen(t)
  BY DEF ServerInv, PlaceInv
<1>6. QED
  BY <1>1, <1>2, <1>3, <1>4, <1>5, GoesOn DEF Telling, Sweeping, Served

LEMMA HeadOfWork ==
  ASSUME TypeOK, ServerInv, NEW t \in Threads, pc[t] \in Telling
  PROVE  /\ work[t] \in Seq(Pair) /\ work[t] # <<>> /\ Head(work[t]) \in pairs /\ Head(work[t]) \in Pair
         /\ Head(work[t]).host \in Clients /\ Head(work[t]).guest \in Clients
<1>1. work[t] \in Seq(Pair) /\ work[t] # <<>> /\ \A i \in 1 .. Len(work[t]) : work[t][i] \in pairs
  BY DEF TypeOK, ServerInv, WorkInv
<1>2. Head(work[t]) \in pairs
  BY <1>1
<1>3. Head(work[t]) \in Pair
  BY <1>2 DEF TypeOK
<1>4. QED
  BY <1>1, <1>2, <1>3 DEF Pair

\* The books after the pair at the head of the work is done with.
LEMMA NextPairBooks ==
  ASSUME TypeOK, ServerInv, NEW t \in Threads, pc[t] \in Telling, NextPair(t), UNCHANGED pairs
  PROVE  /\ WorkInv'
         /\ \E label \in {"tellHost", Home(t)} : Goto(t, label)
<1>1. work[t] \in Seq(Pair) /\ work[t] # <<>> /\ \A i \in 1 .. Len(work[t]) : work[t][i] \in pairs
  BY DEF TypeOK, ServerInv, WorkInv
<1>2. /\ pc \in [Threads -> Labels] /\ work \in [Threads -> Seq(Pair)]
      /\ work' = [work EXCEPT ![t] = Tail(work[t])]
      /\ pc' = [pc EXCEPT ![t] = IF Len(work[t]) = 1 THEN Home(t) ELSE "tellHost"]
  BY DEF TypeOK, NextPair, Goto
<1>3. \A i \in 1 .. Len(Tail(work[t])) : Tail(work[t])[i] \in pairs
  BY <1>1
<1>4. Len(work[t]) # 1 => Tail(work[t]) # <<>>
  <2>1. Len(Tail(work[t])) = Len(work[t]) - 1 /\ Len(work[t]) \in Nat
    BY <1>1
  <2>2. Len(work[t]) # 1 => Len(Tail(work[t])) # 0
    BY <2>1
  <2>3. QED
    BY <2>2
<1>5. Home(t) \notin Telling
  BY DEF Home, Telling, Sweeping
<1>6. WorkInv'
  <2> SUFFICES ASSUME NEW u \in Threads
               PROVE  /\ \A i \in 1 .. Len(work'[u]) : work'[u][i] \in pairs
                      /\ pc'[u] \in Telling => work'[u] # <<>>
    BY DEF WorkInv
  <2>1. CASE u = t
    BY <1>2, <1>3, <1>4, <1>5, <2>1
  <2>2. CASE u # t
    BY <1>2, <2>2 DEF ServerInv, WorkInv
  <2>3. QED
    BY <2>1, <2>2
<1>7. QED
  BY <1>6 DEF NextPair

\* A pair that failed is dropped: by a sweep, or with the thread of a room.
LEMMA UnpairedBooks ==
  ASSUME TypeOK, ServerInv, NEW t \in Threads, pc[t] \in Telling, Unpaired(t), UNCHANGED pairs
  PROVE  /\ WorkInv'
         /\ \/ t \in Clients /\ place[t] \in Codes /\ Goto(t, "close")
            \/ \E label \in {"tellHost", Home(t)} : Goto(t, label)
<1>1. CASE t \in Clients /\ place[t] \in Codes
  <2>1. work' = [work EXCEPT ![t] = <<>>] /\ pc' = [pc EXCEPT ![t] = "close"] /\ Goto(t, "close")
    BY <1>1 DEF Unpaired, Goto
  <2>2. pc \in [Threads -> Labels] /\ work \in [Threads -> Seq(Pair)]
    BY DEF TypeOK
  <2>3. WorkInv'
    BY <2>1, <2>2 DEF WorkInv, ServerInv, Telling, Sweeping
  <2>4. QED
    BY <1>1, <2>1, <2>3
<1>2. CASE ~(t \in Clients /\ place[t] \in Codes)
  BY <1>2, NextPairBooks DEF Unpaired
<1>3. QED
  BY <1>1, <1>2

LEMMA TellServer ==
  ASSUME TypeOK, ServerInv, NEW t \in Threads, TellHost(t) \/ TellGuest(t)
  PROVE  ServerInv'
<1>1. /\ pc[t] \in Telling /\ UNCHANGED <<rooms, queue, pairs, place, peer, paired>>
      /\ \/ (Goto(t, "tellGuest") \/ Goto(t, "handHost")) /\ UNCHANGED work
         \/ Unpaired(t)
  BY DEF TellHost, TellGuest, AtPair, Telling, Sweeping
<1>2. OnePairEach'
  BY <1>1 DEF OnePairEach, Ends, ServerInv
<1>3. ASSUME NEW label \in {"tellGuest", "handHost"}, Goto(t, label), UNCHANGED work
      PROVE  ServerInv'
  <2>1. work[t] # <<>>
    BY <1>1, HeadOfWork
  <2>2. WorkInv'
    BY <1>1, <1>3, <2>1, BooksKept
  <2>3. label \in Telling
    BY DEF Telling, Sweeping
  <2>4. QED
    BY <1>1, <1>2, <1>3, <2>2, <2>3, IntroducesOn
<1>4. CASE Unpaired(t)
  <2>1. PICK label \in {"close", "tellHost", Home(t)} :
          WorkInv' /\ Goto(t, label) /\ (label = "close" => t \in Clients /\ place[t] \in Codes)
    BY <1>1, <1>4, UnpairedBooks DEF Home
  <2>2. label \in Telling \cup {Home(t), "close"}
    BY DEF Telling, Sweeping
  <2>3. QED
    BY <1>1, <1>2, <2>1, <2>2, IntroducesOn
<1>5. QED
  BY <1>1, <1>3, <1>4

\* Each end is handed the other one.
LEMMA HandBooks ==
  ASSUME TypeOK, ServerInv, NEW met \in pairs, NEW c \in Clients, NEW p \in Clients,
         <<c, p>> \in {<<met.host, met.guest>>, <<met.guest, met.host>>}, Hand(c, p),
         UNCHANGED <<peer, pairs>>
  PROVE  OnePairEach'
<1>1. met = [host |-> met.host, guest |-> met.guest]
  BY DEF TypeOK, Pair
<1>2. [host |-> c, guest |-> p] \in pairs \/ [host |-> p, guest |-> c] \in pairs
  BY <1>1
<1>3. \A d \in Clients : \A q \in peer'[d] \cup paired'[d] :
        q \in peer[d] \cup paired[d] \/ (d = c /\ q = p)
  BY DEF Hand, TypeOK
<1>4. QED
  BY <1>2, <1>3 DEF OnePairEach, Ends, ServerInv

LEMMA HandServer ==
  ASSUME TypeOK, ServerInv, NEW t \in Threads, HandHost(t) \/ HandGuest(t)
  PROVE  ServerInv'
<1> DEFINE met == Head(work[t])
<1>1. pc[t] \in Telling /\ UNCHANGED <<rooms, queue, pairs, place, peer>>
  BY DEF HandHost, HandGuest, AtPair, Telling, Sweeping
<1>2. met \in pairs /\ met.host \in Clients /\ met.guest \in Clients /\ work[t] # <<>>
  BY <1>1, HeadOfWork
<1>3. Hand(met.host, met.guest) \/ Hand(met.guest, met.host)
  BY DEF HandHost, HandGuest
<1> HIDE DEF met
<1>4. OnePairEach'
  BY <1>1, <1>2, <1>3, HandBooks
<1>5. CASE HandHost(t)
  <2>1. Goto(t, "handGuest") /\ UNCHANGED work /\ "handGuest" \in Telling
    BY <1>5 DEF HandHost, Telling, Sweeping
  <2>2. pc' = [pc EXCEPT ![t] = "handGuest"] /\ pc \in [Threads -> Labels]
    BY <2>1 DEF Goto, TypeOK
  <2>3. WorkInv'
    BY <1>1, <1>2, <2>1, <2>2 DEF WorkInv, ServerInv
  <2>4. QED
    BY <1>1, <1>4, <2>1, <2>3, IntroducesOn
<1>6. CASE HandGuest(t)
  <2>1. NextPair(t)
    BY <1>6 DEF HandGuest
  <2>2. PICK label \in {"tellHost", Home(t)} : WorkInv' /\ Goto(t, label)
    BY <1>1, <2>1, NextPairBooks
  <2>3. label \in Telling \cup {Home(t), "close"} /\ label # "close"
    BY DEF Telling, Sweeping, Home
  <2>4. QED
    BY <1>1, <1>4, <2>2, <2>3, IntroducesOn
<1>7. QED
  BY <1>5, <1>6

(***************************************************************************)
(* The queues, and the way out.                                            *)
(***************************************************************************)
LEMMA EnqueueServer ==
  ASSUME TypeOK, ServerInv, NEW c \in Clients, Enqueue(c)
  PROVE  ServerInv'
<1> DEFINE m == place[c]
<1>1. /\ pc[c] = "enqueue" /\ pc' = [pc EXCEPT ![c] = "sweep"]
      /\ queue' = [queue EXCEPT ![m] = @ \cup {c}]
      /\ UNCHANGED <<rooms, work, paired, peer, pairs, place>>
  BY DEF Enqueue, Goto
<1>2. m \in Modes /\ m \notin Codes /\ ~Chosen(c)
  BY <1>1, RoomsAssumption DEF ServerInv, PlaceInv, Modes
<1>3. /\ pc \in [Threads -> Labels] /\ queue \in [Modes -> SUBSET Clients] /\ c \in Threads
      /\ rooms \in [Codes -> SUBSET Clients]
  BY DEF TypeOK, Threads
<1>4. \A d : Chosen(d)' = Chosen(d)
  BY <1>1 DEF Chosen, Ends
<1> HIDE DEF m
<1>5. PlaceInv'
  <2> SUFFICES ASSUME NEW d \in Clients
               PROVE  /\ pc'[d] \notin {"off", "done"} => place[d] \in Codes \cup Modes
                      /\ pc'[d] \in {"enqueue", "sweep", "pick"} => place[d] \in Modes
                      /\ pc'[d] \in {"off", "joining", "enqueue"} => ~Chosen(d)
                      /\ pc'[d] \in Telling /\ place[d] \in Codes => Chosen(d)
    BY <1>1, <1>4 DEF PlaceInv
  <2>1. CASE d = c
    BY <1>1, <1>2, <1>3, <2>1 DEF m, Telling, Sweeping
  <2>2. CASE d # c
    BY <1>1, <1>3, <2>2 DEF ServerInv, PlaceInv
  <2>3. QED
    BY <2>1, <2>2
<1>6. RoomInv'
  <2> SUFFICES ASSUME NEW r \in Codes, NEW d \in rooms[r]
               PROVE  /\ place[d] = r /\ ~Chosen(d) /\ pc'[d] \in {"relay", "leaving", "unregister"}
                      /\ \A e \in rooms[r] : d = e
    BY <1>1, <1>4 DEF RoomInv
  <2>1. place[d] = r /\ ~Chosen(d) /\ pc[d] \in {"relay", "leaving", "unregister"}
        /\ \A e \in rooms[r] : d = e
    BY DEF ServerInv, RoomInv
  <2>2. QED
    BY <1>1, <1>3, <2>1
<1>7. QueueInv'
  <2> SUFFICES ASSUME NEW k \in Modes, NEW d \in queue'[k]
               PROVE  place[d] = k /\ ~Chosen(d) /\ pc'[d] \in Served
    BY <1>1, <1>4 DEF QueueInv
  <2>1. CASE d \in queue[k]
    <3>1. place[d] = k /\ ~Chosen(d) /\ pc[d] \in Served /\ d \in Clients
      BY <1>3, <2>1 DEF ServerInv, QueueInv
    <3>2. QED
      BY <1>1, <1>3, <3>1 DEF Served, Threads
  <2>2. CASE d \notin queue[k]
    <3>1. d = c /\ k = m
      BY <1>1, <1>2, <1>3, <2>2
    <3>2. QED
      BY <1>1, <1>2, <1>3, <3>1 DEF m, Served
  <2>3. QED
    BY <2>1, <2>2
<1>8. FoundInv'
  <2> SUFFICES ASSUME NEW d \in Clients, pc'[d] \in Served, ~Chosen(d)
               PROVE  /\ place[d] \in Codes => d \in rooms[place[d]]
                      /\ place[d] \in Modes => d \in queue'[place[d]]
    BY <1>1, <1>4 DEF FoundInv
  <2>1. CASE d = c
    BY <1>1, <1>2, <1>3, <2>1 DEF m
  <2>2. CASE d # c
    <3>1. pc[d] \in Served
      BY <1>1, <1>3, <2>2
    <3>2. QED
      BY <1>1, <1>2, <1>3, <3>1 DEF ServerInv, FoundInv
  <2>3. QED
    BY <2>1, <2>2
<1>9. WorkInv' /\ OnePairEach'
  BY <1>1, <1>3, BooksKept DEF Goto, Telling, Sweeping
<1>10. QED
  BY <1>5, <1>6, <1>7, <1>8, <1>9 DEF ServerInv

\* The heart of the matter: whoever is picked leaves its queue in the same step.
LEMMA PickServer ==
  ASSUME TypeOK, ServerInv, NEW t \in Threads, Pick(t)
  PROVE  ServerInv'
<1>0. PICK m \in Modes : \E met \in bestPair(m, queue[m]) :
        /\ queue' = [queue EXCEPT ![m] = Removed(@, met)]
        /\ work' = [work EXCEPT ![t] = Append(@, met)]
        /\ pairs' = pairs \cup {met}
  BY DEF Pick
<1>1. PICK met \in bestPair(m, queue[m]) :
        /\ queue' = [queue EXCEPT ![m] = Removed(@, met)]
        /\ work' = [work EXCEPT ![t] = Append(@, met)]
        /\ pairs' = pairs \cup {met}
  BY <1>0
<1>2. pc[t] = "pick" /\ UNCHANGED <<rooms, pc, paired, peer, place>>
  BY DEF Pick
<1>3. /\ queue \in [Modes -> SUBSET Clients] /\ work \in [Threads -> Seq(Pair)]
      /\ rooms \in [Codes -> SUBSET Clients]
  BY DEF TypeOK
<1>4. /\ met \in [host : queue[m], guest : queue[m]]
      /\ met.guest \in queue[m] \ {met.host}
  BY <1>1, Zenon DEF bestPair
<1>5. met \in Pair /\ met.host # met.guest /\ met.host \in queue[m] /\ met.guest \in queue[m]
  BY <1>3, <1>4 DEF Pair
<1>6. /\ ~Chosen(met.host) /\ pc[met.host] \in Served /\ place[met.host] = m
      /\ ~Chosen(met.guest) /\ pc[met.guest] \in Served /\ place[met.guest] = m
  BY <1>5 DEF ServerInv, QueueInv
<1>7. OnePairEach'
  BY <1>1, <1>2, <1>5, <1>6, NewPair DEF ServerInv
<1>8. \A d : Chosen(d)' <=> Chosen(d) \/ d \in Ends(met)
  BY <1>1 DEF Chosen
<1>9. \A d \in Ends(met) : place[d] = m /\ pc[d] \in Served
  BY <1>6 DEF Ends
<1>10. m \notin Codes
  BY RoomsAssumption DEF Modes
<1>11. /\ queue'[m] = queue[m] \ Ends(met)
       /\ \A k \in Modes : k # m => queue'[k] = queue[k]
  BY <1>1, <1>3 DEF Removed, Ends
<1>12. PlaceInv'
  BY <1>2, <1>8, <1>9 DEF ServerInv, PlaceInv, Served, Sweeping
<1>13. RoomInv'
  <2> SUFFICES ASSUME NEW r \in Codes, NEW d \in rooms[r]
               PROVE  /\ place[d] = r /\ ~Chosen(d)' /\ pc[d] \in {"relay", "leaving", "unregister"}
                      /\ \A e \in rooms[r] : d = e
    BY <1>2 DEF RoomInv
  <2>1. place[d] = r /\ ~Chosen(d) /\ pc[d] \in {"relay", "leaving", "unregister"}
        /\ \A e \in rooms[r] : d = e
    BY DEF ServerInv, RoomInv
  <2>2. QED
    BY <1>8, <1>9, <1>10, <2>1
<1>14. QueueInv'
  <2> SUFFICES ASSUME NEW k \in Modes, NEW d \in queue'[k]
               PROVE  place[d] = k /\ ~Chosen(d)' /\ pc[d] \in Served
    BY <1>2 DEF QueueInv
  <2>1. d \in queue[k] /\ (k = m => d \notin Ends(met))
    BY <1>11
  <2>2. place[d] = k /\ ~Chosen(d) /\ pc[d] \in Served
    BY <2>1 DEF ServerInv, QueueInv
  <2>3. QED
    BY <1>8, <1>9, <2>1, <2>2
<1>15. FoundInv'
  <2> SUFFICES ASSUME NEW d \in Clients, pc[d] \in Served, ~Chosen(d)'
               PROVE  /\ place[d] \in Codes => d \in rooms[place[d]]
                      /\ place[d] \in Modes => d \in queue'[place[d]]
    BY <1>2 DEF FoundInv
  <2>1. ~Chosen(d) /\ d \notin Ends(met)
    BY <1>8
  <2>2. QED
    BY <1>11, <2>1 DEF ServerInv, FoundInv
<1>16. WorkInv'
  <2> SUFFICES ASSUME NEW u \in Threads
               PROVE  /\ \A i \in 1 .. Len(work'[u]) : work'[u][i] \in pairs'
                      /\ pc[u] \in Telling => work'[u] # <<>>
    BY <1>2 DEF WorkInv
  <2>1. \A i \in 1 .. Len(work[u]) : work[u][i] \in pairs
    BY DEF ServerInv, WorkInv
  <2>2. CASE u = t
    <3>1. work[u] \in Seq(Pair) /\ work'[u] = Append(work[u], met)
      BY <1>1, <1>3, <2>2
    <3>2. work'[u] # <<>>
      BY <1>5, <3>1
    <3>3. \A i \in 1 .. Len(work'[u]) : (i \in 1 .. Len(work[u]) /\ work'[u][i] = work[u][i]) \/ work'[u][i] = met
      BY <1>5, <3>1
    <3>4. QED
      BY <1>1, <2>1, <3>2, <3>3
  <2>3. CASE u # t
    BY <1>1, <1>3, <2>1, <2>3 DEF ServerInv, WorkInv
  <2>4. QED
    BY <2>2, <2>3
<1>17. QED
  BY <1>7, <1>12, <1>13, <1>14, <1>15, <1>16 DEF ServerInv

LEMMA UnregisterServer ==
  ASSUME TypeOK, ServerInv, NEW c \in Clients, Unregister(c)
  PROVE  ServerInv'
<1>1. /\ pc[c] = "unregister" /\ pc' = [pc EXCEPT ![c] = "close"]
      /\ UNCHANGED <<work, paired, peer, pairs, place>>
      /\ queue' = IF place[c] \in Modes THEN [queue EXCEPT ![place[c]] = @ \ {c}] ELSE queue
      /\ rooms' = IF place[c] \in Codes /\ \A met \in pairs : met.guest # c
                  THEN [rooms EXCEPT ![place[c]] = @ \ {c}] ELSE rooms
  BY DEF Unregister, Goto, AfterLeave
<1>2. /\ pc \in [Threads -> Labels] /\ queue \in [Modes -> SUBSET Clients] /\ c \in Threads
      /\ rooms \in [Codes -> SUBSET Clients]
  BY DEF TypeOK, Threads
<1>3. \A d : Chosen(d)' = Chosen(d)
  BY <1>1 DEF Chosen, Ends
<1>4. \A r \in Codes : rooms'[r] = rooms[r] \ {c}
  <2> SUFFICES ASSUME NEW r \in Codes PROVE rooms'[r] = rooms[r] \ {c}
    OBVIOUS
  <2>1. c \in rooms[r] => place[c] = r /\ ~Chosen(c)
    BY DEF ServerInv, RoomInv
  <2>2. ~Chosen(c) => \A met \in pairs : met.guest # c
    BY DEF Chosen, Ends
  <2>3. QED
    BY <1>1, <1>2, <2>1, <2>2
<1>5. \A m \in Modes : queue'[m] = queue[m] \ {c}
  <2> SUFFICES ASSUME NEW m \in Modes PROVE queue'[m] = queue[m] \ {c}
    OBVIOUS
  <2>1. c \in queue[m] => place[c] = m
    BY DEF ServerInv, QueueInv
  <2>2. QED
    BY <1>1, <1>2, <2>1
<1>6. \A d \in Clients : d # c => pc'[d] = pc[d]
  BY <1>1, <1>2 DEF Threads
<1>7. pc'[c] = "close"
  BY <1>1, <1>2
<1>8. PlaceInv'
  <2> SUFFICES ASSUME NEW d \in Clients
               PROVE  /\ pc'[d] \notin {"off", "done"} => place[d] \in Codes \cup Modes
                      /\ pc'[d] \in {"enqueue", "sweep", "pick"} => place[d] \in Modes
                      /\ pc'[d] \in {"off", "joining", "enqueue"} => ~Chosen(d)
                      /\ pc'[d] \in Telling /\ place[d] \in Codes => Chosen(d)
    BY <1>1, <1>3 DEF PlaceInv
  <2>1. CASE d = c
    BY <1>1, <1>7, <2>1 DEF ServerInv, PlaceInv, Telling, Sweeping
  <2>2. CASE d # c
    BY <1>6, <2>2 DEF ServerInv, PlaceInv
  <2>3. QED
    BY <2>1, <2>2
<1>9. RoomInv'
  <2> SUFFICES ASSUME NEW r \in Codes, NEW d \in rooms'[r]
               PROVE  /\ place[d] = r /\ ~Chosen(d) /\ pc'[d] \in {"relay", "leaving", "unregister"}
                      /\ \A e \in rooms'[r] : d = e
    BY <1>1, <1>3 DEF RoomInv
  <2>1. d \in rooms[r] /\ d # c /\ d \in Clients /\ rooms'[r] \subseteq rooms[r]
    BY <1>2, <1>4
  <2>2. /\ place[d] = r /\ ~Chosen(d) /\ pc[d] \in {"relay", "leaving", "unregister"}
        /\ \A e \in rooms[r] : d = e
    BY <2>1 DEF ServerInv, RoomInv
  <2>3. QED
    BY <1>6, <2>1, <2>2
<1>10. QueueInv'
  <2> SUFFICES ASSUME NEW m \in Modes, NEW d \in queue'[m]
               PROVE  place[d] = m /\ ~Chosen(d) /\ pc'[d] \in Served
    BY <1>1, <1>3 DEF QueueInv
  <2>1. d \in queue[m] /\ d # c /\ d \in Clients
    BY <1>2, <1>5
  <2>2. QED
    BY <1>6, <2>1 DEF ServerInv, QueueInv
<1>11. FoundInv'
  <2> SUFFICES ASSUME NEW d \in Clients, pc'[d] \in Served, ~Chosen(d)
               PROVE  /\ place[d] \in Codes => d \in rooms'[place[d]]
                      /\ place[d] \in Modes => d \in queue'[place[d]]
    BY <1>1, <1>3 DEF FoundInv
  <2>1. d # c
    BY <1>7 DEF Served, Sweeping
  <2>2. QED
    BY <1>4, <1>5, <1>6, <2>1 DEF ServerInv, FoundInv
<1>12. WorkInv' /\ OnePairEach'
  BY <1>1, <1>2, BooksKept DEF Goto, Telling, Sweeping
<1>13. QED
  BY <1>8, <1>9, <1>10, <1>11, <1>12 DEF ServerInv

\* A client comes: its handler starts, or has refused it.
LEMMA OpenServer ==
  ASSUME TypeOK, ServerInv, PagesInv, NEW c \in Clients, Open(c), pc[c] = "off"
  PROVE  ServerInv'
<1>1. PICK label \in {"joining", "done"} : Goto(c, label)
  BY DEF Open
<1>2. place[c] \in Codes \cup Modes /\ UNCHANGED <<rooms, queue, work, paired, peer, pairs, place>>
  BY DEF Open
<1>3. pc' = [pc EXCEPT ![c] = label] /\ pc \in [Threads -> Labels] /\ c \in Threads
  BY <1>1 DEF Goto, TypeOK, Threads
<1>4. \A d : Chosen(d)' = Chosen(d)
  BY <1>2 DEF Chosen, Ends
<1>5. PlaceInv'
  <2> SUFFICES ASSUME NEW d \in Clients
               PROVE  /\ pc'[d] \notin {"off", "done"} => place[d] \in Codes \cup Modes
                      /\ pc'[d] \in {"enqueue", "sweep", "pick"} => place[d] \in Modes
                      /\ pc'[d] \in {"off", "joining", "enqueue"} => ~Chosen(d)
                      /\ pc'[d] \in Telling /\ place[d] \in Codes => Chosen(d)
    BY <1>2, <1>4 DEF PlaceInv
  <2>1. CASE d = c
    BY <1>2, <1>3, <2>1 DEF ServerInv, PlaceInv, Telling, Sweeping
  <2>2. CASE d # c
    BY <1>3, <2>2 DEF ServerInv, PlaceInv
  <2>3. QED
    BY <2>1, <2>2
<1>6. RoomInv' /\ QueueInv'
  BY <1>2, <1>3, <1>4 DEF ServerInv, RoomInv, QueueInv, Served, Sweeping
<1>7. FoundInv'
  BY <1>2, <1>3, <1>4 DEF ServerInv, FoundInv, Served, Sweeping
<1>8. WorkInv' /\ OnePairEach'
  BY <1>1, <1>2, <1>3, BooksKept DEF Telling, Sweeping
<1>9. QED
  BY <1>5, <1>6, <1>7, <1>8 DEF ServerInv

(***************************************************************************)
(* Every variable keeps its range.                                         *)
(***************************************************************************)
\* What leaves a queue takes its order and its wait with it.
LEMMA ForgetType ==
  ASSUME TypeOK, NEW gone, Forget(gone)
  PROVE  /\ ahead' \subseteq Clients \X Clients /\ older' \subseteq Clients \X Clients
         /\ age' \in [Clients -> 0 .. LastBand]
  BY LastBandNat DEF TypeOK, Forget

LEMMA GotoType ==
  ASSUME TypeOK, NEW t \in Threads, NEW label \in Labels, Goto(t, label),
         t = Ticker => label \in Sweeping \cup {"idle"}
  PROVE  pc' \in [Threads -> Labels] /\ pc'[Ticker] \in Sweeping \cup {"idle"}
  BY DEF TypeOK, Goto, Threads

LEMMA HomeType ==
  ASSUME NEW t \in Threads
  PROVE  Home(t) \in Labels /\ (t = Ticker => Home(t) \in Sweeping \cup {"idle"})
  BY DEF Home, Labels, Sweeping

LEMMA ClientThread ==
  ASSUME NEW c \in Clients
  PROVE  c \in Threads /\ c # Ticker
  BY RoomsAssumption DEF Threads, Ticker

LEMMA ResolveType ==
  ASSUME TypeOK, NEW c \in Clients, Resolve(c)
  PROVE  /\ peer' \in [Clients -> SUBSET Clients] /\ paired' \in [Clients -> SUBSET Clients]
         /\ \A d \in Clients : \A p, q \in paired'[d] : p = q
         /\ peerOf(c) \subseteq Clients
<1>1. peerOf(c) \subseteq Clients
  BY DEF TypeOK, peerOf
<1>2. peer' \in [Clients -> SUBSET Clients]
  BY <1>1 DEF TypeOK, Resolve
<1>3. /\ paired' \in [Clients -> SUBSET Clients]
      /\ \A d \in Clients : paired'[d] = paired[d] \/ paired'[d] = {}
  BY DEF TypeOK, Resolve
<1>4. QED
  BY <1>1, <1>2, <1>3 DEF TypeOK

LEMMA WrittenType ==
  ASSUME TypeOK, NEW c \in Clients, NEW frame \in Frames,
         Written(c, frame) \/ UNCHANGED outbox
  PROVE  outbox' \in [Clients -> Seq(Frames)]
<1>1. CASE outbox' = [outbox EXCEPT ![c] = Append(@, frame)]
  BY <1>1 DEF TypeOK
<1>2. CASE UNCHANGED outbox
  BY <1>2 DEF TypeOK
<1>3. QED
  BY <1>1, <1>2 DEF Written

LEMMA SentType ==
  ASSUME TypeOK, NEW c \in Clients, NEW frame \in Frames, SentOn(c, frame)
  PROVE  inbox' \in [Clients -> Seq(Frames)]
<1>1. CASE inbox' = [inbox EXCEPT ![c] = Append(@, frame)]
  BY <1>1 DEF TypeOK
<1>2. CASE UNCHANGED inbox
  BY <1>2 DEF TypeOK
<1>3. QED
  BY <1>1, <1>2 DEF SentOn

\* The steps of the pages.
LEMMA PageType ==
  ASSUME TypeOK, NEW c \in Clients, Open(c) \/ Page(c) \/ ChannelOpens(c) \/ Leave(c)
  PROVE  TypeOK'
<1> USE DEF server, sockets, OnPage
<1>1. CASE Open(c)
  <2>1. pc' \in [Threads -> Labels] /\ pc'[Ticker] \in Sweeping \cup {"idle"}
    BY <1>1, ClientThread, GotoType DEF Open, Labels
  <2>2. conn' \in [Clients -> {"none", "open", "closed", "hungup"}]
        /\ page' \in [Clients -> PageStates]
    BY <1>1 DEF TypeOK, Open, Show, PageStates
  <2>3. QED
    BY <1>1, <2>1, <2>2 DEF TypeOK, Open
<1>2. CASE Take(c)
  <2>1. outbox' \in [Clients -> Seq(Frames)]
    BY <1>2 DEF TypeOK, Take
  <2>2. AfterFrame(page[c], Head(outbox[c])) \in PageStates
    <3>1. Head(outbox[c]) \in Frames
      BY <1>2, InHead DEF TypeOK, Take
    <3>2. QED
      BY <3>1 DEF AfterFrame, PageStates, Playing, Frames
  <2>3. page' \in [Clients -> PageStates]
    BY <1>2, <2>2 DEF TypeOK, Take, Show
  <2>4. QED
    BY <1>2, <2>1, <2>3 DEF TypeOK, Take
<1>3. CASE Signal(c)
  <2>1. inbox' \in [Clients -> Seq(Frames)]
    <3>1. UNCHANGED inbox => inbox' \in [Clients -> Seq(Frames)]
      BY DEF TypeOK
    <3>2. QED
      BY <1>3, <3>1, SentType DEF Signal, Frames
  <2>2. page' \in [Clients -> PageStates]
    BY <1>3 DEF TypeOK, Signal, Show, PageStates
  <2>3. QED
    BY <1>3, <2>1, <2>2 DEF TypeOK, Signal
<1>4. CASE Decide(c)
  <2>1. inbox' \in [Clients -> Seq(Frames)]
    <3>1. UNCHANGED inbox => inbox' \in [Clients -> Seq(Frames)]
      BY DEF TypeOK
    <3>2. QED
      BY <1>4, <3>1, SentType DEF Decide, Frames
  <2>2. page' \in [Clients -> PageStates]
        /\ conn' \in [Clients -> {"none", "open", "closed", "hungup"}]
    BY <1>4 DEF TypeOK, Decide, Show, PageStates, Playing, PlayP2p
  <2>3. QED
    BY <1>4, <2>1, <2>2 DEF TypeOK, Decide
<1>5. CASE Meet(c)
  <2>1. page' \in [Clients -> PageStates]
        /\ conn' \in [Clients -> {"none", "open", "closed", "hungup"}]
    BY <1>5 DEF TypeOK, Meet, Show, PageStates, Playing, PlayP2p
  <2>2. QED
    BY <1>5, <2>1 DEF TypeOK, Meet
<1>6. CASE GiveUp(c)
  BY <1>6 DEF TypeOK, GiveUp, Show, PageStates
<1>7. CASE ChannelOpens(c)
  BY <1>7 DEF TypeOK, ChannelOpens
<1>8. CASE Leave(c)
  <2>1. page' \in [Clients -> PageStates] /\ leaves' \in Nat
        /\ conn' \in [Clients -> {"none", "open", "closed", "hungup"}]
    BY <1>8 DEF TypeOK, Leave, Show, PageStates
  <2>2. QED
    BY <1>8, <2>1 DEF TypeOK, Leave
<1>9. QED
  BY <1>1, <1>2, <1>3, <1>4, <1>5, <1>6, <1>7, <1>8 DEF Page

\* The steps of a handler outside an introduction.
LEMMA HandlerType ==
  ASSUME TypeOK, ServerInv, NEW c \in Clients, Handler(c) \/ MeasureRTT(c),
         UNCHANGED <<page, channel, leaves>>
  PROVE  TypeOK'
<1> USE DEF sockets
<1>0. c \in Threads /\ c # Ticker
  BY ClientThread
<1>1. CASE Join(c)
  <2>1. pc' \in [Threads -> Labels] /\ pc'[Ticker] \in Sweeping \cup {"idle"}
    BY <1>0, <1>1, GotoType DEF Join, Labels, Sweeping
  <2>2. /\ rooms' \in [Codes -> SUBSET Clients] /\ work' \in [Threads -> Seq(Pair)]
        /\ pairs' \subseteq Pair
    <3>1. place[c] \in Codes /\ rooms[place[c]] \subseteq Clients
      BY <1>1 DEF Join, TypeOK
    <3>2. CASE rooms' = [rooms EXCEPT ![place[c]] = {c}] /\ UNCHANGED <<work, pairs>>
      BY <3>1, <3>2 DEF TypeOK
    <3>3. ASSUME NEW other \in rooms[place[c]], NEW met, met = [host |-> other, guest |-> c],
                 rooms' = [rooms EXCEPT ![place[c]] = {}], work' = [work EXCEPT ![c] = <<met>>],
                 pairs' = pairs \cup {met}
          PROVE  /\ rooms' \in [Codes -> SUBSET Clients] /\ work' \in [Threads -> Seq(Pair)]
                 /\ pairs' \subseteq Pair
      <4>1. met \in Pair
        BY <3>1, <3>3 DEF Pair
      <4>2. <<met>> \in Seq(Pair)
        BY <4>1
      <4>3. QED
        BY <1>0, <3>3, <4>1, <4>2 DEF TypeOK
    <3>4. QED
      BY <1>1, <3>2, <3>3 DEF Join
  <2>3. QED
    BY <1>1, <2>1, <2>2 DEF TypeOK, Join
<1>2. CASE ReadClock(c)
  <2>1. pc' \in [Threads -> Labels] /\ pc'[Ticker] \in Sweeping \cup {"idle"}
    BY <1>0, <1>2, GotoType DEF ReadClock, Labels
  <2>2. Waiting(place[c]) \subseteq Clients
    BY <1>2 DEF ReadClock, Waiting, TypeOK
  <2>3. QED
    BY <1>2, <2>1, <2>2 DEF TypeOK, ReadClock
<1>3. CASE Enqueue(c)
  <2>1. pc' \in [Threads -> Labels] /\ pc'[Ticker] \in Sweeping \cup {"idle"}
    BY <1>0, <1>3, GotoType DEF Enqueue, Labels
  <2>2. place[c] \in Modes
    BY <1>3 DEF Enqueue, ServerInv, PlaceInv
  <2>3. queue' \in [Modes -> SUBSET Clients] /\ ahead' \subseteq Clients \X Clients
    BY <1>3, <2>2 DEF TypeOK, Enqueue
  <2>4. QED
    BY <1>3, <2>1, <2>3 DEF TypeOK, Enqueue
<1>4. CASE Relay(c)
  <2>1. /\ peer' \in [Clients -> SUBSET Clients] /\ paired' \in [Clients -> SUBSET Clients]
        /\ \A d \in Clients : \A p, q \in paired'[d] : p = q
        /\ peerOf(c) \subseteq Clients
    BY <1>4, ResolveType DEF Relay
  <2>2. Head(inbox[c]) \in Frames
    BY <1>4, InHead DEF TypeOK, Relay
  <2>3. outbox' \in [Clients -> Seq(Frames)]
    BY <1>4, <2>1, <2>2, WrittenType DEF Relay, TypeOK
  <2>4. inbox' \in [Clients -> Seq(Frames)] /\ noise' \subseteq Clients
    BY <1>4 DEF TypeOK, Relay
  <2>5. pc' \in [Threads -> Labels] /\ pc'[Ticker] \in Sweeping \cup {"idle"}
    BY <1>0, <1>4, GotoType DEF Relay, Labels, TypeOK
  <2>6. QED
    BY <1>4, <2>1, <2>3, <2>4, <2>5 DEF TypeOK, Relay
<1>5. CASE ReadFails(c)
  <2>1. pc' \in [Threads -> Labels] /\ pc'[Ticker] \in Sweeping \cup {"idle"}
    BY <1>0, <1>5, GotoType DEF ReadFails, Labels
  <2>2. QED
    BY <1>5, <2>1 DEF TypeOK, ReadFails
<1>6. CASE HangUp(c)
  <2>1. pc' \in [Threads -> Labels] /\ pc'[Ticker] \in Sweeping \cup {"idle"}
    BY <1>0, <1>6, GotoType DEF HangUp, Labels
  <2>2. /\ peer' \in [Clients -> SUBSET Clients] /\ paired' \in [Clients -> SUBSET Clients]
        /\ \A d \in Clients : \A p, q \in paired'[d] : p = q
    BY <1>6, ResolveType DEF HangUp
  <2>3. conn' \in [Clients -> {"none", "open", "closed", "hungup"}]
    BY <1>6 DEF TypeOK, HangUp
  <2>4. QED
    BY <1>6, <2>1, <2>2, <2>3 DEF TypeOK, HangUp
<1>7. CASE Unregister(c)
  <2>1. pc' \in [Threads -> Labels] /\ pc'[Ticker] \in Sweeping \cup {"idle"}
    BY <1>0, <1>7, GotoType DEF Unregister, Labels
  <2>2. /\ ahead' \subseteq Clients \X Clients /\ older' \subseteq Clients \X Clients
        /\ age' \in [Clients -> 0 .. LastBand]
    BY <1>7, ForgetType DEF Unregister
  <2>3. queue' \in [Modes -> SUBSET Clients] /\ rooms' \in [Codes -> SUBSET Clients]
    BY <1>7 DEF TypeOK, Unregister, AfterLeave
  <2>4. QED
    BY <1>7, <2>1, <2>2, <2>3 DEF TypeOK, Unregister
<1>8. CASE CloseNow(c)
  <2>1. pc' \in [Threads -> Labels] /\ pc'[Ticker] \in Sweeping \cup {"idle"}
    BY <1>0, <1>8, GotoType DEF CloseNow, Labels
  <2>2. conn' \in [Clients -> {"none", "open", "closed", "hungup"}]
    BY <1>8 DEF TypeOK, CloseNow
  <2>3. QED
    BY <1>8, <2>1, <2>2 DEF TypeOK, CloseNow
<1>9. CASE MeasureRTT(c)
  <2>1. rtt' \in [Clients -> Nat]
    BY <1>9, RoomsAssumption DEF TypeOK, MeasureRTT
  <2>2. QED
    BY <1>9, <2>1 DEF TypeOK, MeasureRTT
<1>10. QED
  BY <1>1, <1>2, <1>3, <1>4, <1>5, <1>6, <1>7, <1>8, <1>9 DEF Handler

\* The sweeps and the clock.
LEMMA SweepType ==
  ASSUME TypeOK, NEW t \in Threads, Sweep(t) \/ Pick(t) \/ Picked(t),
         UNCHANGED <<page, channel, leaves>>
  PROVE  TypeOK'
<1> USE DEF sockets
<1>1. CASE Sweep(t)
  <2>1. pc' \in [Threads -> Labels] /\ pc'[Ticker] \in Sweeping \cup {"idle"}
    BY <1>1, GotoType, HomeType DEF Sweep, Labels, Sweeping
  <2>2. QED
    BY <1>1, <2>1 DEF TypeOK, Sweep
<1>2. CASE Picked(t)
  <2>1. pc' \in [Threads -> Labels] /\ pc'[Ticker] \in Sweeping \cup {"idle"}
    BY <1>2, GotoType, HomeType DEF Picked, Labels, Sweeping
  <2>2. QED
    BY <1>2, <2>1 DEF TypeOK, Picked
<1>3. CASE Pick(t)
  <2>1. PICK m \in Modes : \E met \in bestPair(m, queue[m]) :
          /\ queue' = [queue EXCEPT ![m] = Removed(@, met)]
          /\ work' = [work EXCEPT ![t] = Append(@, met)]
          /\ pairs' = pairs \cup {met} /\ Forget({met.host, met.guest})
    BY <1>3 DEF Pick
  <2>2. PICK met \in bestPair(m, queue[m]) :
          /\ queue' = [queue EXCEPT ![m] = Removed(@, met)]
          /\ work' = [work EXCEPT ![t] = Append(@, met)]
          /\ pairs' = pairs \cup {met} /\ Forget({met.host, met.guest})
    BY <2>1
  <2>3. met \in [host : queue[m], guest : queue[m]]
    BY <2>2, Zenon DEF bestPair
  <2>4. met \in Pair
    BY <2>3 DEF TypeOK, Pair
  <2>5. /\ ahead' \subseteq Clients \X Clients /\ older' \subseteq Clients \X Clients
        /\ age' \in [Clients -> 0 .. LastBand]
    BY <2>2, ForgetType
  <2>6. work' \in [Threads -> Seq(Pair)] /\ pairs' \subseteq Pair
    BY <2>2, <2>4 DEF TypeOK
  <2>7. queue' \in [Modes -> SUBSET Clients]
    BY <2>2 DEF TypeOK, Removed
  <2>8. QED
    BY <1>3, <2>5, <2>6, <2>7 DEF TypeOK, Pick
<1>4. QED
  BY <1>1, <1>2, <1>3

LEMMA PassType ==
  ASSUME TypeOK, Pass, UNCHANGED <<page, channel, leaves>>
  PROVE  TypeOK'
<1>1. age' \in [Clients -> 0 .. LastBand]
  BY LastBandNat DEF TypeOK, Pass
<1>2. QED
  BY <1>1 DEF TypeOK, Pass, sockets

LEMMA NextPairType ==
  ASSUME TypeOK, NEW t \in Threads, work[t] # <<>>, NextPair(t)
  PROVE  /\ pc' \in [Threads -> Labels] /\ pc'[Ticker] \in Sweeping \cup {"idle"}
         /\ work' \in [Threads -> Seq(Pair)]
<1>1. pc' \in [Threads -> Labels] /\ pc'[Ticker] \in Sweeping \cup {"idle"}
  BY GotoType, HomeType DEF NextPair, Labels, Sweeping
<1>2. work' \in [Threads -> Seq(Pair)]
  BY DEF TypeOK, NextPair
<1>3. QED
  BY <1>1, <1>2

LEMMA UnpairedType ==
  ASSUME TypeOK, NEW t \in Threads, work[t] # <<>>, Unpaired(t)
  PROVE  /\ pc' \in [Threads -> Labels] /\ pc'[Ticker] \in Sweeping \cup {"idle"}
         /\ work' \in [Threads -> Seq(Pair)]
<1>1. CASE NextPair(t)
  BY <1>1, NextPairType
<1>2. CASE t \in Clients /\ Goto(t, "close") /\ work' = [work EXCEPT ![t] = <<>>]
  <2>1. pc' \in [Threads -> Labels] /\ pc'[Ticker] \in Sweeping \cup {"idle"}
    BY <1>2, ClientThread, GotoType DEF Labels
  <2>2. work \in [Threads -> Seq(Pair)] /\ <<>> \in Seq(Pair)
    BY DEF TypeOK
  <2>3. work' \in [Threads -> Seq(Pair)]
    BY <1>2, <2>2
  <2>4. QED
    BY <2>1, <2>3
<1>3. QED
  BY <1>1, <1>2 DEF Unpaired

\* The four steps of an introduction.
LEMMA IntroduceType ==
  ASSUME TypeOK, ServerInv, NEW t \in Threads, Introduce(t), UNCHANGED <<page, channel, leaves>>
  PROVE  TypeOK'
<1> DEFINE met == Head(work[t])
<1>0. work[t] # <<>> /\ met.host \in Clients /\ met.guest \in Clients
  BY HeadOfWork DEF Introduce, TellHost, TellGuest, HandHost, HandGuest, Telling, Sweeping
<1> HIDE DEF met
<1> USE DEF AtPair
<1>1. ASSUME NEW c \in Clients, NEW role \in {"host", "guest"}, NEW next \in {"tellGuest", "handHost"},
             \/ Written(c, role) /\ Goto(t, next) /\ UNCHANGED work
             \/ CanFail(c) /\ Unpaired(t) /\ UNCHANGED outbox,
             UNCHANGED <<AtPair, paired, late>>
      PROVE  TypeOK'
  <2>1. outbox' \in [Clients -> Seq(Frames)]
    BY <1>1, WrittenType DEF Frames
  <2>2. /\ pc' \in [Threads -> Labels] /\ pc'[Ticker] \in Sweeping \cup {"idle"}
        /\ work' \in [Threads -> Seq(Pair)]
    <3>1. CASE Unpaired(t)
      BY <1>0, <3>1, UnpairedType
    <3>2. CASE Goto(t, next) /\ UNCHANGED work
      BY <3>2, GotoType DEF Labels, Sweeping, TypeOK
    <3>3. QED
      BY <1>1, <3>1, <3>2
  <2>3. QED
    BY <1>1, <2>1, <2>2 DEF TypeOK
<1>2. CASE TellHost(t)
  BY <1>0, <1>1, <1>2 DEF TellHost, met
<1>3. CASE TellGuest(t)
  BY <1>0, <1>1, <1>3 DEF TellGuest, met
<1>4. ASSUME NEW c \in Clients, NEW p \in Clients, Hand(c, p)
      PROVE  /\ paired' \in [Clients -> SUBSET Clients]
             /\ \A d \in Clients : \A x, y \in paired'[d] : x = y
             /\ late' \subseteq Clients
  BY <1>4 DEF TypeOK, Hand
<1>5. CASE HandHost(t)
  <2>1. pc' \in [Threads -> Labels] /\ pc'[Ticker] \in Sweeping \cup {"idle"}
    BY <1>5, GotoType DEF HandHost, Labels, Sweeping
  <2>2. Hand(met.host, met.guest) /\ UNCHANGED <<AtPair, work, outbox>>
    BY <1>5 DEF HandHost, met
  <2>3. QED
    BY <1>0, <1>4, <2>1, <2>2 DEF TypeOK
<1>6. CASE HandGuest(t)
  <2>1. /\ pc' \in [Threads -> Labels] /\ pc'[Ticker] \in Sweeping \cup {"idle"}
        /\ work' \in [Threads -> Seq(Pair)]
    BY <1>0, <1>6, NextPairType DEF HandGuest
  <2>2. Hand(met.guest, met.host) /\ UNCHANGED <<AtPair, outbox>>
    BY <1>6 DEF HandGuest, met
  <2>3. QED
    BY <1>0, <1>4, <2>1, <2>2 DEF TypeOK
<1>7. QED
  BY <1>2, <1>3, <1>5, <1>6 DEF Introduce

(***************************************************************************)
(* The pages: what the frames under way say of the two ends of a pair.     *)
(***************************************************************************)
\* Nobody is the host of one pair and the guest of another, or of two pairs.
LEMMA OneRole ==
  ASSUME OnePairEach, NEW m1 \in pairs, NEW m2 \in pairs
  PROVE  /\ m1.host # m2.guest
         /\ m1.host = m2.host => m1 = m2
         /\ m1.guest = m2.guest => m1 = m2
<1>1. m1.host # m1.guest
  BY DEF OnePairEach
<1>2. Ends(m1) \cap Ends(m2) # {} => m1 = m2
  BY DEF OnePairEach
<1>3. m1.host = m2.guest \/ m1.host = m2.host \/ m1.guest = m2.guest => Ends(m1) \cap Ends(m2) # {}
  BY DEF Ends
<1>4. QED
  BY <1>1, <1>2, <1>3

\* What is found at a client after a write was there, or was written there now.
LEMMA WrittenFrames ==
  ASSUME TypeOK, NEW c \in Clients, NEW frame \in Frames, Written(c, frame) \/ UNCHANGED outbox,
         NEW d \in Clients, NEW f, InQueue(f, outbox'[d])
  PROVE  InQueue(f, outbox[d]) \/ (d = c /\ f = frame)
<1>1. outbox \in [Clients -> Seq(Frames)]
  BY DEF TypeOK
<1>2. CASE outbox'[d] = outbox[d]
  BY <1>2
<1>3. CASE d = c /\ outbox'[d] = Append(outbox[d], frame)
  BY <1>1, <1>3, InAppend
<1>4. QED
  BY <1>1, <1>2, <1>3 DEF Written

LEMMA SentFrames ==
  ASSUME TypeOK, NEW c \in Clients, NEW frame \in Frames, SentOn(c, frame),
         NEW d \in Clients, NEW f, InQueue(f, inbox'[d])
  PROVE  InQueue(f, inbox[d]) \/ (d = c /\ f = frame)
<1>1. inbox \in [Clients -> Seq(Frames)]
  BY DEF TypeOK
<1>2. CASE inbox'[d] = inbox[d]
  BY <1>2
<1>3. CASE d = c /\ inbox'[d] = Append(inbox[d], frame)
  BY <1>1, <1>3, InAppend
<1>4. QED
  BY <1>1, <1>2, <1>3 DEF SentOn

LEMMA ReadFrames ==
  ASSUME NEW box, box \in [Clients -> Seq(Frames)], NEW c \in Clients, box[c] # <<>>,
         NEW d \in Clients, NEW f, InQueue(f, [box EXCEPT ![c] = Tail(@)][d])
  PROVE  InQueue(f, box[d])
<1>1. CASE d = c
  BY <1>1, InTail
<1>2. CASE d # c
  BY <1>2
<1>3. QED
  BY <1>1, <1>2

\* A frame the server may write to d.
Due(f, d) ==
  /\ f = "host" => IsHost(d)
  /\ f = "guest" => IsGuest(d)
  /\ \A v \in Verdicts : f = v => HostPlays(d, Kind(v))

\* A step of the server: frames are read, written to whom they are due, and
\* pairs are added.
LEMMA ServerPages ==
  ASSUME PagesInv, UNCHANGED page, pairs \subseteq pairs',
         \A c \in Clients : pc[c] = "off" => pc'[c] = "off",
         \A d \in Clients : \A f : InQueue(f, inbox'[d]) => InQueue(f, inbox[d]),
         \A d \in Clients : \A f : InQueue(f, outbox'[d]) => InQueue(f, outbox[d]) \/ Due(f, d)
  PROVE  PagesInv'
<1>1. \A c : (IsHost(c) => IsHost(c)') /\ (IsGuest(c) => IsGuest(c)')
  BY DEF IsHost, IsGuest
<1>2. \A g, k : HostPlays(g, k) => HostPlays(g, k)'
  BY DEF HostPlays
<1>3. RoleInv'
  BY <1>1 DEF PagesInv, RoleInv, Due
<1>4. VerdictInv'
  <2> SUFFICES ASSUME NEW c \in Clients, NEW v \in Verdicts
               PROVE  /\ InQueue(v, inbox'[c]) => IsHost(c)' /\ page[c] \in {Kind(v), "left"}
                      /\ InQueue(v, outbox'[c]) => HostPlays(c, Kind(v))'
    BY DEF VerdictInv, Kind
  <2>1. InQueue(v, inbox[c]) => IsHost(c) /\ page[c] \in {Kind(v), "left"}
    BY DEF PagesInv, VerdictInv
  <2>2. InQueue(v, outbox[c]) => HostPlays(c, Kind(v))
    BY DEF PagesInv, VerdictInv
  <2>3. QED
    BY <1>1, <1>2, <2>1, <2>2 DEF Due
<1>5. PlayInv'
  BY <1>1, <1>2 DEF PagesInv, PlayInv
<1>6. SentInv' /\ AwayInv'
  BY DEF PagesInv, SentInv, AwayInv
<1>7. QED
  BY <1>3, <1>4, <1>5, <1>6 DEF PagesInv

\* A step of the page of c, to the state s, that may send the frame f.
LEMMA PagePages ==
  ASSUME TypeOK, PagesInv, NEW c \in Clients, NEW s, NEW f, Show(c, s), UNCHANGED pairs,
         s # "away",
         \A d \in Clients \ {c} : pc'[d] = pc[d],
         \A d \in Clients : \A x : InQueue(x, outbox'[d]) => InQueue(x, outbox[d]),
         \A d \in Clients : \A x : InQueue(x, inbox'[d]) => InQueue(x, inbox[d]) \/ (d = c /\ x = f),
         f \notin {"host", "guest"},
         \A v \in Verdicts : f = v => IsHost(c) /\ s = Kind(v),
         page[c] \notin Playing \cup {"left"} \/ s = "left",
         s \in {"offering", "toAnswer", "deciding"} => IsHost(c),
         s \in {"toOffer", "answering", "following", "meeting"} => IsGuest(c),
         s = "meeting" => HostPlays(c, "p2p"),
         s \in Playing => IsHost(c) \/ HostPlays(c, s)
  PROVE  PagesInv'
<1>1. page \in [Clients -> PageStates] /\ page' = [page EXCEPT ![c] = s]
      /\ \A met \in pairs : met.host \in Clients
  BY DEF TypeOK, Show, Pair
<1>2. \A d : (IsHost(d)' <=> IsHost(d)) /\ (IsGuest(d)' <=> IsGuest(d))
  BY DEF IsHost, IsGuest
<1>3. \A g : \A k \in Playing : HostPlays(g, k) => HostPlays(g, k)'
  BY <1>1 DEF HostPlays, Playing
<1>4. RoleInv'
  BY <1>1, <1>2 DEF PagesInv, RoleInv, SentInv
<1>5. VerdictInv'
  <2> SUFFICES ASSUME NEW d \in Clients, NEW v \in Verdicts
               PROVE  /\ InQueue(v, inbox'[d]) => IsHost(d)' /\ page'[d] \in {Kind(v), "left"}
                      /\ InQueue(v, outbox'[d]) => HostPlays(d, Kind(v))'
    BY DEF VerdictInv, Kind
  <2>1. InQueue(v, inbox[d]) => IsHost(d) /\ page[d] \in {Kind(v), "left"}
    BY DEF PagesInv, VerdictInv
  <2>2. InQueue(v, outbox[d]) => HostPlays(d, Kind(v))
    BY DEF PagesInv, VerdictInv
  <2>3. Kind(v) \in Playing
    BY DEF Kind, Playing
  <2>4. InQueue(v, outbox'[d]) => HostPlays(d, Kind(v))'
    BY <1>3, <2>2, <2>3
  <2>5. InQueue(v, inbox'[d]) => IsHost(d)' /\ page'[d] \in {Kind(v), "left"}
    BY <1>1, <1>2, <2>1, <2>3
  <2>6. QED
    BY <2>4, <2>5
<1>6. PlayInv'
  <2> SUFFICES ASSUME NEW d \in Clients, NEW k \in Playing
               PROVE  /\ page'[d] = "meeting" => HostPlays(d, "p2p")'
                      /\ page'[d] = k => IsHost(d)' \/ HostPlays(d, k)'
    BY DEF PlayInv, HostPlays, Playing
  <2>1. CASE d = c
    BY <1>1, <1>2, <1>3, <2>1 DEF Playing
  <2>2. CASE d # c
    BY <1>1, <1>2, <1>3, <2>2 DEF PagesInv, PlayInv, Playing
  <2>3. QED
    BY <2>1, <2>2
<1>7. SentInv'
  BY DEF PagesInv, SentInv
<1>8. AwayInv'
  BY <1>1 DEF PagesInv, AwayInv
<1>9. QED
  BY <1>4, <1>5, <1>6, <1>7, <1>8 DEF PagesInv

\* Nothing wakes a handler whose client has not come.
LEMMA OffStays ==
  ASSUME TypeOK, ServerNext, NEW d \in Clients, pc[d] = "off"
  PROVE  pc'[d] = "off"
<1>1. ASSUME NEW t \in Threads, pc[t] # "off", UNCHANGED pc \/ \E label : Goto(t, label)
      PROVE  pc'[d] = "off"
  BY <1>1 DEF TypeOK, Goto, Threads
<1>2. ASSUME NEW c \in Clients, Handler(c) \/ MeasureRTT(c)
      PROVE  pc'[d] = "off"
  <2>1. c \in Threads
    BY DEF Threads
  <2>2. pc[c] # "off"
    BY <1>2 DEF Handler, MeasureRTT, Join, ReadClock, Enqueue, Relay, ReadFails, HangUp, Unregister,
                CloseNow
  <2>3. UNCHANGED pc \/ \E label : Goto(c, label)
    BY <1>2 DEF Handler, MeasureRTT, Join, ReadClock, Enqueue, Relay, ReadFails, HangUp, Unregister,
                CloseNow
  <2>4. QED
    BY <1>1, <2>1, <2>2, <2>3
<1>3. ASSUME NEW t \in Threads, Sweep(t) \/ Pick(t) \/ Picked(t) \/ Introduce(t)
      PROVE  pc'[d] = "off"
  <2>1. pc[t] # "off"
    BY <1>3 DEF Sweep, Pick, Picked, Introduce, TellHost, TellGuest, HandHost, HandGuest
  <2>2. UNCHANGED pc \/ \E label : Goto(t, label)
    BY <1>3 DEF Sweep, Pick, Picked, Introduce, TellHost, TellGuest, HandHost, HandGuest, Unpaired,
                NextPair
  <2>3. QED
    BY <1>1, <2>1, <2>2
<1>4. CASE Pass
  BY <1>4 DEF Pass
<1>5. QED
  BY <1>2, <1>3, <1>4 DEF ServerNext

\* The relay forwards a verdict from a host to its own guest.
LEMMA RelayDue ==
  ASSUME TypeOK, ServerInv, PagesInv, NEW c \in Clients, Relay(c), NEW p \in peerOf(c)
  PROVE  Head(inbox[c]) \in Frames /\ Due(Head(inbox[c]), p) /\ p \in Clients
<1> DEFINE f == Head(inbox[c])
<1>1. f \in Frames /\ InQueue(f, inbox[c])
  BY InHead DEF TypeOK, Relay
<1>2. p \in peer[c] \cup paired[c] /\ p \in Clients
  BY DEF peerOf, TypeOK
<1>3. [host |-> c, guest |-> p] \in pairs \/ [host |-> p, guest |-> c] \in pairs
  BY <1>2 DEF ServerInv, OnePairEach
<1> HIDE DEF f
<1>4. f # "host" /\ f # "guest"
  BY <1>1 DEF PagesInv, SentInv
<1>5. ASSUME NEW v \in Verdicts, f = v
      PROVE  HostPlays(p, Kind(v))
  <2>1. IsHost(c) /\ page[c] \in {Kind(v), "left"}
    BY <1>1, <1>5 DEF PagesInv, VerdictInv
  <2>2. PICK met \in pairs : met.host = c
    BY <2>1 DEF IsHost
  <2>3. [host |-> p, guest |-> c] \notin pairs
    BY <2>2, OneRole DEF ServerInv
  <2>4. QED
    BY <1>3, <2>1, <2>3 DEF HostPlays
<1>6. QED
  BY <1>1, <1>2, <1>4, <1>5 DEF Due, f

\* Every step of the server keeps what the frames say.
LEMMA ServerNextPages ==
  ASSUME TypeOK, ServerInv, PagesInv, ServerNext, UNCHANGED page
  PROVE  PagesInv'
<1>0. \A c \in Clients : pc[c] = "off" => pc'[c] = "off"
  BY OffStays
<1>1. ASSUME UNCHANGED <<inbox, outbox>>, pairs \subseteq pairs'
      PROVE  PagesInv'
  BY <1>0, <1>1, ServerPages
<1>2. ASSUME NEW c \in Clients, Relay(c)
      PROVE  PagesInv'
  <2>1. /\ UNCHANGED pairs /\ inbox \in [Clients -> Seq(Frames)] /\ inbox[c] # <<>>
        /\ inbox' = [inbox EXCEPT ![c] = Tail(@)]
    BY <1>2 DEF Relay, TypeOK
  <2>2. \A d \in Clients : \A f : InQueue(f, inbox'[d]) => InQueue(f, inbox[d])
    BY <2>1, ReadFrames
  <2>3. \A d \in Clients : \A f : InQueue(f, outbox'[d]) => InQueue(f, outbox[d]) \/ Due(f, d)
    <3>1. CASE UNCHANGED outbox
      BY <3>1
    <3>2. ASSUME NEW p \in peerOf(c), Written(p, Head(inbox[c])),
                 NEW d \in Clients, NEW f, InQueue(f, outbox'[d])
          PROVE  InQueue(f, outbox[d]) \/ Due(f, d)
      <4>1. Head(inbox[c]) \in Frames /\ Due(Head(inbox[c]), p) /\ p \in Clients
        BY <1>2, RelayDue
      <4>2. InQueue(f, outbox[d]) \/ (d = p /\ f = Head(inbox[c]))
        BY <3>2, <4>1, WrittenFrames
      <4>3. QED
        BY <4>1, <4>2
    <3>3. QED
      BY <1>2, <3>1, <3>2 DEF Relay
  <2>4. QED
    BY <1>0, <2>1, <2>2, <2>3, ServerPages
<1>3. ASSUME NEW c \in Clients, Handler(c) \/ MeasureRTT(c)
      PROVE  PagesInv'
  <2>1. Join(c) => pairs \subseteq pairs'
    BY DEF Join
  <2>2. CASE Relay(c)
    BY <1>2, <2>2
  <2>3. CASE ~Relay(c)
    <3>1. UNCHANGED <<inbox, outbox>>
      BY <1>3, <2>3 DEF Handler, MeasureRTT, Join, ReadClock, Enqueue, ReadFails, HangUp, Unregister,
                        CloseNow, sockets
    <3>2. pairs \subseteq pairs'
      BY <1>3, <2>1, <2>3 DEF Handler, MeasureRTT, ReadClock, Enqueue, ReadFails, HangUp, Unregister,
                              CloseNow
    <3>3. QED
      BY <1>1, <3>1, <3>2
  <2>4. QED
    BY <2>2, <2>3
<1>4. ASSUME NEW t \in Threads, Sweep(t) \/ Pick(t) \/ Picked(t)
      PROVE  PagesInv'
  <2>1. UNCHANGED <<inbox, outbox>> /\ pairs \subseteq pairs'
    BY <1>4 DEF Sweep, Pick, Picked, sockets
  <2>2. QED
    BY <1>1, <2>1
<1>5. ASSUME NEW t \in Threads, Introduce(t)
      PROVE  PagesInv'
  <2>1. UNCHANGED inbox /\ UNCHANGED pairs
    BY <1>5 DEF Introduce, TellHost, TellGuest, HandHost, HandGuest, AtPair
  <2>2. CASE HandHost(t) \/ HandGuest(t)
    BY <1>1, <2>1, <2>2 DEF HandHost, HandGuest
  <2>3. ASSUME NEW c \in Clients, NEW role \in {"host", "guest"}, Due(role, c),
               Written(c, role) \/ UNCHANGED outbox
        PROVE  PagesInv'
    <3>1. role \in Frames
      BY DEF Frames
    <3>2. \A d \in Clients : \A f : InQueue(f, outbox'[d]) => InQueue(f, outbox[d]) \/ Due(f, d)
      <4> SUFFICES ASSUME NEW d \in Clients, NEW f, InQueue(f, outbox'[d])
                   PROVE  InQueue(f, outbox[d]) \/ Due(f, d)
        OBVIOUS
      <4>1. InQueue(f, outbox[d]) \/ (d = c /\ f = role)
        BY <2>3, <3>1, WrittenFrames
      <4>2. QED
        BY <2>3, <4>1
    <3>3. QED
      BY <1>0, <2>1, <3>2, ServerPages
  <2>4. CASE TellHost(t)
    <3>1. pc[t] \in Telling
      BY <2>4 DEF TellHost, Telling, Sweeping
    <3>2. Head(work[t]) \in pairs /\ Head(work[t]).host \in Clients
      BY <3>1, HeadOfWork
    <3>3. Due("host", Head(work[t]).host)
      BY <3>2 DEF Due, IsHost, Verdicts
    <3>4. QED
      BY <2>3, <2>4, <3>2, <3>3 DEF TellHost
  <2>5. CASE TellGuest(t)
    <3>1. pc[t] \in Telling
      BY <2>5 DEF TellGuest, Telling, Sweeping
    <3>2. Head(work[t]) \in pairs /\ Head(work[t]).guest \in Clients
      BY <3>1, HeadOfWork
    <3>3. Due("guest", Head(work[t]).guest)
      BY <3>2 DEF Due, IsGuest, Verdicts
    <3>4. QED
      BY <2>3, <2>5, <3>2, <3>3 DEF TellGuest
  <2>6. QED
    BY <1>5, <2>2, <2>4, <2>5 DEF Introduce
<1>6. CASE Pass
  BY <1>1, <1>6 DEF Pass, sockets
<1>7. QED
  BY <1>3, <1>4, <1>5, <1>6 DEF ServerNext

\* Every step of a page does.
LEMMA PageNextPages ==
  ASSUME TypeOK, PagesInv, NEW c \in Clients, Open(c) \/ Page(c) \/ ChannelOpens(c) \/ Leave(c)
  PROVE  PagesInv'
<1> USE DEF OnPage, server, sockets
<1>1. ASSUME NEW s \in PageStates \ {"away"}, Show(c, s), UNCHANGED pairs,
             \A d \in Clients \ {c} : pc'[d] = pc[d],
             UNCHANGED <<inbox, outbox>>, page[c] \notin Playing \cup {"left"} \/ s = "left",
             s \in {"opening", "failed", "mute", "left"} \/ (s = "p2p" /\ page[c] = "meeting")
      PROVE  PagesInv'
  <2>1. s = "p2p" => HostPlays(c, s)
    BY <1>1 DEF PagesInv, PlayInv
  <2>2. s # "away" /\ s \notin {"offering", "toAnswer", "deciding", "toOffer", "answering", "following", "meeting"}
        /\ (s \in Playing => s = "p2p")
    BY <1>1 DEF Playing
  <2> DEFINE f == "offer"
  <2>3. f \notin {"host", "guest"} /\ \A v \in Verdicts : f # v
    BY DEF Verdicts
  <2> HIDE DEF f
  <2>4. QED
    BY <1>1, <2>1, <2>2, <2>3, PagePages
<1>2. CASE Open(c)
  <2>1. page[c] \notin Playing \cup {"left"} /\ {"opening", "failed"} \subseteq PageStates \ {"away"}
    BY <1>2 DEF Open, Playing, PageStates
  <2>2. \A d \in Clients \ {c} : pc'[d] = pc[d]
    BY <1>2 DEF Open, Goto, TypeOK, Threads
  <2>3. QED
    BY <1>1, <1>2, <2>1, <2>2 DEF Open
<1>3. CASE Take(c)
  <2> DEFINE g == Head(outbox[c])
             s == AfterFrame(page[c], g)
  <2>1. /\ UNCHANGED <<pairs, pc, inbox>> /\ Show(c, s) /\ outbox[c] # <<>>
        /\ outbox' = [outbox EXCEPT ![c] = Tail(@)] /\ outbox \in [Clients -> Seq(Frames)]
    BY <1>3 DEF Take, TypeOK
  <2>2. \A d \in Clients : \A x : InQueue(x, outbox'[d]) => InQueue(x, outbox[d])
    BY <2>1, ReadFrames
  <2>3. page[c] \notin Playing \cup {"left"}
    BY <1>3 DEF Take, Expects, Playing
  <2>4. InQueue(g, outbox[c]) /\ g \in Frames
    BY <2>1, InHead
  <2> HIDE DEF g
  <2>5. \/ s = "offering" /\ g = "host"
        \/ s = "toOffer" /\ g = "guest"
        \/ s = "answering" /\ page[c] = "toOffer"
        \/ s = "deciding" /\ page[c] = "toAnswer"
        \/ s = "meeting" /\ g = "useP2p"
        \/ s = "relay" /\ g = "useRelay"
        \/ s = "failed"
    BY <2>4 DEF AfterFrame, Expects, Frames
  <2>6. /\ g = "host" \/ page[c] = "toAnswer" => IsHost(c)
        /\ g = "guest" \/ page[c] = "toOffer" => IsGuest(c)
    BY <2>4 DEF PagesInv, RoleInv
  <2>7. g = "useP2p" => HostPlays(c, "p2p")
    BY <2>4 DEF PagesInv, VerdictInv, Verdicts, Kind
  <2>8. g = "useRelay" => HostPlays(c, "relay")
    BY <2>4 DEF PagesInv, VerdictInv, Verdicts, Kind
  <2>9. HostPlays(c, "p2p") => IsGuest(c)
    BY DEF HostPlays, IsGuest
  <2> HIDE DEF s
  <2>10. /\ s # "away"
         /\ s \in {"offering", "toAnswer", "deciding"} => IsHost(c)
         /\ s \in {"toOffer", "answering", "following", "meeting"} => IsGuest(c)
         /\ s = "meeting" => HostPlays(c, "p2p")
         /\ s \in Playing => IsHost(c) \/ HostPlays(c, s)
    BY <2>5, <2>6, <2>7, <2>8, <2>9 DEF Playing
  <2> DEFINE f == "offer"
  <2>11. f \notin {"host", "guest"} /\ \A v \in Verdicts : f # v
    BY DEF Verdicts
  <2> HIDE DEF f
  <2>12. QED
    BY <2>1, <2>2, <2>3, <2>10, <2>11, PagePages
<1>4. ASSUME NEW s, NEW f \in Frames, Show(c, s), SentOn(c, f), UNCHANGED <<pairs, pc, outbox>>,
             \/ page[c] = "offering" /\ s = "toAnswer" /\ f = "offer"
             \/ page[c] = "answering" /\ s = "following" /\ f = "answer"
             \/ page[c] = "deciding" /\ s = "p2p" /\ f = "useP2p"
             \/ page[c] = "deciding" /\ s = "relay" /\ f = "useRelay"
      PROVE  PagesInv'
  <2>1. \A d \in Clients : \A x : InQueue(x, inbox'[d]) => InQueue(x, inbox[d]) \/ (d = c /\ x = f)
    BY <1>4, SentFrames
  <2>2. /\ page[c] \in {"offering", "deciding"} => IsHost(c)
        /\ page[c] = "answering" => IsGuest(c)
    BY DEF PagesInv, RoleInv
  <2>3. f \notin {"host", "guest"} /\ \A v \in Verdicts : f = v => IsHost(c) /\ s = Kind(v)
    BY <1>4, <2>2 DEF Verdicts, Kind
  <2>4. /\ s # "away" /\ page[c] \notin Playing \cup {"left"}
        /\ s \in {"offering", "toAnswer", "deciding"} => IsHost(c)
        /\ s \in {"toOffer", "answering", "following", "meeting"} => IsGuest(c)
        /\ s # "meeting"
        /\ s \in Playing => IsHost(c)
    BY <1>4, <2>2 DEF Playing
  <2>5. QED
    BY <1>4, <2>1, <2>3, <2>4, PagePages
<1>5. CASE Signal(c)
  <2>1. CASE page[c] \in {"offering", "answering"} /\ Show(c, "mute") /\ UNCHANGED inbox
    <3>1. page[c] \notin Playing \cup {"left"} /\ "mute" \in PageStates \ {"away"}
      BY <2>1 DEF Playing, PageStates
    <3>2. QED
      BY <1>1, <1>5, <2>1, <3>1 DEF Signal
  <2>2. QED
    BY <1>4, <1>5, <2>1 DEF Signal, Frames
<1>6. CASE Decide(c)
  <2>1. CASE page[c] = "deciding" /\ Show(c, "failed") /\ UNCHANGED inbox
    <3>1. page[c] \notin Playing \cup {"left"} /\ "failed" \in PageStates \ {"away"}
      BY <2>1 DEF Playing, PageStates
    <3>2. QED
      BY <1>1, <1>6, <2>1, <3>1 DEF Decide
  <2>2. QED
    BY <1>4, <1>6, <2>1 DEF Decide, Frames
<1>7. CASE Meet(c)
  <2>1. page[c] = "meeting" /\ page[c] \notin Playing \cup {"left"}
        /\ {"p2p", "failed"} \subseteq PageStates \ {"away"}
    BY <1>7 DEF Meet, Playing, PageStates
  <2>2. QED
    BY <1>1, <1>7, <2>1 DEF Meet
<1>8. CASE GiveUp(c)
  <2>1. page[c] \notin Playing \cup {"left"} /\ "failed" \in PageStates \ {"away"}
    BY <1>8 DEF GiveUp, Playing, PageStates
  <2>2. QED
    BY <1>1, <1>8, <2>1 DEF GiveUp
<1>9. CASE ChannelOpens(c)
  BY <1>9 DEF ChannelOpens, PagesInv, RoleInv, VerdictInv, PlayInv, SentInv, AwayInv, HostPlays,
              IsHost, IsGuest
<1>10. CASE Leave(c)
  <2>1. "left" \in PageStates \ {"away"}
    BY DEF PageStates
  <2>2. QED
    BY <1>1, <1>10, <2>1 DEF Leave
<1>11. QED
  BY <1>2, <1>3, <1>5, <1>6, <1>7, <1>8, <1>9, <1>10 DEF Page

(***************************************************************************)
(* The invariant, and what follows.                                        *)
(***************************************************************************)
LEMMA NextServer ==
  ASSUME TypeOK, ServerInv, PagesInv, Next
  PROVE  ServerInv'
<1>1. ASSUME NEW c \in Clients, Page(c) \/ ChannelOpens(c) \/ Leave(c)
      PROVE  ServerInv'
  <2>1. UNCHANGED <<rooms, queue, pc, work, paired, peer, pairs, place>>
    BY <1>1 DEF Page, Take, Signal, Decide, Meet, GiveUp, ChannelOpens, Leave, OnPage, server
  <2>2. QED
    BY <2>1, ServerKept
<1>2. ASSUME NEW c \in Clients, Open(c)
      PROVE  ServerInv'
  <2>1. pc[c] = "off"
    BY <1>2 DEF PagesInv, AwayInv, Open
  <2>2. QED
    BY <1>2, <2>1, OpenServer
<1>3. ASSUME NEW c \in Clients, Handler(c)
      PROVE  ServerInv'
  BY <1>3, JoinServer, ReadClockServer, EnqueueServer, RelayServer, ReadFailsServer, HangUpServer,
     UnregisterServer, CloseNowServer DEF Handler
<1>4. ASSUME NEW c \in Clients, MeasureRTT(c)
      PROVE  ServerInv'
  BY <1>4, ServerKept DEF MeasureRTT
<1>5. ASSUME NEW t \in Threads, Sweep(t) \/ Pick(t) \/ Picked(t) \/ Introduce(t)
      PROVE  ServerInv'
  BY <1>5, SweepServer, PickServer, PickedServer, TellServer, HandServer DEF Introduce
<1>6. CASE Pass
  BY <1>6, ServerKept DEF Pass
<1>7. QED
  BY <1>1, <1>2, <1>3, <1>4, <1>5, <1>6 DEF Next, ServerNext

LEMMA NextType ==
  ASSUME TypeOK, ServerInv, Next
  PROVE  TypeOK'
<1>1. ASSUME NEW c \in Clients, Open(c) \/ Page(c) \/ ChannelOpens(c) \/ Leave(c)
      PROVE  TypeOK'
  BY <1>1, PageType
<1>2. CASE ServerNext /\ UNCHANGED <<page, channel, leaves>>
  BY <1>2, HandlerType, SweepType, IntroduceType, PassType DEF ServerNext
<1>3. QED
  BY <1>1, <1>2 DEF Next

LEMMA NextPages ==
  ASSUME TypeOK, ServerInv, PagesInv, Next
  PROVE  PagesInv'
  BY PageNextPages, ServerNextPages DEF Next

LEMMA StutterIInv ==
  ASSUME IInv, UNCHANGED vars
  PROVE  IInv'
<1> USE DEF vars, server, sockets
<1>1. TypeOK'
  BY DEF IInv, TypeOK
<1>2. ServerInv'
  BY ServerKept DEF IInv
<1>3. PagesInv'
  BY DEF IInv, PagesInv, RoleInv, VerdictInv, PlayInv, SentInv, AwayInv, HostPlays, IsHost, IsGuest
<1>4. QED
  BY <1>1, <1>2, <1>3 DEF IInv

\* The three parts are kept by every step of the server, of a page and of a
\* data channel, together: each rests on the others.
THEOREM RoomsInvariant == Spec => []IInv
<1>1. ASSUME IInv, Next PROVE IInv'
  BY <1>1, NextType, NextServer, NextPages DEF IInv
<1>2. IInv /\ [Next]_vars => IInv'
  BY <1>1, StutterIInv
<1>3. QED
  BY InitIInv, <1>2, PTL DEF Spec

\* Every variable of the meeting place and of the pages keeps its range, for
\* any set of clients; a channel never holds two sockets.
THEOREM TypeCorrect == Spec => []TypeOK
<1>1. IInv => TypeOK
  BY DEF IInv
<1>2. QED
  BY <1>1, RoomsInvariant, PTL

\* Nobody is chosen twice, whoever sweeps, joins, leaves or is hung up on in
\* the meantime, and a handler is only ever handed its partner's socket.
THEOREM PairsDisjoint == Spec => []OnePairEach
<1>1. IInv => OnePairEach
  BY DEF IInv, ServerInv
<1>2. QED
  BY <1>1, RoomsInvariant, PTL

\* Whoever waits in its relay loop without a partner is where the next one
\* looks, under its code or in its queue.
THEOREM WaitersAreFound == Spec => []WaitersFindable
<1>1. IInv => WaitersFindable
  <2> SUFFICES ASSUME IInv, NEW c \in Clients, pc[c] = "relay", \A met \in pairs : c \notin Ends(met)
               PROVE  IF place[c] \in Codes THEN c \in rooms[place[c]] ELSE c \in queue[place[c]]
    BY DEF WaitersFindable
  <2>1. place[c] \in Codes \cup Modes
    BY DEF IInv, ServerInv, PlaceInv
  <2>2. ~Chosen(c) /\ pc[c] \in Served
    BY DEF Chosen, Served
  <2>3. QED
    BY <2>1, <2>2 DEF IInv, ServerInv, FoundInv
<1>2. QED
  BY <1>1, RoomsInvariant, PTL

\* Two pages of one pair that both play do so on the same transport, whatever
\* the channel did at either end, whoever timed out and whoever was hung up on.
THEOREM TransportsAgree == Spec => []OneTransport
<1>1. IInv => OneTransport
  <2> SUFFICES ASSUME IInv, NEW met \in pairs, page[met.host] \in Playing, page[met.guest] \in Playing
               PROVE  page[met.host] = page[met.guest]
    BY DEF OneTransport
  <2>1. met.guest \in Clients /\ OnePairEach
    BY DEF IInv, TypeOK, ServerInv, Pair
  <2>2. ~IsHost(met.guest)
    BY <2>1, OneRole DEF IsHost
  <2>3. HostPlays(met.guest, page[met.guest])
    BY <2>1, <2>2 DEF IInv, PagesInv, PlayInv
  <2>4. PICK m \in pairs : m.guest = met.guest /\ page[m.host] \in {page[met.guest], "left"}
    BY <2>3 DEF HostPlays
  <2>5. m = met
    BY <2>1, <2>4, OneRole
  <2>6. QED
    BY <2>4, <2>5 DEF Playing
<1>2. QED
  BY <1>1, RoomsInvariant, PTL
=============================================================================
