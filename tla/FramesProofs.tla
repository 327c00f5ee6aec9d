---------------------------- MODULE FramesProofs ----------------------------
(***************************************************************************)
(* No page is ever sent a frame it cannot use (FramesFit), for every set   *)
(* of clients.  The server hands the two ends of a pair to each other only *)
(* after both have been told their roles, but a role is written by the     *)
(* thread that introduces and the other end's frames by the handler of     *)
(* that end, and a frame may have been under way for long when either      *)
(* writes.  FrameInv, on top of the invariant of RoomsProofs, says how far *)
(* an introduction has come (TellInv, HandedInv), that nothing is under    *)
(* way at a client nobody has chosen (QuietInv), that the role comes first *)
(* (FirstInv), and which frames can be under way between two pages in      *)
(* their states (StreamInv).                                               *)
(***************************************************************************)
EXTENDS RoomsProofs

\* What a page shows before it has read its role, or after it has given up.
Fresh == {"away", "opening", "failed", "mute", "left"}
\* The frames that tell a page which end it is.
Roles == {"host", "guest"}

\* Labels of an introduction that has told the host.
Handshake == {"tellGuest", "handHost", "handGuest"}

\* No handler has been given the client's socket.
Unhanded(c) == \A d \in Clients : c \notin Handed(d)

\* Nothing has been written to the client, and nothing can be but its role.
Untold(c) == outbox[c] = <<>> /\ page[c] \in Fresh /\ Unhanded(c)

\* A page that waits for its role has it under way.
Told(c) == page[c] = "opening" /\ conn[c] = "open" => outbox[c] # <<>>

\* The ends of the i-th pair of a thread that are still to be told.
ToTell(t, i) ==
  IF i > 1 \/ pc[t] \notin Handshake THEN Ends(work[t][i])
  ELSE IF pc[t] = "tellGuest" THEN {work[t][1].guest} ELSE {}

\* Only a thread that sweeps or introduces has pairs before it.
WorkIdle == \A t \in Threads : pc[t] \notin Sweeping => work[t] = <<>>

\* No pair is in the work of two threads, nor twice in the work of one.
WorkDistinct ==
  \A t, u \in Threads : \A i \in 1 .. Len(work[t]) : \A j \in 1 .. Len(work[u]) :
    work[t][i] = work[u][j] => t = u /\ i = j

\* An end that is still to be told has heard nothing.
ToTellInv ==
  \A t \in Threads : \A i \in 1 .. Len(work[t]) : \A c \in ToTell(t, i) : Untold(c)

\* The sockets are handed over only once both ends have been told.
ToldInv ==
  \A t \in Threads :
    /\ pc[t] \in Handshake => Told(work[t][1].host)
    /\ pc[t] \in {"handHost", "handGuest"} => Told(work[t][1].guest)

\* How far every introduction has come.
TellInv == WorkIdle /\ WorkDistinct /\ ToTellInv /\ ToldInv

\* A client whose socket is in another's hands has been told its role.
HandedInv == \A c \in Clients : \A p \in Handed(c) : Told(p)

\* Nothing is under way at a client nobody has chosen.
QuietInv == \A c \in Clients : ~Chosen(c) => inbox[c] = <<>> /\ outbox[c] = <<>>

\* The role comes first and once.
FirstInv ==
  \A c \in Clients :
    /\ page[c] = "opening" /\ outbox[c] # <<>> => Head(outbox[c]) \in Roles
    /\ \A i \in 1 .. Len(outbox[c]) : outbox[c][i] \in Roles => i = 1 /\ page[c] \in Fresh

\* Sent by h and not read by the page of g.
OnWire(f, h, g) == InQueue(f, outbox[g]) \/ InQueue(f, inbox[h])

\* What a guest shows once it has answered, what a host shows once it has offered.
Answered == {"following", "meeting", "failed", "left"} \cup Playing
Offered == {"toAnswer", "deciding", "failed", "left"} \cup Playing

\* How many frames are between the host and the page of its guest.
UnderWay(h, g) == Len(outbox[g]) + Len(inbox[h])

\* Which frames there are in the four queues between a host and its guest.
KindsOK(h, g) ==
  /\ \A f : InQueue(f, outbox[g]) => f \in {"guest", "offer"} \cup Verdicts
  /\ \A f : InQueue(f, inbox[h]) => f \in {"offer"} \cup Verdicts
  /\ \A f : InQueue(f, outbox[h]) => f \in {"host", "answer"}
  /\ \A f : InQueue(f, inbox[g]) => f = "answer"

\* What the frames under way, and each page, say of the pages.
WireOK(h, g) ==
  /\ OnWire("offer", h, g) => page[h] \in Offered /\ page[g] \in Fresh \cup {"toOffer"}
  /\ \A v \in Verdicts : OnWire(v, h, g) => page[g] \in Answered
  /\ OnWire("answer", g, h) => page[g] \in Answered
  /\ page[h] \in {"deciding"} \cup Playing => page[g] \in Answered
  /\ page[g] \in {"answering", "following", "meeting"} \cup Playing => page[h] \in Offered

\* Behind the role there is the offer at most until the guest has taken it.
FewOK(h, g) ==
  /\ page[g] = "toOffer" => UnderWay(h, g) <= 1
  /\ page[g] = "opening" => UnderWay(h, g) <= IF outbox[g] = <<>> THEN 1 ELSE 2

\* The frames under way between two pages fit the states of the two.
StreamOK(h, g) == KindsOK(h, g) /\ WireOK(h, g) /\ FewOK(h, g)

\* ... and do so for every pair.
StreamInv == \A met \in pairs : StreamOK(met.host, met.guest)

\* The inductive invariant, on top of the one of the rooms.
FrameInv == TellInv /\ HandedInv /\ QuietInv /\ FirstInv /\ StreamInv

(***************************************************************************)
(* Sequences of frames.                                                    *)
(***************************************************************************)
\* A queue in which nothing is found is empty.
LEMMA NothingInQueue ==
  ASSUME NEW S, NEW q \in Seq(S), \A f \in S : ~InQueue(f, q)
  PROVE  q = <<>>
  BY InHead

\* Lengths and heads after a frame was written or read.
LEMMA Lengths ==
  ASSUME NEW S, NEW q \in Seq(S), NEW x \in S
  PROVE  /\ Len(q) \in Nat /\ (q = <<>> <=> Len(q) = 0)
         /\ Len(Append(q, x)) = Len(q) + 1 /\ Append(q, x) # <<>>
         /\ q # <<>> => Len(Tail(q)) = Len(q) - 1 /\ Head(Append(q, x)) = Head(q)
         /\ Head(Append(<<>>, x)) = x
<1>1. Len(q) \in Nat /\ (q = <<>> <=> Len(q) = 0)
  OBVIOUS
<1>2. Len(Append(q, x)) = Len(q) + 1 /\ Append(q, x) # <<>>
  <2>1. Len(Append(q, x)) = Len(q) + 1 /\ Append(q, x) \in Seq(S)
    OBVIOUS
  <2>2. Len(<<>>) = 0
    OBVIOUS
  <2>3. QED
    BY <1>1, <2>1, <2>2
<1>3. ASSUME q # <<>> PROVE Len(Tail(q)) = Len(q) - 1
  BY <1>1, <1>3
<1>4. q # <<>> => Head(Append(q, x)) = Head(q)
  <2>1. q # <<>> => 1 \in 1 .. Len(q)
    BY <1>1
  <2>2. \A i \in 1 .. Len(q) : Append(q, x)[i] = q[i]
    OBVIOUS
  <2>3. QED
    BY <2>1, <2>2, <1>2
<1>5. Head(Append(<<>>, x)) = x
  <2>1. Append(<<>>, x) = <<x>>
    OBVIOUS
  <2>2. QED
    BY <2>1
<1>6. QED
  BY <1>1, <1>2, <1>3, <1>4, <1>5

\* An element of a list after one was added, or after the first was removed.
LEMMA Entries ==
  ASSUME NEW S, NEW q \in Seq(S), NEW x \in S
  PROVE  /\ \A i \in 1 .. Len(Append(q, x)) :
              Append(q, x)[i] = IF i = Len(q) + 1 THEN x ELSE q[i]
         /\ q # <<>> => \A i \in 1 .. Len(Tail(q)) : i + 1 \in 2 .. Len(q) /\ Tail(q)[i] = q[i + 1]
<1>1. \A i \in 1 .. Len(Append(q, x)) :
        Append(q, x)[i] = IF i = Len(q) + 1 THEN x ELSE q[i]
  OBVIOUS
<1>2. q # <<>> => \A i \in 1 .. Len(Tail(q)) : i + 1 \in 2 .. Len(q) /\ Tail(q)[i] = q[i + 1]
  OBVIOUS
<1>3. QED
  BY <1>1, <1>2

(***************************************************************************)
(* Clients nobody has chosen.                                              *)
(***************************************************************************)
\* A page whose client has no partner has not read a role.
LEMMA UnchosenFresh ==
  ASSUME TypeOK, PagesInv, NEW c \in Clients, ~Chosen(c)
  PROVE  page[c] \in Fresh
<1>1. ~IsHost(c) /\ ~IsGuest(c) /\ \A k : ~HostPlays(c, k)
  BY DEF Chosen, Ends, IsHost, IsGuest, HostPlays
<1>2. page[c] \in PageStates
  BY DEF TypeOK
<1>3. QED
  BY <1>1, <1>2 DEF PagesInv, RoleInv, PlayInv, PageStates, Playing, Fresh

\* Whoever is handed a socket, and whose socket it is, have been chosen.
LEMMA HandedChosen ==
  ASSUME OnePairEach, NEW c \in Clients, NEW p \in Handed(c)
  PROVE  Chosen(c) /\ Chosen(p)
<1>1. [host |-> c, guest |-> p] \in pairs \/ [host |-> p, guest |-> c] \in pairs
  BY DEF OnePairEach, Handed
<1>2. QED
  BY <1>1 DEF Chosen, Ends

\* A client nobody has chosen has been told nothing.
LEMMA UnchosenUntold ==
  ASSUME TypeOK, ServerInv, PagesInv, QuietInv, NEW c \in Clients, ~Chosen(c)
  PROVE  Untold(c)
  BY UnchosenFresh, HandedChosen DEF Untold, Unhanded, QuietInv, ServerInv

\* The ends of two different pairs of the work are four clients.
LEMMA WorkApart ==
  ASSUME ServerInv, WorkDistinct, NEW t \in Threads, NEW u \in Threads,
         NEW i \in 1 .. Len(work[t]), NEW j \in 1 .. Len(work[u]), t # u \/ i # j
  PROVE  Ends(work[t][i]) \cap Ends(work[u][j]) = {}
<1>1. work[t][i] \in pairs /\ work[u][j] \in pairs
  BY DEF ServerInv, WorkInv
<1>2. work[t][i] # work[u][j]
  BY DEF WorkDistinct
<1>3. QED
  BY <1>1, <1>2 DEF ServerInv, OnePairEach

\* What a thread has before it are pairs of two chosen clients.
LEMMA InWork ==
  ASSUME TypeOK, ServerInv, NEW t \in Threads, NEW i \in 1 .. Len(work[t])
  PROVE  /\ work[t][i] \in pairs /\ work[t][i].host \in Clients /\ work[t][i].guest \in Clients
         /\ work[t][i].host # work[t][i].guest
         /\ \A c \in Ends(work[t][i]) : c \in Clients /\ Chosen(c)
<1>1. work[t][i] \in pairs
  BY DEF ServerInv, WorkInv
<1>2. work[t][i] \in Pair
  BY <1>1 DEF TypeOK
<1>3. work[t][i].host # work[t][i].guest
  BY <1>1 DEF ServerInv, OnePairEach
<1>4. QED
  BY <1>1, <1>2, <1>3 DEF Pair, Ends, Chosen

(***************************************************************************)
(* What every step keeps: a client that was told stays told, and one that  *)
(* was not stays so until a thread introduces it.                          *)
(***************************************************************************)
\* The steps of the pages: no page opens of a client that was chosen.
LEMMA ToldPage ==
  ASSUME TypeOK, ServerInv, PagesInv, NEW c \in Clients, Chosen(c), Told(c),
         NEW d \in Clients, Open(d) \/ Page(d) \/ ChannelOpens(d) \/ Leave(d)
  PROVE  Told(c)'
<1> USE DEF TypeOK, Show, sockets, server, OnPage
<1>1. CASE Open(d)
  <2>1. d # c
    BY <1>1 DEF PagesInv, AwayInv, ServerInv, PlaceInv, Open
  <2>2. UNCHANGED outbox /\ page'[c] = page[c] /\ conn'[c] = conn[c]
    BY <1>1, <2>1 DEF Open
  <2>3. QED
    BY <2>2 DEF Told
<1>2. CASE Take(d)
  <2>1. UNCHANGED conn /\ (c # d => page'[c] = page[c] /\ outbox'[c] = outbox[c])
    BY <1>2 DEF Take
  <2>2. c = d => page'[c] # "opening"
    BY <1>2 DEF Take, AfterFrame, Expects
  <2>3. QED
    BY <2>1, <2>2 DEF Told
<1>3. CASE ~Open(d) /\ ~Take(d)
  <2>1. UNCHANGED outbox /\ (page'[c] = "opening" => page[c] = "opening")
    BY <1>3 DEF Page, Signal, Decide, Meet, GiveUp, ChannelOpens, Leave
  <2>2. conn'[c] = "open" => conn[c] = "open"
    BY <1>3 DEF Page, Signal, Decide, Meet, GiveUp, ChannelOpens, Leave, PlayP2p
  <2>3. QED
    BY <2>1, <2>2 DEF Told
<1>4. QED
  BY <1>1, <1>2, <1>3

\* The steps of the server: nothing is taken back.
LEMMA ToldServer ==
  ASSUME TypeOK, NEW c \in Clients, Told(c), ServerNext, UNCHANGED page
  PROVE  Told(c)'
<1>1. conn'[c] = "open" => conn[c] = "open"
  <2>1. (\E d \in Clients : HangUp(d) \/ CloseNow(d)) \/ UNCHANGED conn
    BY DEF ServerNext, Handler, Join, ReadClock, Enqueue, Relay, ReadFails, Unregister,
           MeasureRTT, Sweep, Pick, Picked, Introduce, TellHost, TellGuest, HandHost, HandGuest, Pass,
           sockets, AtPair
  <2>2. ASSUME NEW d \in Clients, HangUp(d) \/ CloseNow(d) PROVE conn'[c] \in {conn[c], "hungup"}
    BY <2>2 DEF HangUp, CloseNow, TypeOK
  <2>3. QED
    BY <2>1, <2>2
<1>2. ASSUME NEW d \in Clients, NEW f \in Frames, Written(d, f) \/ UNCHANGED outbox, outbox[c] # <<>>
      PROVE  outbox'[c] # <<>>
  BY <1>2, Lengths DEF TypeOK, Written
<1>3. outbox[c] # <<>> => outbox'[c] # <<>>
  <2>1. CASE UNCHANGED outbox
    BY <2>1
  <2>2. ASSUME NEW d \in Clients, Relay(d), outbox[c] # <<>> PROVE outbox'[c] # <<>>
    <3>1. Head(inbox[d]) \in Frames
      BY <2>2, InHead DEF Relay, TypeOK
    <3>2. peerOf(d) \subseteq Clients
      BY DEF peerOf, TypeOK
    <3>3. QED
      BY <1>2, <2>1, <2>2, <3>1, <3>2 DEF Relay
  <2>3. ASSUME NEW t \in Threads, TellHost(t) \/ TellGuest(t), outbox[c] # <<>> PROVE outbox'[c] # <<>>
    <3>1. {"host", "guest"} \subseteq Frames
      BY DEF Frames
    <3>2. \A d, f : Written(d, f) => UNCHANGED outbox \/ outbox' = [outbox EXCEPT ![d] = Append(@, f)]
      BY DEF Written
    <3>3. \E d : \E f \in Frames : UNCHANGED outbox \/ outbox' = [outbox EXCEPT ![d] = Append(@, f)]
      BY <2>3, <3>1, <3>2, Zenon DEF TellHost, TellGuest
    <3>4. QED
      BY <2>3, <3>3, Lengths DEF TypeOK
  <2>4. QED
    BY <2>1, <2>2, <2>3 DEF ServerNext, Handler, Join, ReadClock, Enqueue, ReadFails, HangUp, Unregister,
         CloseNow, MeasureRTT, Sweep, Pick, Picked, Introduce, HandHost, HandGuest, Pass, sockets, AtPair
<1>4. QED
  BY <1>1, <1>3 DEF Told

\* A page that has been told its role does not go back to waiting for it.
LEMMA ToldStays ==
  ASSUME TypeOK, ServerInv, PagesInv, NEW c \in Clients, Chosen(c), Told(c), Next
  PROVE  Told(c)'
  BY ToldPage, ToldServer DEF Next

\* Nothing is read, sent or decided by a page that waits for its role.
LEMMA UntoldPage ==
  ASSUME TypeOK, NEW c \in Clients, Untold(c),
         NEW d \in Clients, Open(d) \/ Page(d) \/ ChannelOpens(d) \/ Leave(d)
  PROVE  Untold(c)'
<1> USE DEF TypeOK, Show, sockets, server, OnPage
<1>1. UNCHANGED <<peer, paired>>
  BY DEF Open, Page, Take, Signal, Decide, Meet, GiveUp, ChannelOpens, Leave
<1>2. Unhanded(c)'
  BY <1>1 DEF Untold, Unhanded, Handed
<1>3. outbox[c] = <<>> /\ page[c] \in Fresh
  BY DEF Untold
<1>4. outbox'[c] = outbox[c]
  BY <1>3 DEF Open, Page, Take, Signal, Decide, Meet, GiveUp, ChannelOpens, Leave
<1>5. page'[c] \in Fresh
  <2>1. CASE c # d
    BY <1>3, <2>1 DEF Open, Page, Take, Signal, Decide, Meet, GiveUp, ChannelOpens, Leave
  <2>2. CASE c = d
    BY <1>3, <2>2 DEF Open, Page, Take, Signal, Decide, Meet, GiveUp, ChannelOpens, Leave, Fresh
  <2>3. QED
    BY <2>1, <2>2
<1>6. QED
  BY <1>2, <1>3, <1>4, <1>5 DEF Untold

\* A handler writes to the client whose socket it was handed, and finds no
\* other one in its channel.
LEMMA UntoldServer ==
  ASSUME TypeOK, NEW c \in Clients, Untold(c), UNCHANGED page,
         \/ \E d \in Clients : Handler(d) \/ MeasureRTT(d)
         \/ \E t \in Threads : Sweep(t) \/ Pick(t) \/ Picked(t)
         \/ Pass
  PROVE  Untold(c)'
<1>1. \A d \in Clients : Handed(d)' \subseteq Handed(d)
  <2>1. \A e \in Clients : Resolve(e) => \A d \in Clients : Handed(d)' \subseteq Handed(d)
    BY DEF Resolve, peerOf, TypeOK, Handed
  <2>2. (\E e \in Clients : Resolve(e)) \/ UNCHANGED <<peer, paired>>
    BY DEF Handler, Join, ReadClock, Enqueue, Relay, ReadFails, HangUp, Unregister, CloseNow, MeasureRTT,
           Sweep, Pick, Picked, Pass
  <2>3. QED
    BY <2>1, <2>2 DEF Handed
<1>2. Unhanded(c)'
  BY <1>1 DEF Untold, Unhanded
<1>3. outbox'[c] = outbox[c]
  <2>1. ASSUME NEW d \in Clients, Relay(d) PROVE outbox'[c] = outbox[c]
    <3>1. c \notin peerOf(d)
      BY DEF Untold, Unhanded, Handed, peerOf
    <3>2. QED
      BY <2>1, <3>1 DEF Relay, Written, TypeOK
  <2>2. (\E d \in Clients : Relay(d)) \/ UNCHANGED outbox
    BY DEF Handler, Join, ReadClock, Enqueue, ReadFails, HangUp, Unregister, CloseNow, MeasureRTT,
           Sweep, Pick, Picked, Pass, sockets
  <2>3. QED
    BY <2>1, <2>2
<1>4. QED
  BY <1>2, <1>3 DEF Untold

\* An introduction concerns the two it introduces.
LEMMA UntoldIntroduce ==
  ASSUME TypeOK, ServerInv, NEW c \in Clients, Untold(c), UNCHANGED page,
         NEW t \in Threads, Introduce(t), c \notin Ends(Head(work[t]))
  PROVE  Untold(c)'
<1> DEFINE met == Head(work[t])
<1>1. met.host # c /\ met.guest # c
  BY DEF Ends
<1>2. met.host \in Clients /\ met.guest \in Clients
  BY HeadOfWork DEF Introduce, TellHost, TellGuest, HandHost, HandGuest, Telling, Sweeping
<1>3. outbox'[c] = outbox[c]
  BY <1>1 DEF Introduce, TellHost, TellGuest, HandHost, HandGuest, Written, TypeOK
<1>4. \A d \in Clients : Handed(d)' \subseteq Handed(d) \cup Ends(met)
  <2>1. (Hand(met.host, met.guest) \/ Hand(met.guest, met.host) \/ UNCHANGED paired) /\ UNCHANGED peer
    BY DEF Introduce, TellHost, TellGuest, HandHost, HandGuest, AtPair
  <2> HIDE DEF met
  <2>2. ASSUME NEW e \in Ends(met), NEW p \in Ends(met), Hand(e, p), NEW d \in Clients
        PROVE  paired'[d] \subseteq paired[d] \cup Ends(met)
    <3>1. paired \in [Clients -> SUBSET Clients] /\ paired' = [paired EXCEPT ![e] = {p}]
      BY <2>2 DEF TypeOK, Hand
    <3>2. CASE d = e
      BY <2>2, <3>1, <3>2
    <3>3. CASE d # e
      BY <3>1, <3>3
    <3>4. QED
      BY <3>2, <3>3
  <2>3. met.host \in Ends(met) /\ met.guest \in Ends(met)
    BY DEF Ends
  <2>4. QED
    BY <2>1, <2>2, <2>3 DEF Handed
<1>5. Unhanded(c)'
  BY <1>4 DEF Untold, Unhanded
<1>6. QED
  BY <1>3, <1>5 DEF Untold

(***************************************************************************)
(* How far the introductions have come.                                    *)
(***************************************************************************)
\* A thread that goes on with the pair at the head of its work, in the next
\* state: whoever it has told stays told.
LEMMA ToldHeads ==
  ASSUME TypeOK, ServerInv, PagesInv, ToldInv, Next, NEW t \in Threads,
         pc[t] \in Handshake, pc'[t] = pc[t], work'[t] = work[t]
  PROVE  /\ Told(work[t][1].host)'
         /\ pc[t] \in {"handHost", "handGuest"} => Told(work[t][1].guest)'
<1>1. work[t] # <<>> /\ work[t] \in Seq(Pair)
  BY HeadOfWork DEF Handshake, Telling, Sweeping
<1>2. 1 \in 1 .. Len(work[t])
  BY <1>1
<1>3. PICK h \in Clients, g \in Clients :
        h = work[t][1].host /\ g = work[t][1].guest /\ Chosen(h) /\ Chosen(g)
  BY <1>2, InWork DEF Ends
<1>4. Told(h) /\ (pc[t] \in {"handHost", "handGuest"} => Told(g))
  BY <1>3 DEF ToldInv
<1>5. Told(h)' /\ (pc[t] \in {"handHost", "handGuest"} => Told(g)')
  BY <1>3, <1>4, ToldStays
<1>6. QED
  BY <1>3, <1>5 DEF Told

\* A step that leaves the work of every thread alone.
LEMMA TellKept ==
  ASSUME TypeOK, ServerInv, PagesInv, TellInv, Next, UNCHANGED work,
         \A t \in Threads :
           /\ pc'[t] \in Handshake \/ pc[t] \in Handshake => pc'[t] = pc[t]
           /\ pc'[t] \notin Sweeping => work[t] = <<>>,
         \A c \in Clients : Untold(c) => Untold(c)'
  PROVE  TellInv'
<1>1. WorkIdle' /\ WorkDistinct'
  BY DEF TellInv, WorkIdle, WorkDistinct
<1>2. ToTellInv'
  <2> SUFFICES ASSUME NEW t \in Threads, NEW i \in 1 .. Len(work[t]), NEW c \in ToTell(t, i)'
               PROVE  Untold(c)'
    BY DEF ToTellInv
  <2>1. c \in ToTell(t, i)
    BY DEF ToTell, Ends
  <2>2. c \in Clients
    BY <2>1, InWork DEF ToTell, Ends
  <2>3. QED
    BY <2>1, <2>2 DEF TellInv, ToTellInv
<1>3. ToldInv'
  <2> SUFFICES ASSUME NEW t \in Threads, pc'[t] \in Handshake
               PROVE  /\ Told(work[t][1].host)'
                      /\ pc'[t] \in {"handHost", "handGuest"} => Told(work[t][1].guest)'
    BY DEF ToldInv, Handshake
  <2>1. pc'[t] = pc[t] /\ ToldInv /\ work'[t] = work[t]
    BY DEF TellInv
  <2>2. QED
    BY <2>1, ToldHeads
<1>4. QED
  BY <1>1, <1>2, <1>3 DEF TellInv

\* A thread goes from one point to another, neither of them in the middle of an
\* introduction.
LEMMA TellGoes ==
  ASSUME TypeOK, ServerInv, PagesInv, TellInv, Next, UNCHANGED work,
         NEW t \in Threads, NEW label, Goto(t, label) \/ UNCHANGED pc,
         pc[t] \notin Handshake, label \notin Handshake, label \notin Sweeping => work[t] = <<>>,
         \A c \in Clients : Untold(c) => Untold(c)'
  PROVE  TellInv'
<1>1. pc \in [Threads -> Labels]
  BY DEF TypeOK
<1>2. \A u \in Threads :
        /\ pc'[u] \in Handshake \/ pc[u] \in Handshake => pc'[u] = pc[u]
        /\ pc'[u] \notin Sweeping => work[u] = <<>>
  <2> SUFFICES ASSUME NEW u \in Threads
               PROVE  /\ pc'[u] \in Handshake \/ pc[u] \in Handshake => pc'[u] = pc[u]
                      /\ pc'[u] \notin Sweeping => work[u] = <<>>
    OBVIOUS
  <2>1. pc[u] \notin Sweeping => work[u] = <<>>
    BY DEF TellInv, WorkIdle
  <2>2. CASE pc'[u] = pc[u]
    BY <2>1, <2>2
  <2>3. CASE u = t /\ pc'[u] = label
    BY <2>3
  <2>4. QED
    BY <1>1, <2>2, <2>3 DEF Goto
<1>3. QED
  BY <1>2, TellKept

\* The steps of the pages.
LEMMA PageTell ==
  ASSUME TypeOK, ServerInv, PagesInv, TellInv, Next,
         NEW d \in Clients, Open(d) \/ Page(d) \/ ChannelOpens(d) \/ Leave(d)
  PROVE  TellInv'
<1>1. \A c \in Clients : Untold(c) => Untold(c)'
  BY UntoldPage
<1>2. CASE Open(d)
  <2>1. pc[d] = "off" /\ d \in Threads
    BY <1>2 DEF PagesInv, AwayInv, Open, Threads
  <2>2. PICK label \in {"joining", "done"} : Goto(d, label) /\ UNCHANGED work
    BY <1>2 DEF Open
  <2>3. work[d] = <<>>
    BY <2>1 DEF TellInv, WorkIdle, Sweeping
  <2>4. pc[d] \notin Handshake /\ label \notin Handshake
    BY <2>1 DEF Handshake
  <2>5. QED
    BY <1>1, <2>1, <2>2, <2>3, <2>4, TellGoes
<1>3. CASE ~Open(d)
  <2>1. UNCHANGED <<pc, work>>
    BY <1>3 DEF Page, Take, Signal, Decide, Meet, GiveUp, ChannelOpens, Leave, OnPage, server
  <2>2. QED
    BY <1>1, <2>1, TellKept DEF TellInv, WorkIdle
<1>4. QED
  BY <1>2, <1>3

\* The steps of the server that choose nobody and introduce nobody.
LEMMA PlainTell ==
  ASSUME TypeOK, ServerInv, PagesInv, TellInv, Next, UNCHANGED page,
         \/ \E d \in Clients : (Handler(d) /\ ~Join(d)) \/ MeasureRTT(d)
         \/ \E t \in Threads : Sweep(t) \/ Picked(t)
         \/ Pass
         \/ \E d \in Clients : Join(d) /\ UNCHANGED work
  PROVE  TellInv'
<1>1. \A c \in Clients : Untold(c) => Untold(c)'
  BY UntoldServer DEF Handler
<1>2. ASSUME NEW d \in Clients, (Handler(d) /\ ~Join(d)) \/ (Join(d) /\ UNCHANGED work)
      PROVE  TellInv'
  <2>1. d \in Threads
    BY DEF Threads
  <2>2. pc[d] \notin Sweeping /\ UNCHANGED work
    BY <1>2 DEF Handler, Join, ReadClock, Enqueue, Relay, ReadFails, HangUp, Unregister, CloseNow, Sweeping
  <2>3. work[d] = <<>>
    BY <2>1, <2>2 DEF TellInv, WorkIdle
  <2>4. PICK label \in {"relay", "tellHost", "enqueue", "sweep", "leaving", "unregister", "close", "done"} :
          Goto(d, label) \/ UNCHANGED pc
    BY <1>2 DEF Handler, Join, ReadClock, Enqueue, Relay, ReadFails, HangUp, Unregister, CloseNow
  <2>5. pc[d] \notin Handshake /\ label \notin Handshake
    BY <2>2 DEF Handshake, Sweeping
  <2>6. QED
    BY <1>1, <2>1, <2>2, <2>3, <2>4, <2>5, TellGoes
<1>3. ASSUME NEW d \in Clients, MeasureRTT(d) \/ Pass
      PROVE  TellInv'
  <2>1. UNCHANGED <<pc, work>>
    BY <1>3 DEF MeasureRTT, Pass
  <2>2. QED
    BY <1>1, <2>1, TellKept DEF TellInv, WorkIdle
<1>4. ASSUME NEW t \in Threads, Sweep(t)
      PROVE  TellInv'
  <2>1. pc[t] \notin Sweeping /\ UNCHANGED work
    BY <1>4 DEF Sweep, Sweeping
  <2>2. PICK label \in {"idle", "relay", "pick"} : Goto(t, label)
    BY <1>4 DEF Sweep, Home
  <2>3. work[t] = <<>>
    BY <2>1 DEF TellInv, WorkIdle
  <2>4. pc[t] \notin Handshake /\ label \notin Handshake
    BY <2>1 DEF Handshake, Sweeping
  <2>5. QED
    BY <1>1, <2>1, <2>2, <2>3, <2>4, TellGoes
<1>5. ASSUME NEW t \in Threads, Picked(t)
      PROVE  TellInv'
  <2> DEFINE label == IF work[t] = <<>> THEN Home(t) ELSE "tellHost"
  <2>1. Goto(t, label) /\ UNCHANGED work /\ pc[t] = "pick"
    BY <1>5 DEF Picked
  <2>2. pc[t] \notin Handshake /\ label \notin Handshake /\ (label \notin Sweeping => work[t] = <<>>)
    BY <2>1 DEF Handshake, Sweeping, Home
  <2> HIDE DEF label
  <2>3. QED
    BY <1>1, <2>1, <2>2, TellGoes
<1>6. \E d \in Clients : TRUE
  BY RoomsAssumption
<1>7. QED
  BY <1>2, <1>3, <1>4, <1>5, <1>6

\* Two whom nobody had chosen are added to the work of a thread that is not in
\* the middle of an introduction.
LEMMA TellNew ==
  ASSUME TypeOK, ServerInv, PagesInv, TellInv, QuietInv, Next, NEW t \in Threads,
         NEW met \in Pair, ~Chosen(met.host), ~Chosen(met.guest),
         work' = [work EXCEPT ![t] = Append(@, met)],
         pc[t] \notin Handshake, pc'[t] \in {"pick", "tellHost"},
         \A u \in Threads \ {t} : pc'[u] = pc[u],
         \A c \in Clients : Untold(c) => Untold(c)'
  PROVE  TellInv'
<1>1. work \in [Threads -> Seq(Pair)] /\ work[t] \in Seq(Pair)
  BY DEF TypeOK
<1>2. /\ work'[t] = Append(work[t], met)
      /\ \A u \in Threads \ {t} : work'[u] = work[u]
  BY <1>1
<1>3. \A u \in Threads : \A i \in 1 .. Len(work'[u]) :
        \/ i \in 1 .. Len(work[u]) /\ work'[u][i] = work[u][i]
        \/ u = t /\ i = Len(work[t]) + 1 /\ work'[u][i] = met
  <2> SUFFICES ASSUME NEW u \in Threads, NEW i \in 1 .. Len(work'[u])
               PROVE  \/ i \in 1 .. Len(work[u]) /\ work'[u][i] = work[u][i]
                      \/ u = t /\ i = Len(work[t]) + 1 /\ work'[u][i] = met
    OBVIOUS
  <2>1. CASE u = t
    <3>1. work'[u][i] = IF i = Len(work[t]) + 1 THEN met ELSE work[t][i]
      BY <1>1, <1>2, <2>1, Entries
    <3>2. Len(work'[u]) = Len(work[t]) + 1 /\ Len(work[t]) \in Nat
      BY <1>1, <1>2, <2>1, Lengths
    <3>3. QED
      BY <2>1, <3>1, <3>2
  <2>2. CASE u # t
    BY <1>2, <2>2
  <2>3. QED
    BY <2>1, <2>2
<1>4. met \notin pairs /\ Ends(met) \subseteq Clients /\ \A c \in Ends(met) : ~Chosen(c)
  BY DEF Chosen, Ends, Pair
<1>5. \A u \in Threads : \A i \in 1 .. Len(work[u]) : work[u][i] # met
  BY <1>4, InWork
<1>6. WorkIdle'
  BY <1>2 DEF TellInv, WorkIdle, Sweeping
<1>7. WorkDistinct'
  <2> SUFFICES ASSUME NEW u \in Threads, NEW v \in Threads, NEW i \in 1 .. Len(work'[u]),
                      NEW j \in 1 .. Len(work'[v]), work'[u][i] = work'[v][j]
               PROVE  u = v /\ i = j
    BY DEF WorkDistinct
  <2>1. CASE i \in 1 .. Len(work[u]) /\ work'[u][i] = work[u][i]
             /\ j \in 1 .. Len(work[v]) /\ work'[v][j] = work[v][j]
    BY <2>1 DEF TellInv, WorkDistinct
  <2>2. QED
    BY <1>3, <1>5, <2>1
<1>8. ToTellInv'
  <2> SUFFICES ASSUME NEW u \in Threads, NEW i \in 1 .. Len(work'[u]), NEW c \in ToTell(u, i)'
               PROVE  Untold(c)'
    BY DEF ToTellInv
  <2>1. c \in Ends(work'[u][i])
    BY DEF ToTell, Ends
  <2>2. CASE i \in 1 .. Len(work[u]) /\ work'[u][i] = work[u][i]
    <3>1. c \in Clients /\ c \in Ends(work[u][i])
      BY <2>1, <2>2, InWork
    <3>2. CASE u # t
      <4>1. pc'[u] = pc[u] /\ work'[u] = work[u]
        BY <1>2, <3>2
      <4>2. c \in ToTell(u, i)
        BY <4>1 DEF ToTell, Ends
      <4>3. QED
        BY <2>2, <3>1, <4>2 DEF TellInv, ToTellInv
    <3>3. CASE u = t
      <4>1. c \in ToTell(u, i)
        BY <3>1, <3>3 DEF ToTell
      <4>2. QED
        BY <2>2, <3>1, <4>1 DEF TellInv, ToTellInv
    <3>4. QED
      BY <3>2, <3>3
  <2>3. CASE work'[u][i] = met
    BY <1>4, <2>1, <2>3, UnchosenUntold
  <2>4. QED
    BY <1>3, <2>2, <2>3
<1>9. ToldInv'
  <2> SUFFICES ASSUME NEW u \in Threads, pc'[u] \in Handshake
               PROVE  /\ Told(work[u][1].host)'
                      /\ pc'[u] \in {"handHost", "handGuest"} => Told(work[u][1].guest)'
    BY DEF ToldInv, Handshake
  <2>1. u # t
    BY DEF Handshake
  <2>2. pc'[u] = pc[u] /\ ToldInv /\ work'[u] = work[u]
    BY <1>2, <2>1 DEF TellInv
  <2>3. QED
    BY <2>2, ToldHeads
<1>10. QED
  BY <1>6, <1>7, <1>8, <1>9 DEF TellInv

\* The next step of the introduction of a pair: what is left to show concerns
\* the two of them.
LEMMA TellOn ==
  ASSUME TypeOK, ServerInv, PagesInv, TellInv, Next, UNCHANGED page, UNCHANGED work,
         NEW t \in Threads, Introduce(t), pc[t] \in Telling,
         NEW label \in Handshake, Goto(t, label),
         NEW h, NEW g, h = work[t][1].host, g = work[t][1].guest,
         label = "tellGuest" => Untold(g)',
         Told(h)', label # "tellGuest" => Told(g)'
  PROVE  TellInv'
<1>1. pc'[t] = label /\ \A u \in Threads \ {t} : pc'[u] = pc[u]
  BY DEF Goto, TypeOK
<1>2. work[t] # <<>> /\ work[t] \in Seq(Pair)
  BY HeadOfWork
<1>3. 1 \in 1 .. Len(work[t]) /\ Head(work[t]) = work[t][1]
  BY <1>2
<1>4. WorkIdle' /\ WorkDistinct'
  BY <1>1 DEF TellInv, WorkIdle, WorkDistinct, Handshake, Sweeping
<1>5. ToTellInv'
  <2> SUFFICES ASSUME NEW u \in Threads, NEW i \in 1 .. Len(work[u]), NEW c \in ToTell(u, i)'
               PROVE  Untold(c)'
    BY DEF ToTellInv
  <2>1. CASE u = t /\ i = 1
    BY <1>1, <2>1 DEF ToTell, Handshake
  <2>2. CASE u # t \/ i # 1
    <3>1. c \in ToTell(u, i)
      BY <1>1, <2>2 DEF ToTell, Ends
    <3>2. c \in Ends(work[u][i]) /\ c \in Clients
      BY <3>1, InWork DEF ToTell, Ends
    <3>3. c \notin Ends(Head(work[t]))
      BY <1>3, <2>2, <3>2, WorkApart DEF TellInv
    <3>4. Untold(c)
      BY <3>1 DEF TellInv, ToTellInv
    <3>5. QED
      BY <3>2, <3>3, <3>4, UntoldIntroduce
  <2>3. QED
    BY <2>1, <2>2
<1>6. ToldInv'
  <2> SUFFICES ASSUME NEW u \in Threads, pc'[u] \in Handshake
               PROVE  /\ Told(work[u][1].host)'
                      /\ pc'[u] \in {"handHost", "handGuest"} => Told(work[u][1].guest)'
    BY DEF ToldInv, Handshake
  <2>1. CASE u # t
    BY <1>1, <2>1, ToldHeads DEF TellInv
  <2>2. CASE u = t
    BY <1>1, <2>2 DEF Told
  <2>3. QED
    BY <2>1, <2>2
<1>7. QED
  BY <1>4, <1>5, <1>6 DEF TellInv

\* The pair at the head of the work is done with, or all of the work is.
LEMMA TellDone ==
  ASSUME TypeOK, ServerInv, PagesInv, TellInv, Next, UNCHANGED page,
         NEW t \in Threads, Introduce(t), pc[t] \in Telling, NextPair(t) \/ Unpaired(t)
  PROVE  TellInv'
<1>1. work[t] # <<>> /\ work[t] \in Seq(Pair) /\ work \in [Threads -> Seq(Pair)]
      /\ pc \in [Threads -> Labels]
  BY HeadOfWork DEF TypeOK
<1>2. 1 \in 1 .. Len(work[t]) /\ Head(work[t]) = work[t][1] /\ Len(work[t]) \in Nat
      /\ Len(Tail(work[t])) = Len(work[t]) - 1
  BY <1>1, Lengths
<1>3. /\ \A u \in Threads \ {t} : pc'[u] = pc[u] /\ work'[u] = work[u]
      /\ \/ work'[t] = Tail(work[t]) /\ pc'[t] = IF Len(work[t]) = 1 THEN Home(t) ELSE "tellHost"
         \/ work'[t] = <<>> /\ pc'[t] = "close"
  BY <1>1 DEF NextPair, Unpaired, Goto
<1>4. pc'[t] \notin Handshake
  BY <1>3 DEF Home, Handshake
<1>5. \A u \in Threads : \A i \in 1 .. Len(work'[u]) :
        \/ u # t /\ i \in 1 .. Len(work[u]) /\ work'[u][i] = work[u][i]
        \/ u = t /\ i + 1 \in 2 .. Len(work[t]) /\ work'[u][i] = work[t][i + 1]
  <2> SUFFICES ASSUME NEW u \in Threads, NEW i \in 1 .. Len(work'[u])
               PROVE  \/ u # t /\ i \in 1 .. Len(work[u]) /\ work'[u][i] = work[u][i]
                      \/ u = t /\ i + 1 \in 2 .. Len(work[t]) /\ work'[u][i] = work[t][i + 1]
    OBVIOUS
  <2>1. CASE u # t
    BY <1>3, <2>1
  <2>2. CASE u = t /\ work'[t] = Tail(work[t])
    <3>1. \A k \in 1 .. Len(Tail(work[t])) :
            k + 1 \in 2 .. Len(work[t]) /\ Tail(work[t])[k] = work[t][k + 1]
      <4>1. work[t][1] \in Pair
        BY <1>1, <1>2
      <4>2. QED
        BY <1>1, <4>1, Entries
    <3>2. QED
      BY <2>2, <3>1
  <2>3. CASE u = t /\ work'[t] = <<>>
    BY <2>3
  <2>4. QED
    BY <1>3, <2>1, <2>2, <2>3
<1>6. WorkIdle'
  <2>1. pc'[t] \notin Sweeping => work'[t] = <<>>
    <3>1. CASE work'[t] = Tail(work[t]) /\ Len(work[t]) = 1
      <4>1. Tail(work[t]) \in Seq(Pair) /\ Len(Tail(work[t])) = 0
        BY <1>1, <1>2, <3>1
      <4>2. \A q \in Seq(Pair) : Len(q) = 0 => q = <<>>
        OBVIOUS
      <4>3. QED
        BY <3>1, <4>1, <4>2
    <3>2. QED
      BY <1>3, <3>1 DEF Sweeping
  <2>2. QED
    BY <1>3, <2>1 DEF TellInv, WorkIdle
<1>7. WorkDistinct'
  <2> SUFFICES ASSUME NEW u \in Threads, NEW v \in Threads, NEW i \in 1 .. Len(work'[u]),
                      NEW j \in 1 .. Len(work'[v]), work'[u][i] = work'[v][j]
               PROVE  u = v /\ i = j
    BY DEF WorkDistinct
  <2>1. \A k \in 2 .. Len(work[t]) : k \in 1 .. Len(work[t])
    OBVIOUS
  <2>2. WorkDistinct
    BY DEF TellInv
  <2>3. CASE u # t /\ v # t
    BY <1>5, <2>2, <2>3 DEF WorkDistinct
  <2>4. CASE u = t /\ v # t
    BY <1>5, <2>1, <2>2, <2>4 DEF WorkDistinct
  <2>5. CASE u # t /\ v = t
    BY <1>5, <2>1, <2>2, <2>5 DEF WorkDistinct
  <2>6. CASE u = t /\ v = t
    <3>1. i + 1 = j + 1
      BY <1>5, <2>1, <2>2, <2>6 DEF WorkDistinct
    <3>2. QED
      BY <2>6, <3>1
  <2>7. QED
    BY <2>3, <2>4, <2>5, <2>6
<1>8. ToTellInv'
  <2> SUFFICES ASSUME NEW u \in Threads, NEW i \in 1 .. Len(work'[u]), NEW c \in ToTell(u, i)'
               PROVE  Untold(c)'
    BY DEF ToTellInv
  <2>1. PICK j \in 1 .. Len(work[u]) : /\ u # t \/ j > 1
                                       /\ c \in ToTell(u, j) /\ c \in Ends(work[u][j])
    <3>1. CASE u # t /\ i \in 1 .. Len(work[u]) /\ work'[u][i] = work[u][i]
      <4>1. pc'[u] = pc[u] /\ work'[u] = work[u]
        BY <1>3, <3>1
      <4>2. c \in ToTell(u, i)
        BY <4>1 DEF ToTell, Ends
      <4>3. c \in Ends(work[u][i])
        BY <4>2 DEF ToTell, Ends
      <4>4. QED
        BY <3>1, <4>2, <4>3
    <3>2. CASE u = t /\ i + 1 \in 2 .. Len(work[t]) /\ work'[u][i] = work[t][i + 1]
      <4>1. c \in Ends(work'[u][i])
        BY DEF ToTell, Ends
      <4>2. i + 1 \in 1 .. Len(work[u]) /\ i + 1 > 1 /\ c \in ToTell(u, i + 1)
        BY <3>2, <4>1 DEF ToTell
      <4>3. QED
        BY <3>2, <4>1, <4>2
    <3>3. QED
      BY <1>5, <3>1, <3>2
  <2>2. c \in Clients
    BY <2>1, InWork
  <2>3. c \notin Ends(Head(work[t]))
    <3>1. t # u \/ 1 # j
      BY <2>1
    <3>2. Ends(work[t][1]) \cap Ends(work[u][j]) = {}
      BY <1>2, <3>1, WorkApart DEF TellInv
    <3>3. QED
      BY <1>2, <2>1, <3>2
  <2>4. Untold(c)
    BY <2>1 DEF TellInv, ToTellInv
  <2>5. QED
    BY <2>2, <2>3, <2>4, UntoldIntroduce
<1>9. ToldInv'
  <2> SUFFICES ASSUME NEW u \in Threads, pc'[u] \in Handshake
               PROVE  /\ Told(work[u][1].host)'
                      /\ pc'[u] \in {"handHost", "handGuest"} => Told(work[u][1].guest)'
    BY DEF ToldInv, Handshake
  <2>1. u # t
    BY <1>4
  <2>2. QED
    BY <1>3, <2>1, ToldHeads DEF TellInv
<1>10. QED
  BY <1>6, <1>7, <1>8, <1>9 DEF TellInv

\* Whoever has been written to is told, or is not there to be told.
LEMMA WrittenTold ==
  ASSUME TypeOK, NEW c \in Clients, NEW frame \in Frames, Written(c, frame), UNCHANGED conn
  PROVE  Told(c)'
<1>1. CASE conn[c] = "open" /\ outbox' = [outbox EXCEPT ![c] = Append(@, frame)]
  <2>1. outbox'[c] = Append(outbox[c], frame) /\ outbox[c] \in Seq(Frames)
    BY <1>1 DEF TypeOK
  <2>2. QED
    BY <2>1, Lengths DEF Told
<1>2. CASE conn[c] = "closed"
  BY <1>2 DEF Told
<1>3. QED
  BY <1>1, <1>2 DEF Written

\* One step of an introduction, whichever write it makes.
LEMMA IntroduceTell ==
  ASSUME TypeOK, ServerInv, PagesInv, TellInv, Next, UNCHANGED page, NEW t \in Threads, Introduce(t)
  PROVE  TellInv'
<1>1. pc[t] \in Telling
  BY DEF Introduce, TellHost, TellGuest, HandHost, HandGuest, Telling, Sweeping
<1>2. work[t] # <<>> /\ work[t] \in Seq(Pair)
  BY <1>1, HeadOfWork
<1>3. 1 \in 1 .. Len(work[t]) /\ Head(work[t]) = work[t][1]
  BY <1>2
<1>4. PICK h \in Clients, g \in Clients :
        /\ h = work[t][1].host /\ g = work[t][1].guest /\ Ends(work[t][1]) = {h, g}
        /\ h # g /\ Chosen(h) /\ Chosen(g)
  BY <1>3, InWork DEF Ends
<1>5. CASE NextPair(t) \/ Unpaired(t)
  BY <1>1, <1>5, TellDone
<1>6. \A c \in {h, g} : Told(c) => Told(c)'
  BY <1>4, ToldStays
<1>7. CASE TellHost(t) /\ ~Unpaired(t)
  <2>1. Written(h, "host") /\ Goto(t, "tellGuest") /\ UNCHANGED <<work, conn, peer, paired>> /\ pc[t] = "tellHost"
    BY <1>3, <1>4, <1>7 DEF TellHost, AtPair
  <2>2. "host" \in Frames /\ "tellGuest" \in Handshake
    BY DEF Frames, Handshake
  <2>3. Told(h)'
    BY <2>1, <2>2, WrittenTold
  <2>4. g \in ToTell(t, 1)
    BY <1>4, <2>1 DEF ToTell, Handshake
  <2>5. Untold(g)
    BY <1>3, <2>4 DEF TellInv, ToTellInv
  <2>6. outbox'[g] = outbox[g]
    BY <1>4, <2>1 DEF Written, TypeOK
  <2>7. Untold(g)'
    BY <2>1, <2>5, <2>6 DEF Untold, Unhanded, Handed
  <2>8. QED
    BY <1>1, <1>4, <2>1, <2>2, <2>3, <2>7, TellOn
<1>8. CASE TellGuest(t) /\ ~Unpaired(t)
  <2>1. Written(g, "guest") /\ Goto(t, "handHost") /\ UNCHANGED <<work, conn>> /\ pc[t] = "tellGuest"
    BY <1>3, <1>4, <1>8 DEF TellGuest, AtPair
  <2>2. "guest" \in Frames /\ "handHost" \in Handshake
    BY DEF Frames, Handshake
  <2>3. Told(g)'
    BY <2>1, <2>2, WrittenTold
  <2>4. Told(h)
    BY <1>4, <2>1 DEF TellInv, ToldInv, Handshake
  <2>5. QED
    BY <1>1, <1>4, <1>6, <2>1, <2>2, <2>3, <2>4, TellOn
<1>9. CASE HandHost(t)
  <2>1. Goto(t, "handGuest") /\ UNCHANGED work /\ pc[t] = "handHost" /\ "handGuest" \in Handshake
    BY <1>9 DEF HandHost, Handshake
  <2>2. Told(h) /\ Told(g)
    BY <1>4, <2>1 DEF TellInv, ToldInv, Handshake
  <2>3. QED
    BY <1>1, <1>4, <1>6, <2>1, <2>2, TellOn
<1>10. CASE HandGuest(t)
  BY <1>5, <1>10 DEF HandGuest
<1>11. QED
  BY <1>5, <1>7, <1>8, <1>9, <1>10 DEF Introduce

\* A client that joins by code takes at most one new pair before it.
LEMMA JoinTell ==
  ASSUME TypeOK, ServerInv, PagesInv, TellInv, QuietInv, Next, UNCHANGED page,
         NEW c \in Clients, Join(c)
  PROVE  TellInv'
<1>1. place[c] \in Codes /\ pc[c] = "joining" /\ ~Chosen(c) /\ c \in Threads
  BY DEF Join, ServerInv, PlaceInv, Threads
<1>2. CASE UNCHANGED work
  BY <1>2, PlainTell
<1>3. ASSUME NEW other \in rooms[place[c]], NEW met, met = [host |-> other, guest |-> c],
             work' = [work EXCEPT ![c] = <<met>>], Goto(c, "tellHost")
      PROVE  TellInv'
  <2>1. other \in Clients /\ ~Chosen(other)
    BY <1>1, <1>3 DEF ServerInv, RoomInv, TypeOK
  <2>2. met \in Pair /\ met.host = other /\ met.guest = c
    BY <1>3, <2>1 DEF Pair
  <2>3. work[c] = <<>>
    BY <1>1 DEF TellInv, WorkIdle, Sweeping
  <2>4. work' = [work EXCEPT ![c] = Append(@, met)]
    BY <1>1, <1>3, <2>3 DEF TypeOK
  <2>5. pc[c] \notin Handshake /\ pc'[c] \in {"pick", "tellHost"} /\ \A u \in Threads \ {c} : pc'[u] = pc[u]
    BY <1>1, <1>3 DEF Goto, TypeOK, Handshake
  <2>6. \A d \in Clients : Untold(d) => Untold(d)'
    BY UntoldServer DEF Handler
  <2>7. QED
    BY <1>1, <2>1, <2>2, <2>4, <2>5, <2>6, TellNew
<1>4. QED
  BY <1>2, <1>3 DEF Join

\* The queue adds a pair of two clients nobody had chosen.
LEMMA PickTell ==
  ASSUME TypeOK, ServerInv, PagesInv, TellInv, QuietInv, Next, UNCHANGED page,
         NEW t \in Threads, Pick(t)
  PROVE  TellInv'
<1>1. PICK m \in Modes : \E met \in bestPair(m, queue[m]) : work' = [work EXCEPT ![t] = Append(@, met)]
  BY DEF Pick
<1>2. PICK met \in bestPair(m, queue[m]) : work' = [work EXCEPT ![t] = Append(@, met)]
  BY <1>1
<1>3. met \in [host : queue[m], guest : queue[m]]
  BY <1>2, Zenon DEF bestPair
<1>4. met \in Pair /\ ~Chosen(met.host) /\ ~Chosen(met.guest)
  BY <1>3 DEF TypeOK, Pair, ServerInv, QueueInv
<1>5. pc[t] = "pick" /\ UNCHANGED pc
  BY DEF Pick
<1>6. pc[t] \notin Handshake
  BY <1>5 DEF Handshake
<1>7. \A d \in Clients : Untold(d) => Untold(d)'
  BY UntoldServer
<1>8. QED
  BY <1>2, <1>4, <1>5, <1>6, <1>7, TellNew

\* Every step keeps the order of the introductions.
LEMMA NextTell ==
  ASSUME TypeOK, ServerInv, PagesInv, TellInv, QuietInv, Next
  PROVE  TellInv'
<1>1. ASSUME NEW c \in Clients, Open(c) \/ Page(c) \/ ChannelOpens(c) \/ Leave(c)
      PROVE  TellInv'
  BY <1>1, PageTell
<1>2. CASE ServerNext /\ UNCHANGED page
  BY <1>2, PlainTell, JoinTell, PickTell, IntroduceTell DEF ServerNext
<1>3. QED
  BY <1>1, <1>2 DEF Next

(***************************************************************************)
(* What can happen to the frames.                                          *)
(***************************************************************************)
\* A handler forwards its client's next frame to the partner, or drops it.
LEMMA RelayMoves ==
  ASSUME TypeOK, ServerInv, PagesInv, NEW c \in Clients, Relay(c)
  PROVE  /\ UNCHANGED pairs /\ inbox[c] # <<>> /\ inbox' = [inbox EXCEPT ![c] = Tail(@)]
         /\ \/ UNCHANGED outbox
            \/ \E p \in Clients :
                 /\ p \in Handed(c) /\ conn[p] = "open" /\ Head(inbox[c]) \in Frames \ Roles
                 /\ outbox' = [outbox EXCEPT ![p] = Append(@, Head(inbox[c]))]
<1>1. UNCHANGED pairs /\ inbox[c] # <<>> /\ inbox' = [inbox EXCEPT ![c] = Tail(@)]
  BY DEF Relay
<1>2. UNCHANGED outbox \/ \E p \in peerOf(c) : Written(p, Head(inbox[c]))
  BY DEF Relay
<1>3. ASSUME NEW p \in peerOf(c), Written(p, Head(inbox[c])), outbox' # outbox
      PROVE  /\ p \in Clients /\ p \in Handed(c) /\ conn[p] = "open" /\ Head(inbox[c]) \in Frames \ Roles
             /\ outbox' = [outbox EXCEPT ![p] = Append(@, Head(inbox[c]))]
  <2>1. Head(inbox[c]) \in Frames /\ InQueue(Head(inbox[c]), inbox[c])
    BY <1>1, InHead DEF TypeOK
  <2>2. Head(inbox[c]) \notin Roles
    BY <2>1 DEF PagesInv, SentInv, Roles
  <2>3. p \in Clients /\ p \in Handed(c)
    BY DEF peerOf, TypeOK, Handed
  <2>4. QED
    BY <1>3, <2>1, <2>2, <2>3 DEF Written
<1>4. QED
  BY <1>1, <1>2, <1>3

\* Every other step of the server leaves the frames alone or tells a client
\* its role.
LEMMA ServerMoves ==
  ASSUME TypeOK, ServerInv, PagesInv, TellInv, ServerNext
  PROVE  \/ UNCHANGED <<inbox, outbox>>
         \/ \E c \in Clients : Relay(c)
         \/ \E c \in Clients : \E role \in Roles :
              /\ UNCHANGED <<inbox, pairs>> /\ Untold(c) /\ Due(role, c)
              /\ outbox' = [outbox EXCEPT ![c] = <<role>>]
<1>1. ASSUME NEW t \in Threads, TellHost(t) \/ TellGuest(t), outbox' # outbox
      PROVE  \E c \in Clients : \E role \in Roles :
               /\ UNCHANGED <<inbox, pairs>> /\ Untold(c) /\ Due(role, c)
               /\ outbox' = [outbox EXCEPT ![c] = <<role>>]
  <2>1. pc[t] \in Telling /\ UNCHANGED <<inbox, pairs>>
    BY <1>1 DEF TellHost, TellGuest, Telling, Sweeping, AtPair
  <2>2. work[t] # <<>> /\ work[t] \in Seq(Pair)
    BY <2>1, HeadOfWork
  <2>3. 1 \in 1 .. Len(work[t]) /\ Head(work[t]) = work[t][1]
    BY <2>2
  <2>4. PICK h \in Clients, g \in Clients :
          h = work[t][1].host /\ g = work[t][1].guest /\ Ends(work[t][1]) = {h, g}
          /\ work[t][1] \in pairs
    BY <2>3, InWork DEF Ends
  <2>5. ASSUME NEW c \in Clients, NEW role \in Roles, c \in ToTell(t, 1), Due(role, c),
               outbox' = [outbox EXCEPT ![c] = Append(@, role)]
        PROVE  \E d \in Clients : \E r \in Roles :
                 /\ UNCHANGED <<inbox, pairs>> /\ Untold(d) /\ Due(r, d)
                 /\ outbox' = [outbox EXCEPT ![d] = <<r>>]
    <3>1. Untold(c)
      BY <2>3, <2>5 DEF TellInv, ToTellInv
    <3>2. Append(outbox[c], role) = <<role>>
      BY <3>1 DEF Untold
    <3>3. outbox' = [outbox EXCEPT ![c] = <<role>>]
      BY <2>5, <3>2
    <3>4. QED
      BY <2>1, <2>5, <3>1, <3>3
  <2>6. CASE TellHost(t)
    <3>1. outbox' = [outbox EXCEPT ![h] = Append(@, "host")] /\ pc[t] = "tellHost"
      BY <1>1, <2>3, <2>4, <2>6 DEF TellHost, Written
    <3>2. h \in ToTell(t, 1) /\ "host" \in Roles /\ Due("host", h)
      BY <2>4, <3>1 DEF ToTell, Handshake, Roles, Due, IsHost, Verdicts
    <3>3. QED
      BY <2>5, <3>1, <3>2
  <2>7. CASE TellGuest(t)
    <3>1. outbox' = [outbox EXCEPT ![g] = Append(@, "guest")] /\ pc[t] = "tellGuest"
      BY <1>1, <2>3, <2>4, <2>7 DEF TellGuest, Written
    <3>2. g \in ToTell(t, 1) /\ "guest" \in Roles /\ Due("guest", g)
      BY <2>4, <3>1 DEF ToTell, Handshake, Roles, Due, IsGuest, Verdicts
    <3>3. QED
      BY <2>5, <3>1, <3>2
  <2>8. QED
    BY <1>1, <2>6, <2>7
<1>2. \/ UNCHANGED <<inbox, outbox>>
      \/ \E c \in Clients : Relay(c)
      \/ \E t \in Threads : (TellHost(t) \/ TellGuest(t)) /\ UNCHANGED inbox
  BY DEF ServerNext, Handler, Join, ReadClock, Enqueue, ReadFails, HangUp, Unregister, CloseNow,
         MeasureRTT, Sweep, Pick, Picked, Introduce, TellHost, TellGuest, HandHost, HandGuest, Pass,
         sockets, AtPair
<1>3. QED
  BY <1>1, <1>2

\* A page reads the frame it waits for, or sends one, or neither.
LEMMA PageMoves ==
  ASSUME TypeOK, NEW c \in Clients, Open(c) \/ Page(c) \/ ChannelOpens(c) \/ Leave(c)
  PROVE  /\ UNCHANGED <<pairs, paired, peer>> /\ \A d \in Clients \ {c} : page'[d] = page[d]
         /\ \/ UNCHANGED <<inbox, outbox>>
            \/ Take(c) /\ UNCHANGED inbox
            \/ \E f \in {"offer", "answer"} \cup Verdicts :
                 /\ UNCHANGED outbox /\ inbox' = [inbox EXCEPT ![c] = Append(@, f)]
                 /\ page[c] \in {"offering", "answering", "deciding"}
<1> USE DEF OnPage, server, sockets
<1>1. UNCHANGED <<pairs, paired, peer>>
  BY DEF Open, Page, Take, Signal, Decide, Meet, GiveUp, ChannelOpens, Leave
<1>2. \A d \in Clients \ {c} : page'[d] = page[d]
  BY DEF Open, Page, Take, Signal, Decide, Meet, GiveUp, ChannelOpens, Leave, Show, TypeOK
<1>3. CASE ~Signal(c) /\ ~Decide(c)
  BY <1>1, <1>2, <1>3 DEF Open, Page, Take, Meet, GiveUp, ChannelOpens, Leave
<1>4. CASE Signal(c) \/ Decide(c)
  <2>1. \/ UNCHANGED <<inbox, outbox>>
        \/ \E f \in {"offer", "answer", "useP2p", "useRelay"} :
             SentOn(c, f) /\ UNCHANGED outbox /\ page[c] \in {"offering", "answering", "deciding"}
    BY <1>4 DEF Signal, Decide
  <2>2. QED
    BY <1>1, <1>2, <2>1 DEF SentOn, Verdicts
<1>5. QED
  BY <1>3, <1>4

\* Pairs are only added, and only of two whom nobody had chosen.
LEMMA PairsGrow ==
  ASSUME TypeOK, ServerInv, PagesInv, Next
  PROVE  /\ pairs \subseteq pairs'
         /\ \A met \in pairs' \ pairs :
              /\ met \in Pair /\ ~Chosen(met.host) /\ ~Chosen(met.guest)
              /\ UNCHANGED <<inbox, outbox, page>>
<1> DEFINE Added(met) == /\ met \in Pair /\ ~Chosen(met.host) /\ ~Chosen(met.guest)
                         /\ UNCHANGED <<inbox, outbox>> /\ pairs' = pairs \cup {met}
<1>1. ASSUME NEW c \in Clients, Join(c)
      PROVE  UNCHANGED pairs \/ \E met : Added(met)
  <2>1. place[c] \in Codes /\ ~Chosen(c)
    BY <1>1 DEF Join, ServerInv, PlaceInv
  <2>2. ASSUME NEW other \in rooms[place[c]], NEW met, met = [host |-> other, guest |-> c],
               pairs' = pairs \cup {met}
        PROVE  Added(met)
    <3>1. other \in Clients /\ ~Chosen(other)
      BY <2>1, <2>2 DEF ServerInv, RoomInv, TypeOK
    <3>2. met \in Pair /\ met.host = other /\ met.guest = c
      BY <2>2, <3>1 DEF Pair
    <3>3. QED
      BY <1>1, <2>1, <2>2, <3>1, <3>2 DEF Join, sockets
  <2> HIDE DEF Added
  <2>3. QED
    BY <1>1, <2>2 DEF Join
<1>2. ASSUME NEW t \in Threads, Pick(t)
      PROVE  \E met : Added(met)
  <2>1. PICK m \in Modes : \E met \in bestPair(m, queue[m]) : pairs' = pairs \cup {met}
    BY <1>2 DEF Pick
  <2>2. PICK met \in bestPair(m, queue[m]) : pairs' = pairs \cup {met}
    BY <2>1
  <2>3. met \in [host : queue[m], guest : queue[m]]
    BY <2>2, Zenon DEF bestPair
  <2>4. met \in Pair /\ ~Chosen(met.host) /\ ~Chosen(met.guest)
    BY <2>3 DEF TypeOK, Pair, ServerInv, QueueInv
  <2>5. Added(met)
    BY <1>2, <2>2, <2>4 DEF Pick, sockets
  <2>6. QED
    BY <2>5
<1>3. CASE ServerNext /\ UNCHANGED page
  <2>1. UNCHANGED pairs \/ \E met : Added(met)
    <3> HIDE DEF Added
    <3>1. UNCHANGED pairs \/ (\E c \in Clients : Join(c)) \/ \E t \in Threads : Pick(t)
      BY <1>3 DEF ServerNext, Handler, ReadClock, Enqueue, Relay, ReadFails, HangUp, Unregister, CloseNow,
         MeasureRTT, Sweep, Picked, Introduce, TellHost, TellGuest, HandHost, HandGuest, Pass, AtPair
    <3>2. QED
      BY <1>1, <1>2, <3>1
  <2>2. QED
    BY <1>3, <2>1
<1>4. ASSUME NEW c \in Clients, Open(c) \/ Page(c) \/ ChannelOpens(c) \/ Leave(c)
      PROVE  UNCHANGED pairs
  BY <1>4, PageMoves
<1>5. QED
  BY <1>3, <1>4 DEF Next

(***************************************************************************)
(* Who was handed over has been told; who was not chosen has nothing.      *)
(***************************************************************************)
\* Each of the two is handed over after both were told.
LEMMA HandedNew ==
  ASSUME TypeOK, ServerInv, PagesInv, TellInv, Next, NEW c \in Clients,
         NEW p \in Handed(c)', p \notin Handed(c)
  PROVE  p \in Clients /\ Chosen(p) /\ Told(p)
<1>1. \A d \in Clients : Open(d) \/ Page(d) \/ ChannelOpens(d) \/ Leave(d) => UNCHANGED <<peer, paired>>
  BY PageMoves
<1>2. \A d \in Clients : Resolve(d) => Handed(c)' \subseteq Handed(c)
  BY DEF Resolve, peerOf, TypeOK, Handed
<1>3. \/ UNCHANGED <<peer, paired>>
      \/ \E d \in Clients : Resolve(d)
      \/ \E t \in Threads : HandHost(t) \/ HandGuest(t)
  BY <1>1 DEF Next, ServerNext, Handler, Join, ReadClock, Enqueue, Relay, ReadFails, HangUp, Unregister,
         CloseNow, MeasureRTT, Sweep, Pick, Picked, Introduce, TellHost, TellGuest, Pass, AtPair
<1>4. PICK t \in Threads : HandHost(t) \/ HandGuest(t)
  BY <1>2, <1>3 DEF Handed
<1>5. pc[t] \in {"handHost", "handGuest"} /\ pc[t] \in Telling /\ UNCHANGED peer
  BY <1>4 DEF HandHost, HandGuest, Telling, Sweeping, AtPair
<1>6. work[t] # <<>> /\ work[t] \in Seq(Pair)
  BY <1>5, HeadOfWork
<1>7. 1 \in 1 .. Len(work[t]) /\ Head(work[t]) = work[t][1]
  BY <1>6
<1>8. PICK h \in Clients, g \in Clients :
        h = work[t][1].host /\ g = work[t][1].guest /\ Chosen(h) /\ Chosen(g)
  BY <1>7, InWork DEF Ends
<1>9. Told(h) /\ Told(g)
  BY <1>5, <1>8 DEF TellInv, ToldInv, Handshake
<1>10. Hand(h, g) \/ Hand(g, h)
  BY <1>4, <1>7, <1>8 DEF HandHost, HandGuest
<1>11. p \in {h, g}
  <2>1. p \in paired'[c] /\ p \notin paired[c]
    BY <1>5 DEF Handed
  <2>2. paired \in [Clients -> SUBSET Clients]
    BY DEF TypeOK
  <2>3. QED
    BY <1>10, <2>1, <2>2 DEF Hand
<1>12. QED
  BY <1>8, <1>9, <1>11

\* Every step hands over told sockets only.
LEMMA NextHanded ==
  ASSUME TypeOK, ServerInv, PagesInv, TellInv, HandedInv, Next
  PROVE  HandedInv'
<1> SUFFICES ASSUME NEW c \in Clients, NEW p \in Handed(c)' PROVE Told(p)'
  BY DEF HandedInv
<1>1. p \in Clients /\ Chosen(p) /\ Told(p)
  <2>1. CASE p \in Handed(c)
    <3>1. p \in Clients
      BY <2>1 DEF Handed, TypeOK
    <3>2. QED
      BY <2>1, <3>1, HandedChosen DEF HandedInv, ServerInv
  <2>2. QED
    BY <2>1, HandedNew
<1>2. QED
  BY <1>1, ToldStays

\* Every step leaves the clients nobody has chosen in silence.
LEMMA NextQuiet ==
  ASSUME TypeOK, ServerInv, PagesInv, TellInv, QuietInv, Next
  PROVE  QuietInv'
<1> SUFFICES ASSUME NEW c \in Clients, ~Chosen(c)' PROVE inbox'[c] = <<>> /\ outbox'[c] = <<>>
  BY DEF QuietInv
<1>1. ~Chosen(c)
  BY PairsGrow DEF Chosen, Ends
<1>2. inbox[c] = <<>> /\ outbox[c] = <<>> /\ page[c] \in Fresh
  BY <1>1, UnchosenFresh DEF QuietInv
<1>3. ASSUME NEW d \in Clients, Relay(d) PROVE inbox'[c] = <<>> /\ outbox'[c] = <<>>
  <2>1. d # c
    BY <1>2, <1>3 DEF Relay
  <2>2. c \notin Handed(d)
    BY <1>1, HandedChosen DEF ServerInv
  <2>3. UNCHANGED outbox \/ \E p \in Clients : p # c /\ outbox' = [outbox EXCEPT ![p] = Append(@, Head(inbox[d]))]
    BY <1>3, <2>2, RelayMoves
  <2>4. inbox' = [inbox EXCEPT ![d] = Tail(@)]
    BY <1>3, RelayMoves
  <2>5. QED
    BY <1>2, <2>1, <2>3, <2>4 DEF TypeOK
<1>4. ASSUME NEW d \in Clients, NEW role \in Roles, UNCHANGED inbox, Due(role, d),
             outbox' = [outbox EXCEPT ![d] = <<role>>]
      PROVE  inbox'[c] = <<>> /\ outbox'[c] = <<>>
  <2>1. d # c
    BY <1>1, <1>4 DEF Due, Roles, IsHost, IsGuest, Chosen, Ends
  <2>2. QED
    BY <1>2, <1>4, <2>1 DEF TypeOK
<1>5. ASSUME NEW d \in Clients, Open(d) \/ Page(d) \/ ChannelOpens(d) \/ Leave(d)
      PROVE  inbox'[c] = <<>> /\ outbox'[c] = <<>>
  <2>1. CASE Take(d) /\ UNCHANGED inbox
    <3>1. d # c
      BY <1>2, <2>1 DEF Take
    <3>2. QED
      BY <1>2, <2>1, <3>1 DEF Take, TypeOK
  <2>2. ASSUME NEW f, UNCHANGED outbox, inbox' = [inbox EXCEPT ![d] = Append(@, f)],
               page[d] \in {"offering", "answering", "deciding"}
        PROVE  inbox'[c] = <<>> /\ outbox'[c] = <<>>
    <3>1. d # c
      BY <1>2, <2>2 DEF Fresh
    <3>2. QED
      BY <1>2, <2>2, <3>1 DEF TypeOK
  <2>3. QED
    BY <1>2, <1>5, <2>1, <2>2, PageMoves
<1>6. CASE ServerNext
  BY <1>2, <1>3, <1>4, <1>6, ServerMoves
<1>7. QED
  BY <1>5, <1>6 DEF Next

(***************************************************************************)
(* The role comes first.                                                   *)
(***************************************************************************)
\* What FirstInv says of one client.
RoleFirst(c) ==
  /\ page[c] = "opening" /\ outbox[c] # <<>> => Head(outbox[c]) \in Roles
  /\ \A i \in 1 .. Len(outbox[c]) : outbox[c][i] \in Roles => i = 1 /\ page[c] \in Fresh

\* A page on which nothing was read goes on waiting for its role, or not at all.
LEMMA FirstKept ==
  ASSUME TypeOK, NEW c \in Clients, RoleFirst(c), outbox'[c] = outbox[c],
         page[c] \in Fresh => page'[c] \in Fresh,
         page'[c] = "opening" => page[c] = "opening" \/ outbox[c] = <<>>
  PROVE  RoleFirst(c)'
  BY DEF RoleFirst

\* A forwarded frame is no role, and comes behind the role if that was not read.
LEMMA FirstForwarded ==
  ASSUME TypeOK, NEW c \in Clients, RoleFirst(c), Told(c), conn[c] = "open", UNCHANGED page,
         NEW f \in Frames \ Roles, outbox'[c] = Append(outbox[c], f)
  PROVE  RoleFirst(c)'
<1> DEFINE q == outbox[c]
<1>1. q \in Seq(Frames)
  BY DEF TypeOK
<1>2. page[c] = "opening" => q # <<>>
  BY DEF Told
<1>3. \A i \in 1 .. Len(q) : q[i] \in Roles => i = 1 /\ page[c] \in Fresh
  BY DEF RoleFirst
<1>4. page[c] = "opening" => Head(q) \in Roles
  BY <1>2 DEF RoleFirst
<1> HIDE DEF q
<1>5. page[c] = "opening" => Head(Append(q, f)) \in Roles
  BY <1>1, <1>2, <1>4, Lengths
<1>6. \A i \in 1 .. Len(Append(q, f)) : Append(q, f)[i] \in Roles => i = 1 /\ page[c] \in Fresh
  <2> SUFFICES ASSUME NEW i \in 1 .. Len(Append(q, f)), Append(q, f)[i] \in Roles
               PROVE  i = 1 /\ page[c] \in Fresh
    OBVIOUS
  <2>1. Append(q, f)[i] = IF i = Len(q) + 1 THEN f ELSE q[i]
    BY <1>1, Entries
  <2>2. Len(q) \in Nat /\ Len(Append(q, f)) = Len(q) + 1
    BY <1>1, Lengths
  <2>3. i \in 1 .. Len(q) /\ q[i] \in Roles
    BY <2>1, <2>2
  <2>4. QED
    BY <1>3, <2>3
<1>7. outbox'[c] = Append(q, f)
  BY DEF q
<1>8. QED
  BY <1>5, <1>6, <1>7 DEF RoleFirst

\* A page that reads is through with its role.
LEMMA FirstTaken ==
  ASSUME TypeOK, NEW c \in Clients, RoleFirst(c), Take(c)
  PROVE  RoleFirst(c)'
<1>1. outbox[c] \in Seq(Frames) /\ outbox[c] # <<>> /\ outbox'[c] = Tail(outbox[c])
  BY DEF TypeOK, Take
<1>2. page'[c] # "opening"
  BY DEF Take, Show, AfterFrame, Expects, TypeOK
<1>3. \A i \in 1 .. Len(Tail(outbox[c])) : Tail(outbox[c])[i] \notin Roles
  <2> SUFFICES ASSUME NEW i \in 1 .. Len(Tail(outbox[c])) PROVE Tail(outbox[c])[i] \notin Roles
    OBVIOUS
  <2>1. i + 1 \in 2 .. Len(outbox[c]) /\ Tail(outbox[c])[i] = outbox[c][i + 1]
    BY <1>1
  <2>2. i + 1 \in 1 .. Len(outbox[c]) /\ i + 1 # 1
    BY <2>1
  <2>3. QED
    BY <2>1, <2>2 DEF RoleFirst
<1>4. QED
  BY <1>1, <1>2, <1>3 DEF RoleFirst

\* Every step keeps the role in front.
LEMMA NextFirst ==
  ASSUME TypeOK, ServerInv, PagesInv, TellInv, HandedInv, QuietInv, FirstInv, Next
  PROVE  FirstInv'
<1> SUFFICES ASSUME NEW c \in Clients PROVE RoleFirst(c)'
  BY DEF FirstInv, RoleFirst
<1>0. RoleFirst(c)
  BY DEF FirstInv, RoleFirst
<1>1. CASE outbox'[c] = outbox[c] /\ UNCHANGED page
  BY <1>0, <1>1, FirstKept
<1>2. ASSUME NEW d \in Clients, Relay(d), UNCHANGED page PROVE RoleFirst(c)'
  <2>1. CASE UNCHANGED outbox
    BY <1>1, <1>2, <2>1
  <2>2. ASSUME NEW p \in Clients, p \in Handed(d), conn[p] = "open", NEW f \in Frames \ Roles,
               outbox' = [outbox EXCEPT ![p] = Append(@, f)]
        PROVE  RoleFirst(c)'
    <3>1. CASE p = c
      <4>1. outbox'[c] = Append(outbox[c], f)
        BY <2>2, <3>1 DEF TypeOK
      <4>2. Told(c)
        BY <2>2, <3>1 DEF HandedInv
      <4>3. QED
        BY <1>0, <1>2, <2>2, <3>1, <4>1, <4>2, FirstForwarded
    <3>2. CASE p # c
      BY <1>1, <1>2, <2>2, <3>2 DEF TypeOK
    <3>3. QED
      BY <3>1, <3>2
  <2>3. QED
    BY <1>2, <2>1, <2>2, RelayMoves
<1>3. ASSUME NEW d \in Clients, NEW role \in Roles, Untold(d), UNCHANGED page,
             outbox' = [outbox EXCEPT ![d] = <<role>>]
      PROVE  RoleFirst(c)'
  <2>1. CASE d = c
    <3>1. outbox'[c] = <<role>> /\ page'[c] \in Fresh
      BY <1>3, <2>1 DEF TypeOK, Untold
    <3>2. QED
      BY <1>3, <3>1 DEF RoleFirst
  <2>2. CASE d # c
    BY <1>1, <1>3, <2>2 DEF TypeOK
  <2>3. QED
    BY <2>1, <2>2
<1>4. ASSUME NEW d \in Clients, Open(d) \/ Page(d) \/ ChannelOpens(d) \/ Leave(d)
      PROVE  RoleFirst(c)'
  <2>1. CASE Take(d) /\ c = d
    BY <1>0, <2>1, FirstTaken
  <2>2. CASE c # d
    <3>1. page'[c] = page[c]
      BY <1>4, <2>2, PageMoves
    <3>2. outbox'[c] = outbox[c]
      <4>1. Take(d) => outbox' = [outbox EXCEPT ![d] = Tail(@)]
        BY DEF Take
      <4>2. UNCHANGED outbox \/ Take(d)
        BY <1>4, PageMoves
      <4>3. QED
        BY <2>2, <4>1, <4>2 DEF TypeOK
    <3>3. QED
      BY <1>0, <3>1, <3>2, FirstKept
  <2>3. CASE c = d /\ ~Take(d)
    <3>1. outbox'[c] = outbox[c]
      BY <1>4, <2>3, PageMoves
    <3>2. page[c] \in Fresh => page'[c] \in Fresh
      BY <1>4, <2>3 DEF Open, Page, Signal, Decide, Meet, GiveUp, ChannelOpens, Leave, Show, TypeOK, Fresh
    <3>3. page'[c] = "opening" => page[c] = "opening" \/ outbox[c] = <<>>
      <4>1. CASE Open(c)
        <5>1. ~Chosen(c)
          BY <4>1 DEF Open, PagesInv, AwayInv, ServerInv, PlaceInv
        <5>2. QED
          BY <5>1 DEF QuietInv
      <4>2. CASE ~Open(c)
        BY <1>4, <2>3, <4>2 DEF Page, Signal, Decide, Meet, GiveUp, ChannelOpens, Leave, Show, TypeOK
      <4>3. QED
        BY <4>1, <4>2
    <3>4. QED
      BY <1>0, <3>1, <3>2, <3>3, FirstKept
  <2>4. QED
    BY <2>1, <2>2, <2>3
<1>5. CASE ServerNext /\ UNCHANGED page
  BY <1>1, <1>2, <1>3, <1>5, ServerMoves
<1>6. QED
  BY <1>4, <1>5 DEF Next

(***************************************************************************)
(* The frames between the two pages of a pair.                             *)
(***************************************************************************)
\* The two ends of a pair, and the states a host and a guest are never in.
LEMMA TwoEnds ==
  ASSUME TypeOK, ServerInv, PagesInv, NEW met \in pairs, NEW h, NEW g, h = met.host, g = met.guest
  PROVE  /\ h \in Clients /\ g \in Clients /\ h # g /\ Chosen(h) /\ Chosen(g)
         /\ ~IsGuest(h) /\ ~IsHost(g)
         /\ page[h] \notin {"toOffer", "answering", "following", "meeting"}
         /\ page[g] \notin {"offering", "toAnswer", "deciding"}
         /\ \A k : HostPlays(g, k) => page[h] \in {k, "left"}
<1>1. h \in Clients /\ g \in Clients /\ Chosen(h) /\ Chosen(g)
  BY DEF TypeOK, Pair, Chosen, Ends
<1>2. \A m \in pairs : m.guest # h /\ m.host # g /\ (m.guest = g => m = met)
  BY OneRole DEF ServerInv
<1>3. h # g /\ ~IsGuest(h) /\ ~IsHost(g)
  BY <1>2 DEF IsGuest, IsHost
<1>4. \A k : HostPlays(g, k) => page[h] \in {k, "left"}
  BY <1>2 DEF HostPlays
<1>5. QED
  BY <1>1, <1>3, <1>4 DEF PagesInv, RoleInv

\* An end of a pair is handed to the other end and to nobody else.
LEMMA HandedPartner ==
  ASSUME TypeOK, ServerInv, NEW met \in pairs, NEW h, NEW g, h = met.host, g = met.guest,
         NEW c \in Clients, NEW p \in Handed(c)
  PROVE  (c = h <=> p = g) /\ (c = g <=> p = h)
<1>1. PICK m \in pairs : m = [host |-> c, guest |-> p] \/ m = [host |-> p, guest |-> c]
  BY DEF ServerInv, OnePairEach, Handed
<1>2. /\ met.host # m.guest /\ m.host # met.guest
      /\ met.host = m.host => met = m
      /\ met.guest = m.guest => met = m
  BY OneRole DEF ServerInv
<1>3. QED
  BY <1>1, <1>2

\* What a page that awaits a frame has before it is the frame it awaits.
LEMMA FitNow ==
  ASSUME TypeOK, ServerInv, PagesInv, FirstInv, StreamInv
  PROVE  FramesFit
<1> SUFFICES ASSUME NEW c \in Clients, Expects(page[c]) # {}, outbox[c] # <<>>
             PROVE  Head(outbox[c]) \in Expects(page[c])
  BY DEF FramesFit
<1> DEFINE f == Head(outbox[c])
<1>1. page[c] \in {"opening", "toOffer", "toAnswer", "following"}
  BY DEF Expects
<1>2. InQueue(f, outbox[c]) /\ outbox[c] \in Seq(Frames) /\ outbox[c][1] = f /\ 1 \in 1 .. Len(outbox[c])
  BY InHead DEF TypeOK
<1>3. f \in Roles => page[c] \in Fresh
  BY <1>2 DEF FirstInv
<1>4. page[c] = "opening" => f \in Roles
  BY DEF FirstInv
<1> HIDE DEF f
<1>5. CASE page[c] = "opening"
  BY <1>4, <1>5 DEF Expects, Roles, f
<1>6. CASE page[c] = "toAnswer"
  <2>1. IsHost(c)
    BY <1>6 DEF PagesInv, RoleInv
  <2>2. PICK met \in pairs : met.host = c
    BY <2>1 DEF IsHost
  <2>3. f \in {"host", "answer"}
    BY <1>2, <2>2 DEF StreamInv, StreamOK, KindsOK
  <2>4. QED
    BY <1>3, <1>6, <2>3 DEF Expects, Roles, Fresh, f
<1>7. CASE page[c] \in {"toOffer", "following"}
  <2>1. IsGuest(c)
    BY <1>7 DEF PagesInv, RoleInv
  <2>2. PICK met \in pairs : met.guest = c
    BY <2>1 DEF IsGuest
  <2>3. StreamOK(met.host, c)
    BY <2>2 DEF StreamInv
  <2>4. f \in {"guest", "offer"} \cup Verdicts
    BY <1>2, <2>3 DEF StreamOK, KindsOK
  <2>5. f # "guest"
    BY <1>3, <1>7 DEF Roles, Fresh
  <2>6. f \in Verdicts => page[c] \in Answered
    BY <1>2, <2>3 DEF StreamOK, WireOK, OnWire
  <2>7. f = "offer" => page[c] \in Fresh \cup {"toOffer"}
    BY <1>2, <2>3 DEF StreamOK, WireOK, OnWire
  <2>8. QED
    BY <1>7, <2>4, <2>5, <2>6, <2>7 DEF Expects, Verdicts, Answered, Fresh, Playing, f
<1>8. QED
  BY <1>1, <1>5, <1>6, <1>7

\* Nothing happened to the two pages and their four queues.
LEMMA StreamSame ==
  ASSUME NEW h, NEW g, StreamOK(h, g), page'[h] = page[h], page'[g] = page[g],
         outbox'[h] = outbox[h], outbox'[g] = outbox[g], inbox'[h] = inbox[h], inbox'[g] = inbox[g]
  PROVE  StreamOK(h, g)'
  BY DEF StreamOK, KindsOK, WireOK, FewOK, OnWire, UnderWay

\* Frames move on or are dropped.
LEMMA StreamFlows ==
  ASSUME NEW h, NEW g, StreamOK(h, g), page'[h] = page[h], page'[g] = page[g],
         KindsOK(h, g)',
         \A f : OnWire(f, h, g)' => OnWire(f, h, g),
         \A f : OnWire(f, g, h)' => OnWire(f, g, h),
         UnderWay(h, g) \in Nat, UnderWay(h, g)' \in Nat,
         UnderWay(h, g)' <= UnderWay(h, g),
         outbox'[g] = <<>> => outbox[g] = <<>> 
  PROVE  StreamOK(h, g)'
<1>1. WireOK(h, g)'
  BY DEF StreamOK, WireOK
<1>2. FewOK(h, g)'
  BY DEF StreamOK, FewOK
<1>3. QED
  BY <1>1, <1>2 DEF StreamOK

\* A frame goes from one queue to the next, or is dropped.
LEMMA Forwarded ==
  ASSUME NEW q \in Seq(Frames), q # <<>>, NEW r \in Seq(Frames),
         NEW q2, q2 = Tail(q), NEW r2, r2 = r \/ r2 = Append(r, Head(q))
  PROVE  /\ \A f : InQueue(f, q2) => InQueue(f, q)
         /\ \A f : InQueue(f, r2) => InQueue(f, r) \/ InQueue(f, q)
         /\ Len(q) \in Nat /\ Len(r) \in Nat /\ Len(q2) \in Nat /\ Len(r2) \in Nat
         /\ Len(q2) + Len(r2) <= Len(q) + Len(r)
         /\ r2 = <<>> => r = <<>>
<1>1. Head(q) \in Frames /\ InQueue(Head(q), q)
  BY InHead
<1>2. \A f : InQueue(f, q2) => InQueue(f, q)
  BY InTail
<1>3. \A f : InQueue(f, r2) => InQueue(f, r) \/ InQueue(f, q)
  <2> SUFFICES ASSUME NEW f, InQueue(f, Append(r, Head(q))) PROVE InQueue(f, r) \/ f = Head(q)
    BY <1>1
  <2>1. QED
    BY <1>1, InAppend
<1>4. Len(q) \in Nat /\ Len(r) \in Nat /\ Len(q2) = Len(q) - 1 /\ Len(q) # 0
  BY <1>1, Lengths
<1>5. (Len(r2) = Len(r) \/ Len(r2) = Len(r) + 1) /\ (r2 = <<>> => r = <<>>)
  BY <1>1, Lengths
<1>6. QED
  BY <1>2, <1>3, <1>4, <1>5

\* A handler that relays moves a frame of a pair to the other end of that pair.
LEMMA StreamRelay ==
  ASSUME TypeOK, ServerInv, PagesInv, UNCHANGED page, NEW c \in Clients, Relay(c),
         NEW met \in pairs, NEW h, NEW g, h = met.host, g = met.guest, StreamOK(h, g)
  PROVE  StreamOK(h, g)'
<1>1. h \in Clients /\ g \in Clients /\ h # g
  BY TwoEnds
<1>2. inbox[c] # <<>> /\ inbox' = [inbox EXCEPT ![c] = Tail(@)]
  BY RelayMoves
<1>3. /\ inbox \in [Clients -> Seq(Frames)] /\ outbox \in [Clients -> Seq(Frames)]
      /\ page'[h] = page[h] /\ page'[g] = page[g]
  BY DEF TypeOK
<1>4. \/ UNCHANGED outbox
      \/ \E p \in Clients : /\ p \in Handed(c)
                            /\ outbox' = [outbox EXCEPT ![p] = Append(@, Head(inbox[c]))]
  BY RelayMoves
<1>5. \A p \in Handed(c) : (c = h <=> p = g) /\ (c = g <=> p = h)
  BY HandedPartner
<1>6. CASE c = h
  <2>1. inbox'[h] = Tail(inbox[h]) /\ inbox'[g] = inbox[g] /\ inbox[h] # <<>>
    BY <1>1, <1>2, <1>3, <1>6
  <2>2. /\ outbox'[g] = outbox[g] \/ outbox'[g] = Append(outbox[g], Head(inbox[h]))
        /\ outbox'[h] = outbox[h]
    BY <1>1, <1>3, <1>4, <1>5, <1>6
  <2>3. inbox[h] \in Seq(Frames) /\ outbox[g] \in Seq(Frames)
    BY <1>1, <1>3
  <2>4. /\ \A f : InQueue(f, inbox'[h]) => InQueue(f, inbox[h])
        /\ \A f : InQueue(f, outbox'[g]) => InQueue(f, outbox[g]) \/ InQueue(f, inbox[h])
        /\ UnderWay(h, g) \in Nat /\ UnderWay(h, g)' \in Nat
        /\ UnderWay(h, g)' <= UnderWay(h, g)
        /\ outbox'[g] = <<>> => outbox[g] = <<>>
    <3> DEFINE q == inbox[h]
               r == outbox[g]
               q2 == inbox'[h]
               r2 == outbox'[g]
    <3>1. q \in Seq(Frames) /\ q # <<>> /\ r \in Seq(Frames) /\ q2 = Tail(q) /\ (r2 = r \/ r2 = Append(r, Head(q)))
      BY <2>1, <2>2, <2>3
    <3> HIDE DEF q, r, q2, r2
    <3>2. /\ \A f : InQueue(f, q2) => InQueue(f, q)
          /\ \A f : InQueue(f, r2) => InQueue(f, r) \/ InQueue(f, q)
          /\ Len(q) \in Nat /\ Len(r) \in Nat /\ Len(q2) \in Nat /\ Len(r2) \in Nat
          /\ Len(q2) + Len(r2) <= Len(q) + Len(r)
          /\ r2 = <<>> => r = <<>>
      BY <3>1, Forwarded
    <3>3. UnderWay(h, g) = Len(r) + Len(q) /\ UnderWay(h, g)' = Len(r2) + Len(q2)
      BY DEF UnderWay, q, r, q2, r2
    <3>4. UnderWay(h, g) \in Nat /\ UnderWay(h, g)' \in Nat /\ UnderWay(h, g)' <= UnderWay(h, g)
      BY <3>2, <3>3
    <3>5. QED
      BY <3>2, <3>4 DEF q, r, q2, r2
  <2>5. KindsOK(h, g)'
    BY <2>1, <2>2, <2>4 DEF StreamOK, KindsOK
  <2>6. /\ \A f : OnWire(f, h, g)' => OnWire(f, h, g)
        /\ \A f : OnWire(f, g, h)' => OnWire(f, g, h)
    BY <2>1, <2>2, <2>4 DEF OnWire
  <2>7. QED
    BY <1>3, <2>4, <2>5, <2>6, StreamFlows
<1>7. CASE c = g
  <2>1. inbox'[g] = Tail(inbox[g]) /\ inbox'[h] = inbox[h] /\ inbox[g] # <<>>
    BY <1>1, <1>2, <1>3, <1>7
  <2>2. /\ outbox'[h] = outbox[h] \/ outbox'[h] = Append(outbox[h], Head(inbox[g]))
        /\ outbox'[g] = outbox[g]
    BY <1>1, <1>3, <1>4, <1>5, <1>7
  <2>3. inbox[g] \in Seq(Frames) /\ outbox[h] \in Seq(Frames)
    BY <1>1, <1>3
  <2>4. /\ \A f : InQueue(f, inbox'[g]) => InQueue(f, inbox[g])
        /\ \A f : InQueue(f, outbox'[h]) => InQueue(f, outbox[h]) \/ InQueue(f, inbox[g])
    <3> DEFINE q == inbox[g]
               r == outbox[h]
               q2 == inbox'[g]
               r2 == outbox'[h]
    <3>1. q \in Seq(Frames) /\ q # <<>> /\ r \in Seq(Frames) /\ q2 = Tail(q) /\ (r2 = r \/ r2 = Append(r, Head(q)))
      BY <2>1, <2>2, <2>3
    <3> HIDE DEF q, r, q2, r2
    <3>2. /\ \A f : InQueue(f, q2) => InQueue(f, q)
          /\ \A f : InQueue(f, r2) => InQueue(f, r) \/ InQueue(f, q)
      BY <3>1, Forwarded
    <3>3. QED
      BY <3>2 DEF q, r, q2, r2
  <2>5. UnderWay(h, g) \in Nat /\ UnderWay(h, g)' = UnderWay(h, g)
    <3> DEFINE q == inbox[h]
               r == outbox[g]
    <3>1. q \in Seq(Frames) /\ r \in Seq(Frames)
      BY <1>1, <1>3
    <3>2. UnderWay(h, g) = Len(r) + Len(q) /\ UnderWay(h, g)' = Len(r) + Len(q)
      BY <2>1, <2>2 DEF UnderWay
    <3> HIDE DEF q, r
    <3>3. Len(q) \in Nat /\ Len(r) \in Nat
      BY <3>1
    <3>4. QED
      BY <3>2, <3>3
  <2>6. KindsOK(h, g)'
    BY <2>1, <2>2, <2>4 DEF StreamOK, KindsOK
  <2>7. /\ \A f : OnWire(f, h, g)' => OnWire(f, h, g)
        /\ \A f : OnWire(f, g, h)' => OnWire(f, g, h)
    BY <2>1, <2>2, <2>4 DEF OnWire
  <2>8. UnderWay(h, g)' \in Nat /\ UnderWay(h, g)' <= UnderWay(h, g)
    BY <2>5
  <2>9. QED
    BY <1>3, <2>2, <2>5, <2>6, <2>7, <2>8, StreamFlows
<1>8. CASE c # h /\ c # g
  <2>1. outbox'[h] = outbox[h] /\ outbox'[g] = outbox[g]
    BY <1>1, <1>3, <1>4, <1>5, <1>8
  <2>2. inbox'[h] = inbox[h] /\ inbox'[g] = inbox[g]
    BY <1>1, <1>2, <1>3, <1>8
  <2>3. QED
    BY <1>3, <2>1, <2>2, StreamSame
<1>9. QED
  BY <1>6, <1>7, <1>8

\* A role is written to a client to whom nothing had been written.
LEMMA StreamTold ==
  ASSUME TypeOK, ServerInv, PagesInv, UNCHANGED <<page, inbox>>,
         NEW c \in Clients, NEW role \in Roles, Untold(c), Due(role, c),
         outbox' = [outbox EXCEPT ![c] = <<role>>],
         NEW met \in pairs, NEW h, NEW g, h = met.host, g = met.guest, StreamOK(h, g)
  PROVE  StreamOK(h, g)'
<1>1. h \in Clients /\ g \in Clients /\ h # g /\ ~IsGuest(h) /\ ~IsHost(g)
  BY TwoEnds
<1>2. /\ inbox \in [Clients -> Seq(Frames)] /\ outbox \in [Clients -> Seq(Frames)]
      /\ page'[h] = page[h] /\ page'[g] = page[g] /\ inbox'[h] = inbox[h] /\ inbox'[g] = inbox[g]
  BY DEF TypeOK
<1>3. \A f : InQueue(f, <<role>>) => f = role
  BY DEF InQueue
<1>4. CASE c = h
  <2>1. outbox'[h] = <<role>> /\ outbox'[g] = outbox[g] /\ role = "host"
    BY <1>1, <1>2, <1>4 DEF Due, Roles
  <2>2. KindsOK(h, g)'
    BY <1>2, <1>3, <2>1 DEF StreamOK, KindsOK
  <2>3. OnWire("answer", g, h)' => OnWire("answer", g, h)
    BY <1>2, <1>3, <2>1 DEF OnWire
  <2>4. \A f : OnWire(f, h, g)' = OnWire(f, h, g)
    BY <1>2, <2>1 DEF OnWire
  <2>5. WireOK(h, g)'
    BY <1>2, <2>3, <2>4 DEF StreamOK, WireOK
  <2>6. FewOK(h, g)'
    BY <1>2, <2>1 DEF StreamOK, FewOK, UnderWay
  <2>7. QED
    BY <2>2, <2>5, <2>6 DEF StreamOK
<1>5. CASE c = g
  <2>1. outbox'[g] = <<role>> /\ outbox'[h] = outbox[h] /\ role = "guest" /\ outbox[g] = <<>> /\ page[g] \in Fresh
    BY <1>1, <1>2, <1>5 DEF Due, Roles, Untold
  <2>2. KindsOK(h, g)'
    BY <1>2, <1>3, <2>1 DEF StreamOK, KindsOK
  <2>3. \A f \in {"offer"} \cup Verdicts : OnWire(f, h, g)' => OnWire(f, h, g)
    BY <1>2, <1>3, <2>1 DEF OnWire, Verdicts
  <2>4. OnWire("answer", g, h)' = OnWire("answer", g, h)
    BY <1>2, <2>1 DEF OnWire
  <2>5. WireOK(h, g)'
    BY <1>2, <2>3, <2>4 DEF StreamOK, WireOK
  <2>6. FewOK(h, g)'
    <3>1. Len(inbox[h]) \in Nat /\ Len(<<role>>) = 1 /\ Len(<<>>) = 0 /\ <<role>> # <<>>
      BY <1>1, <1>2
    <3>2. page[g] = "opening" => Len(inbox[h]) <= 1
      BY <2>1, <3>1 DEF StreamOK, FewOK, UnderWay
    <3>3. page[g] = "opening" => UnderWay(h, g)' <= 2
      <4>1. UnderWay(h, g)' = Len(<<role>>) + Len(inbox[h])
        BY <1>2, <2>1 DEF UnderWay
      <4>2. QED
        BY <3>1, <3>2, <4>1
    <3>4. page'[g] # "toOffer" /\ outbox'[g] # <<>>
      BY <1>2, <2>1, <3>1 DEF Fresh
    <3>5. QED
      BY <1>2, <3>3, <3>4 DEF FewOK
  <2>7. QED
    BY <2>2, <2>5, <2>6 DEF StreamOK
<1>6. CASE c # h /\ c # g
  <2>1. outbox'[h] = outbox[h] /\ outbox'[g] = outbox[g]
    BY <1>1, <1>2, <1>6
  <2>2. QED
    BY <1>2, <2>1, StreamSame
<1>7. QED
  BY <1>4, <1>5, <1>6

\* The host reads its role or the answer.
LEMMA StreamHostTakes ==
  ASSUME TypeOK, ServerInv, PagesInv, FirstInv, StreamInv,
         NEW met \in pairs, NEW h, NEW g, h = met.host, g = met.guest, StreamOK(h, g), Take(h)
  PROVE  StreamOK(h, g)'
<1>1. h \in Clients /\ g \in Clients /\ h # g
      /\ page[h] \notin {"toOffer", "answering", "following", "meeting"}
  BY TwoEnds
<1>2. /\ inbox' = inbox /\ page'[g] = page[g] /\ outbox[h] # <<>> /\ outbox[h] \in Seq(Frames)
      /\ outbox'[h] = Tail(outbox[h]) /\ outbox'[g] = outbox[g]
      /\ page'[h] = AfterFrame(page[h], Head(outbox[h]))
  BY <1>1 DEF Take, Show, TypeOK
<1>3. Head(outbox[h]) \in Expects(page[h])
  BY <1>1, <1>2, FitNow DEF FramesFit, Take
<1>4. InQueue(Head(outbox[h]), outbox[h])
  BY <1>2, InHead
<1>5. \A f : InQueue(f, outbox'[h]) => InQueue(f, outbox[h])
  BY <1>2, InTail
<1>6. Head(outbox[h]) \in {"host", "answer"}
  BY <1>4 DEF StreamOK, KindsOK
<1>7. \/ page[h] = "opening" /\ page'[h] = "offering"
      \/ page[h] = "toAnswer" /\ page'[h] = "deciding" /\ OnWire("answer", g, h)
  BY <1>1, <1>2, <1>3, <1>4, <1>6 DEF AfterFrame, Expects, OnWire
<1>8. KindsOK(h, g)'
  BY <1>2, <1>5 DEF StreamOK, KindsOK
<1>9. /\ \A f : OnWire(f, g, h)' => OnWire(f, g, h)
      /\ \A f : OnWire(f, h, g)' = OnWire(f, h, g)
  BY <1>2, <1>5 DEF OnWire
<1>10. WireOK(h, g)'
  <2>1. CASE page[h] = "opening"
    <3>1. page[h] \notin Offered /\ page'[h] \notin {"deciding"} \cup Playing
      BY <1>7, <2>1 DEF Offered, Playing
    <3>2. QED
      BY <1>2, <1>9, <3>1 DEF StreamOK, WireOK
  <2>2. CASE page[h] = "toAnswer"
    <3>1. page[h] \in Offered /\ page'[h] \in Offered /\ page[g] \in Answered
      BY <1>7, <2>2 DEF Offered, StreamOK, WireOK
    <3>2. QED
      BY <1>2, <1>9, <3>1 DEF StreamOK, WireOK
  <2>3. QED
    BY <1>7, <2>1, <2>2
<1>11. FewOK(h, g)'
  BY <1>2 DEF StreamOK, FewOK, UnderWay
<1>12. QED
  BY <1>8, <1>10, <1>11 DEF StreamOK

\* The guest reads its role, the offer or the verdict.
LEMMA StreamGuestTakes ==
  ASSUME TypeOK, ServerInv, PagesInv, FirstInv, StreamInv,
         NEW met \in pairs, NEW h, NEW g, h = met.host, g = met.guest, StreamOK(h, g), Take(g)
  PROVE  StreamOK(h, g)'
<1>1. h \in Clients /\ g \in Clients /\ h # g
      /\ page[g] \notin {"offering", "toAnswer", "deciding"}
  BY TwoEnds
<1>2. /\ inbox' = inbox /\ page'[h] = page[h] /\ outbox[g] # <<>> /\ outbox[g] \in Seq(Frames)
      /\ outbox'[g] = Tail(outbox[g]) /\ outbox'[h] = outbox[h] /\ inbox[h] \in Seq(Frames)
      /\ page'[g] = AfterFrame(page[g], Head(outbox[g]))
  BY <1>1 DEF Take, Show, TypeOK
<1>3. Head(outbox[g]) \in Expects(page[g])
  BY <1>1, <1>2, FitNow DEF FramesFit, Take
<1>4. InQueue(Head(outbox[g]), outbox[g])
  BY <1>2, InHead
<1>5. \A f : InQueue(f, outbox'[g]) => InQueue(f, outbox[g])
  BY <1>2, InTail
<1>6. Head(outbox[g]) \in {"guest", "offer"} \cup Verdicts
  BY <1>4 DEF StreamOK, KindsOK
<1>7. \/ page[g] = "opening" /\ page'[g] = "toOffer"
      \/ page[g] = "toOffer" /\ page'[g] = "answering" /\ OnWire("offer", h, g)
      \/ page[g] = "following" /\ page'[g] \in {"meeting", "relay"}
  BY <1>1, <1>2, <1>3, <1>4, <1>6 DEF AfterFrame, Expects, OnWire, Verdicts
<1>8. KindsOK(h, g)'
  BY <1>2, <1>5 DEF StreamOK, KindsOK
<1>9. /\ \A f : OnWire(f, h, g)' => OnWire(f, h, g)
      /\ \A f : OnWire(f, g, h)' = OnWire(f, g, h)
  BY <1>2, <1>5 DEF OnWire
<1>10. UnderWay(h, g)' = UnderWay(h, g) - 1
  <2> DEFINE q == outbox[g]
             r == inbox[h]
  <2>1. q \in Seq(Frames) /\ q # <<>> /\ r \in Seq(Frames)
    BY <1>2
  <2>2. UnderWay(h, g) = Len(q) + Len(r) /\ UnderWay(h, g)' = Len(Tail(q)) + Len(r)
    BY <1>2 DEF UnderWay
  <2> HIDE DEF q, r
  <2>3. Len(q) \in Nat /\ Len(r) \in Nat /\ Len(Tail(q)) = Len(q) - 1
    BY <2>1
  <2>4. PICK m \in Nat, n \in Nat : m = Len(q) /\ n = Len(r)
    BY <2>3
  <2>5. UnderWay(h, g) = m + n /\ UnderWay(h, g)' = (m - 1) + n
    BY <2>2, <2>3, <2>4
  <2>6. QED
    BY <2>5
<1>11. UnderWay(h, g) \in Nat
  <2>1. PICK m \in Nat, n \in Nat : m = Len(outbox[g]) /\ n = Len(inbox[h])
    BY <1>2
  <2>2. UnderWay(h, g) = m + n
    BY <2>1 DEF UnderWay
  <2>3. QED
    BY <2>2
<1>12. CASE page[g] = "opening" /\ page'[g] = "toOffer"
  <2>1. page[g] \notin Answered /\ page'[g] \notin {"answering", "following", "meeting"} \cup Playing
    BY <1>12 DEF Answered, Playing
  <2>2. WireOK(h, g)'
    BY <1>2, <1>9, <1>12, <2>1 DEF StreamOK, WireOK
  <2>3. FewOK(h, g)'
    BY <1>2, <1>10, <1>11, <1>12 DEF StreamOK, FewOK
  <2>4. QED
    BY <1>8, <2>2, <2>3 DEF StreamOK
<1>13. CASE page[g] = "toOffer" /\ page'[g] = "answering" /\ OnWire("offer", h, g)
  <2>1. page[g] \notin Answered /\ page'[g] \notin {"toOffer", "opening"} /\ page[h] \in Offered
    BY <1>13 DEF Answered, Playing, StreamOK, WireOK
  <2>2. UnderWay(h, g) <= 1
    BY <1>13 DEF StreamOK, FewOK
  <2>3. Len(outbox'[g]) = 0 /\ Len(inbox'[h]) = 0
    <3>1. Tail(outbox[g]) \in Seq(Frames) /\ inbox'[h] \in Seq(Frames)
      BY <1>2
    <3> DEFINE q == Tail(outbox[g])
    <3> HIDE DEF q
    <3>2. Len(q) \in Nat /\ Len(inbox'[h]) \in Nat
      BY <3>1 DEF q
    <3>3. PICK m \in Nat, n \in Nat : m = Len(Tail(outbox[g])) /\ n = Len(inbox'[h])
      BY <3>2 DEF q
    <3>4. UnderWay(h, g)' = m + n
      BY <1>2, <3>3 DEF UnderWay
    <3>5. m + n <= 0
      BY <1>10, <1>11, <2>2, <3>4
    <3>6. m = 0 /\ n = 0
      BY <3>5
    <3>7. QED
      BY <1>2, <3>3, <3>6
  <2>4. \A f : ~OnWire(f, h, g)'
    BY <2>3 DEF OnWire, InQueue
  <2>5. WireOK(h, g)'
    BY <1>2, <1>9, <1>13, <2>1, <2>4 DEF StreamOK, WireOK
  <2>6. QED
    BY <1>8, <2>1, <2>5 DEF StreamOK, FewOK
<1>14. CASE page[g] = "following" /\ page'[g] \in {"meeting", "relay"}
  <2>1. page[g] \notin Fresh \cup {"toOffer"} /\ page'[g] \in Answered /\ page[h] \in Offered
        /\ page'[g] \notin {"toOffer", "opening"}
    BY <1>14 DEF Answered, Playing, StreamOK, WireOK, Fresh
  <2>2. WireOK(h, g)'
    BY <1>2, <1>9, <2>1 DEF StreamOK, WireOK
  <2>3. QED
    BY <1>8, <2>1, <2>2 DEF StreamOK, FewOK
<1>15. QED
  BY <1>7, <1>12, <1>13, <1>14

\* The host offers: what is under way to the guest is at most its role.
LEMMA StreamOffers ==
  ASSUME TypeOK, ServerInv, PagesInv, FirstInv,
         NEW met \in pairs, NEW h, NEW g, h = met.host, g = met.guest, StreamOK(h, g),
         page[h] = "offering", SentOn(h, "offer"), Show(h, "toAnswer"), UNCHANGED outbox
  PROVE  StreamOK(h, g)'
<1>1. /\ h \in Clients /\ g \in Clients /\ h # g
      /\ page[g] \notin {"offering", "toAnswer", "deciding"}
      /\ \A k : HostPlays(g, k) => page[h] \in {k, "left"}
  BY TwoEnds
<1>2. /\ outbox'[h] = outbox[h] /\ outbox'[g] = outbox[g] /\ inbox'[g] = inbox[g]
      /\ page'[h] = "toAnswer" /\ page'[g] = page[g]
      /\ inbox[h] \in Seq(Frames) /\ outbox[g] \in Seq(Frames)
      /\ inbox'[h] = inbox[h] \/ inbox'[h] = Append(inbox[h], "offer")
  BY <1>1 DEF SentOn, Show, TypeOK
<1>3. ~OnWire("offer", h, g)
  BY DEF StreamOK, WireOK, Offered, Playing
<1>4. \A v \in Verdicts : ~OnWire(v, h, g)
  BY <1>1 DEF PagesInv, VerdictInv, OnWire, Verdicts, Kind
<1>5. inbox[h] = <<>>
  <2>1. \A f : ~InQueue(f, inbox[h])
    BY <1>3, <1>4 DEF StreamOK, KindsOK, OnWire
  <2>2. QED
    BY <1>2, <2>1, NothingInQueue
<1>6. \A f : InQueue(f, outbox[g]) => f = "guest"
  BY <1>3, <1>4 DEF StreamOK, KindsOK, OnWire
<1>7. \A i \in 1 .. Len(outbox[g]) : i = 1 /\ page[g] \in Fresh
  <2>1. \A i \in 1 .. Len(outbox[g]) : outbox[g][i] = "guest"
    BY <1>6 DEF InQueue
  <2>2. QED
    BY <1>1, <2>1 DEF FirstInv, Roles
<1>8. page[g] \in Fresh \cup {"toOffer"} /\ page[g] \notin {"answering", "following", "meeting"} \cup Playing
  <2>1. page[g] \notin {"answering", "following", "meeting"} \cup Playing
    BY DEF StreamOK, WireOK, Offered, Playing
  <2>2. page[g] \in PageStates
    BY <1>1 DEF TypeOK
  <2>3. QED
    BY <1>1, <2>1, <2>2 DEF PageStates, Fresh, Playing
<1>9. \A f : InQueue(f, inbox'[h]) => f = "offer"
  BY <1>2, <1>5 DEF InQueue
<1>10. KindsOK(h, g)'
  BY <1>2, <1>9 DEF StreamOK, KindsOK
<1>11. WireOK(h, g)'
  <2>1. \A v \in Verdicts : ~OnWire(v, h, g)'
    BY <1>2, <1>4, <1>9 DEF OnWire, Verdicts
  <2>2. OnWire("answer", g, h)' = OnWire("answer", g, h)
    BY <1>2 DEF OnWire
  <2>3. page'[h] \in Offered /\ page'[h] \notin {"deciding"} \cup Playing
    BY <1>2 DEF Offered, Playing
  <2>4. QED
    BY <1>2, <1>8, <2>1, <2>2, <2>3 DEF StreamOK, WireOK
<1>12. FewOK(h, g)'
  <2>0. Len(outbox[g]) \in Nat /\ (Len(inbox'[h]) = 0 \/ Len(inbox'[h]) = 1)
    <3>1. inbox'[h] = <<>> \/ inbox'[h] = <<"offer">>
      BY <1>2, <1>5
    <3>2. Len(<<>>) = 0 /\ Len(<<"offer">>) = 1
      OBVIOUS
    <3>3. Len(inbox'[h]) = 0 \/ Len(inbox'[h]) = 1
      BY <3>1, <3>2
    <3>4. QED
      BY <1>2, <3>3
  <2>1. PICK m \in Nat, n \in Nat : m = Len(outbox[g]) /\ n = Len(inbox'[h])
    BY <2>0
  <2>2. UnderWay(h, g)' = m + n
    BY <1>2, <2>1 DEF UnderWay
  <2>3. n <= 1
    <3>1. n = 0 \/ n = 1
      BY <2>0, <2>1
    <3>2. QED
      BY <3>1
  <2>4. m <= 1
    <3>1. m >= 2 => 2 \in 1 .. Len(outbox[g])
      BY <2>1
    <3>2. QED
      BY <1>7, <3>1
  <2>5. outbox[g] = <<>> => m = 0
    BY <2>1
  <2>6. page[g] = "toOffer" => m = 0
    <3>1. m >= 1 => 1 \in 1 .. Len(outbox[g])
      BY <2>1
    <3>2. QED
      BY <1>7, <3>1 DEF Fresh
  <2>7. QED
    BY <1>2, <2>2, <2>3, <2>4, <2>5, <2>6 DEF FewOK
<1>13. QED
  BY <1>10, <1>11, <1>12 DEF StreamOK

\* The guest answers.
LEMMA StreamAnswers ==
  ASSUME TypeOK, ServerInv, PagesInv,
         NEW met \in pairs, NEW h, NEW g, h = met.host, g = met.guest, StreamOK(h, g),
         page[g] = "answering", SentOn(g, "answer"), Show(g, "following"), UNCHANGED outbox
  PROVE  StreamOK(h, g)'
<1>1. h \in Clients /\ g \in Clients /\ h # g
  BY TwoEnds
<1>2. /\ outbox'[h] = outbox[h] /\ outbox'[g] = outbox[g] /\ inbox'[h] = inbox[h]
      /\ page'[g] = "following" /\ page'[h] = page[h]
      /\ inbox[g] \in Seq(Frames)
      /\ inbox'[g] = inbox[g] \/ inbox'[g] = Append(inbox[g], "answer")
  BY <1>1 DEF SentOn, Show, TypeOK
<1>3. \A f : InQueue(f, inbox'[g]) => InQueue(f, inbox[g]) \/ f = "answer"
  <2>1. "answer" \in Frames
    BY DEF Frames
  <2>2. QED
    BY <1>2, <2>1, InAppend
<1>4. KindsOK(h, g)'
  BY <1>2, <1>3 DEF StreamOK, KindsOK
<1>5. page[h] \in Offered /\ page'[g] \in Answered /\ ~OnWire("offer", h, g)
  BY <1>2 DEF StreamOK, WireOK, Answered, Fresh, Playing
<1>6. \A f : OnWire(f, h, g)' = OnWire(f, h, g)
  BY <1>2 DEF OnWire
<1>7. WireOK(h, g)'
  BY <1>2, <1>5, <1>6 DEF StreamOK, WireOK
<1>8. QED
  BY <1>2, <1>4, <1>7 DEF StreamOK, FewOK

\* The host decides: the guest has answered.
LEMMA StreamDecides ==
  ASSUME TypeOK, ServerInv, PagesInv,
         NEW met \in pairs, NEW h, NEW g, h = met.host, g = met.guest, StreamOK(h, g),
         NEW v \in Verdicts, NEW s \in Playing,
         page[h] = "deciding", SentOn(h, v), Show(h, s), UNCHANGED outbox
  PROVE  StreamOK(h, g)'
<1>1. h \in Clients /\ g \in Clients /\ h # g
  BY TwoEnds
<1>2. /\ outbox'[h] = outbox[h] /\ outbox'[g] = outbox[g] /\ inbox'[g] = inbox[g]
      /\ page'[h] = s /\ page'[g] = page[g]
      /\ inbox[h] \in Seq(Frames)
      /\ inbox'[h] = inbox[h] \/ inbox'[h] = Append(inbox[h], v)
  BY <1>1 DEF SentOn, Show, TypeOK
<1>3. \A f : InQueue(f, inbox'[h]) => InQueue(f, inbox[h]) \/ f = v
  <2>1. v \in Frames
    BY DEF Frames, Verdicts
  <2>2. QED
    BY <1>2, <2>1, InAppend
<1>4. KindsOK(h, g)'
  BY <1>2, <1>3 DEF StreamOK, KindsOK
<1>5. page'[h] \in Offered /\ page[g] \in Answered
  BY <1>2 DEF StreamOK, WireOK, Offered, Playing
<1>6. OnWire("offer", h, g)' => OnWire("offer", h, g)
  BY <1>2, <1>3 DEF OnWire, Verdicts
<1>7. OnWire("answer", g, h)' = OnWire("answer", g, h)
  BY <1>2 DEF OnWire
<1>8. WireOK(h, g)'
  BY <1>2, <1>5, <1>6, <1>7 DEF StreamOK, WireOK
<1>9. page'[g] \notin {"toOffer", "opening"}
  BY <1>2, <1>5 DEF Answered, Playing
<1>10. QED
  BY <1>4, <1>8, <1>9 DEF StreamOK, FewOK

\* The connector of an end rejects before its blob is sent: nothing the other
\* end sends after that blob can be under way, nor has it got so far itself.
LEMMA StreamBreaks ==
  ASSUME TypeOK, ServerInv, PagesInv,
         NEW met \in pairs, NEW h, NEW g, h = met.host, g = met.guest, StreamOK(h, g),
         UNCHANGED <<inbox, outbox>>,
         \/ page[h] = "offering" /\ Show(h, "mute")
         \/ page[g] = "answering" /\ Show(g, "mute")
  PROVE  StreamOK(h, g)'
<1>1. h \in Clients /\ g \in Clients /\ h # g
  BY TwoEnds
<1>2. /\ \A f : OnWire(f, h, g)' = OnWire(f, h, g)
      /\ \A f : OnWire(f, g, h)' = OnWire(f, g, h)
      /\ KindsOK(h, g)' /\ UnderWay(h, g)' = UnderWay(h, g)
  BY DEF OnWire, StreamOK, KindsOK, UnderWay
<1>3. CASE page[h] = "offering" /\ Show(h, "mute")
  <2>1. page'[h] = "mute" /\ page'[g] = page[g] /\ page[h] \notin Offered
    BY <1>1, <1>3 DEF Show, TypeOK, Offered, Playing
  <2>2. "mute" \notin {"deciding"} \cup Playing
    BY DEF Playing
  <2>3. QED
    BY <1>2, <2>1, <2>2 DEF StreamOK, WireOK, FewOK
<1>4. CASE page[g] = "answering" /\ Show(g, "mute")
  <2>1. page'[g] = "mute" /\ page'[h] = page[h]
        /\ page[g] \notin Answered /\ page[g] \notin Fresh \cup {"toOffer"}
    BY <1>1, <1>4 DEF Show, TypeOK, Answered, Fresh, Playing
  <2>2. "mute" \notin {"answering", "following", "meeting", "toOffer", "opening"} \cup Playing
    BY DEF Playing
  <2>3. QED
    BY <1>2, <2>1, <2>2 DEF StreamOK, WireOK, FewOK
<1>5. QED
  BY <1>3, <1>4

\* A tab is closed, the host fails over the answer or the channel, the guest
\* meets the host on the channel, or gives up.
LEMMA StreamShows ==
  ASSUME TypeOK, ServerInv, PagesInv,
         NEW met \in pairs, NEW h, NEW g, h = met.host, g = met.guest, StreamOK(h, g),
         UNCHANGED <<inbox, outbox>>,
         \/ Show(h, "left") \/ Show(g, "left")
         \/ page[h] = "deciding" /\ Show(h, "failed")
         \/ page[g] \in {"following", "meeting"} /\ (Show(g, "p2p") \/ Show(g, "failed"))
  PROVE  StreamOK(h, g)'
<1>1. h \in Clients /\ g \in Clients /\ h # g
  BY TwoEnds
<1>2. /\ \A f : OnWire(f, h, g)' = OnWire(f, h, g)
      /\ \A f : OnWire(f, g, h)' = OnWire(f, g, h)
      /\ KindsOK(h, g)' /\ UnderWay(h, g)' = UnderWay(h, g)
  BY DEF OnWire, StreamOK, KindsOK, UnderWay
<1>3. CASE Show(h, "left")
  <2>1. page'[h] = "left" /\ page'[g] = page[g] /\ "left" \in Offered
        /\ "left" \notin {"deciding"} \cup Playing
    BY <1>1, <1>3 DEF Show, TypeOK, Offered, Playing
  <2>2. QED
    BY <1>2, <2>1 DEF StreamOK, WireOK, FewOK
<1>4. CASE Show(g, "left")
  <2>1. page'[g] = "left" /\ page'[h] = page[h] /\ "left" \in Answered /\ "left" \in Fresh
        /\ "left" \notin {"answering", "following", "meeting"} \cup Playing
    BY <1>1, <1>4 DEF Show, TypeOK, Answered, Fresh, Playing
  <2>2. QED
    BY <1>2, <2>1 DEF StreamOK, WireOK, FewOK
<1>5. ASSUME NEW s \in {"p2p", "failed"}, page[g] \in {"following", "meeting"}, Show(g, s)
      PROVE  StreamOK(h, g)'
  <2>1. page'[g] = s /\ page'[h] = page[h] /\ s \in Answered /\ page[h] \in Offered
        /\ page[g] \notin Fresh \cup {"toOffer"} /\ s \notin {"toOffer", "opening"}
    BY <1>1, <1>5 DEF Show, TypeOK, Answered, Fresh, Playing, StreamOK, WireOK
  <2>2. QED
    BY <1>2, <2>1 DEF StreamOK, WireOK, FewOK
<1>6. CASE page[h] = "deciding" /\ Show(h, "failed")
  <2>1. page'[h] = "failed" /\ page'[g] = page[g] /\ "failed" \in Offered
        /\ "failed" \notin {"deciding"} \cup Playing
    BY <1>1, <1>6 DEF Show, TypeOK, Offered, Playing
  <2>2. QED
    BY <1>2, <2>1 DEF StreamOK, WireOK, FewOK
<1>7. QED
  BY <1>3, <1>4, <1>5, <1>6

\* A page of the pair does something, or a page of another one.
LEMMA StreamPage ==
  ASSUME TypeOK, ServerInv, PagesInv, FirstInv, StreamInv,
         NEW c \in Clients, Open(c) \/ Page(c) \/ ChannelOpens(c) \/ Leave(c),
         NEW met \in pairs, NEW h, NEW g, h = met.host, g = met.guest, StreamOK(h, g)
  PROVE  StreamOK(h, g)'
<1> USE DEF OnPage, server, sockets
<1>1. /\ h \in Clients /\ g \in Clients /\ h # g /\ Chosen(h) /\ Chosen(g)
      /\ page[h] \notin {"toOffer", "answering", "following", "meeting"}
      /\ page[g] \notin {"offering", "toAnswer", "deciding"}
  BY TwoEnds
<1>2. CASE c # h /\ c # g
  <2>1. page'[h] = page[h] /\ page'[g] = page[g]
    BY <1>1, <1>2, PageMoves
  <2>2. \/ UNCHANGED <<inbox, outbox>>
        \/ outbox' = [outbox EXCEPT ![c] = Tail(@)] /\ UNCHANGED inbox
        \/ \E f : UNCHANGED outbox /\ inbox' = [inbox EXCEPT ![c] = Append(@, f)]
    BY PageMoves DEF Take
  <2>3. /\ outbox'[h] = outbox[h] /\ outbox'[g] = outbox[g]
        /\ inbox'[h] = inbox[h] /\ inbox'[g] = inbox[g]
    BY <1>1, <1>2, <2>2 DEF TypeOK
  <2>4. QED
    BY <2>1, <2>3, StreamSame
<1>3. CASE c = h \/ c = g
  <2>1. ~Open(c)
    BY <1>1, <1>3 DEF Open, PagesInv, AwayInv, ServerInv, PlaceInv
  <2>2. CASE Take(c)
    BY <1>3, <2>2, StreamHostTakes, StreamGuestTakes
  <2>3. CASE Signal(c)
    <3>1. \/ page[c] = "offering" /\ SentOn(c, "offer") /\ Show(c, "toAnswer") /\ UNCHANGED outbox
          \/ page[c] = "answering" /\ SentOn(c, "answer") /\ Show(c, "following") /\ UNCHANGED outbox
          \/ page[c] \in {"offering", "answering"} /\ Show(c, "mute") /\ UNCHANGED <<inbox, outbox>>
      BY <2>3 DEF Signal
    <3>2. QED
      BY <1>1, <1>3, <3>1, StreamOffers, StreamAnswers, StreamBreaks
  <2>4. CASE Decide(c)
    <3>1. c = h /\ page[h] = "deciding"
      BY <1>1, <1>3, <2>4 DEF Decide
    <3>2. \/ \E v \in Verdicts, s \in Playing : SentOn(h, v) /\ Show(h, s) /\ UNCHANGED outbox
          \/ Show(h, "failed") /\ UNCHANGED <<inbox, outbox>>
      BY <2>4, <3>1 DEF Decide, Verdicts, Playing
    <3>3. QED
      BY <3>1, <3>2, StreamDecides, StreamShows
  <2>5. CASE Meet(c) \/ GiveUp(c)
    <3>1. c = g /\ page[g] \in {"following", "meeting"}
      BY <1>1, <1>3, <2>5 DEF Meet, GiveUp
    <3>2. UNCHANGED <<inbox, outbox>> /\ (Show(g, "p2p") \/ Show(g, "failed"))
      BY <2>5, <3>1 DEF Meet, GiveUp
    <3>3. QED
      BY <3>1, <3>2, StreamShows
  <2>6. CASE ChannelOpens(c)
    BY <2>6, StreamSame DEF ChannelOpens
  <2>7. CASE Leave(c)
    <3>1. UNCHANGED <<inbox, outbox>> /\ Show(c, "left")
      BY <2>7 DEF Leave
    <3>2. QED
      BY <1>3, <3>1, StreamShows
  <2>8. QED
    BY <2>1, <2>2, <2>3, <2>4, <2>5, <2>6, <2>7 DEF Page
<1>4. QED
  BY <1>2, <1>3

\* Every step keeps the frames of a pair in order.
LEMMA StreamStep ==
  ASSUME TypeOK, ServerInv, PagesInv, TellInv, FirstInv, StreamInv, Next,
         NEW met \in pairs, NEW h, NEW g, h = met.host, g = met.guest, StreamOK(h, g)
  PROVE  StreamOK(h, g)'
<1>1. ASSUME NEW c \in Clients, Open(c) \/ Page(c) \/ ChannelOpens(c) \/ Leave(c)
      PROVE  StreamOK(h, g)'
  BY <1>1, StreamPage
<1>2. CASE ServerNext /\ UNCHANGED page
  <2>1. h \in Clients /\ g \in Clients
    BY TwoEnds
  <2>2. ASSUME UNCHANGED <<inbox, outbox>> PROVE StreamOK(h, g)'
    BY <1>2, <2>2, StreamSame
  <2>3. ASSUME NEW c \in Clients, Relay(c) PROVE StreamOK(h, g)'
    BY <1>2, <2>3, StreamRelay
  <2>4. ASSUME NEW c \in Clients, NEW role \in Roles, UNCHANGED inbox, Untold(c), Due(role, c),
               outbox' = [outbox EXCEPT ![c] = <<role>>]
        PROVE  StreamOK(h, g)'
    BY <1>2, <2>4, StreamTold
  <2>5. QED
    BY <1>2, <2>2, <2>3, <2>4, ServerMoves
<1>3. QED
  BY <1>1, <1>2 DEF Next

\* ... and a pair that is new has none.
LEMMA NextStream ==
  ASSUME TypeOK, ServerInv, PagesInv, TellInv, QuietInv, FirstInv, StreamInv, Next
  PROVE  StreamInv'
<1> SUFFICES ASSUME NEW met \in pairs' PROVE StreamOK(met.host, met.guest)'
  BY DEF StreamInv
<1> DEFINE h == met.host
           g == met.guest
<1>1. CASE met \notin pairs
  <2>1. met \in Pair /\ ~Chosen(h) /\ ~Chosen(g) /\ UNCHANGED <<inbox, outbox, page>>
    BY <1>1, PairsGrow
  <2>2. h \in Clients /\ g \in Clients
    BY <2>1 DEF Pair
  <2>3. /\ inbox[h] = <<>> /\ outbox[h] = <<>> /\ page[h] \in Fresh
        /\ inbox[g] = <<>> /\ outbox[g] = <<>> /\ page[g] \in Fresh
    BY <2>1, <2>2, UnchosenFresh DEF QuietInv
  <2> HIDE DEF h, g
  <2>4. /\ inbox'[h] = <<>> /\ outbox'[h] = <<>> /\ page'[h] \in Fresh
        /\ inbox'[g] = <<>> /\ outbox'[g] = <<>> /\ page'[g] \in Fresh
    BY <2>1, <2>3
  <2>5. \A f : ~InQueue(f, <<>>)
    BY DEF InQueue
  <2>6. KindsOK(h, g)' /\ WireOK(h, g)'
    BY <2>4, <2>5 DEF KindsOK, WireOK, OnWire, Fresh, Playing
  <2>7. FewOK(h, g)'
    <3>1. UnderWay(h, g)' = 0
      BY <2>4 DEF UnderWay
    <3>2. QED
      BY <2>4, <3>1 DEF FewOK, Fresh
  <2>8. QED
    BY <2>6, <2>7 DEF StreamOK, h, g
<1>2. CASE met \in pairs
  <2>1. PICK a, b : a = met.host /\ b = met.guest /\ StreamOK(a, b)
    BY <1>2 DEF StreamInv
  <2>2. StreamOK(a, b)'
    BY <1>2, <2>1, StreamStep
  <2>3. QED
    BY <2>1, <2>2
<1>3. QED
  BY <1>1, <1>2

(***************************************************************************)
(* The invariant, and what follows.                                        *)
(***************************************************************************)
\* At the start nobody has been chosen, told or handed over.
LEMMA InitFrames == Init => FrameInv
<1> SUFFICES ASSUME Init PROVE FrameInv
  OBVIOUS
<1> USE DEF Init, RoomsInit
<1>1. /\ pairs = {} /\ \A c \in Clients : inbox[c] = <<>> /\ outbox[c] = <<>> /\ page[c] = "away"
      /\ \A c \in Clients : peer[c] = {} /\ paired[c] = {}
      /\ \A t \in Threads : work[t] = <<>> /\ pc[t] \notin Handshake
  BY DEF Handshake
<1>2. TellInv
  BY <1>1 DEF TellInv, WorkIdle, WorkDistinct, ToTellInv, ToldInv, Handshake
<1>3. HandedInv /\ QuietInv /\ FirstInv /\ StreamInv
  BY <1>1 DEF HandedInv, Handed, QuietInv, FirstInv, StreamInv
<1>4. QED
  BY <1>2, <1>3 DEF FrameInv

\* A step that changes no variable keeps the invariant.
LEMMA StutterFrames ==
  ASSUME FrameInv, UNCHANGED vars
  PROVE  FrameInv'
<1> USE DEF vars, server, sockets
<1>1. /\ \A c : Untold(c)' = Untold(c) /\ Told(c)' = Told(c) /\ Chosen(c)' = Chosen(c)
      /\ \A c : Handed(c)' = Handed(c)
      /\ \A t, i : ToTell(t, i)' = ToTell(t, i)
  BY DEF Untold, Told, Chosen, Unhanded, Handed, ToTell
<1>2. TellInv'
  BY <1>1 DEF FrameInv, TellInv, WorkIdle, WorkDistinct, ToTellInv, ToldInv, Told
<1>3. HandedInv' /\ QuietInv' /\ FirstInv'
  BY <1>1 DEF FrameInv, HandedInv, QuietInv, FirstInv
<1>4. StreamInv'
  BY DEF FrameInv, StreamInv, StreamOK, KindsOK, WireOK, FewOK, OnWire, UnderWay
<1>5. QED
  BY <1>2, <1>3, <1>4 DEF FrameInv

\* How far each introduction has come and which frames are under way between
\* two pages in their states is kept by every step of a thread, a handler and a
\* page, in any order.
THEOREM FramesInvariant == Spec => []FrameInv
<1>1. ASSUME IInv, FrameInv, Next PROVE FrameInv'
  BY <1>1, NextTell, NextHanded, NextQuiet, NextFirst, NextStream DEF IInv, FrameInv
<1>2. IInv /\ FrameInv /\ [Next]_vars => FrameInv'
  BY <1>1, StutterFrames
<1>3. QED
  BY InitFrames, <1>2, RoomsInvariant, PTL DEF Spec

\* No page is ever sent a frame it cannot use at that point, so text.next()
\* never throws in negotiate: the role comes before anything the other end sends,
\* and the other end's frames in the order of the negotiation, whatever thread
\* wrote the role and whenever the handler of the other end began to relay.
THEOREM FramesAreUsable == Spec => []FramesFit
<1>1. IInv /\ FrameInv => FramesFit
  BY FitNow DEF IInv, FrameInv
<1>2. QED
  BY <1>1, RoomsInvariant, FramesInvariant, PTL
=============================================================================
