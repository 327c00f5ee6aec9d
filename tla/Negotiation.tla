----------------------------- MODULE Negotiation -----------------------------
(***************************************************************************)
(* The negotiation of a match between two pages (src/client/src/net/       *)
(* room.ts) over the server of Rooms: the role, the offer and the answer,  *)
(* and the host's choice between the data channel and the relay.           *)
(*                                                                         *)
(* The characters ride in the frame of the host's choice and the packets   *)
(* of the match are Netplay's; both are left out.                          *)
(***************************************************************************)
EXTENDS Rooms

CONSTANTS
  Visits   \* ways to come: [place : [Clients -> a code, a mode or "nowhere"],
           \* leaves : Nat], the bound leaves on the tabs that are closed

ASSUME VisitsAssumption == \A visit \in Visits : visit.leaves \in Nat

VARIABLES
  page,      \* [Clients -> what negotiate awaits, or how it ended]
  channel,   \* the clients whose data channel has opened
  leaves     \* bound: tabs that may still be closed

vars == <<server, sockets, place, page, channel, leaves>>

Playing == {"p2p", "relay"}

\* The text frames a page in this state takes, queued until it asks.
Expects(state) ==
  CASE state = "opening"   -> {"host", "guest"}
    [] state = "toOffer"   -> {"offer"}
    [] state = "toAnswer"  -> {"answer"}
    [] state = "following" -> {"useP2p", "useRelay"}
    [] OTHER               -> {}

Init ==
  /\ RoomsInit
  /\ \E visit \in Visits :
       place = visit.place /\ leaves = visit.leaves
  /\ page = [c \in Clients |-> "away"]
  /\ channel = {}

Show(c, state) == page' = [page EXCEPT ![c] = state]

\* A frame sent on a socket that is not open is dropped.
SentOn(c, frame) ==
  inbox' = IF conn[c] = "open" THEN [inbox EXCEPT ![c] = Append(@, frame)] ELSE inbox

OnPage == <<server, place, leaves>>

(***************************************************************************)
(* Opening a socket.  The server accepts the token frame, or hangs up once *)
(* the socket is open, which the page does not hear of: it waits for its   *)
(* role.  A socket that never opens fails the page.                        *)
(***************************************************************************)
Open(c) ==
  /\ page[c] = "away" /\ place[c] \in Codes \cup Modes
  /\ \/ /\ conn' = [conn EXCEPT ![c] = "open"]
        /\ Goto(c, "joining") /\ Show(c, "opening")
     \/ /\ conn' = [conn EXCEPT ![c] = "hungup"]
        /\ Goto(c, "done") /\ (Show(c, "opening") \/ Show(c, "failed"))
  /\ UNCHANGED <<rooms, queue, ahead, older, age, rtt, work, paired, peer, pairs, noise, late,
                 inbox, outbox, place, channel, leaves>>

\* text.next() in turn: a frame of another kind than the one awaited throws.
AfterFrame(state, frame) ==
  IF frame \notin Expects(state) THEN "failed"
  ELSE CASE frame = "host"     -> "offering"
         [] frame = "guest"    -> "toOffer"
         [] frame = "offer"    -> "answering"
         [] frame = "answer"   -> "deciding"
         [] frame = "useP2p"   -> "meeting"
         [] frame = "useRelay" -> "relay"

Take(c) ==
  /\ Expects(page[c]) # {} /\ outbox[c] # <<>>
  /\ outbox' = [outbox EXCEPT ![c] = Tail(@)]
  /\ Show(c, AfterFrame(page[c], Head(outbox[c])))
  /\ UNCHANGED <<OnPage, conn, inbox, channel>>

\* The candidates are gathered and the blob goes out; or the connector rejects
\* and nothing does: the page has failed, mute, with its socket open.
Signal(c) ==
  /\ \/ page[c] = "offering" /\ SentOn(c, "offer") /\ Show(c, "toAnswer")
     \/ page[c] = "answering" /\ SentOn(c, "answer") /\ Show(c, "following")
     \/ page[c] \in {"offering", "answering"} /\ Show(c, "mute") /\ UNCHANGED inbox
  /\ UNCHANGED <<OnPage, conn, outbox, channel>>

\* WebRTC: once the host has the answer, the channel may open at either end,
\* in either order, or never, as long as neither has closed the connection,
\* which a guest that failed after its answer has not.
Connecting == {"deciding", "following", "meeting", "p2p", "failed"}
ChannelOpens(c) ==
  /\ c \notin channel /\ page[c] \in Connecting
  /\ \E met \in pairs :
       /\ c \in Ends(met)
       /\ page[met.host] \in {"deciding", "p2p"} /\ page[met.guest] \in Connecting
  /\ channel' = channel \cup {c}
  /\ UNCHANGED <<OnPage, sockets, page>>

(***************************************************************************)
(* The host decides and says so, or fails over the answer or the channel   *)
(* and says nothing; the guest does what it was told.                      *)
(***************************************************************************)
\* The socket is closed once the match is on the data channel.
PlayP2p(c) == conn' = [conn EXCEPT ![c] = IF @ = "open" THEN "closed" ELSE @]

Decide(c) ==
  /\ page[c] = "deciding"
  /\ \/ c \in channel /\ SentOn(c, "useP2p") /\ Show(c, "p2p") /\ PlayP2p(c)
     \/ SentOn(c, "useRelay") /\ Show(c, "relay") /\ UNCHANGED conn
     \/ c \notin channel /\ Show(c, "failed") /\ UNCHANGED <<conn, inbox>>
  /\ UNCHANGED <<OnPage, outbox, channel>>

Meet(c) ==
  /\ page[c] = "meeting"
  /\ \/ c \in channel /\ Show(c, "p2p") /\ PlayP2p(c)
     \/ Show(c, "failed") /\ UNCHANGED conn
  /\ UNCHANGED <<OnPage, inbox, outbox, channel>>

\* The guest's own timer, twice the host's, while it waits for the verdict.
GiveUpOwn(c) ==   \* defective: what this end sees of the channel decides
  /\ page[c] = "following"
  /\ Show(c, IF c \in channel THEN "p2p" ELSE "relay")
  /\ UNCHANGED <<OnPage, sockets, channel>>

GiveUp(c) ==
  /\ page[c] = "following"
  /\ Show(c, "failed")
  /\ UNCHANGED <<OnPage, sockets, channel>>

\* A tab is closed, or its page stops answering; a match on the data channel
\* goes on without its socket.
Leave(c) ==
  /\ page[c] \notin {"away", "left"} /\ leaves > 0
  /\ Show(c, "left") /\ leaves' = leaves - 1
  /\ conn' = [conn EXCEPT ![c] = IF @ = "open" THEN "closed" ELSE @]
  /\ UNCHANGED <<server, place, inbox, outbox, channel>>

Page(c) == Take(c) \/ Signal(c) \/ Decide(c) \/ Meet(c) \/ GiveUp(c)

\* Everybody came, and whoever has not left plays, has failed or waits for
\* somebody who never comes; the ticker goes on.
Next ==
  \/ \E c \in Clients : Open(c) \/ Page(c) \/ ChannelOpens(c) \/ Leave(c)
  \/ ServerNext /\ UNCHANGED <<page, channel, leaves>>

Spec == Init /\ [][Next]_vars

OnServer(A) == A /\ UNCHANGED <<page, channel, leaves>>

Thread(t) ==
  \/ t \in Clients /\ Handler(t)
  \/ Sweep(t) \/ Pick(t) \/ Picked(t) \/ Introduce(t)

\* Every handler, the ticker and the clock go on; a page does what it awaits,
\* and its timers fire.  Nobody has to come or to leave, no channel has to open.
Fairness ==
  /\ \A t \in Threads : WF_vars(OnServer(Thread(t)))
  /\ \A c \in Clients : WF_vars(Page(c))
  /\ WF_vars(OnServer(Pass))

FairSpec == Spec /\ Fairness

(***************************************************************************)
(* Properties.                                                             *)
(***************************************************************************)
Sweeping == {"pick", "tellHost", "tellGuest", "handHost", "handGuest"}
Labels ==
  {"off", "joining", "enqueue", "sweep", "relay", "leaving", "unregister", "close", "done", "idle"}
    \cup Sweeping
Frames == {"host", "guest", "offer", "answer", "useP2p", "useRelay"}
PageStates ==
  {"away", "opening", "offering", "toOffer", "toAnswer", "answering", "deciding",
   "following", "meeting", "failed", "mute", "left"} \cup Playing

\* Every variable keeps its range; a channel holds one socket at most, and the
\* ticker never ends up where a handler goes.
TypeOK ==
  /\ conn \in [Clients -> {"none", "open", "closed", "hungup"}]
  /\ inbox \in [Clients -> Seq(Frames)] /\ outbox \in [Clients -> Seq(Frames)]
  /\ rooms \in [Codes -> SUBSET Clients] /\ queue \in [Modes -> SUBSET Clients]
  /\ ahead \subseteq Clients \X Clients /\ older \subseteq Clients \X Clients
  /\ age \in [Clients -> 0 .. LastBand] /\ rtt \in [Clients -> Nat]
  /\ pc \in [Threads -> Labels] /\ pc[Ticker] \in Sweeping \cup {"idle"}
  /\ work \in [Threads -> Seq(Pair)]
  /\ paired \in [Clients -> SUBSET Clients] /\ \A c \in Clients : \A p, q \in paired[c] : p = q
  /\ peer \in [Clients -> SUBSET Clients] /\ pairs \subseteq Pair /\ noise \subseteq Clients
  /\ late \subseteq Clients
  /\ page \in [Clients -> PageStates] /\ channel \subseteq Clients /\ leaves \in Nat

\* No page is ever sent a frame it cannot use at that point: the role comes
\* before anything the other end sends, and the other end's frames in the
\* order of the negotiation, through handlers that start to relay at any time.
FramesFit ==
  \A c \in Clients :
    Expects(page[c]) # {} /\ outbox[c] # <<>> => Head(outbox[c]) \in Expects(page[c])

\* The two ends of a match play it on one transport, or not both of them play.
OneTransport ==
  \A met \in pairs :
    page[met.host] \in Playing /\ page[met.guest] \in Playing =>
      page[met.host] = page[met.guest]

\* Nobody waits in a queue for ever beside somebody else, whatever their points
\* and their connections: in the end a queue holds one client at most.
WaitersMeet == <>[](\A m \in Modes : \A c, d \in queue[m] : c = d)

\* A page that failed before it sent what its partner awaits.
Silenced(met) ==
  \/ page[met.host] = "mute" /\ page[met.guest] = "toOffer"
  \/ page[met.guest] = "mute" /\ page[met.host] = "toAnswer"

Settled(met) ==
  \/ \A c \in Ends(met) : page[c] \in Playing \cup {"failed", "mute"}
  \/ Silenced(met)
  \/ \E c \in Ends(met) : page[c] = "left"
  \/ Ends(met) \cap noise # {}

\* Two who were matched get their match or give it up, both of them: a page only
\* waits for ever for a blob that was never sent, beside a page whose WebRTC
\* rejected before sending it, beside a tab that was closed, or when a frame of
\* the pair came before the server had a peer for it.  Whoever has the other's
\* blob is never stuck, whatever fails, opens or times out after that.
PairsSettle == <>[](\A met \in pairs : Settled(met))

Handed(c) == peer[c] \cup paired[c]

\* The partner of a client whose socket has ended is hung up on, also when that
\* client never sent a frame, unless it was handed the partner too late.
NobodyLeftBehind ==
  <>[](\A c \in Clients \ late :
         conn[c] \in {"closed", "hungup"} => \A p \in Handed(c) : conn[p] # "open")
=============================================================================
