--------------------------- MODULE MarketStreams ---------------------------
(***************************************************************************)
(* Market data as goroutines deliver it: the Hyperliquid WebSocket stream  *)
(* (a reader that blocks when its consumer is slow), the Bittensor feed (a *)
(* poller that drops what a slow consumer leaves no room for) and the      *)
(* client's listing of subnets.  They share nothing but the context, so a  *)
(* behaviour opens one of them.  Sockets, nodes and consumers are external.*)
(*                                                                         *)
(* Prices are integers, in thousandths of the unit a TAO amount has.       *)
(***************************************************************************)
EXTENDS Integers, Sequences, FiniteSets, SequencesExt

CONSTANTS
    Streams,     \* which of "ws", "feed", "list" may be opened; "none" opens nothing
    Cap,         \* capacity of the event channels: 256
    MaxFrames,   \* bound: frames a server sends
    Tracked,     \* the netuids the feed was told to track; none: all of them
    Subnets,     \* TotalNetworks
    RefNotional, \* Config.ReferenceNotional
    Prices, Outs,      \* spot prices; what a simulated buy may return
    MaxPolls,    \* bound: polls of the feed
    DefaultMax,  \* the highest netuid listed unless told: 128
    MaxU16       \* the largest netuid a uint16 holds

ASSUME StreamsAssumption ==
    /\ Streams \subseteq {"none", "ws", "feed", "list"}
    /\ Cap \in Nat \ {0} /\ MaxFrames \in Nat /\ MaxPolls \in Nat /\ MaxU16 \in Nat
    /\ Tracked \subseteq Nat /\ Subnets \in 0 .. MaxU16 /\ DefaultMax \in 1 .. MaxU16
    /\ RefNotional \in Nat \ {0} /\ Prices \subseteq Nat /\ Outs \subseteq Nat

VARIABLES
    opened,    \* what the program opened
    done,      \* the context is cancelled
    ws,        \* the WebSocket stream
    feed,      \* the Bittensor feed
    list       \* ListSubnets

streamVars == <<opened, done, ws, feed, list>>

StreamInit ==
    /\ opened \in Streams /\ done = FALSE
    /\ ws = [pc |-> "none", frames |-> 0, sock |-> <<>>, held |-> 0, seen |-> <<>>,
             buf |-> <<>>, got |-> <<>>, pings |-> FALSE]
    /\ feed = [pc |-> "none", polls |-> 0, todo |-> {}, buf |-> <<>>, got |-> <<>>]
    /\ list = [pc |-> "none", max |-> 0, at |-> 0, found |-> {}, broken |-> {}]

\* The caller cancels the context of whatever is running.
CancelContext ==
    /\ ~done /\ done' = TRUE
    /\ UNCHANGED <<opened, ws, feed, list>>

---------------------------------------------------------------------------
(* The WebSocket stream.  A frame is its number and its channel.           *)

Channels == {"allMids", "l2Book", "trades", "subscriptionResponse", "garbled"}

\* parseMessage: three channels carry an event, anything else is skipped.
parseMessage(frame) == frame.channel \in {"allMids", "l2Book", "trades"}

\* subscribe dials and writes the subscriptions; any error there closes the
\* connection and nothing is started.
Subscribe ==
    /\ opened = "ws" /\ ws.pc = "none"
    /\ \/ ws' = [ws EXCEPT !.pc = "top", !.pings = TRUE]
       \/ ws' = [ws EXCEPT !.pc = "error"]
    /\ UNCHANGED <<opened, done, feed, list>>

\* External: the server sends a frame.
Arrive ==
    /\ ws.pc \in {"top", "read", "send"} /\ ws.frames < MaxFrames
    /\ \E ch \in Channels :
          ws' = [ws EXCEPT !.frames = @ + 1, !.sock = Append(@, [n |-> ws.frames + 1, channel |-> ch])]
    /\ UNCHANGED <<opened, done, feed, list>>

\* The top of the loop looks at the context before it blocks in ReadMessage.
LoopTop ==
    /\ ws.pc = "top"
    /\ ws' = [ws EXCEPT !.pc = IF done THEN "closed" ELSE "read"]
    /\ UNCHANGED <<opened, done, feed, list>>

\* ReadMessage returns a frame.
Read ==
    /\ ws.pc = "read" /\ ws.sock # <<>>
    /\ ws' = IF parseMessage(Head(ws.sock))
             THEN [ws EXCEPT !.sock = Tail(@), !.pc = "send", !.held = Head(ws.sock).n,
                             !.seen = Append(@, Head(ws.sock).n)]
             ELSE [ws EXCEPT !.sock = Tail(@), !.pc = "top"]
    /\ UNCHANGED <<opened, done, feed, list>>

\* Mutant of ReadFails: ReadMessage has no deadline.
NeverTimesOut == FALSE

\* ReadMessage fails: sixty seconds without a frame, or a broken connection.
ReadFails == ws.pc = "read" /\ ws.sock = <<>>

\* The stream ends with its first read error; nothing reconnects it.
ReadError ==
    /\ ReadFails
    /\ ws' = [ws EXCEPT !.pc = "closed"]
    /\ UNCHANGED <<opened, done, feed, list>>

\* Mutant of Deliver: an event is dropped when the channel is full.
DeliverOrDrop ==
    ws' = [ws EXCEPT !.pc = "top", !.held = 0,
                     !.buf = IF Len(@) < Cap THEN Append(@, ws.held) ELSE @]

\* The channel takes the event once it has room.
Deliver ==
    /\ Len(ws.buf) < Cap
    /\ ws' = [ws EXCEPT !.pc = "top", !.held = 0, !.buf = Append(@, ws.held)]

\* The reader blocks until the channel has room or the context is done.
SendEvent ==
    /\ ws.pc = "send"
    /\ \/ Deliver
       \/ done /\ ws' = [ws EXCEPT !.pc = "closed", !.held = 0]
    /\ UNCHANGED <<opened, done, feed, list>>

\* External: the consumer takes an event, also after the channel was closed.
ReceiveWS ==
    /\ ws.buf # <<>>
    /\ ws' = [ws EXCEPT !.buf = Tail(@), !.got = Append(@, Head(ws.buf))]
    /\ UNCHANGED <<opened, done, feed, list>>

\* pingLoop ends with the context, not with the connection.
PingLoopEnds ==
    /\ ws.pings /\ done
    /\ ws' = [ws EXCEPT !.pings = FALSE]
    /\ UNCHANGED <<opened, done, feed, list>>

WSStep == LoopTop \/ Read \/ ReadError \/ SendEvent \/ PingLoopEnds

---------------------------------------------------------------------------
(* The Bittensor feed.  An event carries its poll, its netuid and quotes.  *)

\* Half of the synthetic spread: half a percent when the simulation fails or
\* returns nothing, else what the reference trade costs above the spot price.
Fallback(spot) == (spot * 5) \div 1000
Actual(out) == (RefNotional * 1000) \div out

Premium(spot, out) == IF Actual(out) <= spot THEN 0 ELSE Actual(out) - spot

estimateHalfSpread(spot, ok, out) ==
    IF ~ok \/ out = 0 THEN Fallback(spot) ELSE Premium(spot, out)

Event(netuid, spot, half) ==
    [poll |-> feed.polls, netuid |-> netuid, bid |-> spot - half, ask |-> spot + half, last |-> spot]

\* Feed.Subscribe polls at once.
SubscribeFeed ==
    /\ opened = "feed" /\ feed.pc = "none"
    /\ feed' = [feed EXCEPT !.pc = "poll"]
    /\ UNCHANGED <<opened, done, ws, list>>

\* The netuids of a poll: those it was told, or 1 up to the subnet count.
Targets == IF Tracked # {} THEN Tracked ELSE 1 .. Subnets

\* A poll begins; without a list it needs the subnet count, which may fail.
PollStart ==
    /\ feed.pc = "poll" /\ feed.polls < MaxPolls
    /\ \/ feed' = [feed EXCEPT !.pc = "walk", !.polls = @ + 1, !.todo = Targets]
       \/ Tracked = {} /\ feed' = [feed EXCEPT !.pc = "wait", !.polls = @ + 1]
    /\ UNCHANGED <<opened, done, ws, list>>

NextTarget == CHOOSE n \in feed.todo : \A m \in feed.todo : n <= m

Walked == [feed EXCEPT !.todo = @ \ {NextTarget}]

\* One subnet of a poll, in order: the end if the context is done, skipped if
\* its price cannot be read, else quoted and sent without waiting: a full
\* channel loses it.
PollSubnet ==
    /\ feed.pc = "walk" /\ feed.todo # {}
    /\ \/ done /\ feed' = [feed EXCEPT !.pc = "wait", !.todo = {}]
       \/ ~done /\ feed' = Walked
       \/ /\ ~done /\ Len(feed.buf) < Cap
          /\ \E spot \in Prices, ok \in BOOLEAN, out \in Outs :
                feed' = [Walked EXCEPT !.buf = Append(@, Event(NextTarget, spot,
                                                               estimateHalfSpread(spot, ok, out)))]
    /\ UNCHANGED <<opened, done, ws, list>>

PollEnds ==
    /\ feed.pc = "walk" /\ feed.todo = {}
    /\ feed' = [feed EXCEPT !.pc = "wait"]
    /\ UNCHANGED <<opened, done, ws, list>>

\* Between polls: the ticker, or the end.
FeedWaits ==
    /\ feed.pc = "wait"
    /\ \/ done /\ feed' = [feed EXCEPT !.pc = "closed"]
       \/ feed.polls < MaxPolls /\ feed' = [feed EXCEPT !.pc = "poll"]
    /\ UNCHANGED <<opened, done, ws, list>>

ReceiveFeed ==
    /\ feed.buf # <<>>
    /\ feed' = [feed EXCEPT !.buf = Tail(@), !.got = Append(@, Head(feed.buf))]
    /\ UNCHANGED <<opened, done, ws, list>>

FeedStep == PollStart \/ PollSubnet \/ PollEnds \/ FeedWaits

\* The node never answers the RPC a poll is in: the subnet count, a price or a
\* simulation.  The client hands its context to none of them.
FeedHangs ==
    /\ \/ feed.pc = "poll" /\ Tracked = {} /\ feed.polls < MaxPolls
       \/ feed.pc = "walk" /\ feed.todo # {} /\ ~done
    /\ feed' = [feed EXCEPT !.pc = "hung"]
    /\ UNCHANGED <<opened, done, ws, list>>

---------------------------------------------------------------------------
(* ListSubnets: netuids 1 to max, skipping those that answer with an error.*)

ListSubnets ==
    /\ opened = "list" /\ list.pc = "none"
    /\ \E max \in 0 .. MaxU16, broken \in SUBSET (0 .. MaxU16) :
          list' = [pc |-> "run", max |-> IF max = 0 THEN DefaultMax ELSE max, at |-> 1,
                   found |-> {}, broken |-> broken]
    /\ UNCHANGED <<opened, done, ws, feed>>

\* netuid++ on a uint16.
Following(n) == (n + 1) % (MaxU16 + 1)

ListStep ==
    /\ list.pc = "run"
    /\ list' = IF list.at > list.max \/ done THEN [list EXCEPT !.pc = "done"]
               ELSE [list EXCEPT !.at = Following(@),
                                 !.found = IF list.at \in list.broken THEN @ ELSE @ \cup {list.at}]
    /\ UNCHANGED <<opened, done, ws, feed>>

\* The node never answers a price.
ListHangs ==
    /\ list.pc = "run" /\ list.at <= list.max /\ ~done
    /\ list' = [list EXCEPT !.pc = "hung"]
    /\ UNCHANGED <<opened, done, ws, feed>>

---------------------------------------------------------------------------
StreamNext ==
    \/ opened # "none" /\ CancelContext
    \/ Subscribe \/ Arrive \/ WSStep \/ ReceiveWS
    \/ SubscribeFeed \/ FeedStep \/ FeedHangs \/ ReceiveFeed
    \/ ListSubnets \/ ListStep \/ ListHangs

\* The goroutines run, and the reads of the WebSocket end at their deadline.  An
\* RPC of the Bittensor client has none: FeedHangs and ListHangs take the poller
\* and the listing out of these steps.
StreamFairness ==
    /\ WF_streamVars(WSStep) /\ WF_streamVars(FeedStep) /\ WF_streamVars(ListStep)

StreamSpec == StreamInit /\ [][StreamNext]_streamVars /\ StreamFairness

---------------------------------------------------------------------------
FrameSet == [n : 1 .. MaxFrames, channel : Channels]

Numbers == 1 .. MaxFrames

WSSet == [pc : {"none", "error", "top", "read", "send", "closed"}, frames : 0 .. MaxFrames,
          sock : Seq(FrameSet), held : 0 .. MaxFrames, seen : Seq(Numbers), buf : Seq(Numbers),
          got : Seq(Numbers), pings : BOOLEAN]

\* Types of the WebSocket stream: events are numbers of frames.
StreamTypeOK == ws \in WSSet /\ (ws.pc = "send" => ws.held \in Numbers)

\* A slow consumer delays the WebSocket stream but loses nothing of it: what
\* was received and what waits in the channel are the events that were read,
\* in order, except the one the reader still holds or held when it ended.
NothingIsLost ==
    /\ IsPrefix(ws.got \o ws.buf, ws.seen)
    /\ Len(ws.seen) - Len(ws.got \o ws.buf) <= (IF ws.pc \in {"send", "closed"} THEN 1 ELSE 0)
    /\ Len(ws.buf) <= Cap

\* Its inductive form: what the reader holds is all that is missing.
HeldIsMissing ==
    /\ ws.pc = "send" => ws.seen = (ws.got \o ws.buf) \o <<ws.held>>
    /\ ws.pc = "closed" => \E rest \in {<<>>} \cup {<<n>> : n \in Numbers} :
                               ws.seen = (ws.got \o ws.buf) \o rest
    /\ ws.pc \notin {"send", "closed"} => ws.seen = ws.got \o ws.buf
    /\ Len(ws.buf) <= Cap

\* A WebSocket stream whose context is cancelled closes its channel and leaves
\* no goroutine, whatever its server and its consumer do.  The feed does so, and
\* a listing ends, unless the node leaves one of their RPCs unanswered; the
\* listing must not have been asked for every uint16 there is, where its counter
\* starts again at zero.
StreamsEnd ==
    /\ done /\ ws.pc \notin {"none", "error"} ~> ws.pc = "closed" /\ ~ws.pings
    /\ done /\ feed.pc # "none" ~> feed.pc \in {"closed", "hung"}
    /\ list.pc = "run" /\ list.max < MaxU16 ~> list.pc \in {"done", "hung"}
=============================================================================
