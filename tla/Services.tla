------------------------------ MODULE Services ------------------------------
(***************************************************************************)
(* The two threads every server of the library has: the publisher, which   *)
(* forwards what the other threads publish and welcomes the subscribers of *)
(* the iopub channel, and the heartbeat, which echoes pings.  A server     *)
(* stops each with a request on a controller link.                         *)
(*                                                                         *)
(* The domains of link and inbox are those of the server: the threads it   *)
(* stops, and the PUB sockets it publishes with.  An action of this module *)
(* says nothing of the variables of the server.  A message is gone once it *)
(* has been forwarded: that ZeroMQ keeps the messages of a socket in order *)
(* is taken for granted, and how many are published is not bounded.        *)
(***************************************************************************)
EXTENDS ControllerLink, Naturals, Sequences, Subsequences

CONSTANTS
    MaxEvents,    \* how many events wait in the XPUB socket, and how many subscribe
    MaxPings      \* how many pings clients send on the heartbeat channel

ASSUME ServiceBounds == MaxEvents \in Nat /\ MaxPings \in Nat

VARIABLES
    publisher,    \* where the publisher thread is
    heartbeat,    \* where the heartbeat thread is
    inbox,        \* how many messages wait in the publisher's SUB socket, by PUB socket
    events,       \* messages waiting in the XPUB socket
    subscribed,   \* how many of them have been subscriptions
    welcomed,     \* how many iopub_welcome messages have been sent
    pings,        \* how many pings wait in the heartbeat ROUTER socket
    pongs         \* how many have been echoed

peerVars == <<events, subscribed, welcomed, pings, pongs>>

PollerState == {"unborn", "polling", "leaving", "done"}

\* What the XPUB socket hands up: a peer may send it more than subscriptions.
Event == {"subscribe", "unsubscribe", "malformed"}

PeersOK ==
    /\ events \in Seq(Event)
    /\ subscribed \in Nat
    /\ welcomed \in Nat
    /\ pings \in Nat
    /\ pongs \in Nat

PeersInit ==
    /\ events = <<>>
    /\ subscribed = 0
    /\ welcomed = 0
    /\ pings = 0
    /\ pongs = 0

-----------------------------------------------------------------------------
(* The PUB sockets.                                                         *)

\* A PUB socket hands the message to the publisher's SUB socket and returns.
Publish(c) == inbox' = [inbox EXCEPT ![c] = @ + 1]

-----------------------------------------------------------------------------
(* The publisher thread.                                                    *)

SomethingToForward == \E c \in DOMAIN inbox : inbox[c] > 0

\* One message of the SUB socket, if there is one: the socket takes it from
\* any of the PUB sockets.
ForwardOne ==
    \/ ~SomethingToForward /\ inbox' = inbox
    \/ \E c \in DOMAIN inbox :
          /\ inbox[c] > 0
          /\ inbox' = [inbox EXCEPT ![c] = @ - 1]

\* Variant: an unsubscription is welcomed too.
HandleAnyEvent ==
    \/ events = <<>> /\ UNCHANGED <<events, welcomed>>
    \/ /\ events # <<>>
       /\ events' = Tail(events)
       /\ welcomed' = IF Head(events) = "malformed" THEN welcomed ELSE welcomed + 1

\* One event of the XPUB socket, if there is one: a subscription is welcomed,
\* anything else ignored.
HandleEvent ==
    \/ events = <<>> /\ UNCHANGED <<events, welcomed>>
    \/ /\ events # <<>>
       /\ events' = Tail(events)
       /\ welcomed' = IF Head(events) = "subscribe" THEN welcomed + 1 ELSE welcomed

\* Variant: the XPUB socket is looked at only when there is nothing to forward.
PublishTurnListenerFirst ==
    /\ publisher = "polling"
    /\ SomethingToForward \/ events # <<>>
    /\ ~Requested("publisher")
    /\ ForwardOne
    /\ IF SomethingToForward THEN UNCHANGED <<events, welcomed>> ELSE HandleEvent
    /\ UNCHANGED <<publisher, heartbeat, link, subscribed, pings, pongs>>

\* Variant: the SUB socket is looked at only when there is an event.
PublishTurnEventFirst ==
    /\ publisher = "polling"
    /\ events # <<>>
    /\ ~Requested("publisher")
    /\ ForwardOne
    /\ HandleEvent
    /\ UNCHANGED <<publisher, heartbeat, link, subscribed, pings, pongs>>

\* One iteration of xpublisher::run without a stop request.
PublishTurn ==
    /\ publisher = "polling"
    /\ SomethingToForward \/ events # <<>>
    /\ ~Requested("publisher")
    /\ ForwardOne
    /\ HandleEvent
    /\ UNCHANGED <<publisher, heartbeat, link, subscribed, pings, pongs>>

\* The last iteration forwards one message at most, then answers and leaves.
PublishLastTurn ==
    /\ publisher = "polling"
    /\ Requested("publisher")
    /\ ForwardOne
    /\ Answer("publisher", link["publisher"].body)
    /\ publisher' = "leaving"
    /\ UNCHANGED <<heartbeat, peerVars>>

PublisherLeaves ==
    /\ publisher = "leaving"
    /\ publisher' = "done"
    /\ UNCHANGED <<heartbeat, link, inbox, peerVars>>

PublisherStep == PublishTurn \/ PublishLastTurn \/ PublisherLeaves

-----------------------------------------------------------------------------
(* The heartbeat thread.                                                    *)

EchoOne ==
    IF pings > 0
    THEN pings' = pings - 1 /\ pongs' = pongs + 1
    ELSE UNCHANGED <<pings, pongs>>

EchoTurn ==
    /\ heartbeat = "polling"
    /\ pings > 0
    /\ ~Requested("heartbeat")
    /\ EchoOne
    /\ UNCHANGED <<publisher, heartbeat, link, inbox, events, subscribed, welcomed>>

\* Variant: the thread breaks without an answer.
EchoLastTurnSilent ==
    /\ heartbeat = "polling"
    /\ Requested("heartbeat")
    /\ EchoOne
    /\ link' = [link EXCEPT !["heartbeat"].phase = "serving"]
    /\ heartbeat' = "leaving"
    /\ UNCHANGED <<publisher, inbox, events, subscribed, welcomed>>

EchoLastTurn ==
    /\ heartbeat = "polling"
    /\ Requested("heartbeat")
    /\ EchoOne
    /\ Answer("heartbeat", link["heartbeat"].body)
    /\ heartbeat' = "leaving"
    /\ UNCHANGED <<publisher, inbox, events, subscribed, welcomed>>

HeartbeatLeaves ==
    /\ heartbeat = "leaving"
    /\ heartbeat' = "done"
    /\ UNCHANGED <<publisher, link, inbox, peerVars>>

HeartbeatStep == EchoTurn \/ EchoLastTurn \/ HeartbeatLeaves

-----------------------------------------------------------------------------
(* The clients of the two channels.                                         *)

PeerSends(e) ==
    /\ Len(events) < MaxEvents
    /\ subscribed < MaxEvents
    /\ events' = Append(events, e)
    /\ subscribed' = IF e = "subscribe" THEN subscribed + 1 ELSE subscribed
    /\ UNCHANGED <<publisher, heartbeat, link, inbox, welcomed, pings, pongs>>

PeerPings ==
    /\ pings + pongs < MaxPings
    /\ pings' = pings + 1
    /\ UNCHANGED <<publisher, heartbeat, link, inbox, events, subscribed, welcomed, pongs>>

Peer == (\E e \in Event : PeerSends(e)) \/ PeerPings

-----------------------------------------------------------------------------
(* What the two threads promise whichever server they belong to.            *)

\* Each subscription is welcomed once: those that have not been are still
\* waiting in the socket.  Unsubscriptions and malformed messages are neither
\* welcomed nor in the way (xpublisher.cpp:98-140).
OneWelcomePerSubscription ==
    welcomed + Count(events, {"subscribe"}) = subscribed

Ended(state) == state \in {"leaving", "done"}

\* The publisher forwards the messages it was given (server.rst:36-37) before
\* it stops.  It does not: see the findings.
NothingLeftUnpublished == Ended(publisher) => ~SomethingToForward

\* What has been published is forwarded, unless the publisher is told to stop.
PublishedIsForwarded ==
    SomethingToForward ~> (~SomethingToForward \/ Ended(publisher))

\* A subscriber is welcomed and a ping echoed, even when publications never end
\* and whatever else arrives at the socket meanwhile, unless the thread that does
\* it is told to stop (xpublisher.cpp:82-98: the SUB socket does not go first).
PeersAreServed ==
    /\ \A n \in 1 .. MaxEvents :
          (subscribed >= n) ~> (welcomed >= n \/ Ended(publisher))
    /\ (pings > 0) ~> (pings = 0 \/ Ended(heartbeat))

=============================================================================
