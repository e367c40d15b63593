----------------------------- MODULE AppSyncer -----------------------------
(***************************************************************************)
(* The application peer syncer of edge-matrix (application/syncer.go) and *)
(* the parts of its surroundings it talks to:                              *)
(*   - the overlay pub/sub topic carrying AppStatus messages,              *)
(*   - the SyncAppPeerClient that subscribes to the topic and feeds the    *)
(*     peer status update channel (not in this repository: modelled from  *)
(*     the spec),                                                          *)
(*   - an observer of the newStatusCh signal (spec section 3),            *)
(*   - the syncer itself: Start, Close, the fan-in goroutine               *)
(*     startPeerStatusUpdateProcess/putToPeerMap/notifyNewStatusEvent,     *)
(*     and the publisher goroutine running doPublishAppStatus on a ticker. *)
(* A status is abstracted to the id of the node it advertises and a      *)
(* version: the k-th status a node publishes has version k.               *)
(***************************************************************************)
EXTENDS Naturals, Sequences

CONSTANTS
    Peers,        \* remote application peers (model values)
    Self,         \* this node's peer id
    MaxVer,       \* bound on the statuses each remote peer publishes
    ChCap,        \* capacity of the peer status update channel
    TopicSubFlag  \* the argument of Syncer.Start (the server passes TRUE)

ASSUME Self \notin Peers /\ MaxVer \in Nat \ {0} /\ ChCap \in Nat \ {0}
ASSUME TopicSubFlag \in BOOLEAN

Ids == Peers \cup {Self}
Status == [from : Ids, ver : 0..MaxVer]

\* What doPublishAppStatus puts on the topic: this node's own status.
SelfStatus == [from |-> Self, ver |-> 1]

VARIABLES
    remoteVer,    \* remoteVer[p]: how many statuses peer p has published
    net,          \* status messages on the topic, not yet received here
    clientState,  \* SyncAppPeerClient: "new", "started", "closed"
    serviceState, \* SyncAppPeerService: "new", "running", "closed"
    updateCh,     \* the peer status update channel (a FIFO)
    chClosed,     \* the update channel has been closed by client.Close
    lastArrived,  \* history: last version of each id put into updateCh
    peerMap,      \* PeerMap: id -> stored version, 0 when absent
    syncerState,  \* "new", "running", "failed" (Start returned an error)
    fanIn,        \* fan-in goroutine: "off", "recv", "notify", "exited"
    publisher,    \* publisher goroutine: "off", "first", "ticking"
    closePc,      \* syncer.Close: "none", "service", "client", "done", "error"
    signalCh,     \* newStatusCh: "open" or "closed"
    observer,     \* receiver of newStatusCh: "busy", "waiting", "gone"
    pendingSig,   \* history: a Put happened that no observer has seen yet
    panicked      \* runtime panic that ended the process: "none", "send"

env     == <<remoteVer, net>>
client  == <<clientState, serviceState, updateCh, chClosed, lastArrived>>
syncer  == <<peerMap, syncerState, fanIn, publisher, closePc, signalCh>>
vars    == <<env, client, syncer, observer, pendingSig, panicked>>

Init ==
    /\ remoteVer = [p \in Peers |-> 0]
    /\ net = {}
    /\ clientState = "new" /\ serviceState = "new"
    /\ updateCh = <<>> /\ chClosed = FALSE
    /\ lastArrived = [i \in Ids |-> 0]
    /\ peerMap = [i \in Ids |-> 0]
    /\ syncerState = "new"
    /\ fanIn = "off" /\ publisher = "off" /\ closePc = "none"
    /\ signalCh = "open" /\ observer = "busy"
    /\ pendingSig = FALSE /\ panicked = "none"

Alive == panicked = "none"

(***************************************************************************)
(* Overlay: remote peers publish statuses; the topic may lose a message   *)
(* and delivers the rest in any order.                                     *)
(***************************************************************************)
RemotePublish(p) ==
    /\ Alive /\ remoteVer[p] < MaxVer
    /\ remoteVer' = [remoteVer EXCEPT ![p] = @ + 1]
    /\ net' = net \cup {[from |-> p, ver |-> remoteVer[p] + 1]}
    /\ UNCHANGED <<client, syncer, observer, pendingSig, panicked>>

Lose(m) ==
    /\ Alive /\ m \in net
    /\ net' = net \ {m}
    /\ UNCHANGED <<remoteVer, client, syncer, observer, pendingSig, panicked>>

(***************************************************************************)
(* SyncAppPeerClient subscriber loop (spec 4.3): a status received from   *)
(* the topic is discarded when it advertises this node, and otherwise     *)
(* sent on the update channel, blocking while the channel is full.        *)
(***************************************************************************)
Admissible(m) == m.from # Self

\* The subscriber loop has received m from the topic.
Receivable(m) == Alive /\ clientState = "started" /\ TopicSubFlag /\ m \in net

\* m is sent on the update channel.
Enqueue(m) ==
    /\ net' = net \ {m}
    /\ updateCh' = Append(updateCh, m)
    /\ lastArrived' = [lastArrived EXCEPT ![m.from] = m.ver]
    /\ UNCHANGED <<remoteVer, clientState, serviceState, chClosed, syncer,
                   observer, pendingSig, panicked>>

SubscriberDeliver(m) ==
    Receivable(m) /\ Admissible(m) /\ Len(updateCh) < ChCap /\ Enqueue(m)

SubscriberDiscard(m) ==
    /\ Receivable(m) /\ ~Admissible(m)
    /\ net' = net \ {m}
    /\ UNCHANGED <<remoteVer, client, syncer, observer, pendingSig, panicked>>

\* PublishApplicationStatus: a publish on a client that is not started
\* fails and is swallowed.
PublishApplicationStatus ==
    net' = IF clientState = "started" THEN net \cup {SelfStatus} ELSE net

(***************************************************************************)
(* syncer.Start (syncer.go 191-212): client.Start, whose error aborts     *)
(* Start; then service.Start and the two goroutines.                       *)
(***************************************************************************)
Start ==
    /\ Alive /\ syncerState = "new"
    /\ syncerState' = "running"
    /\ clientState' = "started" /\ serviceState' = "running"
    /\ fanIn' = "recv" /\ publisher' = "first"
    /\ UNCHANGED <<env, updateCh, chClosed, lastArrived, peerMap, closePc,
                   signalCh, observer, pendingSig, panicked>>

StartFail ==
    /\ Alive /\ syncerState = "new"
    /\ syncerState' = "failed"
    /\ UNCHANGED <<env, client, peerMap, fanIn, publisher, closePc, signalCh,
                   observer, pendingSig, panicked>>

(***************************************************************************)
(* Fan-in goroutine startPeerStatusUpdateProcess: range over the update   *)
(* channel, putToPeerMap (PeerMap.Put, then notifyNewStatusEvent).         *)
(***************************************************************************)
\* PeerMap.Put of status u, then on to notifyNewStatusEvent.
Put(u, rest) ==
    /\ peerMap' = [peerMap EXCEPT ![u.from] = u.ver]
    /\ updateCh' = rest
    /\ fanIn' = "notify" /\ pendingSig' = TRUE
    /\ UNCHANGED <<env, clientState, serviceState, chClosed, lastArrived,
                   syncerState, publisher, closePc, signalCh, observer, panicked>>

\* Mutant: statuses are put in any order (a goroutine per status).
FanInPutAnyOrder ==
    /\ Alive /\ fanIn = "recv"
    /\ \E i \in DOMAIN updateCh :
          Put(updateCh[i], SubSeq(updateCh, 1, i - 1) \o
                           SubSeq(updateCh, i + 1, Len(updateCh)))

FanInPut ==
    /\ Alive /\ fanIn = "recv" /\ updateCh # <<>>
    /\ Put(Head(updateCh), Tail(updateCh))

\* The range loop ends once the closed channel is drained.
FanInExit ==
    /\ Alive /\ fanIn = "recv" /\ updateCh = <<>> /\ chClosed
    /\ fanIn' = "exited"
    /\ UNCHANGED <<env, client, peerMap, syncerState, publisher, closePc,
                   signalCh, observer, pendingSig, panicked>>

\* notifyNewStatusEvent: select { case newStatusCh <- struct{}{}: default: }
\* on an unbuffered channel. A send on a closed channel panics, even in a
\* select with a default.
NotifyDeliver ==
    /\ Alive /\ fanIn = "notify" /\ signalCh = "open" /\ observer = "waiting"
    /\ fanIn' = "recv" /\ observer' = "busy" /\ pendingSig' = FALSE
    /\ UNCHANGED <<env, client, peerMap, syncerState, publisher, closePc,
                   signalCh, panicked>>

\* Mutant: a blocking send (no default branch).
\* With no receiver waiting the fan-in blocks: it never leaves "notify".
NotifyDropBlocking == FALSE

NotifyDrop ==
    /\ Alive /\ fanIn = "notify" /\ signalCh = "open" /\ observer # "waiting"
    /\ fanIn' = "recv"
    /\ UNCHANGED <<env, client, peerMap, syncerState, publisher, closePc,
                   signalCh, observer, pendingSig, panicked>>

NotifyPanic ==
    /\ Alive /\ fanIn = "notify" /\ signalCh = "closed"
    /\ panicked' = "send"
    /\ UNCHANGED <<env, client, syncer, observer, pendingSig>>

(***************************************************************************)
(* Observer of newStatusCh (spec 3, 9): it may be busy for any time, and  *)
(* a receive on the closed channel returns at once.                        *)
(***************************************************************************)
ObserverWait ==
    /\ Alive /\ observer = "busy"
    /\ observer' = "waiting"
    /\ UNCHANGED <<env, client, syncer, pendingSig, panicked>>

ObserverGone ==
    /\ Alive /\ observer = "waiting" /\ signalCh = "closed"
    /\ observer' = "gone"
    /\ UNCHANGED <<env, client, syncer, pendingSig, panicked>>

(***************************************************************************)
(* Publisher goroutine: doPublishAppStatus once, then on every tick of an *)
(* endless ticker loop; ticker.Stop after the loop is unreachable.         *)
(***************************************************************************)
PublishFirst ==
    /\ Alive /\ publisher = "first"
    /\ PublishApplicationStatus
    /\ publisher' = "ticking"
    /\ UNCHANGED <<remoteVer, client, peerMap, syncerState, fanIn, closePc,
                   signalCh, observer, pendingSig, panicked>>

PublishTick ==
    /\ Alive /\ publisher = "ticking"
    /\ PublishApplicationStatus
    /\ UNCHANGED <<remoteVer, client, syncer, observer, pendingSig, panicked>>

(***************************************************************************)
(* syncer.Close (syncer.go 179-189): close(newStatusCh); service.Close,   *)
(* whose error returns early; client.Close, which closes the update       *)
(* channel. Each is a separate step the goroutines may interleave with.   *)
(***************************************************************************)
CloseSignal ==
    /\ Alive /\ syncerState = "running" /\ closePc = "none"
    /\ signalCh' = "closed" /\ closePc' = "service"
    /\ UNCHANGED <<env, client, peerMap, syncerState, fanIn, publisher,
                   observer, pendingSig, panicked>>

CloseService ==
    /\ Alive /\ closePc = "service"
    /\ serviceState' = "closed" /\ closePc' = "client"
    /\ UNCHANGED <<env, clientState, updateCh, chClosed, lastArrived, peerMap,
                   syncerState, fanIn, publisher, signalCh, observer,
                   pendingSig, panicked>>

CloseServiceError ==
    /\ Alive /\ closePc = "service"
    /\ closePc' = "error"
    /\ UNCHANGED <<env, client, peerMap, syncerState, fanIn, publisher,
                   signalCh, observer, pendingSig, panicked>>

CloseClient ==
    /\ Alive /\ closePc = "client"
    /\ clientState' = "closed" /\ chClosed' = TRUE /\ closePc' = "done"
    /\ UNCHANGED <<env, serviceState, updateCh, lastArrived, peerMap,
                   syncerState, fanIn, publisher, signalCh, observer,
                   pendingSig, panicked>>

\* A panic ends the process; a failed Start ends the server's startup.
Stopped ==
    /\ ~Alive \/ syncerState = "failed"
    /\ UNCHANGED vars

Subscriber == \E m \in net : SubscriberDeliver(m) \/ SubscriberDiscard(m)
FanIn == FanInPut \/ FanInExit \/ NotifyDeliver \/ NotifyDrop \/ NotifyPanic
Closing == CloseSignal \/ CloseService \/ CloseServiceError \/ CloseClient

Next ==
    \/ \E p \in Peers : RemotePublish(p)
    \/ \E m \in net : Lose(m)
    \/ Subscriber
    \/ Start \/ StartFail
    \/ FanIn
    \/ ObserverWait \/ ObserverGone
    \/ PublishFirst \/ PublishTick
    \/ Closing
    \/ Stopped

\* Goroutines are scheduled fairly by the Go runtime; once Close is called
\* it runs to its end. Remote peers, the overlay, the observer and the
\* callers of Start and Close are not obliged to act.
Fairness ==
    /\ WF_vars(Subscriber)
    /\ WF_vars(FanIn)
    /\ WF_vars(CloseService \/ CloseServiceError \/ CloseClient)
    /\ WF_vars(ObserverGone)
    /\ WF_vars(PublishFirst)

Spec == Init /\ [][Next]_vars /\ Fairness

\* The reading of spec 3 and 9 under which observers come back to wait.
SpecObserverReturns == Spec /\ WF_vars(ObserverWait)

-----------------------------------------------------------------------------
(***************************************************************************)
(* Properties.                                                             *)
(***************************************************************************)

\* Last write wins by arrival (spec 3, 5): for every remote peer with no
\* status left in the update channel, the PeerMap entry is the status of
\* that peer that arrived last, so the single fan-in goroutine that drains
\* the channel in order neither loses nor reorders an update.
NoLostUpdate ==
    \A p \in Peers :
        (\A i \in DOMAIN updateCh : updateCh[i].from # p)
            => peerMap[p] = lastArrived[p]

\* The fan-in goroutine never stalls: whatever is in the update channel is
\* eventually consumed (notifyNewStatusEvent must not block on a receiver),
\* unless the process has died.
UpdatesDrain == (updateCh # <<>>) ~> (updateCh = <<>> \/ ~Alive)

\* Close never races with the fan-in into a send on the closed newStatusCh
\* (spec 4.7: Close closes the signal, then the service and the client,
\* and the fan-in terminates cleanly when the update channel closes).
NoSendOnClosedSignal == panicked # "send"

\* Spec 3/8.4: the signal is lossy but lively: after a Put, a signal is
\* eventually observed, unless newStatusCh has been closed.
SignalLively == pendingSig ~> (~pendingSig \/ signalCh = "closed")

\* Spec 4.7/8.3: once Close has begun, the fan-in goroutine exits (Close
\* closes the client, which closes the update channel and ends the range
\* loop), unless the process has died. Close returns early when
\* service.Close fails, before client.Close.
CloseEndsFanIn == (closePc # "none") ~> (fanIn = "exited" \/ ~Alive)
=============================================================================
