----------------------------- MODULE XBarLayer -----------------------------
(***************************************************************************)
(* A layer of a crossbar (BaseXBar::Layer, mem/xbar.cc): the arbitration   *)
(* point in front of one destination port.  The layer is a record that     *)
(* the crossbar's handlers change; its release event is pending exactly    *)
(* while it is BUSY.                                                       *)
(***************************************************************************)
EXTENDS Naturals, Sequences, SequencesExt

IdleLayer == [state |-> "IDLE", waitingForLayer |-> <<>>, waitingForPeer |-> {}]

\* tryTiming lets a packet through.
Free(l) == l.state # "BUSY" /\ l.waitingForPeer = {}

\* tryTiming refuses: the source waits for its turn.
Enlist(l, src) == [l EXCEPT !.waitingForLayer = Append(@, src)]

\* tryTiming, then succeededTiming or failedTiming.
Succeeded(l) == [l EXCEPT !.state = "BUSY"]
Failed(l, src) == [l EXCEPT !.state = "BUSY", !.waitingForPeer = {src}]

\* releaseLayer goes on to retryWaiting, or finds nothing left to do.
Released(l) == [l EXCEPT !.state = "IDLE"]
MustRetry(l) == l.state = "IDLE" /\ l.waitingForLayer # <<>> /\ l.waitingForPeer = {}
AtRestWhileBusy(l) == l.state = "BUSY" /\ l.waitingForLayer = <<>> /\ l.waitingForPeer = {}
AtRest(l) == l.state = "IDLE" /\ l.waitingForLayer = <<>> /\ l.waitingForPeer = {}

\* retryWaiting before and after the call of sendRetry.  A source that does not
\* answer the retry with a packet for this layer leaves it in RETRY.
Retrying(l) == [l EXCEPT !.state = "RETRY", !.waitingForLayer = Tail(@)]
SettleForgetful(l) == IF l.state = "RETRY" THEN [l EXCEPT !.state = "IDLE"] ELSE l
Settle(l) == IF l.state = "RETRY" THEN [l EXCEPT !.state = "BUSY"] ELSE l

\* recvRetry puts the source whose packet the peer refused first in line.
PeerRetried(l) ==
    [l EXCEPT !.waitingForLayer = SetToSeq(l.waitingForPeer) \o @, !.waitingForPeer = {}]
=============================================================================
