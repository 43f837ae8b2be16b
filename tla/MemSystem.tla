----------------------------- MODULE MemSystem -----------------------------
(***************************************************************************)
(* Requestors, a non-coherent crossbar (mem/noncoherent_xbar.cc), simple   *)
(* memories (mem/simple_mem.cc) and the drain manager (sim/drain.cc), with *)
(* the packet queues between them.  A call goes through all of them within *)
(* one step: a released layer retries a source, whose queue sends its      *)
(* packet, which a memory takes or refuses.  Latencies are abstracted to   *)
(* events that are pending and may happen; packets keep their order in the *)
(* packet queues, where every packet has the same latency.                 *)
(***************************************************************************)
EXTENDS Naturals, Sequences, SequencesExt, FiniteSets, XBarLayer

CONSTANTS Cpus, Mems,
          Packets,
          Source,     \* the requestor of each packet
          Addr,       \* its address
          FindPort,   \* the memory of each address
          Workloads,  \* the sets of packets that may be sent together
          Posted      \* the packets that need no response (writebacks)

ASSUME MemSystemAssumption ==
    /\ Workloads \subseteq SUBSET Packets
    /\ Posted \subseteq Packets
    /\ \A p \in Packets : Source[p] \in Cpus /\ FindPort[Addr[p]] \in Mems

VARIABLES workload,   \* the packets the requestors send, over and over
          inFlight,   \* the packets issued and not yet answered, taken or dropped
          reqQueue,   \* the request queue of each requestor
          reqLayer,   \* reqLayers of the crossbar, one per memory
          memory,     \* the memories
          respLayer,  \* respLayers of the crossbar, one per requestor
          respQueue,  \* the response queue of the crossbar towards each requestor
          routeTo,    \* the requestor a response is for, as a set
          drainState, \* of every drainable object
          manager     \* the drain manager

path == <<workload, inFlight, reqQueue, reqLayer, memory, respLayer, respQueue, routeTo>>
vars == <<path, drainState, manager>>

EmptyQueue == [list |-> <<>>, waiting |-> FALSE]

Objects == {"requestor", "reqQueue", "respLayer", "respQueue"} \X Cpus
              \cup {"reqLayer", "memory"} \X Mems

Init ==
    /\ workload \in Workloads
    /\ inFlight = {} /\ routeTo = [p \in Packets |-> {}]
    /\ reqQueue = [c \in Cpus |-> EmptyQueue]
    /\ respQueue = [c \in Cpus |-> EmptyQueue]
    /\ reqLayer = [m \in Mems |-> IdleLayer]
    /\ respLayer = [c \in Cpus |-> IdleLayer]
    /\ memory = [m \in Mems |-> [isBusy |-> FALSE, retryReq |-> FALSE,
                                 packetQueue |-> <<>>, retryResp |-> FALSE]]
    /\ drainState = [o \in Objects |-> "Running"]
    /\ manager = [state |-> "Running", count |-> 0, finished |-> FALSE]

-----------------------------------------------------------------------------
(* Draining. *)

\* signalDrainDone of the objects in S, which does nothing for one that is not
\* Draining; the last one makes the simulation loop return.
Signal(S) ==
    \E D \in {{o \in S : drainState[o] = "Draining"}} :
        /\ drainState' = [o \in Objects |-> IF o \in D THEN "Drained" ELSE drainState[o]]
        /\ manager' = [manager EXCEPT
                         !.count = @ - Cardinality(D),
                         !.finished = @ \/ (D # {} /\ manager.count = Cardinality(D))]

\* Events are serviced only inside simulate(), which is not called when drained.
Running == manager.state # "Drained"

NoSignal == UNCHANGED <<drainState, manager>>

Awaited(c) == {p \in inFlight : Source[p] = c /\ p \notin Posted}

\* What drain() of each object answers.
DrainedNow ==
    {<<"requestor", c>> : c \in {d \in Cpus : Awaited(d) = {}}}
    \cup {<<"reqQueue", c>> : c \in {d \in Cpus : reqQueue[d].list = <<>>}}
    \cup {<<"respQueue", c>> : c \in {d \in Cpus : respQueue[d].list = <<>>}}
    \cup {<<"reqLayer", m>> : m \in {n \in Mems : reqLayer[n].state = "IDLE"}}
    \cup {<<"respLayer", c>> : c \in {d \in Cpus : respLayer[d].state = "IDLE"}}
    \cup {<<"memory", m>> : m \in {n \in Mems : memory[n].packetQueue = <<>>}}

\* tryDrain, called by drain() of m5/simulate.py until it succeeds: first when the
\* user wants to, then whenever the simulation loop has returned "Finished drain".
TryDrainOnce ==
    /\ manager.state = "Running" \/ (manager.state = "Draining" /\ manager.finished)
    /\ drainState' = [o \in Objects |-> IF manager.finished \/ o \in DrainedNow
                                        THEN "Drained" ELSE "Draining"]
    /\ \E n \in {Cardinality({o \in Objects : drainState'[o] = "Draining"})} :
        manager' = [state |-> IF n = 0 THEN "Drained" ELSE "Draining",
                    count |-> n, finished |-> FALSE]
    /\ UNCHANGED path

TryDrain ==
    /\ manager.state = "Running" \/ (manager.state = "Draining" /\ manager.finished)
    /\ drainState' = [o \in Objects |-> IF o \in DrainedNow THEN "Drained" ELSE "Draining"]
    /\ \E n \in {Cardinality(Objects \ DrainedNow)} :
        manager' = [state |-> IF n = 0 THEN "Drained" ELSE "Draining",
                    count |-> n, finished |-> FALSE]
    /\ UNCHANGED path

\* simulate() returns for another reason, such as an empty event queue, and drain()
\* calls it again.
OtherExit == manager.state = "Draining" /\ ~manager.finished /\ UNCHANGED vars

Resume ==
    /\ manager.state = "Drained"
    /\ manager' = [manager EXCEPT !.state = "Running"]
    /\ drainState' = [o \in Objects |-> "Running"]
    /\ UNCHANGED path

-----------------------------------------------------------------------------
(* Requests. *)

\* A requestor that is not draining queues a packet.
Issue(p) ==
    /\ Running /\ p \in workload \ inFlight /\ drainState[<<"requestor", Source[p]>>] = "Running"
    /\ inFlight' = inFlight \cup {p}
    /\ reqQueue' = [reqQueue EXCEPT ![Source[p]].list = Append(@, p)]
    /\ UNCHANGED <<workload, reqLayer, memory, respLayer, respQueue, routeTo>>
    /\ NoSignal

\* Where recvTimingReq of a memory puts the response in its queue: never first,
\* never before one of the same address.
Places(s, p) ==
    {i \in 1..(Len(s) + 1) : /\ i = 1 => s = <<>>
                             /\ \A j \in i..Len(s) : Addr[s[j]] # Addr[p]}

\* A memory takes p and is busy with it if the transfer takes time.
MemoryTakes(mem, p) ==
    {[mem EXCEPT !.isBusy = b,
                 !.packetQueue = IF p \in Posted THEN @ ELSE InsertAt(@, i, p)] :
       b \in BOOLEAN, i \in Places(mem.packetQueue, p)}

\* The queue keeps its packet and waits; layers and memories become ls and ms.
RefuseReq(c, ls, ms) ==
    /\ reqLayer' = [m \in Mems |-> Settle(ls[m])]
    /\ memory' = ms
    /\ reqQueue' = [reqQueue EXCEPT ![c].waiting = TRUE]
    /\ UNCHANGED <<inFlight, routeTo>>
    /\ NoSignal

\* sendDeferredPacket of requestor c through recvTimingReq of the crossbar, when
\* the layers are ls and the memories ms.
SendReq(c, ls, ms) ==
    \E p \in {Head(reqQueue[c].list)} : \E m \in {FindPort[Addr[p]]} :
        \/ /\ ~Free(ls[m])
           /\ RefuseReq(c, [ls EXCEPT ![m] = Enlist(@, c)], ms)
        \/ /\ Free(ls[m]) /\ (ms[m].isBusy \/ ms[m].retryReq)
           /\ RefuseReq(c, [ls EXCEPT ![m] = Failed(@, c)], [ms EXCEPT ![m].retryReq = TRUE])
        \/ /\ Free(ls[m]) /\ ~ms[m].isBusy /\ ~ms[m].retryReq
           /\ \E mem \in MemoryTakes(ms[m], p) : memory' = [ms EXCEPT ![m] = mem]
           /\ reqLayer' = [n \in Mems |-> Settle(IF n = m THEN Succeeded(ls[n]) ELSE ls[n])]
           /\ reqQueue' = [reqQueue EXCEPT ![c] = [list |-> Tail(@.list), waiting |-> FALSE]]
           /\ routeTo' = IF p \in Posted THEN routeTo ELSE [routeTo EXCEPT ![p] = {c}]
           /\ inFlight' = inFlight \ (Posted \cap {p})
           /\ Signal(IF Len(reqQueue[c].list) = 1 THEN {<<"reqQueue", c>>} ELSE {})

\* The send event of a request queue.
ReqSendEvent(c) ==
    /\ Running /\ reqQueue[c].list # <<>> /\ ~reqQueue[c].waiting
    /\ SendReq(c, reqLayer, memory)
    /\ UNCHANGED <<workload, respLayer, respQueue>>

\* retryWaiting of the request layer of m.  The queue that is retried has nothing
\* to send when its packet was dropped meanwhile.
RetryWaiting(m, ls, ms) ==
    \E c \in {Head(ls[m].waitingForLayer)}, ls1 \in {[ls EXCEPT ![m] = Retrying(@)]} :
        \/ reqQueue[c].list # <<>> /\ SendReq(c, ls1, ms)
        \/ /\ reqQueue[c].list = <<>>
           /\ reqLayer' = [n \in Mems |-> Settle(ls1[n])]
           /\ memory' = ms
           /\ reqQueue' = [reqQueue EXCEPT ![c].waiting = FALSE]
           /\ UNCHANGED <<inFlight, routeTo>>
           /\ Signal({<<"reqQueue", c>>})

\* releaseLayer of the request layer of m.
ReleaseReqLayer(m) ==
    /\ Running /\ reqLayer[m].state = "BUSY"
    /\ \E ls \in {[reqLayer EXCEPT ![m] = Released(@)]} :
        \/ MustRetry(ls[m]) /\ RetryWaiting(m, ls, memory)
        \/ /\ ~MustRetry(ls[m])
           /\ reqLayer' = ls
           /\ Signal(IF AtRest(ls[m]) THEN {<<"reqLayer", m>>} ELSE {})
           /\ UNCHANGED <<inFlight, reqQueue, memory, routeTo>>
    /\ UNCHANGED <<workload, respLayer, respQueue>>

ReleaseWithoutRetry(m) ==
    /\ Running /\ memory[m].isBusy
    /\ memory' = [memory EXCEPT ![m].isBusy = FALSE, ![m].retryReq = FALSE]
    /\ UNCHANGED <<workload, inFlight, reqQueue, reqLayer, routeTo, respLayer, respQueue>>
    /\ NoSignal

\* SimpleMemory::release, with recvRetry of the request layer when a retry is owed.
Release(m) ==
    /\ Running /\ memory[m].isBusy
    /\ \E ms \in {[memory EXCEPT ![m].isBusy = FALSE, ![m].retryReq = FALSE]},
          ls \in {[reqLayer EXCEPT ![m] = IF memory[m].retryReq THEN PeerRetried(@) ELSE @]} :
        \/ memory[m].retryReq /\ MustRetry(ls[m]) /\ RetryWaiting(m, ls, ms)
        \/ /\ ~(memory[m].retryReq /\ MustRetry(ls[m]))
           /\ memory' = ms /\ reqLayer' = ls
           /\ UNCHANGED <<inFlight, reqQueue, routeTo>> /\ NoSignal
    /\ UNCHANGED <<workload, respLayer, respQueue>>

\* A writeback that waits for its retry is dropped, as when a snoop invalidates
\* the block; the retry still comes.
Drop(c) ==
    /\ Running /\ reqQueue[c].waiting /\ reqQueue[c].list # <<>> /\ Head(reqQueue[c].list) \in Posted
    /\ inFlight' = inFlight \ {Head(reqQueue[c].list)}
    /\ reqQueue' = [reqQueue EXCEPT ![c].list = Tail(@)]
    /\ UNCHANGED <<workload, reqLayer, memory, respLayer, respQueue, routeTo>> /\ NoSignal

-----------------------------------------------------------------------------
(* Responses. *)

\* SimpleMemory::dequeue through recvTimingResp of the crossbar, when the response
\* layers are ls.
Dequeue(m, ls) ==
    \E p \in {Head(memory[m].packetQueue)} : \E c \in routeTo[p] :
        \/ /\ ~Free(ls[c])
           /\ respLayer' = [d \in Cpus |-> Settle(IF d = c THEN Enlist(ls[d], m) ELSE ls[d])]
           /\ memory' = [memory EXCEPT ![m].retryResp = TRUE]
           /\ UNCHANGED <<respQueue, routeTo>> /\ NoSignal
        \/ /\ Free(ls[c])
           /\ respLayer' = [d \in Cpus |-> Settle(IF d = c THEN Succeeded(ls[d]) ELSE ls[d])]
           /\ respQueue' = [respQueue EXCEPT ![c].list = Append(@, p)]
           /\ routeTo' = [routeTo EXCEPT ![p] = {}]
           /\ memory' = [memory EXCEPT ![m].packetQueue = Tail(@), ![m].retryResp = FALSE]
           /\ Signal(IF Len(memory[m].packetQueue) = 1 THEN {<<"memory", m>>} ELSE {})

\* The dequeue event of a memory, pending while it has responses and owes no retry.
DequeueEvent(m) ==
    /\ Running /\ memory[m].packetQueue # <<>> /\ ~memory[m].retryResp
    /\ Dequeue(m, respLayer)
    /\ UNCHANGED <<workload, inFlight, reqQueue, reqLayer>>

\* releaseLayer of the response layer of c; a retry is recvRespRetry of a memory.
ReleaseRespLayer(c) ==
    /\ Running /\ respLayer[c].state = "BUSY"
    /\ \E ls \in {[respLayer EXCEPT ![c] = Released(@)]} :
        \/ /\ MustRetry(ls[c])
           /\ Dequeue(Head(ls[c].waitingForLayer), [ls EXCEPT ![c] = Retrying(@)])
        \/ /\ ~MustRetry(ls[c])
           /\ respLayer' = ls
           /\ Signal(IF AtRest(ls[c]) THEN {<<"respLayer", c>>} ELSE {})
           /\ UNCHANGED <<memory, respQueue, routeTo>>
    /\ UNCHANGED <<workload, inFlight, reqQueue, reqLayer>>

\* The response queue of the crossbar sends, at its event or when the requestor retries.
Accept(c) ==
    /\ Running /\ respQueue[c].list # <<>>
    /\ inFlight' = inFlight \ {Head(respQueue[c].list)}
    /\ respQueue' = [respQueue EXCEPT ![c] = [list |-> Tail(@.list), waiting |-> FALSE]]
    /\ Signal({o \in {<<"requestor", c>>} : Cardinality(Awaited(c)) = 1}
                \cup {o \in {<<"respQueue", c>>} : Len(respQueue[c].list) = 1})
    /\ UNCHANGED <<workload, reqQueue, reqLayer, memory, respLayer, routeTo>>

RefuseResp(c) ==
    /\ Running /\ respQueue[c].list # <<>> /\ ~respQueue[c].waiting
    /\ respQueue' = [respQueue EXCEPT ![c].waiting = TRUE]
    /\ UNCHANGED <<workload, inFlight, reqQueue, reqLayer, memory, respLayer, routeTo>>
    /\ NoSignal

-----------------------------------------------------------------------------
Next ==
    \/ TryDrain \/ OtherExit \/ Resume
    \/ \E p \in Packets : Issue(p)
    \/ \E m \in Mems : ReleaseReqLayer(m) \/ Release(m) \/ DequeueEvent(m)
    \/ \E c \in Cpus : \/ ReqSendEvent(c) \/ Drop(c) \/ ReleaseRespLayer(c)
                       \/ Accept(c) \/ RefuseResp(c)

\* Pending events happen, a requestor takes a response in the end, and drain() goes
\* on when the simulation loop returns.
Fairness ==
    /\ \A m \in Mems :
        WF_vars(ReleaseReqLayer(m)) /\ WF_vars(Release(m)) /\ WF_vars(DequeueEvent(m))
    /\ \A c \in Cpus :
        WF_vars(ReqSendEvent(c)) /\ WF_vars(ReleaseRespLayer(c)) /\ WF_vars(Accept(c))
    /\ WF_vars(manager.finished /\ TryDrain)

Spec == Init /\ [][Next]_vars /\ Fairness

-----------------------------------------------------------------------------
\* Every mention of x in the layers ls; number 0 is waitingForPeer.
Mentions(ls, x) ==
    {<<k, 0>> : k \in {l \in DOMAIN ls : x \in ls[l].waitingForPeer}}
    \cup UNION {{<<k, i>> : i \in {j \in DOMAIN ls[k].waitingForLayer : ls[k].waitingForLayer[j] = x}} :
                 k \in DOMAIN ls}

\* A sender whose packet was refused is remembered in exactly one place that will
\* retry it, one that was not refused in none, and the crossbar waits for a memory
\* exactly when the memory knows that it owes a retry; a layer with nothing to wait
\* for lets nobody wait.
RetryOwed ==
    /\ \A c \in Cpus : Cardinality(Mentions(reqLayer, c)) = (IF reqQueue[c].waiting THEN 1 ELSE 0)
    /\ \A m \in Mems : Cardinality(Mentions(respLayer, m)) = (IF memory[m].retryResp THEN 1 ELSE 0)
    /\ \A m \in Mems : /\ (reqLayer[m].waitingForPeer # {}) <=> memory[m].retryReq
                       /\ memory[m].retryReq => memory[m].isBusy
                       /\ ~MustRetry(reqLayer[m])
    /\ \A c \in Cpus : ~MustRetry(respLayer[c]) /\ respLayer[c].waitingForPeer = {}

\* When the drain manager says the system is drained, no packet is anywhere in it
\* and no layer is occupied, although every object may have got work after it had
\* reported to be drained (DrainManager::tryDrain); and the manager counts exactly
\* the objects that have yet to report, so that its counter never wraps.
DrainSound ==
    /\ manager.state = "Drained" =>
        /\ inFlight = {}
        /\ \A m \in Mems : reqLayer[m].state = "IDLE"
        /\ \A c \in Cpus : respLayer[c].state = "IDLE"
    /\ manager.count = Cardinality({o \in Objects : drainState[o] = "Draining"})
    /\ manager.state = "Draining" => manager.finished \/ manager.count > 0

\* Every request is answered, and every writeback taken or dropped.
RequestsEnd == \A p \in Packets : p \in inFlight ~> p \notin inFlight

\* Draining ends.
DrainEnds == manager.state = "Draining" ~> manager.state = "Drained"
=============================================================================
