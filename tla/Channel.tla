------------------------------ MODULE Channel ------------------------------
(***************************************************************************)
(* One channel of the Valiance runtime (runtime/concurrency.py, Channel,   *)
(* ChannelSender, ChannelReceiver): a bounded buffer between two FIFO      *)
(* queues of blocked registrations, with closing, cancellation and         *)
(* handle-counted reclamation.                                             *)
(*                                                                         *)
(* Every operation is atomic in the code (one executor, no suspension      *)
(* inside), so every action is one whole method.  An operation is used     *)
(* once; a value is the send that carries it, so that every delivery can   *)
(* be told apart.                                                          *)
(*                                                                         *)
(* Some operators have a twin that differs by a plausible slip             *)
(* (EndWhenClosed for ReceiveClosed, ...): no action uses one, it stands   *)
(* in for the original to show that a property would notice.               *)
(***************************************************************************)
EXTENDS Naturals, Sequences, SequencesExt, Queues

CONSTANTS
    Capacities,     \* the capacities of this instance; 0 is an unbuffered channel
    SendOp,         \* the send operations, each also the value it sends
    RecvOp,         \* the receive operations
    NoValue,        \* what a receive that got nothing holds
    OwnWake,        \* every registration carries a wake of its own
    MaxHandles      \* bound: handles that exist at one time

ASSUME ChannelAssumption ==
    /\ Capacities \subseteq Nat
    /\ SendOp \cap RecvOp = {}
    /\ NoValue \notin SendOp
    /\ OwnWake \in BOOLEAN
    /\ MaxHandles \in Nat \ {0}

VARIABLES
    capacity,       \* Channel.capacity, which never changes
    closed,         \* Channel.closed
    buffer,         \* Channel.buffer
    senders,        \* Channel.senders: blocked sends, oldest first
    receivers,      \* Channel.receivers: blocked receives, oldest first
    handles,        \* Channel.handle_owners
    destroyed,      \* Channel.destroyed
    status,         \* how far each operation is, as its caller can see it
    got,            \* ChannelReceiver.result / the value received at once
    released,       \* values given to the release callback, in order
    sendLog,        \* history: sends in the order they were called
    recvLog         \* history: receives in the order they were called

queues == <<buffer, senders, receivers>>
vars == <<capacity, closed, buffer, senders, receivers, handles, destroyed, status,
          got, released, sendLog, recvLog>>

Op == SendOp \cup RecvOp

-----------------------------------------------------------------------------
\* _reclaim_if_unowned, after a step that leaves buf, ss, rs and h behind: the
\* last owner gone, what is still buffered goes to the release callback.
Unowned(ss, rs, h) == ~destroyed /\ h = 0 /\ ss = <<>> /\ rs = <<>>

Settle(buf, ss, rs, h) ==
    /\ senders' = ss
    /\ receivers' = rs
    /\ handles' = h
    /\ destroyed' = (destroyed \/ Unowned(ss, rs, h))
    /\ buffer' = IF Unowned(ss, rs, h) THEN <<>> ELSE buf
    /\ released' = IF Unowned(ss, rs, h) THEN released \o buf ELSE released

\* deque.remove finds the first registration that compares equal: with wakes
\* of their own the very one, else the first receive that still waits.  Sends
\* compare their payloads too, which are distinct here.
Found(queue, i, op) ==
    IF OwnWake THEN queue[i] = op
    ELSE /\ status[queue[i]] = "waiting"
         /\ \A j \in 1..(i - 1) : status[queue[j]] # "waiting"

RoomForOneMore == Len(buffer) <= capacity
HasRoom == Len(buffer) < capacity

-----------------------------------------------------------------------------
(* try_send and register_send.                                             *)

\* A caller holds a handle, so a channel in use is not destroyed.
CanCall(op) == status[op] = "idle" /\ handles > 0

SendCall(v) == CanCall(v) /\ sendLog' = Append(sendLog, v) /\ UNCHANGED recvLog

SendToClosed(v) ==
    /\ SendCall(v)
    /\ closed
    /\ status' = [status EXCEPT ![v] = "faulted"]
    /\ UNCHANGED <<closed, queues, handles, destroyed, got, released>>

SendToReceiver(v) ==
    /\ SendCall(v)
    /\ ~closed /\ receivers # <<>>
    /\ status' = [status EXCEPT ![v] = "sent", ![Head(receivers)] = "received"]
    /\ got' = [got EXCEPT ![Head(receivers)] = v]
    /\ Settle(buffer, senders, Tail(receivers), handles)
    /\ UNCHANGED closed

SendToBuffer(v) ==
    /\ SendCall(v)
    /\ ~closed /\ receivers = <<>> /\ HasRoom
    /\ buffer' = Append(buffer, v)
    /\ status' = [status EXCEPT ![v] = "sent"]
    /\ UNCHANGED <<closed, senders, receivers, handles, destroyed, got, released>>

SendBlocksFirst(v) ==
    /\ SendCall(v)
    /\ ~closed /\ receivers = <<>> /\ ~HasRoom
    /\ senders' = <<v>> \o senders
    /\ status' = [status EXCEPT ![v] = "waiting"]
    /\ UNCHANGED <<closed, buffer, receivers, handles, destroyed, got, released>>

SendBlocks(v) ==
    /\ SendCall(v)
    /\ ~closed /\ receivers = <<>> /\ ~HasRoom
    /\ senders' = Append(senders, v)
    /\ status' = [status EXCEPT ![v] = "waiting"]
    /\ UNCHANGED <<closed, buffer, receivers, handles, destroyed, got, released>>

-----------------------------------------------------------------------------
(* try_receive and register_receive.                                       *)

RecvCall(r) == CanCall(r) /\ recvLog' = Append(recvLog, r) /\ UNCHANGED sendLog

Receive(r, v) == got' = [got EXCEPT ![r] = v]

\* The oldest buffered value; the oldest blocked send takes the free place.
ReceiveBuffered(r) ==
    /\ RecvCall(r)
    /\ buffer # <<>>
    /\ Receive(r, Head(buffer))
    /\ IF senders # <<>> /\ ~closed
       THEN /\ status' = [status EXCEPT ![r] = "received", ![Head(senders)] = "sent"]
            /\ Settle(Append(Tail(buffer), Head(senders)), Tail(senders),
                      receivers, handles)
       ELSE /\ status' = [status EXCEPT ![r] = "received"]
            /\ Settle(Tail(buffer), senders, receivers, handles)
    /\ UNCHANGED closed

\* An unbuffered channel: straight from the oldest blocked send.
ReceiveFromSender(r) ==
    /\ RecvCall(r)
    /\ buffer = <<>> /\ senders # <<>> /\ ~closed
    /\ Receive(r, Head(senders))
    /\ status' = [status EXCEPT ![r] = "received", ![Head(senders)] = "sent"]
    /\ Settle(buffer, Tail(senders), receivers, handles)
    /\ UNCHANGED closed

EndWhenClosed(r) ==
    /\ RecvCall(r)
    /\ closed
    /\ status' = [status EXCEPT ![r] = "eof"]
    /\ UNCHANGED <<closed, queues, handles, destroyed, got, released>>

ReceiveClosed(r) ==
    /\ RecvCall(r)
    /\ buffer = <<>> /\ closed
    /\ status' = [status EXCEPT ![r] = "eof"]
    /\ UNCHANGED <<closed, queues, handles, destroyed, got, released>>

ReceiveBlocks(r) ==
    /\ RecvCall(r)
    /\ buffer = <<>> /\ senders = <<>> /\ ~closed
    /\ receivers' = Append(receivers, r)
    /\ status' = [status EXCEPT ![r] = "waiting"]
    /\ UNCHANGED <<closed, buffer, senders, handles, destroyed, got, released>>

-----------------------------------------------------------------------------
(* cancel_send, cancel_receive: only an unresolved registration is removed. *)

CancelSend(v) ==
    /\ status[v] = "waiting"
    /\ status' = [status EXCEPT ![v] = "cancelled"]
    /\ \E i \in DOMAIN senders :
          /\ senders[i] = v
          /\ Settle(buffer, RemoveAt(senders, i), receivers, handles)
    /\ UNCHANGED <<closed, got, sendLog, recvLog>>

CancelReceive(r) ==
    /\ status[r] = "waiting"
    /\ status' = [status EXCEPT ![r] = "cancelled"]
    /\ \E i \in DOMAIN receivers :
          /\ Found(receivers, i, r)
          /\ Settle(buffer, senders, RemoveAt(receivers, i), handles)
    /\ UNCHANGED <<closed, got, sendLog, recvLog>>

\* close: blocked sends fault, blocked receives drain the buffer in order and
\* the rest of them see the end.
Close ==
    LET served == IF Len(receivers) < Len(buffer) THEN Len(receivers)
                  ELSE Len(buffer)
        IsServed(r) == \E i \in 1..served : receivers[i] = r
    IN  /\ ~closed /\ handles > 0
        /\ closed' = TRUE
        /\ status' = [o \in Op |->
                IF \E i \in DOMAIN senders : senders[i] = o THEN "faulted"
                ELSE IF IsServed(o) THEN "received"
                ELSE IF \E i \in DOMAIN receivers : receivers[i] = o THEN "eof"
                ELSE status[o]]
        /\ got' = [r \in RecvOp |->
                IF IsServed(r)
                THEN buffer[CHOOSE i \in 1..served : receivers[i] = r]
                ELSE got[r]]
        /\ Settle(SubSeq(buffer, served + 1, Len(buffer)), <<>>, <<>>, handles)
        /\ UNCHANGED <<sendLog, recvLog>>

-----------------------------------------------------------------------------
(* retain_handle, release_handle.                                          *)

Retain ==
    /\ ~destroyed /\ handles > 0 /\ handles < MaxHandles
    /\ handles' = handles + 1
    /\ UNCHANGED <<closed, queues, destroyed, status, got, released, sendLog, recvLog>>

Release ==
    /\ handles > 0
    /\ Settle(buffer, senders, receivers, handles - 1)
    /\ UNCHANGED <<closed, status, got, sendLog, recvLog>>

-----------------------------------------------------------------------------
Init ==
    /\ capacity \in Capacities
    /\ closed = FALSE
    /\ buffer = <<>> /\ senders = <<>> /\ receivers = <<>>
    /\ handles = 1
    /\ destroyed = FALSE
    /\ status = [o \in Op |-> "idle"]
    /\ got = [r \in RecvOp |-> NoValue]
    /\ released = <<>>
    /\ sendLog = <<>> /\ recvLog = <<>>

Send(v) ==
    \/ SendToClosed(v)
    \/ SendToReceiver(v)
    \/ SendToBuffer(v)
    \/ SendBlocks(v)

Recv(r) ==
    \/ ReceiveBuffered(r)
    \/ ReceiveFromSender(r)
    \/ ReceiveClosed(r)
    \/ ReceiveBlocks(r)

Called ==
    \/ \E v \in SendOp : Send(v) \/ CancelSend(v)
    \/ \E r \in RecvOp : Recv(r) \/ CancelReceive(r)
    \/ Close
    \/ Retain
    \/ Release

Next == Called /\ UNCHANGED capacity

Spec == Init /\ [][Next]_vars

-----------------------------------------------------------------------------
(* Properties                                                              *)

\* Every variable keeps its type.
TypeOK ==
    /\ capacity \in Capacities
    /\ closed \in BOOLEAN /\ destroyed \in BOOLEAN
    /\ buffer \in Seq(SendOp) /\ senders \in Seq(SendOp)
    /\ receivers \in Seq(RecvOp)
    /\ handles \in 0..MaxHandles
    /\ status \in [Op -> {"idle", "waiting", "sent", "faulted", "received",
                          "eof", "cancelled"}]
    /\ got \in [RecvOp -> SendOp \cup {NoValue}]
    /\ released \in Seq(SendOp)
    /\ sendLog \in Seq(SendOp) /\ recvLog \in Seq(RecvOp)

\* Nobody waits in vain: a receive blocks only on a channel that is open, has
\* nothing buffered and no blocked send; a send blocks only behind a full
\* buffer of an open channel, and the buffer never exceeds the capacity
\* (docs/language.md 25.9, 25.10).
NobodyWaitsInVain ==
    /\ receivers # <<>> => ~closed /\ buffer = <<>> /\ senders = <<>>
    /\ senders # <<>> => ~closed /\ Len(buffer) = capacity
    /\ Len(buffer) <= capacity

\* A registration is in its queue exactly while its caller waits: none is lost
\* by a hand-over, a cancellation of a peer or the close, and none is resolved
\* twice.
WaitingIsQueued ==
    /\ \A v \in SendOp : (status[v] = "waiting") <=> v \in ToSet(senders)
    /\ \A r \in RecvOp : (status[r] = "waiting") <=> r \in ToSet(receivers)
    /\ IsInjective(senders) /\ IsInjective(receivers)

\* FIFO without loss or duplication: the sends that were neither cancelled nor
\* faulted, in call order, are exactly what the receives got, in the order
\* those were called, then what was released with the channel, then what is
\* buffered, then what is still blocked.
Fifo ==
    LET accepted  == Kept(sendLog, {v \in SendOp : status[v] \in {"sent", "waiting"}})
        delivered == Kept(recvLog, {r \in RecvOp : status[r] = "received"})
    IN  accepted = [i \in DOMAIN delivered |-> got[delivered[i]]]
                   \o released \o buffer \o senders

\* A receive reports the end only when everything sent before it was drained.
EndIsDrained ==
    (\E r \in RecvOp : status[r] = "eof") => closed /\ buffer = <<>>

\* Reclaimed means empty, and only unreachable channels are reclaimed.
DestroyedIsEmpty ==
    destroyed => handles = 0 /\ buffer = <<>> /\ senders = <<>> /\ receivers = <<>>

\* The end of the stream and the end of the channel come last: the end is seen
\* after everything sent, and reclamation after everybody has left.
EndsLast == EndIsDrained /\ DestroyedIsEmpty

\* The buffer and the blocked senders behave as the one line of FifoChannel.
Line == INSTANCE FifoChannel WITH
    Value <- SendOp, Taker <- RecvOp,
    line <- buffer \o senders, takers <- receivers, given <- got, shut <- closed,
    gone <- destroyed
OneLine == Line!FSpec

\* concurrency.py:990, 1015: cancelling removes one registration "without
\* disturbing FIFO peers": no cancelled registration stays in a queue.
CancelLeavesPeers ==
    \A o \in ToSet(senders) \cup ToSet(receivers) : status[o] = "waiting"
=============================================================================
