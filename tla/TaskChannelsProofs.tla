------------------------- MODULE TaskChannelsProofs -------------------------
(***************************************************************************)
(* Proofs about Channel and about the tasks of a block around one          *)
(* (TaskChannels), for every capacity, every set of operations and every   *)
(* number of tasks.                                                        *)
(*                                                                         *)
(* The channel alone comes first.  NobodyWaitsInVain is inductive once the *)
(* types are known: the methods keep the queue they serve and the buffer   *)
(* in step.  The end of a channel and its reclamation then follow from the *)
(* state each method leaves.  On top of these stand the two that need the  *)
(* order of the queues: who waits is queued, and the line of values is     *)
(* first in, first out (LineInv).                                          *)
(*                                                                         *)
(* Then the tasks: what was proved of the channel holds when tasks are     *)
(* scheduled, woken, cancelled and ended around it, its queues agree with  *)
(* the tasks' suspensions, a deadlock that is reported is one, and a value *)
(* on its way has one owner.  A step of the tasks is, for the channel, one *)
(* of its methods, a withdrawal of the operations of the cancelled tasks,  *)
(* or nothing, so that the lemmas of the first part carry over.            *)
(***************************************************************************)
EXTENDS TaskChannels, QueueLemmas, SequenceTheorems, TLAPS

-----------------------------------------------------------------------------
(* The channel.                                                            *)

\* Dropping one element of a sequence.
LEMMA RemoveAtSeq ==
    ASSUME NEW S, NEW s \in Seq(S), NEW i \in DOMAIN s
    PROVE  RemoveAt(s, i) \in Seq(S) /\ Len(RemoveAt(s, i)) = Len(s) - 1
<1> DEFINE a == SubSeq(s, 1, i - 1)
           b == SubSeq(s, i + 1, Len(s))
<1>1. i \in 1..Len(s) /\ Len(s) \in Nat
    BY LenProperties
<1>2. a \in Seq(S) /\ Len(a) = i - 1
    BY <1>1, SubSeqProperties
<1>3. b \in Seq(S) /\ Len(b) = Len(s) - i
    BY <1>1, SubSeqProperties
<1>4. a \o b \in Seq(S) /\ Len(a \o b) = Len(a) + Len(b)
    BY <1>2, <1>3, ConcatProperties
<1>5. RemoveAt(s, i) = a \o b
    BY DEF RemoveAt
<1>6. Len(a) + Len(b) = Len(s) - 1
    BY <1>1, <1>2, <1>3
<1> HIDE DEF a, b
<1> QED
    BY <1>4, <1>5, <1>6

\* Settle keeps the types of what it writes.
LEMMA SettleType ==
    ASSUME TypeOK,
           NEW buf \in Seq(SendOp), NEW ss \in Seq(SendOp),
           NEW rs \in Seq(RecvOp), NEW h \in 0..MaxHandles,
           Settle(buf, ss, rs, h)
    PROVE  /\ buffer' \in Seq(SendOp) /\ senders' \in Seq(SendOp)
           /\ receivers' \in Seq(RecvOp) /\ handles' \in 0..MaxHandles
           /\ destroyed' \in BOOLEAN /\ released' \in Seq(SendOp)
<1>1. released \o buf \in Seq(SendOp)
    BY ConcatProperties DEF TypeOK
<1>2. <<>> \in Seq(SendOp)
    BY EmptySeq
<1> QED
    BY <1>1, <1>2 DEF Settle, Unowned, TypeOK

\* Every method keeps the types.
LEMMA TypesStep == TypeOK /\ [Next]_vars => TypeOK'
<1> SUFFICES ASSUME TypeOK, [Next]_vars PROVE TypeOK'
  OBVIOUS
<1>0. capacity' = capacity
  BY DEF Next, vars
<1> USE ChannelAssumption, <1>0
<1>1. ASSUME NEW v \in SendOp, SendToClosed(v) PROVE TypeOK'
  BY <1>1, AppendProperties
     DEF TypeOK, SendToClosed, SendCall, queues, Op
<1>2. ASSUME NEW v \in SendOp, SendToReceiver(v) PROVE TypeOK'
  <2>1. Tail(receivers) \in Seq(RecvOp) /\ Head(receivers) \in RecvOp
    BY <1>2, HeadTailProperties DEF TypeOK, SendToReceiver
  <2>2. /\ buffer' \in Seq(SendOp) /\ senders' \in Seq(SendOp)
        /\ receivers' \in Seq(RecvOp) /\ handles' \in 0..MaxHandles
        /\ destroyed' \in BOOLEAN /\ released' \in Seq(SendOp)
    BY <1>2, <2>1, SettleType DEF TypeOK, SendToReceiver
  <2> QED
    BY <1>2, <2>1, <2>2, AppendProperties
       DEF TypeOK, SendToReceiver, SendCall, Op
<1>3. ASSUME NEW v \in SendOp, SendToBuffer(v) PROVE TypeOK'
  BY <1>3, AppendProperties DEF TypeOK, SendToBuffer, SendCall, Op
<1>4. ASSUME NEW v \in SendOp, SendBlocks(v) PROVE TypeOK'
  BY <1>4, AppendProperties DEF TypeOK, SendBlocks, SendCall, Op
<1>5. ASSUME NEW r \in RecvOp, ReceiveBuffered(r) PROVE TypeOK'
  <2>1. Tail(buffer) \in Seq(SendOp) /\ Head(buffer) \in SendOp
    BY <1>5, HeadTailProperties DEF TypeOK, ReceiveBuffered
  <2>2. CASE senders # <<>> /\ ~closed
    <3>1. Tail(senders) \in Seq(SendOp) /\ Head(senders) \in SendOp
      BY <2>2, HeadTailProperties DEF TypeOK
    <3>2. Append(Tail(buffer), Head(senders)) \in Seq(SendOp)
      BY <2>1, <3>1, AppendProperties
    <3>3. Settle(Append(Tail(buffer), Head(senders)), Tail(senders),
                 receivers, handles)
      BY <1>5, <2>2 DEF ReceiveBuffered
    <3>4. /\ buffer' \in Seq(SendOp) /\ senders' \in Seq(SendOp)
          /\ receivers' \in Seq(RecvOp) /\ handles' \in 0..MaxHandles
          /\ destroyed' \in BOOLEAN /\ released' \in Seq(SendOp)
      BY <3>1, <3>2, <3>3, SettleType DEF TypeOK
    <3> QED
      BY <1>5, <2>1, <2>2, <3>1, <3>4, AppendProperties
         DEF TypeOK, ReceiveBuffered, RecvCall, Receive, Op
  <2>3. CASE ~(senders # <<>> /\ ~closed)
    <3>1. Settle(Tail(buffer), senders, receivers, handles)
      BY <1>5, <2>3 DEF ReceiveBuffered
    <3>2. /\ buffer' \in Seq(SendOp) /\ senders' \in Seq(SendOp)
          /\ receivers' \in Seq(RecvOp) /\ handles' \in 0..MaxHandles
          /\ destroyed' \in BOOLEAN /\ released' \in Seq(SendOp)
      BY <2>1, <3>1, SettleType DEF TypeOK
    <3> QED
      BY <1>5, <2>1, <2>3, <3>2, AppendProperties
         DEF TypeOK, ReceiveBuffered, RecvCall, Receive, Op
  <2> QED
    BY <2>2, <2>3
<1>6. ASSUME NEW r \in RecvOp, ReceiveFromSender(r) PROVE TypeOK'
  <2>1. Tail(senders) \in Seq(SendOp) /\ Head(senders) \in SendOp
    BY <1>6, HeadTailProperties DEF TypeOK, ReceiveFromSender
  <2>2. /\ buffer' \in Seq(SendOp) /\ senders' \in Seq(SendOp)
        /\ receivers' \in Seq(RecvOp) /\ handles' \in 0..MaxHandles
        /\ destroyed' \in BOOLEAN /\ released' \in Seq(SendOp)
    BY <1>6, <2>1, SettleType DEF TypeOK, ReceiveFromSender
  <2> QED
    BY <1>6, <2>1, <2>2, AppendProperties
       DEF TypeOK, ReceiveFromSender, RecvCall, Receive, Op
<1>7. ASSUME NEW r \in RecvOp, ReceiveClosed(r) PROVE TypeOK'
  BY <1>7, AppendProperties DEF TypeOK, ReceiveClosed, RecvCall, queues, Op
<1>8. ASSUME NEW r \in RecvOp, ReceiveBlocks(r) PROVE TypeOK'
  BY <1>8, AppendProperties DEF TypeOK, ReceiveBlocks, RecvCall, Op
<1>9. ASSUME NEW v \in SendOp, CancelSend(v) PROVE TypeOK'
  <2>1. PICK i \in DOMAIN senders :
            Settle(buffer, RemoveAt(senders, i), receivers, handles)
    BY <1>9 DEF CancelSend
  <2>2. RemoveAt(senders, i) \in Seq(SendOp)
    BY RemoveAtSeq DEF TypeOK
  <2>3. /\ buffer' \in Seq(SendOp) /\ senders' \in Seq(SendOp)
        /\ receivers' \in Seq(RecvOp) /\ handles' \in 0..MaxHandles
        /\ destroyed' \in BOOLEAN /\ released' \in Seq(SendOp)
    BY <2>1, <2>2, SettleType DEF TypeOK
  <2> QED
    BY <1>9, <2>3 DEF TypeOK, CancelSend, Op
<1>10. ASSUME NEW r \in RecvOp, CancelReceive(r) PROVE TypeOK'
  <2>1. PICK i \in DOMAIN receivers :
            Settle(buffer, senders, RemoveAt(receivers, i), handles)
    BY <1>10 DEF CancelReceive
  <2>2. RemoveAt(receivers, i) \in Seq(RecvOp)
    BY RemoveAtSeq DEF TypeOK
  <2>3. /\ buffer' \in Seq(SendOp) /\ senders' \in Seq(SendOp)
        /\ receivers' \in Seq(RecvOp) /\ handles' \in 0..MaxHandles
        /\ destroyed' \in BOOLEAN /\ released' \in Seq(SendOp)
    BY <2>1, <2>2, SettleType DEF TypeOK
  <2> QED
    BY <1>10, <2>3 DEF TypeOK, CancelReceive, Op
<1>11. ASSUME Close PROVE TypeOK'
  <2> DEFINE served == IF Len(receivers) < Len(buffer) THEN Len(receivers)
                       ELSE Len(buffer)
  <2>1. /\ served \in Nat /\ served <= Len(buffer) /\ served <= Len(receivers)
        /\ Len(buffer) \in Nat
    BY LenProperties DEF TypeOK
  <2>2. SubSeq(buffer, served + 1, Len(buffer)) \in Seq(SendOp)
    BY <2>1, SubSeqProperties DEF TypeOK
  <2>3. Settle(SubSeq(buffer, served + 1, Len(buffer)), <<>>, <<>>, handles)
    BY <1>11 DEF Close
  <2>4. /\ buffer' \in Seq(SendOp) /\ senders' \in Seq(SendOp)
        /\ receivers' \in Seq(RecvOp) /\ handles' \in 0..MaxHandles
        /\ destroyed' \in BOOLEAN /\ released' \in Seq(SendOp)
    BY <2>2, <2>3, SettleType, EmptySeq DEF TypeOK
  <2>5. status' \in [Op -> {"idle", "waiting", "sent", "faulted", "received",
                            "eof", "cancelled"}]
    BY <1>11 DEF Close, TypeOK
  <2>6. got' \in [RecvOp -> SendOp \cup {NoValue}]
    <3>1. ASSUME NEW r \in RecvOp, \E i \in 1..served : receivers[i] = r
          PROVE  buffer[CHOOSE i \in 1..served : receivers[i] = r] \in SendOp
      <4>1. (CHOOSE i \in 1..served : receivers[i] = r) \in 1..served
        BY <3>1
      <4>2. (CHOOSE i \in 1..served : receivers[i] = r) \in 1..Len(buffer)
        BY <4>1, <2>1
      <4> QED
        BY <4>2, ElementOfSeq DEF TypeOK
    <3>2. got' = [r \in RecvOp |->
              IF \E i \in 1..served : receivers[i] = r
              THEN buffer[CHOOSE i \in 1..served : receivers[i] = r]
              ELSE got[r]]
      BY <1>11 DEF Close
    <3> QED
      BY <3>1, <3>2 DEF TypeOK
  <2> QED
    BY <1>11, <2>4, <2>5, <2>6 DEF TypeOK, Close
<1>12. ASSUME Retain PROVE TypeOK'
  BY <1>12 DEF TypeOK, Retain, queues
<1>13. ASSUME Release PROVE TypeOK'
  <2>1. handles - 1 \in 0..MaxHandles
    BY <1>13 DEF Release, TypeOK
  <2>2. /\ buffer' \in Seq(SendOp) /\ senders' \in Seq(SendOp)
        /\ receivers' \in Seq(RecvOp) /\ handles' \in 0..MaxHandles
        /\ destroyed' \in BOOLEAN /\ released' \in Seq(SendOp)
    BY <1>13, <2>1, SettleType DEF TypeOK, Release
  <2> QED
    BY <1>13, <2>2 DEF TypeOK, Release
<1>14. CASE UNCHANGED vars
  BY <1>14 DEF TypeOK, vars
<1> QED
  BY <1>1, <1>2, <1>3, <1>4, <1>5, <1>6, <1>7, <1>8, <1>9, <1>10, <1>11,
     <1>12, <1>13, <1>14 DEF Next, Called, Send, Recv

\* The types of Channel hold always (Channel.TypeOK): the buffer and the blocked
\* sends are sends, the blocked receives are receives, and retain_handle and
\* release_handle keep the handle count within its bounds.
THEOREM TypeCorrect == Spec => []TypeOK
<1>1. Init => TypeOK
  <2>1. <<>> \in Seq(SendOp) /\ <<>> \in Seq(RecvOp)
    BY EmptySeq
  <2>2. 1 \in 0..MaxHandles
    BY ChannelAssumption DEF ChannelAssumption
  <2> QED
    BY <2>1, <2>2 DEF Init, TypeOK
<1>2. TypeOK /\ [Next]_vars => TypeOK'
    BY TypesStep
<1> QED
    BY <1>1, <1>2, PTL DEF Spec

-----------------------------------------------------------------------------
\* Settle either keeps the three queues it was given or, on the last release,
\* empties the buffer of a channel nobody waits in.
LEMMA SettleQueues ==
    ASSUME NEW buf, NEW ss, NEW rs, NEW h, Settle(buf, ss, rs, h)
    PROVE  /\ senders' = ss /\ receivers' = rs
           /\ \/ buffer' = buf
              \/ buffer' = <<>> /\ ss = <<>> /\ rs = <<>> /\ h = 0
    BY DEF Settle, Unowned

\* Lengths, emptiness and tails.
LEMMA Lengths ==
    ASSUME NEW S, NEW s \in Seq(S)
    PROVE  /\ Len(s) \in Nat
           /\ s = <<>> <=> Len(s) = 0
           /\ s # <<>> => Len(Tail(s)) = Len(s) - 1
<1>1. Len(s) \in Nat
    BY LenProperties
<1>2. s = <<>> <=> Len(s) = 0
    BY EmptySeq, <1>1
<1>3. s # <<>> => Len(Tail(s)) = Len(s) - 1
    BY HeadTailProperties
<1> QED
    BY <1>1, <1>2, <1>3

\* A queue with a place in it is not empty.
LEMMA PlaceNotEmpty ==
    ASSUME NEW S, NEW s \in Seq(S), NEW i \in DOMAIN s
    PROVE  s # <<>>
<1>1. DOMAIN s = 1..Len(s) /\ Len(s) \in Nat
    BY LenProperties
<1> QED
    BY <1>1, EmptySeq

\* Every method leaves nobody waiting in vain.
LEMMA NobodyStep == TypeOK /\ NobodyWaitsInVain /\ [Next]_vars => NobodyWaitsInVain'
<1> SUFFICES ASSUME TypeOK, NobodyWaitsInVain, [Next]_vars
             PROVE  NobodyWaitsInVain'
  OBVIOUS
<1>a. capacity \in Nat /\ capacity' = capacity
  BY ChannelAssumption DEF ChannelAssumption, TypeOK, Next, vars
<1> USE <1>a
<1>b. /\ Len(buffer) \in Nat /\ (buffer = <<>> <=> Len(buffer) = 0)
      /\ (buffer # <<>> => Len(Tail(buffer)) = Len(buffer) - 1)
      /\ Len(<<>>) = 0
  BY Lengths DEF TypeOK
<1>c. Len(senders) \in Nat /\ Len(receivers) \in Nat
  BY Lengths DEF TypeOK
<1>1. ASSUME NEW v \in SendOp, SendToClosed(v) PROVE NobodyWaitsInVain'
  BY <1>1 DEF SendToClosed, queues, NobodyWaitsInVain
<1>2. ASSUME NEW v \in SendOp, SendToReceiver(v) PROVE NobodyWaitsInVain'
  <2>1. Settle(buffer, senders, Tail(receivers), handles) /\ closed' = closed
    BY <1>2 DEF SendToReceiver
  <2>2. buffer = <<>> /\ senders = <<>> /\ ~closed
    BY <1>2 DEF SendToReceiver, NobodyWaitsInVain
  <2> QED
    BY <1>a, <1>b, <2>1, <2>2, SettleQueues DEF NobodyWaitsInVain
<1>3. ASSUME NEW v \in SendOp, SendToBuffer(v) PROVE NobodyWaitsInVain'
  <2>1. Len(Append(buffer, v)) = Len(buffer) + 1
    BY AppendProperties DEF TypeOK
  <2> QED
    BY <1>a, <1>b, <1>3, <2>1 DEF SendToBuffer, HasRoom, NobodyWaitsInVain
<1>4. ASSUME NEW v \in SendOp, SendBlocks(v) PROVE NobodyWaitsInVain'
  BY <1>a, <1>b, <1>4 DEF SendBlocks, HasRoom, NobodyWaitsInVain
<1>5. ASSUME NEW r \in RecvOp, ReceiveBuffered(r) PROVE NobodyWaitsInVain'
  <2>1. buffer # <<>> /\ receivers = <<>> /\ closed' = closed
    BY <1>5 DEF ReceiveBuffered, NobodyWaitsInVain
  <2>2. CASE senders # <<>> /\ ~closed
    <3>1. Settle(Append(Tail(buffer), Head(senders)), Tail(senders),
                 receivers, handles)
      BY <1>5, <2>2 DEF ReceiveBuffered
    <3>2. Tail(buffer) \in Seq(SendOp) /\ Head(senders) \in SendOp
      BY <2>1, <2>2, HeadTailProperties DEF TypeOK
    <3>3. Len(Append(Tail(buffer), Head(senders))) = Len(buffer)
      BY <1>b, <2>1, <3>2, AppendProperties
    <3>4. Len(Tail(senders)) = Len(senders) - 1
      BY <2>2, HeadTailProperties DEF TypeOK
    <3>5. receivers' = <<>> /\ (senders' = Tail(senders))
      BY <2>1, <3>1 DEF Settle
    <3>6. Len(buffer') = Len(buffer) \/ (Len(buffer') = 0 /\ senders' = <<>>)
      <4> DEFINE buf == Append(Tail(buffer), Head(senders))
      <4>1. Len(buf) = Len(buffer)
        BY <3>3
      <4>2. Settle(buf, Tail(senders), receivers, handles)
        BY <3>1
      <4> HIDE DEF buf
      <4> QED
        BY <1>b, <4>1, <4>2 DEF Settle, Unowned
    <3>7. Len(buffer) = capacity
      BY <2>2 DEF NobodyWaitsInVain
    <3> QED
      BY <1>a, <1>b, <2>1, <2>2, <3>5, <3>6, <3>7 DEF NobodyWaitsInVain
  <2>3. CASE ~(senders # <<>> /\ ~closed)
    <3>1. Settle(Tail(buffer), senders, receivers, handles)
      BY <1>5, <2>3 DEF ReceiveBuffered
    <3>2. senders = <<>>
      BY <2>3 DEF NobodyWaitsInVain
    <3>3. receivers' = <<>> /\ senders' = <<>>
      BY <2>1, <3>1, <3>2, SettleQueues
    <3>4. Len(buffer') = Len(buffer) - 1 \/ Len(buffer') = 0
      BY <1>b, <2>1, <3>1, SettleQueues
    <3>5. Len(buffer) <= capacity
      BY DEF NobodyWaitsInVain
    <3> QED
      BY <1>a, <1>b, <3>3, <3>4, <3>5 DEF NobodyWaitsInVain
  <2> QED
    BY <2>2, <2>3
<1>6. ASSUME NEW r \in RecvOp, ReceiveFromSender(r) PROVE NobodyWaitsInVain'
  <2>1. Settle(buffer, Tail(senders), receivers, handles) /\ closed' = closed
    BY <1>6 DEF ReceiveFromSender
  <2>2. buffer = <<>> /\ senders # <<>> /\ receivers = <<>> /\ ~closed
    BY <1>6 DEF ReceiveFromSender, NobodyWaitsInVain
  <2> QED
    BY <1>a, <1>b, <2>1, <2>2, SettleQueues DEF NobodyWaitsInVain
<1>7. ASSUME NEW r \in RecvOp, ReceiveClosed(r) PROVE NobodyWaitsInVain'
  BY <1>7 DEF ReceiveClosed, queues, NobodyWaitsInVain
<1>8. ASSUME NEW r \in RecvOp, ReceiveBlocks(r) PROVE NobodyWaitsInVain'
  BY <1>8 DEF ReceiveBlocks, NobodyWaitsInVain
<1>9. ASSUME NEW v \in SendOp, CancelSend(v) PROVE NobodyWaitsInVain'
  <2>1. PICK i \in DOMAIN senders :
            Settle(buffer, RemoveAt(senders, i), receivers, handles)
    BY <1>9 DEF CancelSend
  <2>2. senders # <<>> /\ receivers = <<>> /\ closed' = closed
    <3>1. senders # <<>>
      BY <2>1, PlaceNotEmpty DEF TypeOK
    <3> QED
      BY <1>9, <3>1 DEF CancelSend, NobodyWaitsInVain
  <2> QED
    BY <1>a, <1>b, <2>1, <2>2, SettleQueues DEF NobodyWaitsInVain
<1>10. ASSUME NEW r \in RecvOp, CancelReceive(r) PROVE NobodyWaitsInVain'
  <2>1. PICK i \in DOMAIN receivers :
            Settle(buffer, senders, RemoveAt(receivers, i), handles)
    BY <1>10 DEF CancelReceive
  <2>2. receivers # <<>>
    BY <2>1, PlaceNotEmpty DEF TypeOK
  <2>3. senders = <<>> /\ buffer = <<>> /\ closed' = closed /\ ~closed
    BY <1>10, <2>2 DEF CancelReceive, NobodyWaitsInVain
  <2> QED
    BY <1>a, <1>b, <2>1, <2>3, SettleQueues DEF NobodyWaitsInVain
<1>11. ASSUME Close PROVE NobodyWaitsInVain'
  <2> DEFINE served == IF Len(receivers) < Len(buffer) THEN Len(receivers)
                       ELSE Len(buffer)
             rest == SubSeq(buffer, served + 1, Len(buffer))
  <2>1. Settle(rest, <<>>, <<>>, handles)
    BY <1>11 DEF Close
  <2>2. served \in Nat /\ served <= Len(buffer)
    BY <1>b, <1>c
  <2>3. \A i \in (served + 1)..Len(buffer) : buffer[i] \in SendOp
    BY <1>b, <2>2, ElementOfSeq DEF TypeOK
  <2> HIDE DEF served
  <2>4. Len(rest) = IF served + 1 <= Len(buffer)
                    THEN Len(buffer) - (served + 1) + 1 ELSE 0
    <3>1. served + 1 \in Int /\ Len(buffer) \in Int
      BY <1>b, <2>2
    <3> QED
      BY <2>3, <3>1, SubSeqProperties
  <2>5. Len(rest) \in Nat /\ Len(rest) <= Len(buffer)
    BY <1>b, <2>2, <2>4
  <2>6. Len(buffer) <= capacity
    BY DEF NobodyWaitsInVain
  <2> HIDE DEF rest
  <2> QED
    BY <1>a, <1>b, <2>1, <2>5, <2>6, SettleQueues DEF NobodyWaitsInVain
<1>12. ASSUME Retain PROVE NobodyWaitsInVain'
  BY <1>12 DEF Retain, queues, NobodyWaitsInVain
<1>13. ASSUME Release PROVE NobodyWaitsInVain'
  <2>1. Settle(buffer, senders, receivers, handles - 1) /\ closed' = closed
    BY <1>13 DEF Release
  <2> QED
    BY <1>a, <1>b, <2>1, SettleQueues DEF NobodyWaitsInVain
<1>14. CASE UNCHANGED vars
  BY <1>14 DEF NobodyWaitsInVain, vars, queues
<1> QED
  BY <1>1, <1>2, <1>3, <1>4, <1>5, <1>6, <1>7, <1>8, <1>9, <1>10, <1>11,
     <1>12, <1>13, <1>14 DEF Next, Called, Send, Recv

\* Nobody waits in vain (Channel.NobodyWaitsInVain): a registration stands in
\* a queue only while the operation it waits for cannot go ahead, through
\* every hand-over, refill, cancellation, close and release.
THEOREM NobodyWaits == Spec => []NobodyWaitsInVain
<1>1. Init => NobodyWaitsInVain
  <2>1. Capacities \subseteq Nat /\ Len(<< >>) = 0
    BY ChannelAssumption DEF ChannelAssumption
  <2> QED
    BY <2>1 DEF Init, NobodyWaitsInVain
<1>2. TypeOK /\ NobodyWaitsInVain /\ [Next]_vars => NobodyWaitsInVain'
    BY NobodyStep
<1> QED
    BY <1>1, <1>2, TypeCorrect, PTL DEF Spec


-----------------------------------------------------------------------------
\* No method puts anything into a channel that was reclaimed.
LEMMA ReclaimedStep == TypeOK /\ DestroyedIsEmpty /\ [Next]_vars => DestroyedIsEmpty'
<1> SUFFICES ASSUME TypeOK, DestroyedIsEmpty, [Next]_vars
             PROVE  DestroyedIsEmpty'
  OBVIOUS
<1>1. ASSUME NEW buf, NEW ss, NEW rs, NEW h, Settle(buf, ss, rs, h), ~destroyed
      PROVE  DestroyedIsEmpty'
  BY <1>1 DEF Settle, Unowned, DestroyedIsEmpty
<1>2. ~(handles > 0 /\ handles = 0)
  OBVIOUS
<1>3. ASSUME NEW v \in SendOp, Send(v) PROVE DestroyedIsEmpty'
  <2>1. ~destroyed
    BY <1>2, <1>3 DEF Send, SendToClosed, SendToReceiver, SendToBuffer,
                      SendBlocks, SendCall, CanCall, DestroyedIsEmpty
  <2>2. CASE SendToReceiver(v)
    BY <1>1, <2>1, <2>2 DEF SendToReceiver
  <2> QED
    BY <1>3, <2>1, <2>2 DEF Send, SendToClosed, SendToBuffer, SendBlocks,
                            queues, DestroyedIsEmpty
<1>4. ASSUME NEW r \in RecvOp, Recv(r) PROVE DestroyedIsEmpty'
  <2>1. ~destroyed
    BY <1>2, <1>4 DEF Recv, ReceiveBuffered, ReceiveFromSender, ReceiveClosed,
                      ReceiveBlocks, RecvCall, CanCall, DestroyedIsEmpty
  <2>2. CASE ReceiveBuffered(r)
    <3>1. \/ Settle(Append(Tail(buffer), Head(senders)), Tail(senders),
                    receivers, handles)
          \/ Settle(Tail(buffer), senders, receivers, handles)
      BY <2>2 DEF ReceiveBuffered
    <3> QED
      BY <1>1, <2>1, <3>1
  <2>3. CASE ReceiveFromSender(r)
    <3>1. Settle(buffer, Tail(senders), receivers, handles)
      BY <2>3 DEF ReceiveFromSender
    <3> QED
      BY <1>1, <2>1, <3>1
  <2> QED
    BY <1>4, <2>1, <2>2, <2>3 DEF Recv, ReceiveClosed, ReceiveBlocks, queues,
                                  DestroyedIsEmpty
<1>5. ASSUME NEW v \in SendOp, CancelSend(v) PROVE DestroyedIsEmpty'
  <2>1. PICK i \in DOMAIN senders :
            Settle(buffer, RemoveAt(senders, i), receivers, handles)
    BY <1>5 DEF CancelSend
  <2>2. ~destroyed
    BY <2>1, PlaceNotEmpty DEF TypeOK, DestroyedIsEmpty
  <2> QED
    BY <1>1, <2>1, <2>2
<1>6. ASSUME NEW r \in RecvOp, CancelReceive(r) PROVE DestroyedIsEmpty'
  <2>1. PICK i \in DOMAIN receivers :
            Settle(buffer, senders, RemoveAt(receivers, i), handles)
    BY <1>6 DEF CancelReceive
  <2>2. ~destroyed
    BY <2>1, PlaceNotEmpty DEF TypeOK, DestroyedIsEmpty
  <2> QED
    BY <1>1, <2>1, <2>2
<1>7. ASSUME Close PROVE DestroyedIsEmpty'
  <2>1. ~destroyed
    BY <1>2, <1>7 DEF Close, DestroyedIsEmpty
  <2>2. \E buf : Settle(buf, <<>>, <<>>, handles)
    BY <1>7 DEF Close
  <2> QED
    BY <1>1, <2>1, <2>2
<1>8. ASSUME Retain PROVE DestroyedIsEmpty'
  BY <1>8 DEF Retain, DestroyedIsEmpty
<1>9. ASSUME Release PROVE DestroyedIsEmpty'
  <2>1. ~destroyed
    BY <1>2, <1>9 DEF Release, DestroyedIsEmpty
  <2>2. Settle(buffer, senders, receivers, handles - 1)
    BY <1>9 DEF Release
  <2> QED
    BY <1>1, <2>1, <2>2
<1>10. CASE UNCHANGED vars
  BY <1>10 DEF DestroyedIsEmpty, vars, queues
<1> QED
  BY <1>3, <1>4, <1>5, <1>6, <1>7, <1>8, <1>9, <1>10 DEF Next, Called

\* A channel is reclaimed empty and for good (Channel.DestroyedIsEmpty): no
\* operation reaches a destroyed channel, and what the last release leaves is
\* nothing (_reclaim_if_unowned).
THEOREM ReclaimedEmpty == Spec => []DestroyedIsEmpty
<1>1. Init => DestroyedIsEmpty
    BY DEF Init, DestroyedIsEmpty
<1>2. TypeOK /\ DestroyedIsEmpty /\ [Next]_vars => DestroyedIsEmpty'
    BY ReclaimedStep
<1> QED
    BY <1>1, <1>2, TypeCorrect, PTL DEF Spec

-----------------------------------------------------------------------------
\* No method reports the end of a channel that is not drained.
LEMMA EndStep == TypeOK /\ NobodyWaitsInVain /\ EndIsDrained /\ [Next]_vars => EndIsDrained'
<1> SUFFICES ASSUME TypeOK, NobodyWaitsInVain, EndIsDrained, [Next]_vars
             PROVE  EndIsDrained'
  OBVIOUS
<1> DEFINE NoNewEnd == \A r \in RecvOp : status'[r] = "eof" => status[r] = "eof"
           StaysEmpty == closed /\ buffer = <<>> => closed' /\ buffer' = <<>>
<1>1. ASSUME NoNewEnd, StaysEmpty PROVE EndIsDrained'
  BY <1>1 DEF EndIsDrained
<1> HIDE DEF NoNewEnd, StaysEmpty
<1>2. ASSUME NEW v \in SendOp, Send(v) PROVE EndIsDrained'
  <2>1. NoNewEnd
    BY <1>2 DEF NoNewEnd, Send, SendToClosed, SendToReceiver, SendToBuffer,
                SendBlocks, TypeOK, Op
  <2>2. StaysEmpty
    BY <1>2 DEF StaysEmpty, Send, SendToClosed, SendToReceiver, SendToBuffer,
                SendBlocks, queues
  <2> QED
    BY <1>1, <2>1, <2>2
<1>3. ASSUME NEW r \in RecvOp, Recv(r) PROVE EndIsDrained'
  <2>1. CASE ReceiveClosed(r)
    BY <2>1 DEF ReceiveClosed, queues, EndIsDrained
  <2>2. CASE ~ReceiveClosed(r)
    <3>1. NoNewEnd
      BY <1>3, <2>2 DEF NoNewEnd, Recv, ReceiveBuffered, ReceiveFromSender,
                        ReceiveBlocks, TypeOK, Op
    <3>2. StaysEmpty
      BY <1>3, <2>2 DEF StaysEmpty, Recv, ReceiveBuffered, ReceiveFromSender,
                        ReceiveBlocks
    <3> QED
      BY <1>1, <3>1, <3>2
  <2> QED
    BY <2>1, <2>2
<1>4. ASSUME NEW v \in SendOp, CancelSend(v) PROVE EndIsDrained'
  <2>1. NoNewEnd
    BY <1>4 DEF NoNewEnd, CancelSend, TypeOK, Op
  <2>2. StaysEmpty
    BY <1>4 DEF StaysEmpty, CancelSend, Settle, Unowned
  <2> QED
    BY <1>1, <2>1, <2>2
<1>5. ASSUME NEW r \in RecvOp, CancelReceive(r) PROVE EndIsDrained'
  <2>1. NoNewEnd
    BY <1>5 DEF NoNewEnd, CancelReceive, TypeOK, Op
  <2>2. StaysEmpty
    BY <1>5 DEF StaysEmpty, CancelReceive, Settle, Unowned
  <2> QED
    BY <1>1, <2>1, <2>2
<1>6. ASSUME Close, NEW r \in RecvOp, status'[r] = "eof"
      PROVE  closed' /\ buffer' = <<>>
  <2>1. closed' /\ ~closed
    BY <1>6 DEF Close
  <2>2. status[r] # "eof"
    BY <2>1 DEF EndIsDrained
  <2>3. \E i \in DOMAIN receivers : receivers[i] = r
    BY <1>6, <2>2 DEF Close, Op
  <2>4. buffer = <<>>
    BY <2>3, PlaceNotEmpty DEF TypeOK, NobodyWaitsInVain
  <2>5. PICK n \in Nat : Settle(SubSeq(buffer, n + 1, Len(buffer)), <<>>, <<>>, handles)
    <3>1. Len(receivers) \in Nat /\ Len(buffer) \in Nat
      BY LenProperties DEF TypeOK
    <3> QED
      BY <1>6, <3>1 DEF Close
  <2>6. SubSeq(buffer, n + 1, Len(buffer)) = <<>>
    <3>1. Len(buffer) = 0
      BY <2>4, EmptySeq
    <3>2. n + 1 \in Int /\ 0 \in Int /\ 0 < n + 1
      BY <2>5
    <3> QED
      BY <3>1, <3>2, SubSeqEmpty
  <2> QED
    BY <2>1, <2>5, <2>6 DEF Settle
<1>7. CASE Retain
  BY <1>7 DEF Retain, queues, EndIsDrained
<1>8. CASE Release
  <2>1. NoNewEnd
    BY <1>8 DEF NoNewEnd, Release
  <2>2. StaysEmpty
    BY <1>8 DEF StaysEmpty, Release, Settle, Unowned
  <2> QED
    BY <1>1, <2>1, <2>2
<1>9. CASE UNCHANGED vars
  BY <1>9 DEF EndIsDrained, vars, queues
<1>10. CASE Close
  BY <1>6, <1>10 DEF EndIsDrained
<1> QED
  BY <1>2, <1>3, <1>4, <1>5, <1>7, <1>8, <1>9, <1>10 DEF Next, Called

\* The end is reported only on a closed, drained channel
\* (Channel.EndIsDrained): the receives that close dismisses were waiting, so
\* by NobodyWaitsInVain the buffer they could have drained was empty.
THEOREM EndAfterDrain == Spec => []EndIsDrained
<1>1. Init => EndIsDrained
    BY DEF Init, EndIsDrained, Op
<1>2. TypeOK /\ NobodyWaitsInVain /\ EndIsDrained /\ [Next]_vars
      => EndIsDrained'
    BY EndStep
<1> QED
    BY <1>1, <1>2, TypeCorrect, NobodyWaits, PTL DEF Spec

-----------------------------------------------------------------------------
\* The end of the stream and that of the channel come last (Channel.EndsLast).
THEOREM EndsComeLast == Spec => []EndsLast
<1>1. EndIsDrained /\ DestroyedIsEmpty => EndsLast
    BY DEF EndsLast
<1> QED
    BY <1>1, EndAfterDrain, ReclaimedEmpty, PTL

-----------------------------------------------------------------------------
(* Who waits is queued.  One lemma for each method that changes a queue.   *)

\* What the lemmas below use of the types.
LEMMA QueueTypes ==
    ASSUME TypeOK, WaitingIsQueued
    PROVE  /\ SendOp \cap RecvOp = {}
           /\ senders \in Seq(SendOp) /\ receivers \in Seq(RecvOp) /\ buffer \in Seq(SendOp)
           /\ IsInjective(senders) /\ IsInjective(receivers)
           /\ ToSet(senders) \subseteq SendOp /\ ToSet(receivers) \subseteq RecvOp
           /\ DOMAIN status = SendOp \cup RecvOp
           /\ \A v \in SendOp : (status[v] = "waiting") <=> v \in ToSet(senders)
           /\ \A r \in RecvOp : (status[r] = "waiting") <=> r \in ToSet(receivers)
BY ChannelAssumption, RangeIn DEF ChannelAssumption, TypeOK, WaitingIsQueued, Op

\* A step after which the same operations wait, in the same queues.
LEMMA SameWaiting ==
    ASSUME TypeOK, WaitingIsQueued, senders' = senders, receivers' = receivers,
           \A o \in Op : status'[o] = "waiting" <=> status[o] = "waiting"
    PROVE  WaitingIsQueued'
BY DEF WaitingIsQueued, Op

LEMMA SendToReceiverQueues ==
    ASSUME TypeOK, WaitingIsQueued, NEW v \in SendOp, SendToReceiver(v)
    PROVE  WaitingIsQueued'
<1> DEFINE h == Head(receivers)
           q == Tail(receivers)
<1>1. /\ status[v] = "idle" /\ receivers # <<>>
      /\ status' = [status EXCEPT ![v] = "sent", ![h] = "received"]
      /\ senders' = senders /\ receivers' = q
    BY SettleQueues DEF SendToReceiver, SendCall, CanCall
<1>2. /\ h \in RecvOp /\ ToSet(receivers) = {h} \cup ToSet(q)
      /\ IsInjective(q) /\ h \notin ToSet(q)
    BY <1>1, QueueTypes, Behead
<1> HIDE DEF h, q
<1>3. \A o \in SendOp : status'[o] = "waiting" <=> status[o] = "waiting"
    BY <1>1, <1>2, QueueTypes
<1>4. \A o \in RecvOp : status'[o] = "waiting" <=> status[o] = "waiting" /\ o # h
    BY <1>1, <1>2, QueueTypes
<1> QED
    BY <1>1, <1>2, <1>3, <1>4, QueueTypes DEF WaitingIsQueued

LEMMA SendBlocksQueues ==
    ASSUME TypeOK, WaitingIsQueued, NEW v \in SendOp, SendBlocks(v)
    PROVE  WaitingIsQueued'
<1>1. /\ status[v] = "idle" /\ status' = [status EXCEPT ![v] = "waiting"]
      /\ senders' = Append(senders, v) /\ receivers' = receivers
    BY DEF SendBlocks, SendCall, CanCall
<1>2. v \notin ToSet(senders)
    BY <1>1, QueueTypes
<1>3. ToSet(senders') = ToSet(senders) \cup {v} /\ IsInjective(senders')
    BY <1>1, <1>2, QueueTypes, RangeAppend, InjectiveAppend
<1>4. \A o \in Op : status'[o] = "waiting" <=> status[o] = "waiting" \/ o = v
    BY <1>1, QueueTypes DEF Op
<1> QED
    BY <1>1, <1>3, <1>4, QueueTypes DEF WaitingIsQueued, Op

\* The oldest blocked send leaves its queue.
LEMMA HeadSenderServed ==
    ASSUME TypeOK, WaitingIsQueued, NEW r \in RecvOp, status[r] = "idle", senders # <<>>,
           status' = [status EXCEPT ![r] = "received", ![Head(senders)] = "sent"],
           senders' = Tail(senders), receivers' = receivers
    PROVE  WaitingIsQueued'
<1> DEFINE h == Head(senders)
           q == Tail(senders)
<1>1. /\ h \in SendOp /\ ToSet(senders) = {h} \cup ToSet(q)
      /\ IsInjective(q) /\ h \notin ToSet(q)
    BY QueueTypes, Behead
<1>2. status' = [status EXCEPT ![r] = "received", ![h] = "sent"] /\ senders' = q
    OBVIOUS
<1> HIDE DEF h, q
<1>3. \A o \in RecvOp : status'[o] = "waiting" <=> status[o] = "waiting"
    BY <1>1, <1>2, QueueTypes
<1>4. \A o \in SendOp : status'[o] = "waiting" <=> status[o] = "waiting" /\ o # h
    BY <1>1, <1>2, QueueTypes
<1> QED
    BY <1>1, <1>2, <1>3, <1>4, QueueTypes DEF WaitingIsQueued

LEMMA ReceiveBufferedQueues ==
    ASSUME TypeOK, WaitingIsQueued, NEW r \in RecvOp, ReceiveBuffered(r)
    PROVE  WaitingIsQueued'
<1>1. status[r] = "idle"
    BY DEF ReceiveBuffered, RecvCall, CanCall
<1>2. CASE senders # <<>> /\ ~closed
  <2>1. /\ status' = [status EXCEPT ![r] = "received", ![Head(senders)] = "sent"]
        /\ senders' = Tail(senders) /\ receivers' = receivers
      BY <1>2, SettleQueues DEF ReceiveBuffered
  <2> QED
      BY <1>1, <1>2, <2>1, HeadSenderServed
<1>3. CASE ~(senders # <<>> /\ ~closed)
  <2>1. /\ status' = [status EXCEPT ![r] = "received"]
        /\ senders' = senders /\ receivers' = receivers
      BY <1>3, SettleQueues DEF ReceiveBuffered
  <2>2. \A o \in Op : status'[o] = "waiting" <=> status[o] = "waiting"
      BY <1>1, <2>1 DEF TypeOK
  <2> QED
      BY <2>1, <2>2, SameWaiting
<1> QED
    BY <1>2, <1>3

LEMMA ReceiveFromSenderQueues ==
    ASSUME TypeOK, WaitingIsQueued, NEW r \in RecvOp, ReceiveFromSender(r)
    PROVE  WaitingIsQueued'
<1>1. /\ status[r] = "idle" /\ senders # <<>>
      /\ status' = [status EXCEPT ![r] = "received", ![Head(senders)] = "sent"]
      /\ senders' = Tail(senders) /\ receivers' = receivers
    BY SettleQueues DEF ReceiveFromSender, RecvCall, CanCall
<1> QED
    BY <1>1, HeadSenderServed

LEMMA ReceiveBlocksQueues ==
    ASSUME TypeOK, WaitingIsQueued, NEW r \in RecvOp, ReceiveBlocks(r)
    PROVE  WaitingIsQueued'
<1>1. /\ status[r] = "idle" /\ status' = [status EXCEPT ![r] = "waiting"]
      /\ receivers' = Append(receivers, r) /\ senders' = senders
    BY DEF ReceiveBlocks, RecvCall, CanCall
<1>2. r \notin ToSet(receivers)
    BY <1>1, QueueTypes
<1>3. ToSet(receivers') = ToSet(receivers) \cup {r} /\ IsInjective(receivers')
    BY <1>1, <1>2, QueueTypes, RangeAppend, InjectiveAppend
<1>4. \A o \in Op : status'[o] = "waiting" <=> status[o] = "waiting" \/ o = r
    BY <1>1, QueueTypes DEF Op
<1> QED
    BY <1>1, <1>3, <1>4, QueueTypes DEF WaitingIsQueued, Op

\* Blocked operations withdraw, leaving everyone else in place; h handles
\* remain.  Cancelling one registration is this for a set of one.
Withdraws(W, h) ==
    /\ W \subseteq {o \in Op : status[o] = "waiting"}
    /\ status' = [o \in Op |-> IF o \in W THEN "cancelled" ELSE status[o]]
    /\ Settle(buffer, Kept(senders, Op \ W), Kept(receivers, Op \ W), h)
    /\ UNCHANGED <<closed, got, sendLog, recvLog>>

\* What a withdrawal leaves of the queues.
LEMMA WithdrawnQueues ==
    ASSUME TypeOK, NEW W
    PROVE  /\ Kept(senders, Op \ W) \in Seq(SendOp)
           /\ Kept(receivers, Op \ W) \in Seq(RecvOp)
           /\ ToSet(Kept(senders, Op \ W)) = ToSet(senders) \ W
           /\ ToSet(Kept(receivers, Op \ W)) = ToSet(receivers) \ W
           /\ IsInjective(senders) => IsInjective(Kept(senders, Op \ W))
           /\ IsInjective(receivers) => IsInjective(Kept(receivers, Op \ W))
           /\ Kept(senders, Op \ W) # <<>> => senders # <<>>
           /\ Kept(receivers, Op \ W) # <<>> => receivers # <<>>
<1> DEFINE S == Op \ W
<1>1. /\ senders \in Seq(SendOp) /\ receivers \in Seq(RecvOp)
      /\ ToSet(senders) \subseteq Op /\ ToSet(receivers) \subseteq Op
    BY RangeIn DEF TypeOK, Op
<1>2. ToSet(senders) \cap S = ToSet(senders) \ W /\ ToSet(receivers) \cap S = ToSet(receivers) \ W
    BY <1>1
<1> HIDE DEF S
<1>3. Kept(senders, S) \in Seq(SendOp) /\ Kept(receivers, S) \in Seq(RecvOp)
    BY <1>1, KeptType
<1>4. /\ ToSet(Kept(senders, S)) = ToSet(senders) \cap S
      /\ ToSet(Kept(receivers, S)) = ToSet(receivers) \cap S
    BY <1>1, KeptRange
<1>5. /\ IsInjective(senders) => IsInjective(Kept(senders, S))
      /\ IsInjective(receivers) => IsInjective(Kept(receivers, S))
    BY <1>1, KeptInjective
<1>6. Kept(<<>>, S) = <<>>
    BY KeptEmpty
<1> QED
    BY <1>2, <1>3, <1>4, <1>5, <1>6 DEF S

LEMMA WithdrawTypes ==
    ASSUME TypeOK, NEW W, NEW h \in 0..MaxHandles, Withdraws(W, h), capacity' = capacity
    PROVE  TypeOK'
<1> DEFINE ss == Kept(senders, Op \ W)
           rs == Kept(receivers, Op \ W)
<1>1. ss \in Seq(SendOp) /\ rs \in Seq(RecvOp)
    BY WithdrawnQueues
<1>2. Settle(buffer, ss, rs, h) /\ buffer \in Seq(SendOp)
    BY DEF Withdraws, TypeOK
<1> HIDE DEF ss, rs
<1>3. /\ buffer' \in Seq(SendOp) /\ senders' \in Seq(SendOp)
      /\ receivers' \in Seq(RecvOp) /\ handles' \in 0..MaxHandles
      /\ destroyed' \in BOOLEAN /\ released' \in Seq(SendOp)
    BY <1>1, <1>2, SettleType
<1>4. status' \in [Op -> {"idle", "waiting", "sent", "faulted", "received", "eof", "cancelled"}]
    BY DEF Withdraws, TypeOK
<1> QED
    BY <1>3, <1>4 DEF Withdraws, TypeOK

LEMMA WithdrawNobody ==
    ASSUME TypeOK, NobodyWaitsInVain, NEW W, NEW h, Withdraws(W, h), capacity' = capacity
    PROVE  NobodyWaitsInVain'
<1> DEFINE ss == Kept(senders, Op \ W)
           rs == Kept(receivers, Op \ W)
<1>1. (ss # <<>> => senders # <<>>) /\ (rs # <<>> => receivers # <<>>)
    BY WithdrawnQueues
<1>2. closed' = closed /\ Settle(buffer, ss, rs, h)
    BY DEF Withdraws
<1> HIDE DEF ss, rs
<1>3. /\ senders' = ss /\ receivers' = rs
      /\ \/ buffer' = buffer
         \/ buffer' = <<>> /\ ss = <<>> /\ rs = <<>>
    BY <1>2, SettleQueues
<1>4. capacity \in Nat /\ Len(<<>>) = 0
    BY ChannelAssumption, EmptySeq DEF ChannelAssumption, TypeOK
<1> QED
    BY <1>1, <1>2, <1>3, <1>4 DEF NobodyWaitsInVain

LEMMA WithdrawReclaimed ==
    ASSUME TypeOK, DestroyedIsEmpty, NEW W, NEW h, Withdraws(W, h), destroyed => h = 0
    PROVE  DestroyedIsEmpty'
<1> DEFINE ss == Kept(senders, Op \ W)
           rs == Kept(receivers, Op \ W)
<1>1. (ss # <<>> => senders # <<>>) /\ (rs # <<>> => receivers # <<>>)
    BY WithdrawnQueues
<1>2. Settle(buffer, ss, rs, h)
    BY DEF Withdraws
<1> HIDE DEF ss, rs
<1> QED
    BY <1>1, <1>2 DEF Settle, Unowned, DestroyedIsEmpty

LEMMA WithdrawEnd ==
    ASSUME EndIsDrained, NEW W, NEW h, Withdraws(W, h)
    PROVE  EndIsDrained'
<1>1. \A r \in RecvOp : status'[r] = "eof" => status[r] = "eof"
    BY DEF Withdraws, Op
<1>2. closed /\ buffer = <<>> => closed' /\ buffer' = <<>>
    BY DEF Withdraws, Settle
<1> QED
    BY <1>1, <1>2 DEF EndIsDrained

LEMMA WithdrawQueues ==
    ASSUME TypeOK, WaitingIsQueued, NEW W, NEW h, Withdraws(W, h)
    PROVE  WaitingIsQueued'
<1>1. senders' = Kept(senders, Op \ W) /\ receivers' = Kept(receivers, Op \ W)
    BY SettleQueues DEF Withdraws
<1>2. /\ ToSet(senders') = ToSet(senders) \ W /\ ToSet(receivers') = ToSet(receivers) \ W
      /\ IsInjective(senders') /\ IsInjective(receivers')
    BY <1>1, WithdrawnQueues DEF WaitingIsQueued
<1>3. \A o \in Op : status'[o] = "waiting" <=> status[o] = "waiting" /\ o \notin W
    BY DEF Withdraws
<1> QED
    BY <1>2, <1>3 DEF WaitingIsQueued, Op

\* cancel_send and cancel_receive withdraw one registration, the one they were
\* given.
LEMMA CancelSendWithdraws ==
    ASSUME TypeOK, WaitingIsQueued, NEW v \in SendOp, CancelSend(v)
    PROVE  Withdraws({v}, handles)
<1> DEFINE W == {v}
<1>1. PICK i \in DOMAIN senders :
        senders[i] = v /\ Settle(buffer, RemoveAt(senders, i), receivers, handles)
    BY DEF CancelSend
<1>2. status[v] = "waiting" /\ status' = [status EXCEPT ![v] = "cancelled"]
    BY DEF CancelSend
<1>3. RemoveAt(senders, i) = Kept(senders, SendOp \ {v})
    BY <1>1, QueueTypes, RemoveIsKept
<1>4. Kept(senders, Op \ W) = Kept(senders, SendOp \ {v})
  <2>1. \A o \in ToSet(senders) : o \in Op \ W <=> o \in SendOp \ {v}
      BY QueueTypes DEF Op
  <2> HIDE DEF W
  <2> QED
      BY <2>1, QueueTypes, KeptSame
<1>5. Kept(receivers, Op \ W) = receivers
  <2>1. ToSet(receivers) \subseteq Op \ W
      BY QueueTypes DEF Op
  <2> HIDE DEF W
  <2> QED
      BY <2>1, QueueTypes, KeptAll
<1>6. status' = [o \in Op |-> IF o \in {v} THEN "cancelled" ELSE status[o]]
    BY <1>2 DEF TypeOK
<1> QED
    BY <1>1, <1>2, <1>3, <1>4, <1>5, <1>6 DEF Withdraws, CancelSend, Op

LEMMA CancelReceiveWithdraws ==
    ASSUME TypeOK, WaitingIsQueued, OwnWake, NEW r \in RecvOp, CancelReceive(r)
    PROVE  Withdraws({r}, handles)
<1> DEFINE W == {r}
<1>1. PICK i \in DOMAIN receivers :
        receivers[i] = r /\ Settle(buffer, senders, RemoveAt(receivers, i), handles)
    BY DEF CancelReceive, Found
<1>2. status[r] = "waiting" /\ status' = [status EXCEPT ![r] = "cancelled"]
    BY DEF CancelReceive
<1>3. RemoveAt(receivers, i) = Kept(receivers, RecvOp \ {r})
    BY <1>1, QueueTypes, RemoveIsKept
<1>4. Kept(receivers, Op \ W) = Kept(receivers, RecvOp \ {r})
  <2>1. \A o \in ToSet(receivers) : o \in Op \ W <=> o \in RecvOp \ {r}
      BY QueueTypes DEF Op
  <2> HIDE DEF W
  <2> QED
      BY <2>1, QueueTypes, KeptSame
<1>5. Kept(senders, Op \ W) = senders
  <2>1. ToSet(senders) \subseteq Op \ W
      BY QueueTypes DEF Op
  <2> HIDE DEF W
  <2> QED
      BY <2>1, QueueTypes, KeptAll
<1>6. status' = [o \in Op |-> IF o \in {r} THEN "cancelled" ELSE status[o]]
    BY <1>2 DEF TypeOK
<1> QED
    BY <1>1, <1>2, <1>3, <1>4, <1>5, <1>6 DEF Withdraws, CancelReceive, Op

\* close resolves every registration: those it faults, and, because receives
\* wait only on an empty buffer, the end for all the others.
LEMMA CloseStep ==
    ASSUME TypeOK, WaitingIsQueued, NobodyWaitsInVain, Close
    PROVE  /\ status' = [o \in Op |-> IF o \in ToSet(senders) THEN "faulted"
                                      ELSE IF o \in ToSet(receivers) THEN "eof"
                                      ELSE status[o]]
           /\ got' = got
           /\ Settle(buffer, <<>>, <<>>, handles)
<1> DEFINE served == IF Len(receivers) < Len(buffer) THEN Len(receivers) ELSE Len(buffer)
<1>1. served = 0
  <2>1. Len(receivers) \in Nat /\ Len(buffer) \in Nat
      BY QueueTypes, LenProperties
  <2>2. Len(receivers) = 0 \/ Len(buffer) = 0
      BY QueueTypes, EmptySeq DEF NobodyWaitsInVain
  <2> QED
      BY <2>1, <2>2
<1>2. \A i \in 1..served : FALSE
    BY <1>1
<1>3. SubSeq(buffer, served + 1, Len(buffer)) = buffer
  <2>1. SubSeq(buffer, 1, Len(buffer)) = buffer
      BY QueueTypes, SubSeqFull
  <2>2. served + 1 = 1
      BY <1>1
  <2> HIDE DEF served
  <2> QED
      BY <2>1, <2>2
<1>4. /\ status' = [o \in Op |->
              IF \E i \in DOMAIN senders : senders[i] = o THEN "faulted"
              ELSE IF \E i \in 1..served : receivers[i] = o THEN "received"
              ELSE IF \E i \in DOMAIN receivers : receivers[i] = o THEN "eof"
              ELSE status[o]]
      /\ got' = [r \in RecvOp |->
              IF \E i \in 1..served : receivers[i] = r
              THEN buffer[CHOOSE i \in 1..served : receivers[i] = r]
              ELSE got[r]]
      /\ Settle(SubSeq(buffer, served + 1, Len(buffer)), <<>>, <<>>, handles)
    BY DEF Close
<1> HIDE DEF served
<1>5. got' = got
    BY <1>2, <1>4 DEF TypeOK
<1>6. /\ \A o : (\E i \in DOMAIN senders : senders[i] = o) <=> o \in ToSet(senders)
      /\ \A o : (\E i \in DOMAIN receivers : receivers[i] = o) <=> o \in ToSet(receivers)
    BY DEF ToSet
<1>7. status' = [o \in Op |-> IF o \in ToSet(senders) THEN "faulted"
                              ELSE IF o \in ToSet(receivers) THEN "eof" ELSE status[o]]
    BY <1>2, <1>4, <1>6
<1> QED
    BY <1>3, <1>4, <1>5, <1>7

LEMMA CloseQueues ==
    ASSUME TypeOK, WaitingIsQueued, NobodyWaitsInVain, Close
    PROVE  WaitingIsQueued'
<1>1. senders' = <<>> /\ receivers' = <<>>
    BY CloseStep, SettleQueues
<1>2. \A o \in Op : status'[o] # "waiting"
    BY CloseStep, QueueTypes DEF Op
<1>3. IsInjective(<<>>)
  <2>1. <<>> \in Seq({}) /\ Len(<<>>) = 0
      BY EmptySeq
  <2>2. DOMAIN <<>> = {}
      BY <2>1, LenProperties
  <2> QED
      BY <2>2 DEF IsInjective
<1> QED
    BY <1>1, <1>2, <1>3, RangeEmpty DEF WaitingIsQueued, Op

\* Every method keeps the registrations and their callers in step.
LEMMA QueuedStep ==
    OwnWake /\ TypeOK /\ NobodyWaitsInVain /\ WaitingIsQueued /\ [Next]_vars
      => WaitingIsQueued'
<1> SUFFICES ASSUME OwnWake, TypeOK, NobodyWaitsInVain, WaitingIsQueued, [Next]_vars
             PROVE  WaitingIsQueued'
    OBVIOUS
<1>1. ASSUME NEW v \in SendOp, SendToClosed(v) \/ SendToBuffer(v)
      PROVE  WaitingIsQueued'
  <2>1. /\ senders' = senders /\ receivers' = receivers
        /\ \A o \in Op : status'[o] = "waiting" <=> status[o] = "waiting"
      BY <1>1 DEF SendToClosed, SendToBuffer, SendCall, CanCall, queues, TypeOK
  <2> QED
      BY <2>1, SameWaiting
<1>2. ASSUME NEW r \in RecvOp, ReceiveClosed(r) PROVE WaitingIsQueued'
  <2>1. /\ senders' = senders /\ receivers' = receivers
        /\ \A o \in Op : status'[o] = "waiting" <=> status[o] = "waiting"
      BY <1>2 DEF ReceiveClosed, RecvCall, CanCall, queues, TypeOK
  <2> QED
      BY <2>1, SameWaiting
<1>3. ASSUME NEW v \in SendOp, Send(v) PROVE WaitingIsQueued'
    BY <1>1, <1>3, SendToReceiverQueues, SendBlocksQueues DEF Send
<1>4. ASSUME NEW r \in RecvOp, Recv(r) PROVE WaitingIsQueued'
    BY <1>2, <1>4, ReceiveBufferedQueues, ReceiveFromSenderQueues,
       ReceiveBlocksQueues DEF Recv
<1>5. CASE Retain \/ Release \/ UNCHANGED vars
  <2>1. senders' = senders /\ receivers' = receivers /\ status' = status
      BY <1>5 DEF Retain, Release, Settle, vars, queues
  <2> QED
      BY <2>1, SameWaiting
<1>6. ASSUME NEW v \in SendOp, CancelSend(v) PROVE WaitingIsQueued'
    BY <1>6, CancelSendWithdraws, WithdrawQueues
<1>7. ASSUME NEW r \in RecvOp, CancelReceive(r) PROVE WaitingIsQueued'
    BY <1>7, CancelReceiveWithdraws, WithdrawQueues
<1> QED
    BY <1>3, <1>4, <1>5, <1>6, <1>7, CloseQueues DEF Next, Called

\* A registration is queued exactly while its caller waits
\* (Channel.WaitingIsQueued), if every registration has a wake of its own:
\* deque.remove compares registrations by value and would otherwise take out
\* another receive than the one that is cancelled.
THEOREM WaitersAreQueued == OwnWake => (Spec => []WaitingIsQueued)
<1> SUFFICES ASSUME OwnWake PROVE Spec => []WaitingIsQueued
    OBVIOUS
<1>1. Init => WaitingIsQueued
  <2>1. <<>> \in Seq({}) /\ Len(<<>>) = 0
      BY EmptySeq
  <2>2. DOMAIN <<>> = {}
      BY <2>1, LenProperties
  <2> QED
      BY <2>2, RangeEmpty DEF Init, WaitingIsQueued, IsInjective, Op
<1>2. TypeOK /\ NobodyWaitsInVain /\ WaitingIsQueued /\ [Next]_vars => WaitingIsQueued'
    BY QueuedStep
<1> QED
    BY <1>1, <1>2, TypeCorrect, NobodyWaits, PTL DEF Spec

-----------------------------------------------------------------------------
(* First in, first out.                                                    *)

\* Moving the head of one queue to the end of another.
LEMMA Shift ==
    ASSUME NEW X, NEW q \in Seq(X), NEW r \in Seq(X), r # <<>>
    PROVE  q \o r = Append(q, Head(r)) \o Tail(r)
<1> DEFINE h == <<Head(r)>>
           t == Tail(r)
<1>1. Head(r) \in X /\ t \in Seq(X) /\ r = h \o t
    BY Behead
<1>2. h \in Seq(X) /\ Append(q, Head(r)) = q \o h
    BY <1>1, OneElement, AppendIsConcat
<1> HIDE DEF h, t
<1>3. q \o (h \o t) = (q \o h) \o t
  <2>1. h \in Seq(X) /\ t \in Seq(X)
      BY <1>1, <1>2
  <2> QED
      BY <2>1, ConcatAssociative
<1> QED
    BY <1>1, <1>2, <1>3 DEF t

\* One more call in a log, of which only those in a set count.
LEMMA KeptCalled ==
    ASSUME NEW X, NEW log \in Seq(X), NEW x \in X, x \notin ToSet(log),
           NEW S, NEW T, \A y \in X \ {x} : y \in S <=> y \in T
    PROVE  Kept(Append(log, x), T) = IF x \in T THEN Append(Kept(log, S), x) ELSE Kept(log, S)
<1>1. Kept(Append(log, x), T) = IF x \in T THEN Append(Kept(log, T), x) ELSE Kept(log, T)
    BY KeptAppend
<1>2. \A y \in ToSet(log) : y \in S <=> y \in T
    BY RangeIn
<1>3. Kept(log, S) = Kept(log, T)
    BY <1>2, KeptSame
<1> QED
    BY <1>1, <1>3

\* Two initial segments are the same only if they have the same end.
LEMMA SameUpTo == ASSUME NEW m \in Nat, NEW n \in Nat, 1..m = 1..n PROVE m = n
<1>1. \A i \in Nat : i \in 1..m <=> i \in 1..n
    OBVIOUS
<1>2. m \in 1..m \/ m = 0
    OBVIOUS
<1>3. n \in 1..n \/ n = 0
    OBVIOUS
<1>4. (m = 0 \/ m <= n) /\ (n = 0 \/ n <= m)
    BY <1>1, <1>2, <1>3
<1> QED
    BY <1>4

\* What the receives in d were given.
Values == SendOp \cup {NoValue}
Given(d, g) == [i \in DOMAIN d |-> g[d[i]]]

LEMMA GivenType ==
    ASSUME NEW d \in Seq(RecvOp), NEW g \in [RecvOp -> Values]
    PROVE  /\ Given(d, g) \in Seq(Values) /\ Len(Given(d, g)) = Len(d)
           /\ DOMAIN Given(d, g) = 1..Len(d)
<1>1. DOMAIN d = 1..Len(d) /\ Len(d) \in Nat
    BY LenProperties
<1>2. Given(d, g) = [i \in 1..Len(d) |-> g[d[i]]] /\ \A i \in 1..Len(d) : g[d[i]] \in Values
    BY <1>1, ElementOfSeq DEF Given
<1>3. Given(d, g) \in Seq(Values)
    BY <1>1, <1>2, IsASeq
<1>4. DOMAIN Given(d, g) = 1..Len(Given(d, g)) /\ Len(Given(d, g)) \in Nat
    BY <1>3, LenProperties
<1> DEFINE n == Len(Given(d, g))
<1>5. 1..n = 1..Len(d) /\ n \in Nat
    BY <1>2, <1>4
<1> HIDE DEF n
<1>6. n = Len(d)
    BY <1>1, <1>5, SameUpTo
<1> QED
    BY <1>2, <1>3, <1>6 DEF n

LEMMA GivenSame ==
    ASSUME NEW d, NEW g, NEW h, \A r \in ToSet(d) : g[r] = h[r]
    PROVE  Given(d, g) = Given(d, h)
BY DEF Given, ToSet

LEMMA GivenAppend ==
    ASSUME NEW d \in Seq(RecvOp), NEW r \in RecvOp, NEW g \in [RecvOp -> Values]
    PROVE  Given(Append(d, r), g) = Append(Given(d, g), g[r])
<1> DEFINE e == Append(d, r)
           G == Given(d, g)
<1>1. /\ e \in Seq(RecvOp) /\ Len(e) = Len(d) + 1 /\ Len(d) \in Nat
      /\ \A i \in 1..Len(d) : e[i] = d[i]
      /\ e[Len(d) + 1] = r
    BY AppendProperties, LenProperties
<1>2. G \in Seq(Values) /\ Len(G) = Len(d) /\ \A i \in 1..Len(d) : G[i] = g[d[i]]
    BY GivenType, LenProperties DEF Given
<1>3. g[r] \in Values
    OBVIOUS
<1>4. DOMAIN e = 1..Len(e)
    BY <1>1, LenProperties
<1> HIDE DEF e, G
<1>5. /\ Append(G, g[r]) \in Seq(Values) /\ Len(Append(G, g[r])) = Len(G) + 1
      /\ \A i \in 1..Len(G) : Append(G, g[r])[i] = G[i]
      /\ Append(G, g[r])[Len(G) + 1] = g[r]
    BY <1>2, <1>3, AppendProperties
<1>6. Given(e, g) \in Seq(Values) /\ Len(Given(e, g)) = Len(e)
    BY <1>1, GivenType
<1>7. \A i \in 1..Len(e) : Given(e, g)[i] = g[e[i]]
    BY <1>4 DEF Given
<1>8. \A i \in 1..Len(e) : Given(e, g)[i] = Append(G, g[r])[i]
    BY <1>1, <1>2, <1>5, <1>7
<1>9. Given(e, g) = Append(G, g[r])
    BY <1>1, <1>2, <1>5, <1>6, <1>8, SeqEqual
<1> QED
    BY <1>9 DEF e, G

Received == {r \in RecvOp : status[r] = "received"}
Served   == {r \in RecvOp : status[r] \in {"received", "waiting"}}
Accepted == {v \in SendOp : status[v] \in {"sent", "waiting"}}

GivenSoFar == Given(Kept(recvLog, Received), got)

\* Fifo with what makes it inductive: blocked receives are the last that were
\* called of those not yet dismissed, an operation is in its log only once it
\* was called and the sends only once, and nothing is released from a channel
\* that is in use.
LineInv ==
    /\ Kept(sendLog, Accepted) = ((GivenSoFar \o released) \o buffer) \o senders
    /\ Kept(recvLog, Served) = Kept(recvLog, Received) \o receivers
    /\ IsInjective(sendLog)
    /\ \A v \in SendOp : status[v] = "idle" => v \notin ToSet(sendLog)
    /\ \A r \in RecvOp : status[r] = "idle" => r \notin ToSet(recvLog)
    /\ ~destroyed => released = <<>>

LEMMA LineTypes ==
    ASSUME TypeOK
    PROVE  /\ buffer \in Seq(Values) /\ senders \in Seq(Values) /\ released \in Seq(Values)
           /\ GivenSoFar \in Seq(Values)
           /\ sendLog \in Seq(SendOp) /\ recvLog \in Seq(RecvOp)
           /\ Kept(recvLog, Received) \in Seq(RecvOp)
           /\ Kept(sendLog, Accepted) \in Seq(SendOp)
           /\ got \in [RecvOp -> Values]
<1>1. Seq(SendOp) \subseteq Seq(Values)
    BY SeqMonotonic DEF Values
<1>2. sendLog \in Seq(SendOp) /\ recvLog \in Seq(RecvOp) /\ got \in [RecvOp -> Values]
    BY DEF TypeOK, Values
<1>3. Kept(recvLog, Received) \in Seq(RecvOp) /\ Kept(sendLog, Accepted) \in Seq(SendOp)
    BY <1>2, KeptType
<1>4. GivenSoFar \in Seq(Values)
    BY <1>2, <1>3, GivenType DEF GivenSoFar
<1> QED
    BY <1>1, <1>2, <1>3, <1>4 DEF TypeOK

\* The line after Settle is the one it was given.
LEMMA SettleLine ==
    ASSUME TypeOK, NEW G \in Seq(Values), NEW buf \in Seq(Values), NEW ss \in Seq(Values),
           NEW rs, NEW h, Settle(buf, ss, rs, h)
    PROVE  ((G \o released') \o buffer') \o senders' = ((G \o released) \o buf) \o ss
<1>1. CASE ~Unowned(ss, rs, h)
    BY <1>1 DEF Settle
<1>2. CASE Unowned(ss, rs, h)
  <2>1. released' = released \o buf /\ buffer' = <<>> /\ senders' = ss
      BY <1>2 DEF Settle
  <2>2. released \in Seq(Values) /\ released \o buf \in Seq(Values)
      BY LineTypes, ConcatProperties
  <2>3. G \o (released \o buf) = (G \o released) \o buf
      BY <2>2, ConcatAssociative
  <2>4. G \o (released \o buf) \in Seq(Values)
      BY <2>2, ConcatProperties
  <2>5. (G \o (released \o buf)) \o <<>> = G \o (released \o buf)
      BY <2>4, ConcatEmptySeq
  <2> QED
      BY <2>1, <2>3, <2>5
<1> QED
    BY <1>1, <1>2

LEMMA SettleReleased ==
    ASSUME LineInv, NEW buf, NEW ss, NEW rs, NEW h, Settle(buf, ss, rs, h)
    PROVE  ~destroyed' => released' = <<>>
BY DEF Settle, LineInv

\* A channel in use has released nothing.
LEMMA InUseReleased ==
    ASSUME TypeOK, DestroyedIsEmpty, LineInv, handles > 0
    PROVE  ~destroyed /\ released = <<>>
<1>1. ~(handles > 0 /\ handles = 0)
    OBVIOUS
<1> QED
    BY <1>1 DEF DestroyedIsEmpty, LineInv

\* The logs grow by the operation that is called, once.
LEMMA Logs ==
    ASSUME TypeOK, LineInv,
           \A o \in Op : status'[o] = "idle" => status[o] = "idle",
           \/ sendLog' = sendLog
           \/ \E v \in SendOp : /\ status[v] = "idle" /\ status'[v] # "idle"
                                /\ sendLog' = Append(sendLog, v),
           \/ recvLog' = recvLog
           \/ \E r \in RecvOp : /\ status'[r] # "idle" /\ recvLog' = Append(recvLog, r)
    PROVE  /\ IsInjective(sendLog')
           /\ \A v \in SendOp : status'[v] = "idle" => v \notin ToSet(sendLog')
           /\ \A r \in RecvOp : status'[r] = "idle" => r \notin ToSet(recvLog')
<1>1. /\ sendLog \in Seq(SendOp) /\ recvLog \in Seq(RecvOp) /\ IsInjective(sendLog)
      /\ \A v \in SendOp : status[v] = "idle" => v \notin ToSet(sendLog)
      /\ \A r \in RecvOp : status[r] = "idle" => r \notin ToSet(recvLog)
    BY LineTypes DEF LineInv
<1>2. /\ IsInjective(sendLog')
      /\ \A v \in SendOp : status'[v] = "idle" => v \notin ToSet(sendLog')
  <2>1. CASE sendLog' = sendLog
      BY <1>1, <2>1 DEF Op
  <2>2. CASE sendLog' # sendLog
    <3>1. PICK v \in SendOp : /\ status[v] = "idle" /\ status'[v] # "idle"
                              /\ sendLog' = Append(sendLog, v)
        BY <2>2
    <3>2. ToSet(sendLog') = ToSet(sendLog) \cup {v} /\ IsInjective(sendLog')
        BY <1>1, <3>1, RangeAppend, InjectiveAppend
    <3> QED
        BY <1>1, <3>1, <3>2 DEF Op
  <2> QED
      BY <2>1, <2>2
<1>3. \A r \in RecvOp : status'[r] = "idle" => r \notin ToSet(recvLog')
  <2>1. CASE recvLog' = recvLog
      BY <1>1, <2>1 DEF Op
  <2>2. CASE recvLog' # recvLog
    <3>1. PICK r \in RecvOp : status'[r] # "idle" /\ recvLog' = Append(recvLog, r)
        BY <2>2
    <3>2. ToSet(recvLog') = ToSet(recvLog) \cup {r}
        BY <1>1, <3>1, RangeAppend
    <3> QED
        BY <1>1, <3>1, <3>2 DEF Op
  <2> QED
      BY <2>1, <2>2
<1> QED
    BY <1>2, <1>3

\* The sends that count after one more was called.
LEMMA SendCalled ==
    ASSUME TypeOK, LineInv, NEW v \in SendOp, status[v] = "idle",
           sendLog' = Append(sendLog, v),
           \A o \in SendOp \ {v} : o \in Accepted <=> o \in Accepted'
    PROVE  Kept(sendLog', Accepted') = IF v \in Accepted' THEN Append(Kept(sendLog, Accepted), v)
                                       ELSE Kept(sendLog, Accepted)
<1>1. sendLog \in Seq(SendOp) /\ v \notin ToSet(sendLog)
    BY LineTypes DEF LineInv
<1> DEFINE T == Accepted'
<1>2. \A o \in SendOp \ {v} : o \in Accepted <=> o \in T
    OBVIOUS
<1> HIDE DEF T
<1>3. Kept(Append(sendLog, v), T) = IF v \in T THEN Append(Kept(sendLog, Accepted), v)
                                    ELSE Kept(sendLog, Accepted)
    BY <1>1, <1>2, KeptCalled
<1> QED
    BY <1>3 DEF T

\* The receives that count, and the sends that still do.
LEMMA RecvCalled ==
    ASSUME TypeOK, LineInv, NEW r \in RecvOp, status[r] = "idle",
           recvLog' = Append(recvLog, r),
           \A o \in RecvOp \ {r} : status'[o] = status[o]
    PROVE  /\ Kept(recvLog', Received') = IF status'[r] = "received"
                                          THEN Append(Kept(recvLog, Received), r)
                                          ELSE Kept(recvLog, Received)
           /\ Kept(recvLog', Served') = IF status'[r] \in {"received", "waiting"}
                                        THEN Append(Kept(recvLog, Served), r)
                                        ELSE Kept(recvLog, Served)
<1>1. recvLog \in Seq(RecvOp) /\ r \notin ToSet(recvLog)
    BY LineTypes DEF LineInv
<1> DEFINE R == Received'
           W == Served'
<1>2. \A o \in RecvOp \ {r} : o \in Received <=> o \in R
    BY DEF Received
<1>3. \A o \in RecvOp \ {r} : o \in Served <=> o \in W
    BY DEF Served
<1>4. /\ r \in R <=> status'[r] = "received"
      /\ r \in W <=> status'[r] \in {"received", "waiting"}
    BY DEF Received, Served
<1> HIDE DEF R, W
<1>5. Kept(Append(recvLog, r), R) = IF r \in R THEN Append(Kept(recvLog, Received), r)
                                    ELSE Kept(recvLog, Received)
    BY <1>1, <1>2, KeptCalled
<1>6. Kept(Append(recvLog, r), W) = IF r \in W THEN Append(Kept(recvLog, Served), r)
                                    ELSE Kept(recvLog, Served)
    BY <1>1, <1>3, KeptCalled
<1> QED
    BY <1>4, <1>5, <1>6 DEF R, W

\* What the receives of the log got, and what one more gets.
LEMMA GivenMore ==
    ASSUME TypeOK, NEW r \in RecvOp, status[r] # "received", NEW v \in SendOp,
           got' = [got EXCEPT ![r] = v],
           Kept(recvLog', Received') = Append(Kept(recvLog, Received), r)
    PROVE  GivenSoFar' = Append(GivenSoFar, v)
<1> DEFINE d == Kept(recvLog, Received)
           g == [got EXCEPT ![r] = v]
<1>1. d \in Seq(RecvOp) /\ ToSet(d) \subseteq Received
    BY LineTypes, KeptRange
<1>2. g \in [RecvOp -> Values] /\ g[r] = v /\ \A o \in ToSet(d) : g[o] = got[o]
  <2>1. got \in [RecvOp -> Values] /\ v \in Values
      BY LineTypes DEF Values
  <2> QED
      BY <1>1, <2>1 DEF Received
<1>3. GivenSoFar' = Given(Append(d, r), g) /\ GivenSoFar = Given(d, got)
    BY DEF GivenSoFar
<1> HIDE DEF d, g
<1>4. Given(Append(d, r), g) = Append(Given(d, g), g[r])
  <2>1. d \in Seq(RecvOp) /\ r \in RecvOp /\ g \in [RecvOp -> Values]
      BY <1>1, <1>2
  <2> QED
      BY <2>1, GivenAppend
<1>5. Given(d, g) = Given(d, got)
    BY <1>2, GivenSame
<1> QED
    BY <1>2, <1>3, <1>4, <1>5

Context == TypeOK /\ NobodyWaitsInVain /\ DestroyedIsEmpty /\ WaitingIsQueued /\ LineInv

LEMMA SendsSame ==
    ASSUME sendLog' = sendLog, \A v \in SendOp : v \in Accepted <=> v \in Accepted'
    PROVE  Kept(sendLog', Accepted') = Kept(sendLog, Accepted)
<1>1. Accepted' = Accepted
    BY DEF Accepted
<1> QED
    BY <1>1

LEMMA RecvsSame ==
    ASSUME recvLog' = recvLog, \A r \in RecvOp : status'[r] = status[r]
    PROVE  /\ Kept(recvLog', Received') = Kept(recvLog, Received)
           /\ Kept(recvLog', Served') = Kept(recvLog, Served)
           /\ got' = got => GivenSoFar' = GivenSoFar
<1>1. Received' = Received /\ Served' = Served
    BY DEF Received, Served
<1> QED
    BY <1>1 DEF GivenSoFar

\* Empty parts of the line.
LEMMA Nothing ==
    ASSUME NEW q \in Seq(Values)
    PROVE  q \o <<>> = q /\ (q \o <<>>) \o <<>> = q /\ ((q \o <<>>) \o <<>>) \o <<>> = q
BY ConcatEmptySeq

LEMMA SendToClosedLine ==
    ASSUME Context, NEW v \in SendOp, SendToClosed(v)
    PROVE  LineInv'
<1>1. /\ TypeOK /\ LineInv /\ status[v] = "idle" /\ sendLog' = Append(sendLog, v)
      /\ recvLog' = recvLog /\ got' = got /\ buffer' = buffer /\ senders' = senders
      /\ receivers' = receivers /\ released' = released /\ destroyed' = destroyed
      /\ status' = [status EXCEPT ![v] = "faulted"]
    BY DEF Context, SendToClosed, SendCall, CanCall, queues
<1>2. /\ \A o \in Op \ {v} : status'[o] = status[o]
      /\ status'[v] = "faulted" /\ v \notin RecvOp
    BY <1>1, ChannelAssumption DEF TypeOK, Op, ChannelAssumption
<1>3. Kept(sendLog', Accepted') = Kept(sendLog, Accepted)
  <2>1. v \notin Accepted' /\ \A o \in SendOp \ {v} : o \in Accepted <=> o \in Accepted'
      BY <1>2 DEF Accepted, Op
  <2> QED
      BY <1>1, <2>1, SendCalled
<1>4. /\ Kept(recvLog', Received') = Kept(recvLog, Received)
      /\ Kept(recvLog', Served') = Kept(recvLog, Served)
      /\ GivenSoFar' = GivenSoFar
  <2>1. \A r \in RecvOp : status'[r] = status[r]
      BY <1>2 DEF Op
  <2> QED
      BY <1>1, <2>1, RecvsSame
<1>5. /\ IsInjective(sendLog')
      /\ \A o \in SendOp : status'[o] = "idle" => o \notin ToSet(sendLog')
      /\ \A r \in RecvOp : status'[r] = "idle" => r \notin ToSet(recvLog')
    BY <1>1, <1>2, Logs DEF Op
<1> QED
    BY <1>1, <1>3, <1>4, <1>5 DEF LineInv

\* Some of the served receives: those that have a value and some of the queue.
LEMMA SomeServed ==
    ASSUME TypeOK, LineInv, NEW S, Received \subseteq S, S \subseteq Served
    PROVE  Kept(recvLog, S) = Kept(recvLog, Received) \o Kept(receivers, S)
<1> DEFINE d == Kept(recvLog, Received)
<1>1. recvLog \in Seq(RecvOp) /\ receivers \in Seq(RecvOp) /\ d \in Seq(RecvOp)
    BY LineTypes DEF TypeOK
<1>2. Kept(recvLog, Served) = d \o receivers
    BY DEF LineInv
<1>3. ToSet(d) \subseteq S
    BY <1>1, KeptRange
<1>4. Kept(Kept(recvLog, Served), S) = Kept(recvLog, Served \cap S) /\ Served \cap S = S
    BY <1>1, KeptTwice
<1> HIDE DEF d
<1>5. Kept(d \o receivers, S) = Kept(d, S) \o Kept(receivers, S)
    BY <1>1, KeptConcat
<1>6. Kept(d, S) = d
    BY <1>1, <1>3, KeptAll
<1> QED
    BY <1>2, <1>4, <1>5, <1>6 DEF d

LEMMA SendToReceiverLine ==
    ASSUME Context, NEW v \in SendOp, SendToReceiver(v)
    PROVE  LineInv'
<1> DEFINE h == Head(receivers)
           q == Tail(receivers)
           d == Kept(recvLog, Received)
<1>1. /\ TypeOK /\ LineInv /\ NobodyWaitsInVain /\ WaitingIsQueued /\ DestroyedIsEmpty
      /\ status[v] = "idle" /\ sendLog' = Append(sendLog, v) /\ handles > 0
      /\ recvLog' = recvLog /\ receivers # <<>>
      /\ status' = [status EXCEPT ![v] = "sent", ![h] = "received"]
      /\ got' = [got EXCEPT ![h] = v]
      /\ Settle(buffer, senders, q, handles)
    BY DEF Context, SendToReceiver, SendCall, CanCall
<1>2. buffer = <<>> /\ senders = <<>> /\ released = <<>> /\ ~destroyed
    BY <1>1, InUseReleased DEF NobodyWaitsInVain
<1>3. buffer' = <<>> /\ senders' = <<>> /\ receivers' = q /\ released' = <<>>
  <2>1. ~Unowned(senders, q, handles)
      BY <1>1 DEF Unowned
  <2> QED
      BY <1>1, <1>2, <2>1 DEF Settle
<1>4. /\ h \in RecvOp /\ q \in Seq(RecvOp) /\ ToSet(receivers) = {h} \cup ToSet(q)
      /\ h \notin ToSet(q) /\ receivers = <<h>> \o q /\ status[h] = "waiting"
      /\ \A r \in ToSet(q) : r \in RecvOp /\ status[r] = "waiting"
  <2>1. /\ h \in RecvOp /\ q \in Seq(RecvOp) /\ ToSet(receivers) = {h} \cup ToSet(q)
        /\ h \notin ToSet(q) /\ receivers = <<h>> \o q
      BY <1>1, QueueTypes, Behead
  <2> QED
      BY <1>1, <2>1, QueueTypes
<1> HIDE DEF h, q
<1>5. /\ \A o \in Op \ {v, h} : status'[o] = status[o]
      /\ status'[v] = "sent" /\ status'[h] = "received" /\ v \notin RecvOp /\ h \notin SendOp
    BY <1>1, <1>4, ChannelAssumption DEF TypeOK, Op, ChannelAssumption
<1>6. Kept(sendLog', Accepted') = Append(Kept(sendLog, Accepted), v)
  <2>1. v \in Accepted' /\ \A o \in SendOp \ {v} : o \in Accepted <=> o \in Accepted'
      BY <1>5 DEF Accepted, Op
  <2> QED
      BY <1>1, <2>1, SendCalled
<1>7. Received' = Received \cup {h} /\ Served' = Served /\ h \in Served
    BY <1>4, <1>5 DEF Received, Served, Op
<1>8. Kept(recvLog', Received') = Append(d, h)
  <2> DEFINE S == Received \cup {h}
  <2>1. Received \subseteq S /\ S \subseteq Served
      BY <1>7 DEF Received, Served
  <2>2. ToSet(q) \cap S = {}
      BY <1>4 DEF Received
  <2>3. h \in S
      OBVIOUS
  <2> HIDE DEF S
  <2>4. Kept(recvLog, S) = d \o Kept(receivers, S)
      BY <1>1, <2>1, SomeServed
  <2>5. <<h>> \in Seq(RecvOp) /\ Kept(<<h>>, S) = <<h>>
      BY <1>4, <2>3, OneElement
  <2>6. Kept(q, S) = <<>>
      BY <1>4, <2>2, KeptNone
  <2>7. Kept(<<h>> \o q, S) = <<h>>
    <3> DEFINE e == <<h>>
    <3>1. e \in Seq(RecvOp) /\ Kept(e, S) = e
        BY <2>5
    <3> HIDE DEF e
    <3>a. e \in Seq(RecvOp) /\ q \in Seq(RecvOp)
        BY <1>4, <3>1
    <3>2. Kept(e \o q, S) = Kept(e, S) \o Kept(q, S)
        BY <3>a, KeptConcat
    <3>3. e \o <<>> = e
        BY <3>1, ConcatEmptySeq
    <3> QED
        BY <2>6, <3>1, <3>2, <3>3 DEF e
  <2>8. d \in Seq(RecvOp)
      BY <1>1, LineTypes
  <2>9. Append(d, h) = d \o <<h>>
    <3> HIDE DEF d
    <3> QED
        BY <1>4, <2>8, AppendIsConcat
  <2> QED
      BY <1>1, <1>4, <1>7, <2>4, <2>7, <2>9 DEF S
<1>9. GivenSoFar' = Append(GivenSoFar, v)
  <2>1. status[h] # "received"
      BY <1>4
  <2> QED
      BY <1>1, <1>4, <1>8, <2>1, GivenMore
<1>10. Kept(recvLog', Served') = Kept(recvLog', Received') \o receivers'
  <2>1. d \in Seq(RecvOp) /\ receivers \in Seq(RecvOp)
      BY <1>1, LineTypes DEF TypeOK
  <2>2. Kept(recvLog, Served) = d \o receivers
      BY <1>1 DEF LineInv
  <2> HIDE DEF d
  <2>3. d \o receivers = Append(d, h) \o q
      BY <1>1, <2>1, Shift DEF h, q
  <2> QED
      BY <1>1, <1>3, <1>7, <1>8, <2>2, <2>3
<1>11. Kept(sendLog', Accepted')
         = ((GivenSoFar' \o released') \o buffer') \o senders'
  <2>1. GivenSoFar \in Seq(Values) /\ v \in Values
      BY <1>1, LineTypes DEF Values
  <2>2. Append(GivenSoFar, v) \in Seq(Values)
      BY <2>1, AppendProperties
  <2>3. Kept(sendLog, Accepted) = GivenSoFar
      BY <1>1, <1>2, <2>1, Nothing DEF LineInv
  <2>4. ((Append(GivenSoFar, v) \o <<>>) \o <<>>) \o <<>> = Append(GivenSoFar, v)
      BY <2>2, Nothing
  <2> QED
      BY <1>3, <1>6, <1>9, <2>3, <2>4
<1>12. /\ IsInjective(sendLog')
       /\ \A o \in SendOp : status'[o] = "idle" => o \notin ToSet(sendLog')
       /\ \A r \in RecvOp : status'[r] = "idle" => r \notin ToSet(recvLog')
    BY <1>1, <1>5, Logs DEF Op
<1> QED
    BY <1>3, <1>10, <1>11, <1>12 DEF LineInv

\* A send that is taken up while no receive waits goes to the end of the line.
LEMMA SendJoins ==
    ASSUME TypeOK, LineInv, NEW v \in SendOp, status[v] = "idle",
           sendLog' = Append(sendLog, v), recvLog' = recvLog, got' = got,
           receivers' = receivers, released' = released, destroyed' = destroyed,
           NEW s \in {"sent", "waiting"}, status' = [status EXCEPT ![v] = s],
           ((GivenSoFar \o released) \o buffer') \o senders'
             = Append(((GivenSoFar \o released) \o buffer) \o senders, v)
    PROVE  LineInv'
<1>1. /\ \A o \in Op \ {v} : status'[o] = status[o]
      /\ status'[v] = s /\ v \notin RecvOp
    BY ChannelAssumption DEF TypeOK, Op, ChannelAssumption
<1>2. Kept(sendLog', Accepted') = Append(Kept(sendLog, Accepted), v)
  <2>1. v \in Accepted' /\ \A o \in SendOp \ {v} : o \in Accepted <=> o \in Accepted'
      BY <1>1 DEF Accepted, Op
  <2> QED
      BY <2>1, SendCalled
<1>3. /\ Kept(recvLog', Received') = Kept(recvLog, Received)
      /\ Kept(recvLog', Served') = Kept(recvLog, Served)
      /\ GivenSoFar' = GivenSoFar
  <2>1. \A r \in RecvOp : status'[r] = status[r]
      BY <1>1 DEF Op
  <2> QED
      BY <2>1, RecvsSame
<1>4. /\ IsInjective(sendLog')
      /\ \A o \in SendOp : status'[o] = "idle" => o \notin ToSet(sendLog')
      /\ \A r \in RecvOp : status'[r] = "idle" => r \notin ToSet(recvLog')
    BY <1>1, Logs DEF Op
<1> QED
    BY <1>2, <1>3, <1>4 DEF LineInv

LEMMA SendToBufferLine ==
    ASSUME Context, NEW v \in SendOp, SendToBuffer(v)
    PROVE  LineInv'
<1>1. /\ TypeOK /\ LineInv /\ NobodyWaitsInVain
      /\ status[v] = "idle" /\ sendLog' = Append(sendLog, v) /\ recvLog' = recvLog
      /\ got' = got /\ receivers' = receivers /\ released' = released
      /\ destroyed' = destroyed /\ status' = [status EXCEPT ![v] = "sent"]
      /\ buffer' = Append(buffer, v) /\ senders' = senders /\ Len(buffer) < capacity
    BY DEF Context, SendToBuffer, SendCall, CanCall, HasRoom
<1>2. senders = <<>>
  <2>1. capacity \in Nat /\ Len(buffer) \in Nat
      BY <1>1, ChannelAssumption, LenProperties DEF TypeOK, ChannelAssumption
  <2> QED
      BY <1>1, <2>1 DEF NobodyWaitsInVain
<1> DEFINE g == GivenSoFar \o released
<1>3. g \in Seq(Values) /\ buffer \in Seq(Values) /\ v \in Values
    BY <1>1, LineTypes, ConcatProperties DEF Values
<1> HIDE DEF g
<1>4. g \o Append(buffer, v) = Append(g \o buffer, v) /\ g \o buffer \in Seq(Values)
    BY <1>3, AppendConcat, ConcatProperties
<1>5. /\ (g \o buffer) \o <<>> = g \o buffer
      /\ (g \o Append(buffer, v)) \o <<>> = g \o Append(buffer, v)
  <2>1. Append(buffer, v) \in Seq(Values)
      BY <1>3, AppendProperties
  <2>2. g \o Append(buffer, v) \in Seq(Values)
      BY <1>3, <2>1, ConcatProperties
  <2> QED
      BY <1>4, <2>2, ConcatEmptySeq
<1>6. (g \o buffer') \o senders' = Append((g \o buffer) \o senders, v)
    BY <1>1, <1>2, <1>4, <1>5
<1> QED
    BY <1>1, <1>6, SendJoins DEF g

LEMMA SendBlocksLine ==
    ASSUME Context, NEW v \in SendOp, SendBlocks(v)
    PROVE  LineInv'
<1>1. /\ TypeOK /\ LineInv
      /\ status[v] = "idle" /\ sendLog' = Append(sendLog, v) /\ recvLog' = recvLog
      /\ got' = got /\ receivers' = receivers /\ released' = released
      /\ destroyed' = destroyed /\ status' = [status EXCEPT ![v] = "waiting"]
      /\ buffer' = buffer /\ senders' = Append(senders, v)
    BY DEF Context, SendBlocks, SendCall, CanCall
<1> DEFINE g == (GivenSoFar \o released) \o buffer
<1>2. g \in Seq(Values) /\ senders \in Seq(Values) /\ v \in Values
    BY <1>1, LineTypes, ConcatProperties DEF Values
<1> HIDE DEF g
<1>3. g \o Append(senders, v) = Append(g \o senders, v)
    BY <1>2, AppendConcat
<1> QED
    BY <1>1, <1>3, SendJoins DEF g

\* A receive that is called takes its place in the log, and no other receive
\* is affected.
LEMMA RecvTakesPlace ==
    ASSUME TypeOK, LineInv, NEW r \in RecvOp, status[r] = "idle",
           recvLog' = Append(recvLog, r), sendLog' = sendLog,
           NEW s \in {"received", "eof", "waiting"}, status'[r] = s,
           \A o \in RecvOp \ {r} : status'[o] = status[o],
           \A v \in SendOp : v \in Accepted <=> v \in Accepted',
           \A v \in SendOp : status'[v] = "idle" => status[v] = "idle",
           s = "received" => receivers = <<>>,
           receivers' = IF s = "waiting" THEN Append(receivers, r) ELSE receivers
    PROVE  /\ Kept(sendLog', Accepted') = Kept(sendLog, Accepted)
           /\ Kept(recvLog', Received') = IF s = "received" THEN Append(Kept(recvLog, Received), r)
                                          ELSE Kept(recvLog, Received)
           /\ Kept(recvLog', Served') = Kept(recvLog', Received') \o receivers'
           /\ IsInjective(sendLog')
           /\ \A o \in SendOp : status'[o] = "idle" => o \notin ToSet(sendLog')
           /\ \A o \in RecvOp : status'[o] = "idle" => o \notin ToSet(recvLog')
<1> DEFINE d == Kept(recvLog, Received)
           w == Kept(recvLog, Served)
<1>1. Kept(sendLog', Accepted') = Kept(sendLog, Accepted)
    BY SendsSame
<1>2. /\ Kept(recvLog', Received') = IF s = "received" THEN Append(d, r) ELSE d
      /\ Kept(recvLog', Served') = IF s \in {"received", "waiting"} THEN Append(w, r) ELSE w
    BY RecvCalled
<1>3. /\ IsInjective(sendLog')
      /\ \A o \in SendOp : status'[o] = "idle" => o \notin ToSet(sendLog')
      /\ \A o \in RecvOp : status'[o] = "idle" => o \notin ToSet(recvLog')
  <2>1. \A o \in Op : status'[o] = "idle" => status[o] = "idle"
      BY DEF Op
  <2> QED
      BY <2>1, Logs
<1>4. w = d \o receivers /\ d \in Seq(RecvOp) /\ receivers \in Seq(RecvOp)
    BY LineTypes DEF LineInv, TypeOK
<1> HIDE DEF d, w
<1>5. Kept(recvLog', Served') = Kept(recvLog', Received') \o receivers'
  <2>1. CASE s = "received"
    <3>1. w = d
        BY <1>4, <2>1, ConcatEmptySeq
    <3>2. Append(d, r) \in Seq(RecvOp)
        BY <1>4, AppendProperties
    <3>3. Append(d, r) \o <<>> = Append(d, r)
        BY <3>2, ConcatEmptySeq
    <3> QED
        BY <1>2, <2>1, <3>1, <3>3
  <2>2. CASE s = "eof"
      BY <1>2, <1>4, <2>2
  <2>3. CASE s = "waiting"
    <3>1. d \o Append(receivers, r) = Append(d \o receivers, r)
        BY <1>4, AppendConcat
    <3> QED
        BY <1>2, <1>4, <2>3, <3>1
  <2> QED
      BY <2>1, <2>2, <2>3
<1> QED
    BY <1>1, <1>2, <1>3, <1>5 DEF d

\* A receive gets the value at the head of the line, whatever part of the line
\* moves into the buffer.
LEMMA RecvGets ==
    ASSUME TypeOK, LineInv, DestroyedIsEmpty, handles > 0,
           NEW r \in RecvOp, status[r] = "idle", NEW v \in SendOp,
           recvLog' = Append(recvLog, r), sendLog' = sendLog,
           got' = [got EXCEPT ![r] = v], status'[r] = "received",
           \A o \in RecvOp \ {r} : status'[o] = status[o],
           \A o \in SendOp : \/ status'[o] = status[o]
                             \/ status[o] = "waiting" /\ status'[o] = "sent",
           receivers = <<>>,
           NEW buf, NEW ss, Settle(buf, ss, receivers, handles),
           (Append(GivenSoFar, v) \o buf) \o ss = (GivenSoFar \o buffer) \o senders
    PROVE  LineInv'
<1>1. ~destroyed /\ released = <<>>
    BY InUseReleased
<1>2. /\ buffer' = buf /\ senders' = ss /\ receivers' = receivers
      /\ released' = <<>>
  <2>1. ~(handles > 0 /\ handles = 0)
      OBVIOUS
  <2> QED
      BY <1>1, <2>1 DEF Settle, Unowned
<1>3. /\ \A o \in SendOp : o \in Accepted <=> o \in Accepted'
      /\ \A o \in SendOp : status'[o] = "idle" => status[o] = "idle"
    BY DEF Accepted
<1>4. /\ Kept(sendLog', Accepted') = Kept(sendLog, Accepted)
      /\ Kept(recvLog', Received') = Append(Kept(recvLog, Received), r)
      /\ Kept(recvLog', Served') = Kept(recvLog', Received') \o receivers'
      /\ IsInjective(sendLog')
      /\ \A o \in SendOp : status'[o] = "idle" => o \notin ToSet(sendLog')
      /\ \A o \in RecvOp : status'[o] = "idle" => o \notin ToSet(recvLog')
    BY <1>2, <1>3, RecvTakesPlace
<1>5. GivenSoFar' = Append(GivenSoFar, v)
  <2>1. status[r] # "received"
      OBVIOUS
  <2> QED
      BY <1>4, <2>1, GivenMore
<1>6. GivenSoFar \in Seq(Values) /\ v \in Values
    BY LineTypes DEF Values
<1>7. Append(GivenSoFar, v) \o <<>> = Append(GivenSoFar, v)
  <2>1. Append(GivenSoFar, v) \in Seq(Values)
      BY <1>6, AppendProperties
  <2> QED
      BY <2>1, ConcatEmptySeq
<1>8. Kept(sendLog, Accepted) = (GivenSoFar \o buffer) \o senders
  <2>1. GivenSoFar \o <<>> = GivenSoFar
      BY <1>6, ConcatEmptySeq
  <2> QED
      BY <1>1, <2>1 DEF LineInv
<1>9. Kept(sendLog', Accepted') = ((GivenSoFar' \o released') \o buffer') \o senders'
    BY <1>2, <1>4, <1>5, <1>7, <1>8
<1> QED
    BY <1>2, <1>4, <1>9 DEF LineInv

LEMMA ReceiveBufferedLine ==
    ASSUME Context, NEW r \in RecvOp, ReceiveBuffered(r)
    PROVE  LineInv'
<1> DEFINE G == GivenSoFar
           h == Head(buffer)
           t == Tail(buffer)
<1>1. /\ TypeOK /\ LineInv /\ DestroyedIsEmpty /\ NobodyWaitsInVain /\ handles > 0
      /\ status[r] = "idle" /\ recvLog' = Append(recvLog, r) /\ sendLog' = sendLog
      /\ got' = [got EXCEPT ![r] = h] /\ buffer # <<>>
    BY DEF Context, ReceiveBuffered, RecvCall, CanCall, Receive
<1>2. receivers = <<>>
    BY <1>1 DEF NobodyWaitsInVain
<1>3. h \in SendOp /\ t \in Seq(SendOp)
    BY <1>1, HeadTailProperties DEF TypeOK
<1>4. /\ G \in Seq(Values) /\ h \in Values /\ t \in Seq(Values) /\ buffer \in Seq(Values)
      /\ senders \in Seq(Values) /\ Append(G, h) \in Seq(Values)
  <2>0. buffer \in Seq(Values) /\ buffer # <<>>
      BY <1>1, LineTypes
  <2>1. t \in Seq(Values)
      BY <2>0, HeadTailProperties
  <2> QED
      BY <1>1, <1>3, <2>1, LineTypes, AppendProperties DEF Values
<1>5. G \o buffer = Append(G, h) \o t
    BY <1>1, <1>4, Shift
<1>6. CASE senders # <<>> /\ ~closed
  <2> DEFINE f == Head(senders)
             u == Tail(senders)
             buf == Append(t, f)
  <2>1. /\ status' = [status EXCEPT ![r] = "received", ![f] = "sent"]
        /\ Settle(buf, u, receivers, handles)
      BY <1>6 DEF ReceiveBuffered
  <2>2. f \in SendOp /\ status[f] = "waiting" /\ f \in Values
      BY <1>1, <1>6, QueueTypes, Behead DEF Context, Values
  <2>3. /\ \A o \in SendOp : \/ status'[o] = status[o]
                             \/ status[o] = "waiting" /\ status'[o] = "sent"
        /\ status'[r] = "received" /\ \A o \in RecvOp \ {r} : status'[o] = status[o]
    <3> HIDE DEF f
    <3> QED
        BY <1>1, <2>1, <2>2, ChannelAssumption DEF TypeOK, Op, ChannelAssumption
  <2>4. (Append(G, h) \o buf) \o u = (G \o buffer) \o senders
    <3> DEFINE A == Append(G, h)
               B == G \o buffer
    <3>1. A \in Seq(Values) /\ t \in Seq(Values) /\ f \in Values /\ senders \in Seq(Values)
        BY <1>4, <2>2
    <3>2. B = A \o t
        BY <1>5
    <3>3. B \in Seq(Values)
        BY <1>4, ConcatProperties
    <3> HIDE DEF A, B
    <3>4. A \o Append(t, f) = Append(A \o t, f)
        BY <3>1, AppendConcat
    <3>5. B \o senders = Append(B, f) \o u
        BY <1>6, <3>1, <3>3, Shift
    <3>6. (A \o Append(t, f)) \o u = B \o senders
        BY <3>2, <3>4, <3>5
    <3> QED
        BY <3>6 DEF A, B
  <2> HIDE DEF f, u, buf, h
  <2> QED
      BY <1>1, <1>2, <1>3, <2>1, <2>3, <2>4, RecvGets
<1>7. CASE ~(senders # <<>> /\ ~closed)
  <2>1. status' = [status EXCEPT ![r] = "received"] /\ Settle(t, senders, receivers, handles)
      BY <1>7 DEF ReceiveBuffered
  <2>2. /\ \A o \in SendOp : status'[o] = status[o]
        /\ status'[r] = "received" /\ \A o \in RecvOp \ {r} : status'[o] = status[o]
      BY <1>1, <2>1, ChannelAssumption DEF TypeOK, Op, ChannelAssumption
  <2>3. (Append(G, h) \o t) \o senders = (G \o buffer) \o senders
      BY <1>5
  <2> HIDE DEF h, t
  <2> QED
      BY <1>1, <1>2, <1>3, <2>1, <2>2, <2>3, RecvGets
<1> QED
    BY <1>6, <1>7

LEMMA ReceiveFromSenderLine ==
    ASSUME Context, NEW r \in RecvOp, ReceiveFromSender(r)
    PROVE  LineInv'
<1> DEFINE G == GivenSoFar
           f == Head(senders)
           u == Tail(senders)
<1>1. /\ TypeOK /\ LineInv /\ DestroyedIsEmpty /\ NobodyWaitsInVain /\ handles > 0
      /\ status[r] = "idle" /\ recvLog' = Append(recvLog, r) /\ sendLog' = sendLog
      /\ got' = [got EXCEPT ![r] = f] /\ buffer = <<>> /\ senders # <<>>
      /\ status' = [status EXCEPT ![r] = "received", ![f] = "sent"]
      /\ Settle(buffer, u, receivers, handles)
    BY DEF Context, ReceiveFromSender, RecvCall, CanCall, Receive
<1>2. receivers = <<>>
    BY <1>1 DEF NobodyWaitsInVain
<1>3. f \in SendOp /\ status[f] = "waiting" /\ f \in Values
    BY <1>1, QueueTypes, Behead DEF Context, Values
<1>4. /\ \A o \in SendOp : \/ status'[o] = status[o]
                           \/ status[o] = "waiting" /\ status'[o] = "sent"
      /\ status'[r] = "received" /\ \A o \in RecvOp \ {r} : status'[o] = status[o]
  <2> HIDE DEF f
  <2> QED
      BY <1>1, <1>3, ChannelAssumption DEF TypeOK, Op, ChannelAssumption
<1>5. G \in Seq(Values) /\ senders \in Seq(Values) /\ Append(G, f) \in Seq(Values)
    BY <1>1, <1>3, LineTypes, AppendProperties
<1>6. G \o senders = Append(G, f) \o u
    BY <1>1, <1>5, Shift
<1>7. Append(G, f) \o <<>> = Append(G, f) /\ G \o <<>> = G
    BY <1>5, ConcatEmptySeq
<1>8. (Append(G, f) \o buffer) \o u = (G \o buffer) \o senders
    BY <1>1, <1>6, <1>7
<1> HIDE DEF f, u
<1> QED
    BY <1>1, <1>2, <1>3, <1>4, <1>8, RecvGets

LEMMA ReceiveClosedLine ==
    ASSUME Context, NEW r \in RecvOp, ReceiveClosed(r)
    PROVE  LineInv'
<1>1. /\ TypeOK /\ LineInv
      /\ status[r] = "idle" /\ recvLog' = Append(recvLog, r) /\ sendLog' = sendLog
      /\ got' = got /\ buffer' = buffer /\ senders' = senders /\ receivers' = receivers
      /\ released' = released /\ destroyed' = destroyed
      /\ status' = [status EXCEPT ![r] = "eof"]
    BY DEF Context, ReceiveClosed, RecvCall, CanCall, queues
<1>2. /\ \A o \in SendOp : status'[o] = status[o]
      /\ status'[r] = "eof" /\ \A o \in RecvOp \ {r} : status'[o] = status[o]
    BY <1>1, ChannelAssumption DEF TypeOK, Op, ChannelAssumption
<1>3. \A v \in SendOp : v \in Accepted <=> v \in Accepted'
    BY <1>2 DEF Accepted
<1>4. /\ Kept(sendLog', Accepted') = Kept(sendLog, Accepted)
      /\ Kept(recvLog', Received') = Kept(recvLog, Received)
      /\ Kept(recvLog', Served') = Kept(recvLog', Received') \o receivers'
      /\ IsInjective(sendLog')
      /\ \A o \in SendOp : status'[o] = "idle" => o \notin ToSet(sendLog')
      /\ \A o \in RecvOp : status'[o] = "idle" => o \notin ToSet(recvLog')
    BY <1>1, <1>2, <1>3, RecvTakesPlace
<1>5. GivenSoFar' = GivenSoFar
    BY <1>1, <1>4 DEF GivenSoFar
<1> QED
    BY <1>1, <1>4, <1>5 DEF LineInv

LEMMA ReceiveBlocksLine ==
    ASSUME Context, NEW r \in RecvOp, ReceiveBlocks(r)
    PROVE  LineInv'
<1>1. /\ TypeOK /\ LineInv
      /\ status[r] = "idle" /\ recvLog' = Append(recvLog, r) /\ sendLog' = sendLog
      /\ got' = got /\ buffer' = buffer /\ senders' = senders
      /\ receivers' = Append(receivers, r)
      /\ released' = released /\ destroyed' = destroyed
      /\ status' = [status EXCEPT ![r] = "waiting"]
    BY DEF Context, ReceiveBlocks, RecvCall, CanCall
<1>2. /\ \A o \in SendOp : status'[o] = status[o]
      /\ status'[r] = "waiting" /\ \A o \in RecvOp \ {r} : status'[o] = status[o]
    BY <1>1, ChannelAssumption DEF TypeOK, Op, ChannelAssumption
<1>3. \A v \in SendOp : v \in Accepted <=> v \in Accepted'
    BY <1>2 DEF Accepted
<1>4. /\ Kept(sendLog', Accepted') = Kept(sendLog, Accepted)
      /\ Kept(recvLog', Received') = Kept(recvLog, Received)
      /\ Kept(recvLog', Served') = Kept(recvLog', Received') \o receivers'
      /\ IsInjective(sendLog')
      /\ \A o \in SendOp : status'[o] = "idle" => o \notin ToSet(sendLog')
      /\ \A o \in RecvOp : status'[o] = "idle" => o \notin ToSet(recvLog')
    BY <1>1, <1>2, <1>3, RecvTakesPlace
<1>5. GivenSoFar' = GivenSoFar
    BY <1>1, <1>4 DEF GivenSoFar
<1> QED
    BY <1>1, <1>4, <1>5 DEF LineInv

\* Blocked sends that withdraw leave the line, and nothing else does.
LEMMA SendersLeave ==
    ASSUME TypeOK, LineInv, WaitingIsQueued, NEW S, S \subseteq ToSet(senders)
    PROVE  Kept(sendLog, Accepted \ S)
             = ((GivenSoFar \o released) \o buffer) \o Kept(senders, SendOp \ S)
<1> DEFINE g == (GivenSoFar \o released) \o buffer
           a == Kept(sendLog, Accepted)
           T == Values \ S
<1>1. /\ g \in Seq(Values) /\ senders \in Seq(Values) /\ senders \in Seq(SendOp)
      /\ sendLog \in Seq(SendOp)
    BY LineTypes, ConcatProperties DEF TypeOK
<1>2. a = g \o senders /\ IsInjective(sendLog)
    BY DEF LineInv
<1>3. IsInjective(a)
    BY <1>1, <1>2, KeptInjective
<1>4. Kept(a, T) = Kept(sendLog, Accepted \cap T)
    BY <1>1, KeptTwice
<1>5. Accepted \cap T = Accepted \ S
    BY DEF Accepted, Values
<1>6. ToSet(senders) \subseteq SendOp /\ SendOp \subseteq Values
    BY <1>1, RangeIn DEF Values
<1> HIDE DEF g, a, T
<1>7. /\ Kept(g \o senders, T) = Kept(g, T) \o Kept(senders, T)
      /\ IsInjective(g \o senders) => ToSet(g) \cap ToSet(senders) = {}
  <2>1. Kept(g \o senders, T) = Kept(g, T) \o Kept(senders, T)
      BY <1>1, KeptConcat
  <2>2. IsInjective(g \o senders) => ToSet(g) \cap ToSet(senders) = {}
      BY <1>1, InjectiveConcat
  <2> QED
      BY <2>1, <2>2
<1>8. Kept(g, T) = g
  <2>1. ToSet(g) \subseteq Values
      BY <1>1, RangeIn
  <2>2. ToSet(g) \subseteq T
      BY <1>2, <1>3, <1>7, <2>1 DEF T
  <2> QED
      BY <1>1, <2>2, KeptAll
<1>9. Kept(senders, T) = Kept(senders, SendOp \ S)
  <2>1. \A v \in ToSet(senders) : v \in T <=> v \in SendOp \ S
      BY <1>6 DEF T
  <2> QED
      BY <1>1, <2>1, KeptSame
<1> QED
    BY <1>2, <1>4, <1>5, <1>7, <1>8, <1>9 DEF g

LEMMA WithdrawLine ==
    ASSUME TypeOK, WaitingIsQueued, LineInv, NEW W, NEW h, Withdraws(W, h)
    PROVE  LineInv'
<1> DEFINE ss == Kept(senders, Op \ W)
           rs == Kept(receivers, Op \ W)
           V == W \cap SendOp
           R == Served \ W
<1>1. /\ W \subseteq Op /\ \A o \in W : status[o] = "waiting"
      /\ sendLog' = sendLog /\ recvLog' = recvLog /\ got' = got
      /\ Settle(buffer, ss, rs, h)
    BY DEF Withdraws
<1>2. \A o \in Op : status'[o] = IF o \in W THEN "cancelled" ELSE status[o]
    BY DEF Withdraws
<1>3. Received' = Received /\ Accepted' = Accepted \ V /\ Served' = R
    BY <1>1, <1>2 DEF Received, Accepted, Served, Op
<1>4. GivenSoFar' = GivenSoFar
    BY <1>1, <1>3 DEF GivenSoFar
<1>5. senders' = ss /\ receivers' = rs
    BY <1>1, SettleQueues
<1>6. Kept(recvLog, R) = Kept(recvLog, Received) \o rs
  <2>1. Received \subseteq R /\ R \subseteq Served
      BY <1>1 DEF Received, Served
  <2>2. \A o \in ToSet(receivers) : o \in R <=> o \in Op \ W
      BY QueueTypes DEF Served, Op
  <2> HIDE DEF R
  <2>3. Kept(recvLog, R) = Kept(recvLog, Received) \o Kept(receivers, R)
      BY <2>1, SomeServed
  <2>4. Kept(receivers, R) = Kept(receivers, Op \ W)
      BY <2>2, QueueTypes, KeptSame
  <2> QED
      BY <2>3, <2>4
<1>7. Kept(sendLog', Accepted') = ((GivenSoFar' \o released') \o buffer') \o senders'
  <2>1. V \subseteq ToSet(senders)
      BY <1>1, QueueTypes DEF Op
  <2>2. \A o \in ToSet(senders) : o \in SendOp \ V <=> o \in Op \ W
      BY QueueTypes DEF Op
  <2> HIDE DEF V, ss, rs
  <2>3. Kept(sendLog, Accepted \ V)
          = ((GivenSoFar \o released) \o buffer) \o Kept(senders, SendOp \ V)
      BY <2>1, SendersLeave
  <2>4. Kept(senders, SendOp \ V) = ss
      BY <2>2, QueueTypes, KeptSame DEF ss
  <2>5. ss \in Seq(Values) /\ GivenSoFar \in Seq(Values) /\ buffer \in Seq(Values)
      BY LineTypes, KeptType DEF ss
  <2>6. ((GivenSoFar \o released') \o buffer') \o senders'
          = ((GivenSoFar \o released) \o buffer) \o ss
      BY <1>1, <2>5, SettleLine
  <2> QED
      BY <1>1, <1>3, <1>4, <2>3, <2>4, <2>6
<1>8. /\ IsInjective(sendLog')
      /\ \A o \in SendOp : status'[o] = "idle" => o \notin ToSet(sendLog')
      /\ \A r \in RecvOp : status'[r] = "idle" => r \notin ToSet(recvLog')
  <2>1. \A o \in Op : status'[o] = "idle" => status[o] = "idle"
      BY <1>2
  <2> QED
      BY <1>1, <2>1, Logs
<1>9. ~destroyed' => released' = <<>>
    BY <1>1, SettleReleased
<1> QED
    BY <1>1, <1>3, <1>5, <1>6, <1>7, <1>8, <1>9 DEF LineInv

\* Received values and those on their way stay as they are when only the
\* blocked receives change.
LEMMA LineStays ==
    ASSUME TypeOK, LineInv, recvLog' = recvLog, sendLog' = sendLog, got' = got,
           Received' = Received, Accepted' = Accepted,
           NEW h, Settle(buffer, senders, receivers', h)
    PROVE  /\ Kept(sendLog', Accepted')
                = ((GivenSoFar' \o released') \o buffer') \o senders'
           /\ ~destroyed' => released' = <<>>
<1>1. GivenSoFar' = GivenSoFar
    BY DEF GivenSoFar
<1>2. /\ GivenSoFar \in Seq(Values) /\ buffer \in Seq(Values) /\ senders \in Seq(Values)
    BY LineTypes
<1>3. ((GivenSoFar \o released') \o buffer') \o senders'
        = ((GivenSoFar \o released) \o buffer) \o senders
    BY <1>2, SettleLine
<1>4. ~destroyed' => released' = <<>>
    BY SettleReleased
<1> QED
    BY <1>1, <1>3, <1>4 DEF LineInv

LEMMA CloseLine ==
    ASSUME Context, Close
    PROVE  LineInv'
<1>1. /\ TypeOK /\ LineInv /\ WaitingIsQueued /\ NobodyWaitsInVain
      /\ sendLog' = sendLog /\ recvLog' = recvLog
    BY DEF Context, Close
<1>2. /\ status' = [o \in Op |-> IF o \in ToSet(senders) THEN "faulted"
                                 ELSE IF o \in ToSet(receivers) THEN "eof" ELSE status[o]]
      /\ got' = got
      /\ Settle(buffer, <<>>, <<>>, handles)
    BY <1>1, CloseStep DEF Context
<1>3. /\ \A v \in SendOp : status'[v] = IF v \in ToSet(senders) THEN "faulted" ELSE status[v]
      /\ \A r \in RecvOp : status'[r] = IF r \in ToSet(receivers) THEN "eof" ELSE status[r]
    BY <1>1, <1>2, QueueTypes DEF Op
<1>4. /\ Accepted' = Accepted \ ToSet(senders)
      /\ Received' = Received /\ Served' = Received
    BY <1>1, <1>3, QueueTypes DEF Accepted, Received, Served
<1>5. GivenSoFar' = GivenSoFar
    BY <1>1, <1>2, <1>4 DEF GivenSoFar
<1>6. senders' = <<>> /\ receivers' = <<>>
    BY <1>2, SettleQueues
<1>7. Kept(sendLog', Accepted') = ((GivenSoFar' \o released') \o buffer') \o senders'
  <2> DEFINE S == ToSet(senders)
  <2>1. Kept(sendLog, Accepted \ S)
          = ((GivenSoFar \o released) \o buffer) \o Kept(senders, SendOp \ S)
      BY <1>1, SendersLeave
  <2>2. Kept(senders, SendOp \ S) = <<>>
      BY <1>1, QueueTypes, KeptNone
  <2>3. GivenSoFar \in Seq(Values) /\ buffer \in Seq(Values) /\ <<>> \in Seq(Values)
      BY <1>1, LineTypes, EmptySeq
  <2>4. ((GivenSoFar \o released') \o buffer') \o senders'
          = ((GivenSoFar \o released) \o buffer) \o <<>>
      BY <1>1, <1>2, <2>3, SettleLine
  <2> QED
      BY <1>1, <1>4, <1>5, <2>1, <2>2, <2>4
<1>8. Kept(recvLog', Served') = Kept(recvLog', Received') \o receivers'
  <2>1. Kept(recvLog, Received) \o <<>> = Kept(recvLog, Received)
      BY <1>1, LineTypes, ConcatEmptySeq
  <2> QED
      BY <1>1, <1>4, <1>6, <2>1
<1>9. /\ IsInjective(sendLog')
      /\ \A o \in SendOp : status'[o] = "idle" => o \notin ToSet(sendLog')
      /\ \A r \in RecvOp : status'[r] = "idle" => r \notin ToSet(recvLog')
  <2>1. \A o \in Op : status'[o] = "idle" => status[o] = "idle"
      BY <1>3 DEF Op
  <2> QED
      BY <1>1, <2>1, Logs
<1>10. ~destroyed' => released' = <<>>
    BY <1>1, <1>2, SettleReleased
<1> QED
    BY <1>7, <1>8, <1>9, <1>10 DEF LineInv

LEMMA HandlesLine ==
    ASSUME Context, Retain \/ Release
    PROVE  LineInv'
<1>1. /\ TypeOK /\ LineInv
      /\ sendLog' = sendLog /\ recvLog' = recvLog /\ got' = got /\ status' = status
    BY DEF Context, Retain, Release
<1>2. Received' = Received /\ Accepted' = Accepted /\ Served' = Served
    BY <1>1 DEF Received, Accepted, Served
<1>3. CASE Retain
  <2>1. /\ buffer' = buffer /\ senders' = senders /\ receivers' = receivers
        /\ released' = released /\ destroyed' = destroyed
      BY <1>3 DEF Retain, queues
  <2> QED
      BY <1>1, <1>2, <2>1 DEF LineInv, GivenSoFar
<1>4. CASE Release
  <2>1. Settle(buffer, senders, receivers', handles - 1) /\ receivers' = receivers
      BY <1>4 DEF Release, Settle
  <2>2. /\ Kept(sendLog', Accepted') = ((GivenSoFar' \o released') \o buffer') \o senders'
        /\ ~destroyed' => released' = <<>>
      BY <1>1, <1>2, <2>1, LineStays
  <2> QED
      BY <1>1, <1>2, <2>1, <2>2 DEF LineInv
<1> QED
    BY <1>3, <1>4

\* Every method keeps the line.
LEMMA LineStep == OwnWake /\ Context /\ [Next]_vars => LineInv'
<1> SUFFICES ASSUME OwnWake, Context, [Next]_vars PROVE LineInv'
    OBVIOUS
<1>1. ASSUME NEW v \in SendOp, Send(v) PROVE LineInv'
    BY <1>1, SendToClosedLine, SendToReceiverLine, SendToBufferLine, SendBlocksLine DEF Send
<1>2. ASSUME NEW r \in RecvOp, Recv(r) PROVE LineInv'
    BY <1>2, ReceiveBufferedLine, ReceiveFromSenderLine, ReceiveClosedLine,
       ReceiveBlocksLine DEF Recv
<1>3. CASE UNCHANGED vars
    BY <1>3 DEF Context, LineInv, GivenSoFar, Received, Accepted, Served, vars, queues
<1>4. ASSUME NEW v \in SendOp, CancelSend(v) PROVE LineInv'
    BY <1>4, CancelSendWithdraws, WithdrawLine DEF Context
<1>5. ASSUME NEW r \in RecvOp, CancelReceive(r) PROVE LineInv'
    BY <1>5, CancelReceiveWithdraws, WithdrawLine DEF Context
<1> QED
    BY <1>1, <1>2, <1>3, <1>4, <1>5, CloseLine, HandlesLine DEF Next, Called

\* The line is kept by every step.
LEMMA LineKept == OwnWake => (Spec => []LineInv)
<1> SUFFICES ASSUME OwnWake PROVE Spec => []LineInv
    OBVIOUS
<1>1. Init => LineInv
  <2> SUFFICES ASSUME Init PROVE LineInv
      OBVIOUS
  <2>1. /\ sendLog = <<>> /\ recvLog = <<>> /\ buffer = <<>> /\ senders = <<>>
        /\ receivers = <<>> /\ released = <<>>
      BY DEF Init
  <2>2. <<>> \in Seq(Values) /\ Len(<<>>) = 0 /\ <<>> \o <<>> = <<>>
      BY EmptySeq, ConcatEmptySeq
  <2>3. DOMAIN <<>> = {}
      BY <2>2, LenProperties
  <2>4. /\ Kept(sendLog, Accepted) = <<>> /\ Kept(recvLog, Received) = <<>>
        /\ Kept(recvLog, Served) = <<>>
      BY <2>1, KeptEmpty
  <2>5. GivenSoFar = <<>>
    <3>1. GivenSoFar = [i \in DOMAIN <<>> |-> got[<<>>[i]]]
        BY <2>4 DEF GivenSoFar, Given
    <3> QED
        BY <2>3, <3>1
  <2> QED
      BY <2>1, <2>2, <2>3, <2>4, <2>5, RangeEmpty DEF LineInv, IsInjective
<1>2. Context /\ [Next]_vars => LineInv'
    BY LineStep
<1> QED
    BY <1>1, <1>2, TypeCorrect, NobodyWaits, ReclaimedEmpty, WaitersAreQueued, PTL
       DEF Spec, Context

\* First in, first out, without loss or duplication (Channel.Fifo): the sends
\* that were accepted are, in the order of the calls, what the receives got, in
\* the order of theirs, then what was released with the channel, then what is
\* buffered, then what is blocked.
THEOREM FirstInFirstOut == OwnWake => (Spec => []Fifo)
<1>1. LineInv => Fifo
    BY DEF LineInv, Fifo, GivenSoFar, Given, Accepted, Received
<1> QED
    BY <1>1, LineKept, PTL

-----------------------------------------------------------------------------
(* The buffer and the blocked senders are the one line of FifoChannel.     *)

line == buffer \o senders

LEMMA HeadTailOfFirst ==
    ASSUME NEW X, NEW h \in X, NEW r \in Seq(X)
    PROVE  Head(<<h>> \o r) = h /\ Tail(<<h>> \o r) = r
<1> DEFINE e == <<h>>
           q == e \o r
<1>1. e \in Seq(X) /\ Len(e) = 1 /\ e[1] = h
    BY OneElement
<1> HIDE DEF e
<1>2. q \in Seq(X) /\ Len(q) = 1 + Len(r) /\ Len(r) \in Nat
    BY <1>1, ConcatProperties, LenProperties
<1>3. q[1] = h
    BY <1>1, <1>2, ConcatProperties
<1> HIDE DEF q
<1>4. q # <<>> /\ Head(q) = q[1]
    BY <1>2, EmptySeq
<1>5. Tail(q) \in Seq(X) /\ q = <<Head(q)>> \o Tail(q)
    BY <1>2, <1>4, Behead
<1>6. q = e \o Tail(q)
    BY <1>3, <1>4, <1>5 DEF e
<1>7. e \o Tail(q) = e \o r
    BY <1>6 DEF q
<1>8. Tail(q) = r
    BY <1>1, <1>5, <1>7, ConcatSimplifications
<1> QED
    BY <1>3, <1>4, <1>8 DEF q, e

LEMMA LineOfTwo ==
    ASSUME TypeOK
    PROVE  /\ line \in Seq(SendOp) /\ buffer \in Seq(SendOp) /\ senders \in Seq(SendOp)
           /\ receivers \in Seq(RecvOp)
           /\ line = <<>> <=> buffer = <<>> /\ senders = <<>>
           /\ buffer = <<>> => line = senders
           /\ senders = <<>> => line = buffer
           /\ buffer # <<>> => Head(line) = Head(buffer) /\ Tail(line) = Tail(buffer) \o senders
<1>1. /\ line \in Seq(SendOp) /\ buffer \in Seq(SendOp) /\ senders \in Seq(SendOp)
      /\ receivers \in Seq(RecvOp)
    BY ConcatProperties DEF TypeOK, line
<1>2. line = <<>> <=> buffer = <<>> /\ senders = <<>>
    BY <1>1, ConcatEqualIffEmpty DEF line
<1>3. /\ buffer = <<>> => line = senders
      /\ senders = <<>> => line = buffer
    BY <1>1, ConcatEmptySeq DEF line
<1>4. ASSUME buffer # <<>>
      PROVE  Head(line) = Head(buffer) /\ Tail(line) = Tail(buffer) \o senders
  <2> DEFINE h == Head(buffer)
             t == Tail(buffer)
             r == t \o senders
  <2>1. h \in SendOp /\ t \in Seq(SendOp) /\ buffer = <<h>> \o t
      BY <1>1, <1>4, Behead
  <2>2. <<h>> \in Seq(SendOp) /\ r \in Seq(SendOp)
      BY <1>1, <2>1, OneElement, ConcatProperties
  <2>3. line = <<h>> \o r
    <3> DEFINE e == <<h>>
    <3>1. e \in Seq(SendOp) /\ t \in Seq(SendOp) /\ senders \in Seq(SendOp)
        BY <1>1, <2>1, <2>2
    <3>2. buffer = e \o t
        BY <2>1
    <3> HIDE DEF e, t
    <3>3. (e \o t) \o senders = e \o (t \o senders)
        BY <3>1, ConcatAssociative
    <3> QED
        BY <3>2, <3>3 DEF e, line
  <2> HIDE DEF h, t, r
  <2>4. Head(<<h>> \o r) = h /\ Tail(<<h>> \o r) = r
      BY <2>1, <2>2, HeadTailOfFirst
  <2> QED
      BY <2>3, <2>4 DEF h, t, r
<1> QED
    BY <1>1, <1>2, <1>3, <1>4

\* Settle leaves the line it was given, or reclaims a channel nobody uses.
LEMMA SettleGone ==
    ASSUME TypeOK, ~destroyed, NEW buf, NEW ss, NEW rs, NEW h, Settle(buf, ss, rs, h)
    PROVE  \/ ~destroyed' /\ destroyed' = destroyed /\ line' = buf \o ss /\ receivers' = rs
           \/ destroyed' = TRUE /\ line' = <<>> /\ receivers' = <<>> /\ h = 0
<1>1. destroyed \in BOOLEAN
    BY DEF TypeOK
<1>2. CASE ~Unowned(ss, rs, h)
    BY <1>1, <1>2 DEF Settle, line
<1>3. CASE Unowned(ss, rs, h)
  <2>1. /\ destroyed' = TRUE /\ buffer' = <<>> /\ senders' = <<>> /\ receivers' = <<>>
        /\ h = 0
      BY <1>3 DEF Settle, Unowned
  <2>2. <<>> \o <<>> = <<>>
      BY EmptySeq, ConcatEmptySeq
  <2> QED
      BY <2>1, <2>2 DEF line
<1> QED
    BY <1>2, <1>3

LEMMA SettleStays ==
    ASSUME TypeOK, NEW buf, NEW ss, NEW rs, NEW h, h # 0, Settle(buf, ss, rs, h)
    PROVE  destroyed' = destroyed /\ line' = buf \o ss /\ receivers' = rs
BY DEF Settle, Unowned, line, TypeOK

\* What the methods below start from.
OnLine == TypeOK /\ NobodyWaitsInVain /\ DestroyedIsEmpty /\ WaitingIsQueued

LEMMA InUse == ASSUME OnLine, handles > 0 PROVE ~destroyed /\ destroyed = FALSE /\ handles # 0
<1>1. ~(handles > 0 /\ handles = 0)
    OBVIOUS
<1> QED
    BY <1>1 DEF OnLine, DestroyedIsEmpty, TypeOK

LEMMA SendOnLine ==
    ASSUME OnLine, NEW v \in SendOp, Send(v)
    PROVE  [Line!FNext]_(Line!fvars)
<1>1. ~destroyed /\ destroyed = FALSE /\ handles # 0 /\ TypeOK
  <2>1. handles > 0
      BY DEF Send, SendToClosed, SendToReceiver, SendToBuffer, SendBlocks, SendCall, CanCall
  <2> QED
      BY <2>1, InUse DEF OnLine
<1>2. CASE SendToClosed(v)
    BY <1>2 DEF SendToClosed, queues, line, Line!fvars
<1>3. CASE SendToReceiver(v)
  <2>1. /\ ~closed /\ closed' = closed /\ receivers # <<>>
        /\ got' = [got EXCEPT ![Head(receivers)] = v]
        /\ Settle(buffer, senders, Tail(receivers), handles)
      BY <1>3 DEF SendToReceiver
  <2>2. destroyed' = destroyed /\ line' = line /\ receivers' = Tail(receivers)
    <3> DEFINE q == Tail(receivers)
    <3>1. Settle(buffer, senders, q, handles)
        BY <2>1
    <3> HIDE DEF q
    <3>2. destroyed' = destroyed /\ line' = buffer \o senders /\ receivers' = q
        BY <1>1, <3>1, SettleStays
    <3> QED
        BY <3>2 DEF q, line
  <2> QED
      BY <1>1, <2>1, <2>2 DEF Line!FNext, Line!InUse, Line!Offer, line
<1>4. CASE SendToBuffer(v)
  <2>1. /\ ~closed /\ closed' = closed /\ receivers = <<>> /\ receivers' = receivers
        /\ got' = got /\ destroyed' = destroyed
        /\ buffer' = Append(buffer, v) /\ senders' = senders
      BY <1>4 DEF SendToBuffer
  <2>2. senders = <<>>
    <3>1. capacity \in Nat /\ Len(buffer) \in Nat
        BY <1>1, ChannelAssumption, LenProperties DEF TypeOK, ChannelAssumption
    <3>2. Len(buffer) < capacity
        BY <1>4 DEF SendToBuffer, HasRoom
    <3> QED
        BY <3>1, <3>2 DEF OnLine, NobodyWaitsInVain
  <2>3. line = buffer /\ Append(buffer, v) \in Seq(SendOp)
      BY <1>1, <2>2, LineOfTwo, AppendProperties
  <2>4. line' = Append(line, v)
      BY <2>1, <2>2, <2>3, ConcatEmptySeq DEF line
  <2> QED
      BY <1>1, <2>1, <2>4 DEF Line!FNext, Line!InUse, Line!Offer, line
<1>5. CASE SendBlocks(v)
  <2>1. /\ ~closed /\ closed' = closed /\ receivers = <<>> /\ receivers' = receivers
        /\ got' = got /\ destroyed' = destroyed
        /\ buffer' = buffer /\ senders' = Append(senders, v)
      BY <1>5 DEF SendBlocks
  <2>2. buffer \o Append(senders, v) = Append(buffer \o senders, v)
      BY <1>1, LineOfTwo, AppendConcat
  <2>3. line' = Append(line, v)
      BY <2>1, <2>2 DEF line
  <2> QED
      BY <1>1, <2>1, <2>3 DEF Line!FNext, Line!InUse, Line!Offer, line
<1> QED
    BY <1>2, <1>3, <1>4, <1>5 DEF Send

LEMMA RecvOnLine ==
    ASSUME OnLine, NEW r \in RecvOp, Recv(r)
    PROVE  [Line!FNext]_(Line!fvars)
<1>1. ~destroyed /\ destroyed = FALSE /\ handles # 0 /\ TypeOK
  <2>1. handles > 0
      BY DEF Recv, ReceiveBuffered, ReceiveFromSender, ReceiveClosed, ReceiveBlocks,
             RecvCall, CanCall
  <2> QED
      BY <2>1, InUse DEF OnLine
<1>2. ASSUME line # <<>>, closed' = closed, receivers' = receivers, destroyed' = destroyed,
             got' = [got EXCEPT ![r] = Head(line)], line' = Tail(line)
      PROVE  Line!FNext
    BY <1>1, <1>2 DEF Line!FNext, Line!InUse, Line!Take, line
<1>3. CASE ReceiveBuffered(r)
  <2>1. /\ closed' = closed /\ buffer # <<>>
        /\ got' = [got EXCEPT ![r] = Head(buffer)]
      BY <1>3 DEF ReceiveBuffered, Receive
  <2>2. /\ line # <<>> /\ Head(line) = Head(buffer) /\ Tail(line) = Tail(buffer) \o senders
        /\ Tail(buffer) \in Seq(SendOp) /\ senders \in Seq(SendOp)
    <3>1. buffer \in Seq(SendOp)
        BY <1>1, LineOfTwo
    <3> QED
        BY <1>1, <2>1, <3>1, LineOfTwo, HeadTailProperties
  <2>3. CASE senders # <<>> /\ ~closed
    <3> DEFINE t == Tail(buffer)
               buf == Append(t, Head(senders))
               u == Tail(senders)
    <3>1. Settle(buf, u, receivers, handles)
        BY <1>3, <2>3 DEF ReceiveBuffered
    <3>2. t \o senders = buf \o u
        BY <2>2, <2>3, Shift
    <3> HIDE DEF t, buf, u
    <3>3. destroyed' = destroyed /\ line' = buf \o u /\ receivers' = receivers
        BY <1>1, <3>1, SettleStays
    <3>4. line' = Tail(line)
        BY <2>2, <3>2, <3>3 DEF t
    <3> QED
        BY <1>2, <2>1, <2>2, <3>3, <3>4
  <2>4. CASE ~(senders # <<>> /\ ~closed)
    <3>1. Settle(Tail(buffer), senders, receivers, handles)
        BY <1>3, <2>4 DEF ReceiveBuffered
    <3>2. destroyed' = destroyed /\ line' = Tail(buffer) \o senders /\ receivers' = receivers
        BY <1>1, <3>1, SettleStays
    <3> QED
        BY <1>2, <2>1, <2>2, <3>2
  <2> QED
      BY <2>3, <2>4
<1>4. CASE ReceiveFromSender(r)
  <2>1. /\ closed' = closed /\ buffer = <<>> /\ senders # <<>>
        /\ got' = [got EXCEPT ![r] = Head(senders)]
        /\ Settle(buffer, Tail(senders), receivers, handles)
      BY <1>4 DEF ReceiveFromSender, Receive
  <2>2. line = senders /\ line # <<>>
      BY <1>1, <2>1, LineOfTwo
  <2>3. destroyed' = destroyed /\ line' = <<>> \o Tail(senders) /\ receivers' = receivers
      BY <1>1, <2>1, SettleStays
  <2>4. Tail(senders) \in Seq(SendOp) /\ <<>> \o Tail(senders) = Tail(senders)
    <3>1. senders \in Seq(SendOp)
        BY <1>1, LineOfTwo
    <3>2. Tail(senders) \in Seq(SendOp)
        BY <2>1, <3>1, HeadTailProperties
    <3> QED
        BY <3>2, ConcatEmptySeq
  <2> QED
      BY <1>2, <2>1, <2>2, <2>3, <2>4
<1>5. CASE ReceiveClosed(r)
    BY <1>5 DEF ReceiveClosed, queues, line, Line!fvars
<1>6. CASE ReceiveBlocks(r)
  <2>1. /\ ~closed /\ closed' = closed /\ buffer = <<>> /\ senders = <<>>
        /\ receivers' = Append(receivers, r)
        /\ buffer' = buffer /\ senders' = senders /\ destroyed' = destroyed /\ got' = got
      BY <1>6 DEF ReceiveBlocks
  <2>2. line = <<>> /\ line' = line
      BY <1>1, <2>1, LineOfTwo DEF line
  <2> QED
      BY <1>1, <2>1, <2>2 DEF Line!FNext, Line!InUse, Line!Take, line
<1> QED
    BY <1>3, <1>4, <1>5, <1>6 DEF Recv

\* A withdrawal, and what happens to a channel whose last registration it was.
LEMMA Withdrawn ==
    ASSUME OnLine, ~destroyed, NEW W \in SUBSET Op,
           NEW ss, ss = Kept(senders, Op \ W), NEW rs, rs = Kept(receivers, Op \ W),
           W \cap ToSet(buffer) = {},
           closed' = closed, got' = got, NEW h, Settle(buffer, ss, rs, h)
    PROVE  [Line!FNext]_(Line!fvars)
<1>1. TypeOK /\ destroyed = FALSE
    BY DEF OnLine, TypeOK
<1>2. \/ ~destroyed' /\ destroyed' = destroyed /\ line' = buffer \o ss /\ receivers' = rs
      \/ destroyed' = TRUE /\ line' = <<>> /\ receivers' = <<>>
    BY <1>1, SettleGone
<1>3. Kept(line, Op \ W) = buffer \o ss
  <2> DEFINE S == Op \ W
  <2>1. buffer \in Seq(SendOp) /\ senders \in Seq(SendOp)
      BY <1>1, LineOfTwo
  <2>2. ToSet(buffer) \subseteq S
      BY <2>1, RangeIn DEF Op
  <2> HIDE DEF S
  <2>3. Kept(buffer \o senders, S) = Kept(buffer, S) \o Kept(senders, S)
      BY <2>1, KeptConcat
  <2>4. Kept(buffer, S) = buffer
      BY <2>1, <2>2, KeptAll
  <2> QED
      BY <2>3, <2>4 DEF S, line
<1>4. CASE ~destroyed'
  <2>1. line' = Line!Without(line, W) /\ receivers' = Line!Without(receivers, W)
    <3>1. Line!Without(line, W) = Kept(line, Op \ W)
        BY DEF Line!Without, Op, Line!Kept, Kept
    <3>2. Line!Without(receivers, W) = Kept(receivers, Op \ W)
        BY DEF Line!Without, Op, Line!Kept, Kept
    <3> QED
        BY <1>2, <1>3, <1>4, <3>1, <3>2
  <2> QED
      BY <1>1, <1>2, <1>4, <2>1 DEF Line!FNext, Line!InUse, Line!Withdraw, line, Op
<1>5. CASE destroyed'
  <2>1. destroyed' = TRUE /\ line' = <<>> /\ receivers' = <<>>
      BY <1>2, <1>5
  <2> QED
      BY <1>1, <2>1 DEF Line!FNext, Line!Discard, line
<1> QED
    BY <1>4, <1>5

\* No value is buffered while its sender is still blocked with it.
LEMMA BufferApart ==
    ASSUME TypeOK, LineInv
    PROVE  ToSet(buffer) \cap ToSet(senders) = {}
<1> DEFINE g == GivenSoFar \o released
           a == Kept(sendLog, Accepted)
           b == g \o buffer
<1>1. /\ g \in Seq(Values) /\ buffer \in Seq(Values) /\ senders \in Seq(Values)
      /\ sendLog \in Seq(SendOp)
    BY LineTypes, ConcatProperties
<1>2. a = b \o senders /\ IsInjective(a)
    BY <1>1, KeptInjective DEF LineInv
<1> HIDE DEF g, a
<1>3. b \in Seq(Values) /\ ToSet(b) = ToSet(g) \cup ToSet(buffer)
    BY <1>1, ConcatProperties, RangeConcat
<1> HIDE DEF b
<1>4. IsInjective(b \o senders) => ToSet(b) \cap ToSet(senders) = {}
    BY <1>1, <1>3, InjectiveConcat
<1> QED
    BY <1>2, <1>3, <1>4

LEMMA WithdrawOnLine ==
    ASSUME OnLine, LineInv, ~destroyed, NEW W, NEW h, Withdraws(W, h)
    PROVE  [Line!FNext]_(Line!fvars)
<1> DEFINE ss == Kept(senders, Op \ W)
           rs == Kept(receivers, Op \ W)
<1>1. /\ W \in SUBSET Op /\ closed' = closed /\ got' = got /\ Settle(buffer, ss, rs, h)
    BY DEF Withdraws
<1>2. W \cap ToSet(buffer) = {}
  <2>1. TypeOK /\ WaitingIsQueued
      BY DEF OnLine
  <2>2. ToSet(buffer) \subseteq SendOp /\ SendOp \cap RecvOp = {}
      BY <2>1, QueueTypes, RangeIn
  <2>3. \A o \in W : o \in ToSet(senders) \/ o \in RecvOp
      BY <2>1, QueueTypes DEF Withdraws, Op
  <2> QED
      BY <2>1, <2>2, <2>3, BufferApart
<1> HIDE DEF ss, rs
<1> QED
    BY <1>1, <1>2, Withdrawn DEF ss, rs

LEMMA CloseOnLine ==
    ASSUME OnLine, Close
    PROVE  [Line!FNext]_(Line!fvars)
<1>1. ~destroyed /\ destroyed = FALSE /\ handles # 0 /\ TypeOK /\ ~closed /\ closed' = TRUE
  <2>1. handles > 0 /\ ~closed /\ closed' = TRUE
      BY DEF Close
  <2> QED
      BY <2>1, InUse DEF OnLine
<1>2. got' = got /\ Settle(buffer, <<>>, <<>>, handles)
    BY <1>1, CloseStep DEF OnLine
<1>3. /\ buffer \in Seq(SendOp) /\ senders \in Seq(SendOp)
      /\ Len(buffer) \in Nat /\ Len(senders) \in Nat /\ Len(line) = Len(buffer) + Len(senders)
      /\ buffer \o <<>> = buffer
    BY <1>1, LineOfTwo, LenProperties, ConcatProperties, ConcatEmptySeq DEF line
<1>4. destroyed' = destroyed /\ line' = buffer /\ receivers' = <<>>
    BY <1>1, <1>2, <1>3, SettleStays
<1>5. SubSeq(line, 1, Len(buffer)) = buffer
  <2>1. CASE Len(buffer) = 0
    <3>1. buffer = <<>>
        BY <1>3, <2>1, EmptySeq
    <3>2. SubSeq(line, 1, 0) = <<>>
        BY SubSeqEmpty
    <3> QED
        BY <2>1, <3>1, <3>2
  <2>2. CASE Len(buffer) # 0
    <3>1. 1 \in 1..Len(buffer) /\ Len(buffer) \in 1..Len(buffer)
        BY <1>3, <2>2
    <3>2. SubSeq(buffer \o senders, 1, Len(buffer)) = SubSeq(buffer, 1, Len(buffer))
        BY <1>3, <3>1, SubSeqOfConcat1
    <3> QED
        BY <1>3, <3>2, SubSeqFull DEF line
  <2> QED
      BY <2>1, <2>2
<1>6. Len(buffer) \in 0..Len(line)
    BY <1>3
<1>7. \E n \in 0..Len(line) : line' = SubSeq(line, 1, n)
    BY <1>4, <1>5, <1>6
<1> QED
    BY <1>1, <1>2, <1>4, <1>7 DEF Line!FNext, Line!InUse, Line!Shut, line

LEMMA HandlesOnLine ==
    ASSUME OnLine, Retain \/ Release
    PROVE  [Line!FNext]_(Line!fvars)
<1>1. CASE Retain
    BY <1>1 DEF Retain, queues, Line!fvars, line
<1>2. CASE Release
  <2>1. /\ ~destroyed /\ destroyed = FALSE /\ TypeOK /\ closed' = closed /\ got' = got
        /\ Settle(buffer, senders, receivers, handles - 1)
      BY <1>2, InUse DEF Release, OnLine
  <2>2. \/ destroyed' = destroyed /\ line' = line /\ receivers' = receivers
        \/ destroyed' = TRUE /\ line' = <<>> /\ receivers' = <<>>
      BY <2>1, SettleGone DEF line
  <2> QED
      BY <2>1, <2>2 DEF Line!FNext, Line!Discard, Line!fvars, line
<1> QED
    BY <1>1, <1>2

\* Every method takes a step of the line or none.
LEMMA OneLineStep == OwnWake /\ OnLine /\ LineInv /\ [Next]_vars => [Line!FNext]_(Line!fvars)
<1> SUFFICES ASSUME OwnWake, OnLine, LineInv, [Next]_vars PROVE [Line!FNext]_(Line!fvars)
    OBVIOUS
<1>1. CASE UNCHANGED vars
    BY <1>1 DEF vars, queues, Line!fvars
<1>2. ASSUME NEW o \in Op, status[o] = "waiting" PROVE ~destroyed
  <2>1. o \in ToSet(senders) \/ o \in ToSet(receivers)
      BY <1>2, QueueTypes DEF OnLine, Op
  <2> QED
      BY <2>1, RangeEmpty DEF OnLine, DestroyedIsEmpty
<1>3. ASSUME NEW v \in SendOp, CancelSend(v) PROVE [Line!FNext]_(Line!fvars)
  <2>1. Withdraws({v}, handles) /\ status[v] = "waiting"
      BY <1>3, CancelSendWithdraws DEF OnLine, CancelSend
  <2> QED
      BY <1>2, <2>1, WithdrawOnLine DEF Op
<1>4. ASSUME NEW r \in RecvOp, CancelReceive(r) PROVE [Line!FNext]_(Line!fvars)
  <2>1. Withdraws({r}, handles) /\ status[r] = "waiting"
      BY <1>4, CancelReceiveWithdraws DEF OnLine, CancelReceive
  <2> QED
      BY <1>2, <2>1, WithdrawOnLine DEF Op
<1> QED
    BY <1>1, <1>3, <1>4, SendOnLine, RecvOnLine, CloseOnLine, HandlesOnLine DEF Next, Called

\* The channel is one line of values (Channel.OneLine): under the mapping that
\* joins the buffer and the blocked senders, it starts as FifoChannel does, and
\* every method takes a step of it or none.
THEOREM ChannelIsOneLine == OwnWake => (Spec => OneLine)
<1> SUFFICES ASSUME OwnWake PROVE Spec => OneLine
    OBVIOUS
<1>1. Init => Line!FInit
  <2>1. <<>> \o <<>> = <<>>
      BY EmptySeq, ConcatEmptySeq
  <2> QED
      BY <2>1 DEF Init, Line!FInit
<1>2. OnLine /\ LineInv /\ [Next]_vars => [Line!FNext]_(Line!fvars)
    BY OneLineStep
<1> QED
    BY <1>1, <1>2, TypeCorrect, NobodyWaits, ReclaimedEmpty, WaitersAreQueued, LineKept, PTL
       DEF Spec, OnLine, OneLine, Line!FSpec

-----------------------------------------------------------------------------
(* The tasks of a block and their channel: the inductive invariant.        *)

\* What is shown above of a channel.
ChannelInv ==
    /\ TypeOK
    /\ NobodyWaitsInVain
    /\ DestroyedIsEmpty
    /\ EndIsDrained
    /\ WaitingIsQueued
    /\ LineInv

\* TTypeOK without the types of the channel, in two parts.
RunQueue ==
    /\ state \in [Task -> {"pending", "running"} \cup Ended]
    /\ cancelReq \in [Task -> BOOLEAN]
    /\ pending \in [Task -> Op \cup {NoOp}]
    /\ runnable \in Seq(Task) /\ IsInjective(runnable)
    /\ \A t \in ToSet(runnable) : ~terminal(t) /\ t # current
    /\ current \in Task \cup {Nobody}
    /\ current # Nobody => state[current] = "running" /\ ~cancelReq[current]

Counts ==
    /\ holds \in [Task -> SUBSET SendOp]
    /\ refs \in [SendOp -> Int]
    /\ rootHandle \in {0, 1}

\* A task is suspended on the operation that waits for it, which is one of its
\* own; it is not queued while the operation waits, and is never lost: who has
\* not ended is queued, runs or waits.
Suspensions ==
    /\ \A op \in Op : Waiting(op) => /\ pending[by[op]] = op
                                     /\ state[by[op]] = "running" /\ ~cancelReq[by[op]]
    /\ \A t \in Task : pending[t] \in Op => by[pending[t]] = t /\ state[t] = "running"
    /\ \A t \in ToSet(runnable) : pending[t] \in Op => ~Waiting(pending[t])
    /\ current # Nobody => pending[current] = NoOp
    /\ \A t \in Live : \/ t \in ToSet(runnable) \/ t = current
                       \/ pending[t] \in Op /\ Waiting(pending[t])

\* Every task that has not ended keeps the channel alive.
HandlesHeld == handles \in Nat /\ handles >= rootHandle + Cardinality(Live)

Tasks == RunQueue /\ Suspensions /\ HandlesHeld

TaskInv == ChannelInv /\ Counts /\ Tasks

-----------------------------------------------------------------------------
(* Queues of tasks.                                                        *)

TasksOf(ops) == [i \in DOMAIN ops |-> by[ops[i]]]

LEMMA TasksOfType ==
    ASSUME NEW ops \in Seq(Op), IsInjective(ops),
           \A op1, op2 \in ToSet(ops) : by[op1] = by[op2] => op1 = op2
    PROVE  /\ TasksOf(ops) \in Seq(Task) /\ IsInjective(TasksOf(ops))
           /\ ToSet(TasksOf(ops)) = {by[o] : o \in ToSet(ops)}
<1>1. /\ Len(ops) \in Nat /\ DOMAIN ops = 1..Len(ops)
      /\ \A i \in DOMAIN ops : ops[i] \in Op /\ ops[i] \in ToSet(ops)
    BY LenProperties, ElementOfSeq DEF ToSet
<1>2. by \in [Op -> Task]
    BY TaskAssumption DEF TaskAssumption
<1>3. TasksOf(ops) \in Seq(Task)
  <2>1. \A i \in 1..Len(ops) : by[ops[i]] \in Task
      BY <1>1, <1>2
  <2> QED
      BY <1>1, <2>1, IsASeq DEF TasksOf
<1>4. DOMAIN TasksOf(ops) = DOMAIN ops /\ \A i \in DOMAIN ops : TasksOf(ops)[i] = by[ops[i]]
    BY DEF TasksOf
<1>5. ToSet(TasksOf(ops)) = {by[o] : o \in ToSet(ops)}
    BY <1>1, <1>4 DEF ToSet
<1>6. IsInjective(TasksOf(ops))
    BY <1>1, <1>4 DEF IsInjective
<1> QED
    BY <1>3, <1>5, <1>6

\* Two sequences of tasks without a common element, one after the other.
LEMMA Enqueued ==
    ASSUME NEW q \in Seq(Task), NEW r \in Seq(Task), IsInjective(q), IsInjective(r),
           ToSet(q) \cap ToSet(r) = {}
    PROVE  /\ q \o r \in Seq(Task) /\ IsInjective(q \o r)
           /\ ToSet(q \o r) = ToSet(q) \cup ToSet(r)
BY ConcatProperties, InjectiveConcat, RangeConcat

\* The tasks of operations that wait: each has one, none is queued or runs.
LEMMA WaitersApart ==
    ASSUME RunQueue, Suspensions
    PROVE  /\ \A op1, op2 \in Op : Waiting(op1) /\ Waiting(op2) /\ by[op1] = by[op2]
                => op1 = op2
           /\ \A op \in Op : Waiting(op) =>
                /\ by[op] \in Task /\ by[op] \notin ToSet(runnable) /\ by[op] # current
                /\ ~terminal(by[op]) /\ by[op] \in Live
<1>1. by \in [Op -> Task] /\ NoOp \notin Op
    BY TaskAssumption DEF TaskAssumption
<1>2. \A op1, op2 \in Op : Waiting(op1) /\ Waiting(op2) /\ by[op1] = by[op2] => op1 = op2
    BY DEF Suspensions
<1>3. ASSUME NEW op \in Op, Waiting(op)
      PROVE  /\ by[op] \in Task /\ by[op] \notin ToSet(runnable) /\ by[op] # current
             /\ ~terminal(by[op]) /\ by[op] \in Live
  <2>1. by[op] \in Task /\ pending[by[op]] = op /\ state[by[op]] = "running"
      BY <1>1, <1>3 DEF Suspensions
  <2>2. by[op] # current
      BY <1>1, <2>1 DEF Suspensions, Nobody, Task
  <2>3. by[op] \notin ToSet(runnable)
      BY <1>3, <2>1 DEF Suspensions
  <2> QED
      BY <2>1, <2>2, <2>3 DEF terminal, Ended, Live
<1> QED
    BY <1>2, <1>3

\* The wakes of a channel method put the tasks of the resolved operations at
\* the end of the run queue.
LEMMA Woken ==
    ASSUME RunQueue, Suspensions, NEW q \in Seq(Op), IsInjective(q),
           \A op \in ToSet(q) : Waiting(op), Wake(q)
    PROVE  /\ runnable' \in Seq(Task) /\ IsInjective(runnable')
           /\ ToSet(runnable') = ToSet(runnable)
                \cup {by[op] : op \in {o \in ToSet(q) : status'[o] # "waiting"}}
<1> DEFINE R == {op \in Op : status'[op] # "waiting"}
           ops == Kept(q, R)
<1>1. ops \in Seq(Op) /\ IsInjective(ops) /\ ToSet(ops) = ToSet(q) \cap R
  <2> HIDE DEF R
  <2> QED
      BY KeptType, KeptInjective, KeptRange
<1>2. ToSet(q) \subseteq Op
    BY RangeIn
<1>3. ToSet(q) \cap R = {o \in ToSet(q) : status'[o] # "waiting"}
    BY <1>2
<1>4. runnable' = runnable \o TasksOf(ops)
    BY DEF Wake, schedule, TasksOf
<1> HIDE DEF ops
<1>5. \A op1, op2 \in ToSet(ops) : by[op1] = by[op2] => op1 = op2
    BY <1>1, <1>2, WaitersApart
<1>6. /\ TasksOf(ops) \in Seq(Task) /\ IsInjective(TasksOf(ops))
      /\ ToSet(TasksOf(ops)) = {by[o] : o \in ToSet(ops)}
    BY <1>1, <1>5, TasksOfType
<1>7. ToSet(runnable) \cap ToSet(TasksOf(ops)) = {}
    BY <1>1, <1>2, <1>6, WaitersApart
<1>8. runnable \in Seq(Task) /\ IsInjective(runnable)
    BY DEF RunQueue
<1> QED
    BY <1>1, <1>3, <1>4, <1>6, <1>7, <1>8, Enqueued

\* request_cancel puts the tasks of the withdrawn operations there.
LEMMA Cancelled ==
    ASSUME RunQueue, Suspensions, NEW q \in Seq(Task), IsInjective(q),
           ToSet(q) \subseteq ToSet(runnable),
           NEW W \in SUBSET Op, \A op \in W : Waiting(op),
           runnable' = q \o Ascending(MaxTask, {by[op] : op \in W})
    PROVE  /\ runnable' \in Seq(Task) /\ IsInjective(runnable')
           /\ ToSet(runnable') = ToSet(q) \cup {by[op] : op \in W}
<1> DEFINE S == {by[op] : op \in W}
           r == Ascending(MaxTask, S)
<1>1. MaxTask \in Nat /\ Task = 1..MaxTask
    BY TaskAssumption DEF TaskAssumption, Task
<1>2. S \subseteq Task /\ S \cap ToSet(runnable) = {}
    BY WaitersApart
<1> HIDE DEF S
<1>3. r \in Seq(Task) /\ IsInjective(r) /\ ToSet(r) = S \cap Task
    BY <1>1, AscendingOf
<1> HIDE DEF r
<1>4. q \o r \in Seq(Task) /\ IsInjective(q \o r) /\ ToSet(q \o r) = ToSet(q) \cup ToSet(r)
    BY <1>2, <1>3, Enqueued
<1> QED
    BY <1>2, <1>3, <1>4 DEF S, r

LEMMA LiveCount ==
    /\ IsFiniteSet(Live) /\ Cardinality(Live) \in Nat
    /\ Live # {} => Cardinality(Live) > 0
    /\ \A t \in Live : Cardinality(Live \ {t}) = Cardinality(Live) - 1
    /\ \A t : Live \ {t} # {} => Cardinality(Live \ {t}) > 0
<1>1. IsFiniteSet(Live)
  <2>1. IsFiniteSet(1..MaxTask)
    <3>1. 1 \in Int /\ MaxTask \in Int
        BY TaskAssumption DEF TaskAssumption
    <3> QED
        BY <3>1, FS_Interval
  <2> QED
      BY <2>1, FS_Subset DEF Live, Task
<1>2. \A X : IsFiniteSet(X) => Cardinality(X) \in Nat /\ (X # {} => Cardinality(X) > 0)
  <2>1. \A X : IsFiniteSet(X) => Cardinality(X) \in Nat
      BY FS_CardinalityType
  <2>2. \A X : IsFiniteSet(X) => (Cardinality(X) = 0 <=> X = {})
      BY FS_EmptySet
  <2> QED
      BY <2>1, <2>2
<1>3. \A t : IsFiniteSet(Live \ {t}) /\ (t \in Live => Cardinality(Live \ {t}) = Cardinality(Live) - 1)
    BY <1>1, FS_RemoveElement
<1> QED
    BY <1>1, <1>2, <1>3

\* While a task lives the channel has a handle.
LEMMA KeptAlive ==
    ASSUME ChannelInv, Counts, HandlesHeld, Live # {}
    PROVE  handles > 0 /\ handles \in 0..MaxHandles /\ ~destroyed /\ destroyed = FALSE
<1>1. Cardinality(Live) \in Nat /\ Cardinality(Live) > 0 /\ rootHandle \in {0, 1}
    BY LiveCount DEF Counts
<1>2. handles > 0
    BY <1>1 DEF HandlesHeld
<1> QED
    BY <1>2 DEF ChannelInv, TypeOK, DestroyedIsEmpty

-----------------------------------------------------------------------------
(* Steps of the tasks, by what they do to them.                            *)

\* Task t, that waits for nothing, ends, and the tasks in T are cancelled.
LEMMA TaskEnds ==
    ASSUME Tasks, Counts, NEW t \in Live, current \in {t, Nobody},
           \A op \in Op : Waiting(op) => by[op] # t,
           NEW q \in Seq(Task), IsInjective(q), ToSet(q) = ToSet(runnable) \ {t},
           NEW T \in SUBSET Task, t \notin T, NEW outcome \in Ended,
           state' = [state EXCEPT ![t] = outcome],
           pending' = [pending EXCEPT ![t] = NoOp],
           cancelReq' = [u \in Task |-> cancelReq[u] \/ u \in T],
           NEW W, W = {op \in Op : Waiting(op) /\ by[op] \in T},
           \A op \in Op : status'[op] = "waiting" <=> Waiting(op) /\ op \notin W,
           runnable' = q \o Ascending(MaxTask, {by[op] : op \in W}),
           current' = Nobody,
           NEW h \in {0, 1}, handles' = handles - h, rootHandle' = rootHandle
    PROVE  Tasks'
<1>1. RunQueue /\ Suspensions /\ HandlesHeld
    BY DEF Tasks
<1>2. /\ runnable' \in Seq(Task) /\ IsInjective(runnable')
      /\ ToSet(runnable') = (ToSet(runnable) \ {t}) \cup {by[op] : op \in W}
    BY <1>1, Cancelled
<1>3. /\ t \in Task /\ Live' = Live \ {t} /\ Nobody \notin Task
      /\ \A u \in Task : u # t => state'[u] = state[u] /\ pending'[u] = pending[u]
      /\ pending'[t] = NoOp /\ NoOp \notin Op
      /\ \A u \in Task : terminal(u)' <=> terminal(u) \/ u = t
    BY <1>1, TaskAssumption DEF RunQueue, Live, terminal, TaskAssumption, Nobody, Task
<1>4. /\ by \in [Op -> Task]
      /\ \A op \in W : op \in Op /\ Waiting(op) /\ by[op] \in T
    BY TaskAssumption DEF TaskAssumption
<1>5. RunQueue'
  <2>1. state' \in [Task -> {"pending", "running"} \cup Ended]
      BY <1>1 DEF RunQueue
  <2>2. cancelReq' \in [Task -> BOOLEAN] /\ pending' \in [Task -> Op \cup {NoOp}]
      BY <1>1 DEF RunQueue
  <2>3. \A u \in ToSet(runnable') : ~terminal(u)' /\ u # current'
    <3>1. ASSUME NEW u \in ToSet(runnable) \ {t} PROVE ~terminal(u)' /\ u \in Task
      <4>1. u \in Task
          BY <1>1, RangeIn DEF RunQueue
      <4> QED
          BY <1>1, <1>3, <4>1 DEF RunQueue
    <3>2. ASSUME NEW op \in W PROVE ~terminal(by[op])' /\ by[op] \in Task
        BY <1>1, <1>3, <1>4, WaitersApart
    <3> QED
        BY <1>2, <1>3, <3>1, <3>2
  <2> QED
      BY <1>2, <2>1, <2>2, <2>3 DEF RunQueue, Nobody
<1>6. Suspensions'
  <2>1. ASSUME NEW op \in Op, Waiting(op)'
        PROVE  pending'[by[op]] = op /\ state'[by[op]] = "running" /\ ~cancelReq'[by[op]]
    <3>1. Waiting(op) /\ op \notin W /\ by[op] \in Task
        BY <1>4, <2>1 DEF Waiting
    <3>2. by[op] # t /\ by[op] \notin T
        BY <3>1
    <3> QED
        BY <1>1, <1>3, <3>1, <3>2 DEF Suspensions
  <2>2. \A u \in Task : pending'[u] \in Op => by[pending'[u]] = u /\ state'[u] = "running"
      BY <1>1, <1>3 DEF Suspensions
  <2>3. ASSUME NEW u \in ToSet(runnable'), pending'[u] \in Op PROVE ~Waiting(pending[u])'
    <3>1. u \in Task
        BY <1>2, RangeIn
    <3>2. u # t /\ pending'[u] = pending[u]
        BY <1>3, <2>3, <3>1
    <3>3. CASE u \in ToSet(runnable)
        BY <1>1, <2>3, <3>2, <3>3 DEF Suspensions, Waiting
    <3>4. CASE u \notin ToSet(runnable)
      <4>1. PICK op \in W : u = by[op]
          BY <1>2, <2>3, <3>4
      <4>2. pending[u] = op
          BY <1>1, <1>4, <4>1 DEF Suspensions
      <4> QED
          BY <1>4, <3>2, <4>1, <4>2 DEF Waiting
    <3> QED
        BY <3>3, <3>4
  <2>4. ASSUME NEW u \in Live'
        PROVE  \/ u \in ToSet(runnable')
               \/ pending'[u] \in Op /\ Waiting(pending[u])'
    <3>1. u \in Live /\ u # t /\ u \in Task /\ pending'[u] = pending[u]
        BY <1>3, <2>4 DEF Live
    <3>2. u # current
        BY <1>3, <3>1
    <3>3. CASE u \in ToSet(runnable)
        BY <1>2, <3>1, <3>3
    <3>4. CASE pending[u] \in Op /\ Waiting(pending[u])
      <4>1. by[pending[u]] = u
          BY <1>1, <3>1, <3>4 DEF Suspensions
      <4> QED
          BY <1>2, <3>1, <3>4, <4>1 DEF Waiting
    <3> QED
        BY <1>1, <3>1, <3>2, <3>3, <3>4 DEF Suspensions
  <2> QED
      BY <2>1, <2>2, <2>3, <2>4 DEF Suspensions
<1>7. HandlesHeld'
  <2>1. /\ Cardinality(Live') = Cardinality(Live) - 1 /\ Cardinality(Live) \in Nat
        /\ Cardinality(Live) > 0
      BY <1>3, LiveCount
  <2> QED
      BY <1>1, <2>1 DEF HandlesHeld, Counts
<1> QED
    BY <1>5, <1>6, <1>7 DEF Tasks

\* The tasks in T are cancelled; none of them runs.
LEMMA TasksCancelled ==
    ASSUME Tasks, NEW T \in SUBSET Task, current \notin T,
           NEW W, W = {op \in Op : Waiting(op) /\ by[op] \in T},
           state' = state, pending' = pending, current' = current,
           cancelReq' = [u \in Task |-> cancelReq[u] \/ u \in T],
           \A op \in Op : status'[op] = "waiting" <=> Waiting(op) /\ op \notin W,
           runnable' = runnable \o Ascending(MaxTask, {by[op] : op \in W}),
           handles' = handles, rootHandle' = rootHandle
    PROVE  Tasks'
<1>1. RunQueue /\ Suspensions /\ HandlesHeld
    BY DEF Tasks
<1>2. /\ runnable' \in Seq(Task) /\ IsInjective(runnable')
      /\ ToSet(runnable') = ToSet(runnable) \cup {by[op] : op \in W}
  <2>1. /\ runnable \in Seq(Task) /\ IsInjective(runnable)
        /\ W \in SUBSET Op /\ \A op \in W : Waiting(op)
      BY <1>1 DEF RunQueue
  <2> QED
      BY <1>1, <2>1, Cancelled
<1>3. Live' = Live /\ \A u : terminal(u)' <=> terminal(u)
    BY DEF Live, terminal
<1>4. /\ by \in [Op -> Task]
      /\ \A op \in W : op \in Op /\ Waiting(op) /\ by[op] \in T
    BY TaskAssumption DEF TaskAssumption
<1>5. RunQueue'
  <2>1. \A u \in ToSet(runnable') : ~terminal(u)' /\ u # current'
      BY <1>1, <1>2, <1>3, <1>4, WaitersApart DEF RunQueue
  <2>2. current' # Nobody => state'[current'] = "running" /\ ~cancelReq'[current']
      BY <1>1 DEF RunQueue
  <2> QED
      BY <1>1, <1>2, <2>1, <2>2 DEF RunQueue
<1>6. Suspensions'
  <2>1. \A op \in Op : Waiting(op)' =>
            pending'[by[op]] = op /\ state'[by[op]] = "running" /\ ~cancelReq'[by[op]]
      BY <1>1, <1>4 DEF Suspensions, Waiting
  <2>2. ASSUME NEW u \in ToSet(runnable'), pending'[u] \in Op PROVE ~Waiting(pending[u])'
    <3>1. CASE u \in ToSet(runnable)
        BY <1>1, <2>2, <3>1 DEF Suspensions, Waiting
    <3>2. CASE u \notin ToSet(runnable)
      <4>1. PICK op \in W : u = by[op]
          BY <1>2, <2>2, <3>2
      <4>2. pending[u] = op
          BY <1>1, <1>4, <4>1 DEF Suspensions
      <4> QED
          BY <1>4, <4>1, <4>2 DEF Waiting
    <3> QED
        BY <3>1, <3>2
  <2>3. ASSUME NEW u \in Live'
        PROVE  \/ u \in ToSet(runnable') \/ u = current'
               \/ pending'[u] \in Op /\ Waiting(pending[u])'
    <3>1. u \in Live /\ u \in Task
        BY <1>3, <2>3 DEF Live
    <3>2. CASE pending[u] \in Op /\ Waiting(pending[u])
      <4>1. by[pending[u]] = u
          BY <1>1, <3>1, <3>2 DEF Suspensions
      <4> QED
          BY <1>2, <3>1, <3>2, <4>1 DEF Waiting
    <3> QED
        BY <1>1, <1>2, <3>1, <3>2 DEF Suspensions
  <2> QED
      BY <1>1, <2>1, <2>2, <2>3 DEF Suspensions
<1>7. HandlesHeld'
    BY <1>1, <1>3 DEF HandlesHeld
<1> QED
    BY <1>5, <1>6, <1>7 DEF Tasks

\* The oldest queued task runs.
LEMMA TaskRuns ==
    ASSUME Tasks, NEW t, runnable # <<>>, t = Head(runnable), current = Nobody,
           ~cancelReq[t], Runs(t)
    PROVE  Tasks'
<1>1. RunQueue /\ Suspensions /\ HandlesHeld
    BY DEF Tasks
<1>2. /\ t \in Task /\ t \in ToSet(runnable)
      /\ runnable' \in Seq(Task) /\ IsInjective(runnable')
      /\ ToSet(runnable') = ToSet(runnable) \ {t}
  <2>1. runnable \in Seq(Task) /\ IsInjective(runnable) /\ runnable' = Tail(runnable)
      BY <1>1 DEF RunQueue, Runs
  <2>2. /\ t \in Task /\ Tail(runnable) \in Seq(Task) /\ t \in ToSet(runnable)
        /\ ToSet(runnable) = {t} \cup ToSet(Tail(runnable))
        /\ IsInjective(Tail(runnable)) /\ t \notin ToSet(Tail(runnable))
      BY <2>1, Behead
  <2>3. ToSet(Tail(runnable)) = ToSet(runnable) \ {t}
      BY <2>2
  <2> QED
      BY <2>1, <2>2, <2>3
<1>3. /\ state' = [state EXCEPT ![t] = "running"]
      /\ pending' = [pending EXCEPT ![t] = NoOp]
      /\ current' = t /\ cancelReq' = cancelReq /\ status' = status
      /\ handles' = handles /\ rootHandle' = rootHandle
    BY DEF Runs, chanVars
<1>4. ~terminal(t) /\ NoOp \notin Op /\ by \in [Op -> Task] /\ Nobody \notin Task
    BY <1>1, <1>2, TaskAssumption DEF RunQueue, TaskAssumption, Nobody, Task
<1>5. Live' = Live /\ \A u \in Task : terminal(u)' <=> terminal(u)
    BY <1>1, <1>2, <1>3, <1>4 DEF Live, terminal, RunQueue, Ended
<1>6. RunQueue'
  <2>1. \A u \in ToSet(runnable') : ~terminal(u)' /\ u # current'
    <3>1. \A u \in ToSet(runnable') : u \in Task /\ u \in ToSet(runnable) /\ u # t
        BY <1>2, RangeIn
    <3> QED
        BY <1>1, <1>3, <1>5, <3>1 DEF RunQueue
  <2>2. current' \in Task /\ state'[current'] = "running" /\ ~cancelReq'[current']
      BY <1>1, <1>2, <1>3 DEF RunQueue
  <2>3. /\ state' \in [Task -> {"pending", "running"} \cup Ended]
        /\ pending' \in [Task -> Op \cup {NoOp}] /\ cancelReq' \in [Task -> BOOLEAN]
      BY <1>1, <1>3 DEF RunQueue
  <2> QED
      BY <1>2, <2>1, <2>2, <2>3 DEF RunQueue
<1>7. Suspensions'
  <2>1. ASSUME NEW op \in Op, Waiting(op)'
        PROVE  pending'[by[op]] = op /\ state'[by[op]] = "running" /\ ~cancelReq'[by[op]]
    <3>1. Waiting(op) /\ by[op] \in Task
        BY <1>3, <1>4, <2>1 DEF Waiting
    <3>2. by[op] # t
        BY <1>1, <1>2, <3>1 DEF Suspensions
    <3> QED
        BY <1>1, <1>3, <3>1, <3>2 DEF Suspensions, RunQueue
  <2>2. \A u \in Task : pending'[u] \in Op => by[pending'[u]] = u /\ state'[u] = "running"
      BY <1>1, <1>3, <1>4 DEF Suspensions, RunQueue
  <2>3. \A u \in ToSet(runnable') : pending'[u] \in Op => ~Waiting(pending[u])'
    <3>1. \A u \in ToSet(runnable') : u \in Task /\ u \in ToSet(runnable) /\ u # t
        BY <1>2, RangeIn
    <3> QED
        BY <1>1, <1>3, <3>1 DEF Suspensions, Waiting, RunQueue
  <2>4. pending'[current'] = NoOp
      BY <1>1, <1>2, <1>3 DEF RunQueue
  <2>5. ASSUME NEW u \in Live'
        PROVE  \/ u \in ToSet(runnable') \/ u = current'
               \/ pending'[u] \in Op /\ Waiting(pending[u])'
    <3>1. u \in Live /\ u \in Task /\ u # current
        BY <1>4, <1>5, <2>5 DEF Live
    <3> QED
        BY <1>1, <1>2, <1>3, <3>1 DEF Suspensions, Waiting, RunQueue
  <2> QED
      BY <2>1, <2>2, <2>3, <2>4, <2>5 DEF Suspensions
<1>8. HandlesHeld'
    BY <1>1, <1>3, <1>5 DEF HandlesHeld
<1> QED
    BY <1>6, <1>7, <1>8 DEF Tasks

\* The running task resolves some of the waiting operations, whose tasks are
\* queued.
LEMMA TaskWakes ==
    ASSUME Tasks, state' = state, pending' = pending, cancelReq' = cancelReq,
           current' = current, handles' = handles, rootHandle' = rootHandle,
           NEW q \in Seq(Op), IsInjective(q), \A op \in ToSet(q) : Waiting(op), Wake(q),
           \A op \in Op : status'[op] = "waiting" => Waiting(op),
           \A op \in Op : Waiting(op) /\ status'[op] # "waiting" => op \in ToSet(q)
    PROVE  Tasks'
<1>1. RunQueue /\ Suspensions /\ HandlesHeld
    BY DEF Tasks
<1> DEFINE W == {o \in ToSet(q) : status'[o] # "waiting"}
<1>2. /\ runnable' \in Seq(Task) /\ IsInjective(runnable')
      /\ ToSet(runnable') = ToSet(runnable) \cup {by[op] : op \in W}
    BY <1>1, Woken
<1>3. /\ by \in [Op -> Task]
      /\ \A op \in W : op \in Op /\ Waiting(op) /\ status'[op] # "waiting"
      /\ \A op \in Op : Waiting(op) /\ status'[op] # "waiting" => op \in W
    BY RangeIn, TaskAssumption DEF TaskAssumption
<1> HIDE DEF W
<1>4. Live' = Live /\ \A u : terminal(u)' <=> terminal(u)
    BY DEF Live, terminal
<1>5. RunQueue'
  <2>1. \A u \in ToSet(runnable') : ~terminal(u)' /\ u # current'
      BY <1>1, <1>2, <1>3, <1>4, WaitersApart DEF RunQueue
  <2> QED
      BY <1>1, <1>2, <2>1 DEF RunQueue
<1>6. Suspensions'
  <2>1. \A op \in Op : Waiting(op)' =>
            pending'[by[op]] = op /\ state'[by[op]] = "running" /\ ~cancelReq'[by[op]]
      BY <1>1 DEF Suspensions, Waiting
  <2>2. ASSUME NEW u \in ToSet(runnable'), pending'[u] \in Op PROVE ~Waiting(pending[u])'
    <3>1. CASE u \in ToSet(runnable)
        BY <1>1, <2>2, <3>1 DEF Suspensions, Waiting
    <3>2. CASE u \notin ToSet(runnable)
      <4>1. PICK op \in W : u = by[op]
          BY <1>2, <2>2, <3>2
      <4>2. pending[u] = op
          BY <1>1, <1>3, <4>1 DEF Suspensions
      <4> QED
          BY <1>3, <4>1, <4>2 DEF Waiting
    <3> QED
        BY <3>1, <3>2
  <2>3. ASSUME NEW u \in Live'
        PROVE  \/ u \in ToSet(runnable') \/ u = current'
               \/ pending'[u] \in Op /\ Waiting(pending[u])'
    <3>1. u \in Live /\ u \in Task
        BY <1>4, <2>3 DEF Live
    <3>2. CASE pending[u] \in Op /\ Waiting(pending[u])
      <4>1. by[pending[u]] = u
          BY <1>1, <3>1, <3>2 DEF Suspensions
      <4> QED
          BY <1>2, <1>3, <3>1, <3>2, <4>1 DEF Waiting
    <3> QED
        BY <1>1, <1>2, <3>1, <3>2 DEF Suspensions
  <2> QED
      BY <1>1, <2>1, <2>2, <2>3 DEF Suspensions
<1>7. HandlesHeld'
    BY <1>1, <1>4 DEF HandlesHeld
<1> QED
    BY <1>5, <1>6, <1>7 DEF Tasks

\* The running task suspends itself on an operation of its own.
LEMMA TaskWaits ==
    ASSUME Tasks, NEW t \in Task, current = t, NEW op \in Op, by[op] = t,
           pending' = [pending EXCEPT ![t] = op], current' = Nobody,
           state' = state, cancelReq' = cancelReq, runnable' = runnable,
           handles' = handles, rootHandle' = rootHandle,
           \A o \in Op : status'[o] = "waiting" <=> Waiting(o) \/ o = op
    PROVE  Tasks'
<1>1. RunQueue /\ Suspensions /\ HandlesHeld
    BY DEF Tasks
<1>2. Live' = Live /\ (\A u : terminal(u)' <=> terminal(u)) /\ Nobody \notin Task
    BY DEF Live, terminal, Nobody, Task
<1>3. by \in [Op -> Task] /\ NoOp \notin Op /\ pending[t] = NoOp
    BY <1>1, <1>2, TaskAssumption DEF TaskAssumption, Suspensions
<1>4. \A o \in Op : Waiting(o) => by[o] # t
    BY <1>1, <1>3 DEF Suspensions
<1>5. state[t] = "running" /\ ~cancelReq[t] /\ t \notin ToSet(runnable)
    BY <1>1, <1>2 DEF RunQueue
<1>6. ToSet(runnable) \subseteq Task
    BY <1>1, RangeIn DEF RunQueue
<1>7. RunQueue'
  <2>1. \A u \in ToSet(runnable') : ~terminal(u)' /\ u # current'
      BY <1>1, <1>2, <1>6 DEF RunQueue
  <2>2. pending' \in [Task -> Op \cup {NoOp}]
      BY <1>1 DEF RunQueue
  <2> QED
      BY <1>1, <2>1, <2>2 DEF RunQueue
<1>8. \A u \in Task : pending'[u] = IF u = t THEN op ELSE pending[u]
    BY <1>1 DEF RunQueue
<1>9. Suspensions'
  <2>1. \A o \in Op : Waiting(o)' =>
            pending'[by[o]] = o /\ state'[by[o]] = "running" /\ ~cancelReq'[by[o]]
      BY <1>1, <1>3, <1>4, <1>5, <1>8 DEF Suspensions, Waiting
  <2>2. \A u \in Task : pending'[u] \in Op => by[pending'[u]] = u /\ state'[u] = "running"
      BY <1>1, <1>5, <1>8 DEF Suspensions
  <2>3. \A u \in ToSet(runnable') : pending'[u] \in Op => ~Waiting(pending[u])'
    <3>1. ASSUME NEW u \in ToSet(runnable), pending'[u] \in Op PROVE ~Waiting(pending[u])'
      <4>1. u # t /\ u \in Task /\ pending'[u] = pending[u]
          BY <1>5, <1>6, <1>8
      <4>2. by[pending[u]] = u /\ ~Waiting(pending[u])
          BY <1>1, <3>1, <4>1 DEF Suspensions
      <4> QED
          BY <3>1, <4>1, <4>2 DEF Waiting
    <3> QED
        BY <3>1
  <2>4. ASSUME NEW u \in Live'
        PROVE  \/ u \in ToSet(runnable')
               \/ pending'[u] \in Op /\ Waiting(pending[u])'
    <3>1. u \in Live /\ u \in Task
        BY <1>2, <2>4 DEF Live
    <3> QED
        BY <1>1, <1>8, <3>1 DEF Suspensions, Waiting
  <2> QED
      BY <2>1, <2>2, <2>3, <2>4 DEF Suspensions
<1>10. HandlesHeld'
    BY <1>1, <1>2 DEF HandlesHeld
<1> QED
    BY <1>7, <1>9, <1>10 DEF Tasks

LEMMA TaskYields ==
    ASSUME Tasks, NEW t \in Task, Yield(t)
    PROVE  Tasks'
<1>1. RunQueue /\ Suspensions /\ HandlesHeld
    BY DEF Tasks
<1>2. /\ current = t /\ current' = Nobody /\ runnable' = Append(runnable, t)
      /\ state' = state /\ cancelReq' = cancelReq /\ pending' = pending
      /\ status' = status /\ handles' = handles /\ rootHandle' = rootHandle
    BY DEF Yield, chanVars
<1>3. /\ Live' = Live /\ (\A u : terminal(u)' <=> terminal(u)) /\ Nobody \notin Task
      /\ NoOp \notin Op /\ \A o : Waiting(o)' <=> Waiting(o)
    BY <1>2, TaskAssumption DEF Live, terminal, Nobody, Task, TaskAssumption, Waiting
<1>4. state[t] = "running" /\ t \notin ToSet(runnable) /\ pending[t] = NoOp
    BY <1>1, <1>2, <1>3 DEF RunQueue, Suspensions
<1>5. /\ runnable' \in Seq(Task) /\ IsInjective(runnable')
      /\ ToSet(runnable') = ToSet(runnable) \cup {t}
  <2>1. runnable \in Seq(Task) /\ IsInjective(runnable)
      BY <1>1 DEF RunQueue
  <2> QED
      BY <1>2, <1>4, <2>1, AppendProperties, InjectiveAppend, RangeAppend
<1>6. ToSet(runnable) \subseteq Task /\ ~terminal(t)
    BY <1>1, <1>4, RangeIn DEF RunQueue, terminal, Ended
<1>7. RunQueue'
    BY <1>1, <1>2, <1>3, <1>5, <1>6 DEF RunQueue
<1>8. Suspensions'
  <2>1. \A u \in Task : pending[u] \in Op => (Waiting(pending[u])' <=> Waiting(pending[u]))
      BY <1>2 DEF Waiting
  <2> QED
      BY <1>1, <1>2, <1>3, <1>4, <1>5, <1>6, <2>1 DEF Suspensions, Live
<1>9. HandlesHeld'
    BY <1>1, <1>2, <1>3 DEF HandlesHeld
<1> QED
    BY <1>7, <1>8, <1>9 DEF Tasks

LEMMA TasksStay ==
    ASSUME Tasks, state' = state, cancelReq' = cancelReq, pending' = pending,
           runnable' = runnable, current' = current, status' = status,
           handles' \in Nat, handles' >= rootHandle' + Cardinality(Live)
    PROVE  Tasks'
<1>1. RunQueue'
    BY DEF Tasks, RunQueue, terminal
<1>2. Suspensions'
    BY DEF Tasks, Suspensions, Waiting, Live, terminal
<1>3. HandlesHeld'
    BY DEF HandlesHeld, Live, terminal
<1> QED
    BY <1>1, <1>2, <1>3 DEF Tasks

-----------------------------------------------------------------------------
(* Steps of the channel, as the tasks take them.                           *)

LineStutters == [Line!FNext]_(Line!fvars)

\* A method of the channel.
LEMMA MethodStep ==
    ASSUME ChannelInv, [Next]_vars
    PROVE  ChannelInv' /\ LineStutters
<1>1. /\ TypeOK /\ NobodyWaitsInVain /\ DestroyedIsEmpty /\ EndIsDrained
      /\ WaitingIsQueued /\ LineInv /\ OwnWake
    BY TaskAssumption DEF ChannelInv, TaskAssumption
<1>2. Context /\ OnLine
    BY <1>1 DEF Context, OnLine
<1>3. TypeOK' /\ NobodyWaitsInVain'
    BY <1>1, TypesStep, NobodyStep
<1>4. DestroyedIsEmpty' /\ EndIsDrained'
    BY <1>1, ReclaimedStep, EndStep
<1>5. WaitingIsQueued'
    BY <1>1, QueuedStep
<1>6. LineInv'
    BY <1>1, <1>2, LineStep
<1>7. [Line!FNext]_(Line!fvars)
    BY <1>1, <1>2, OneLineStep
<1> QED
    BY <1>3, <1>4, <1>5, <1>6, <1>7 DEF ChannelInv, LineStutters

\* A withdrawal of several registrations at once.
LEMMA WithdrawStep ==
    ASSUME ChannelInv, ~destroyed, NEW W, NEW h \in 0..MaxHandles, Withdraws(W, h),
           capacity' = capacity
    PROVE  ChannelInv' /\ LineStutters
<1>1. /\ TypeOK /\ NobodyWaitsInVain /\ DestroyedIsEmpty /\ EndIsDrained
      /\ WaitingIsQueued /\ LineInv /\ OnLine
    BY DEF ChannelInv, OnLine
<1>2. TypeOK' /\ NobodyWaitsInVain'
    BY <1>1, WithdrawTypes, WithdrawNobody
<1>3. DestroyedIsEmpty' /\ EndIsDrained'
    BY <1>1, WithdrawReclaimed, WithdrawEnd
<1>4. WaitingIsQueued' /\ LineInv'
    BY <1>1, WithdrawQueues, WithdrawLine
<1>5. [Line!FNext]_(Line!fvars)
    BY <1>1, WithdrawOnLine
<1> QED
    BY <1>2, <1>3, <1>4, <1>5 DEF ChannelInv, LineStutters

\* Who is queued waits, and nobody else.
LEMMA QueuedWait ==
    ASSUME ChannelInv
    PROVE  /\ senders \in Seq(Op) /\ receivers \in Seq(Op)
           /\ senders \in Seq(SendOp) /\ receivers \in Seq(RecvOp)
           /\ IsInjective(senders) /\ IsInjective(receivers)
           /\ ToSet(senders) = {v \in SendOp : Waiting(v)}
           /\ ToSet(receivers) = {r \in RecvOp : Waiting(r)}
<1>1. senders \in Seq(SendOp) /\ receivers \in Seq(RecvOp) /\ WaitingIsQueued
    BY DEF ChannelInv, TypeOK
<1>2. Seq(SendOp) \subseteq Seq(Op) /\ Seq(RecvOp) \subseteq Seq(Op)
    BY SeqMonotonic DEF Op
<1>3. ToSet(senders) \subseteq SendOp /\ ToSet(receivers) \subseteq RecvOp
    BY <1>1, RangeIn
<1> QED
    BY <1>1, <1>2, <1>3 DEF WaitingIsQueued, Waiting

\* The operations that request_cancel leaves in the queues.
LEMMA Staying ==
    ASSUME ChannelInv, NEW T, NEW W, W = {op \in Op : Waiting(op) /\ by[op] \in T}
    PROVE  /\ Kept(senders, {op \in Op : by[op] \notin T}) = Kept(senders, Op \ W)
           /\ Kept(receivers, {op \in Op : by[op] \notin T}) = Kept(receivers, Op \ W)
<1> DEFINE S == {op \in Op : by[op] \notin T}
           R == Op \ W
<1>1. /\ \A x \in ToSet(senders) : x \in S <=> x \in R
      /\ \A x \in ToSet(receivers) : x \in S <=> x \in R
    BY QueuedWait DEF Op
<1>2. senders \in Seq(Op) /\ receivers \in Seq(Op)
    BY QueuedWait
<1> HIDE DEF S, R
<1>3. Kept(senders, S) = Kept(senders, R) /\ Kept(receivers, S) = Kept(receivers, R)
    BY <1>1, <1>2, KeptSame
<1> QED
    BY <1>3 DEF S, R

\* Nobody can wait on a channel without a live task.
LEMMA NoneWaiting ==
    ASSUME ChannelInv, \A op \in Op : ~Waiting(op)
    PROVE  /\ senders = <<>> /\ receivers = <<>>
           /\ \A S : Kept(senders, S) = <<>> /\ Kept(receivers, S) = <<>>
<1>1. ToSet(senders) = {} /\ ToSet(receivers) = {}
    BY QueuedWait DEF Op
<1>2. senders = <<>> /\ receivers = <<>>
  <2>1. senders # <<>> => Head(senders) \in ToSet(senders)
      BY QueuedWait, Behead
  <2>2. receivers # <<>> => Head(receivers) \in ToSet(receivers)
      BY QueuedWait, Behead
  <2> QED
      BY <1>1, <2>1, <2>2
<1> QED
    BY <1>2, KeptEmpty

-----------------------------------------------------------------------------
(* The end of a task.                                                      *)

LEMMA DiscardType ==
    ASSUME NEW V, NEW r \in [SendOp -> Int]
    PROVE  Discard(V, r) \in [SendOp -> Int]
BY DEF Discard

\* request_cancel of the tasks in T, with the queue as the step has left it.
Requested(T, q) ==
    LET W == {op \in Op : Waiting(op) /\ by[op] \in T}
    IN  /\ cancelReq' = [u \in Task |-> cancelReq[u] \/ u \in T]
        /\ status' = [op \in Op |-> IF op \in W THEN "cancelled" ELSE status[op]]
        /\ senders' = Kept(senders, {op \in Op : by[op] \notin T})
        /\ receivers' = Kept(receivers, {op \in Op : by[op] \notin T})
        /\ runnable' = q \o Ascending(MaxTask, {by[op] : op \in W})

\* ReleaseHandles, for the channel.
Dropped(h) ==
    /\ handles' = handles - h
    /\ destroyed' = (destroyed \/ handles' = 0)
    /\ buffer' = IF handles' = 0 THEN <<>> ELSE buffer
    /\ released' = IF handles' = 0 THEN released \o buffer ELSE released

LEMMA FinishStep ==
    ASSUME TaskInv, capacity' = capacity,
           NEW t \in Live, current \in {t, Nobody},
           \A op \in Op : Waiting(op) => by[op] # t,
           NEW q \in Seq(Task), IsInjective(q), ToSet(q) = ToSet(runnable) \ {t},
           NEW outcome \in Ended, NEW V, NEW h \in {0, 1},
           NEW T \in SUBSET Live, t \notin T,
           state' = [state EXCEPT ![t] = outcome],
           pending' = [pending EXCEPT ![t] = NoOp],
           holds' = [holds EXCEPT ![t] = @ \ V],
           Requested(T, q), Dropped(h), current' = Nobody,
           refs' \in [SendOp -> Int],
           UNCHANGED <<closed, got, rootHandle, sendLog, recvLog>>
    PROVE  TaskInv' /\ LineStutters
<1> DEFINE W == {op \in Op : Waiting(op) /\ by[op] \in T}
           ss == Kept(senders, Op \ W)
           rs == Kept(receivers, Op \ W)
<1>1. /\ state' = [state EXCEPT ![t] = outcome]
      /\ pending' = [pending EXCEPT ![t] = NoOp]
      /\ holds' = [holds EXCEPT ![t] = @ \ V]
      /\ current' = Nobody /\ closed' = closed /\ got' = got /\ rootHandle' = rootHandle
      /\ UNCHANGED <<closed, got, sendLog, recvLog>>
    OBVIOUS
<1>2. ChannelInv /\ Counts /\ RunQueue /\ Suspensions /\ HandlesHeld
    BY DEF TaskInv, Tasks
<1>3. /\ T \in SUBSET Task /\ t \notin T /\ t \in Task
      /\ W \in SUBSET Op /\ W \subseteq {o \in Op : Waiting(o)}
    BY DEF Live
<1>4. /\ handles > 0 /\ handles \in 0..MaxHandles /\ ~destroyed /\ destroyed = FALSE
    BY <1>2, KeptAlive
<1>5. handles' = handles - h /\ handles' \in 0..MaxHandles
  <2>1. handles' = handles - h
      BY DEF Dropped
  <2>2. MaxHandles \in Nat
      BY ChannelAssumption DEF ChannelAssumption
  <2> QED
      BY <1>4, <2>1, <2>2
<1>6. /\ cancelReq' = [u \in Task |-> cancelReq[u] \/ u \in T]
      /\ status' = [op \in Op |-> IF op \in W THEN "cancelled" ELSE status[op]]
      /\ senders' = Kept(senders, {op \in Op : by[op] \notin T})
      /\ receivers' = Kept(receivers, {op \in Op : by[op] \notin T})
      /\ runnable' = q \o Ascending(MaxTask, {by[op] : op \in W})
    BY DEF Requested
<1>7. senders' = ss /\ receivers' = rs
  <2>1. W = {op \in Op : Waiting(op) /\ by[op] \in T}
      OBVIOUS
  <2> HIDE DEF W
  <2>2. /\ Kept(senders, {op \in Op : by[op] \notin T}) = Kept(senders, Op \ W)
        /\ Kept(receivers, {op \in Op : by[op] \notin T}) = Kept(receivers, Op \ W)
      BY <1>2, <2>1, Staying
  <2> QED
      BY <1>6, <2>2
<1>8. handles' = 0 => ss = <<>> /\ rs = <<>>
  <2> SUFFICES ASSUME handles' = 0 PROVE ss = <<>> /\ rs = <<>>
      OBVIOUS
  <2>1. /\ Cardinality(Live \ {t}) = Cardinality(Live) - 1 /\ Cardinality(Live) \in Nat
        /\ Live \ {t} # {} => Cardinality(Live \ {t}) > 0
        /\ rootHandle \in {0, 1} /\ handles >= rootHandle + Cardinality(Live)
      BY <1>2, LiveCount DEF Counts, HandlesHeld
  <2>2. Live \ {t} = {}
      BY <1>4, <1>5, <2>1
  <2>3. \A op \in Op : ~Waiting(op)
      BY <1>2, <2>2, WaitersApart
  <2> QED
      BY <1>2, <2>3, NoneWaiting
<1> HIDE DEF ss, rs
<1>9. Settle(buffer, ss, rs, handles')
    BY <1>1, <1>4, <1>7, <1>8 DEF Dropped, Settle, Unowned
<1>10. ChannelInv' /\ LineStutters
  <2>1. Withdraws(W, handles')
      BY <1>1, <1>3, <1>6, <1>9 DEF Withdraws, Waiting, ss, rs
  <2> HIDE DEF W
  <2> QED
      BY <1>2, <1>4, <1>5, <2>1, WithdrawStep
<1>11. Counts'
  <2>1. holds' \in [Task -> SUBSET SendOp]
      BY <1>1, <1>2, <1>3 DEF Counts
  <2> QED
      BY <1>1, <1>2, <2>1 DEF Counts
<1>12. Tasks'
  <2>1. \A op \in Op : status'[op] = "waiting" <=> Waiting(op) /\ op \notin W
      BY <1>6 DEF Waiting
  <2>2. Tasks /\ Counts /\ rootHandle' = rootHandle
      BY <1>1 DEF TaskInv
  <2>3. W = {op \in Op : Waiting(op) /\ by[op] \in T}
      OBVIOUS
  <2> HIDE DEF W
  <2> QED
      BY <1>3, <1>5, <1>6, <2>1, <2>2, <2>3, TaskEnds
<1> QED
    BY <1>10, <1>11, <1>12 DEF TaskInv

\* The task at the head of the run queue, or the one that runs, waits for
\* nothing and lives.
LEMMA Ready ==
    ASSUME RunQueue, Suspensions, NEW t, NEW q,
           \/ current = Nobody /\ runnable # <<>> /\ t = Head(runnable) /\ q = Tail(runnable)
           \/ current = t /\ t \in Task /\ q = runnable
    PROVE  /\ t \in Live /\ t \in Task /\ current \in {t, Nobody}
           /\ \A op \in Op : Waiting(op) => by[op] # t
           /\ q \in Seq(Task) /\ IsInjective(q) /\ ToSet(q) = ToSet(runnable) \ {t}
<1>1. /\ runnable \in Seq(Task) /\ IsInjective(runnable) /\ NoOp \notin Op
      /\ Nobody \notin Task /\ by \in [Op -> Task]
    BY TaskAssumption DEF RunQueue, TaskAssumption, Nobody, Task
<1>2. CASE current = Nobody /\ runnable # <<>> /\ t = Head(runnable) /\ q = Tail(runnable)
  <2>1. /\ t \in Task /\ Tail(runnable) \in Seq(Task) /\ t \in ToSet(runnable)
        /\ ToSet(runnable) = {t} \cup ToSet(Tail(runnable))
        /\ IsInjective(Tail(runnable)) /\ t \notin ToSet(Tail(runnable))
      BY <1>1, <1>2, Behead
  <2>2. ToSet(q) = ToSet(runnable) \ {t}
      BY <1>2, <2>1
  <2>3. \A op \in Op : Waiting(op) => by[op] # t
      BY <2>1, WaitersApart
  <2>4. ~terminal(t)
      BY <2>1 DEF RunQueue
  <2> QED
      BY <1>2, <2>1, <2>2, <2>3, <2>4 DEF Live
<1>3. CASE current = t /\ t \in Task /\ q = runnable
  <2>1. t \notin ToSet(runnable)
      BY <1>3 DEF RunQueue
  <2>2. \A op \in Op : Waiting(op) => by[op] # t
      BY <1>3, WaitersApart
  <2>3. ~terminal(t)
      BY <1>1, <1>3 DEF RunQueue, terminal, Ended
  <2> QED
      BY <1>1, <1>3, <2>1, <2>2, <2>3 DEF Live
<1> QED
    BY <1>2, <1>3

\* _finish of such a task, of which refs, status and the queue are as they were.
LEMMA Finishes ==
    ASSUME TaskInv, capacity' = capacity, NEW t, NEW q,
           \/ current = Nobody /\ runnable # <<>> /\ t = Head(runnable) /\ q = Tail(runnable)
           \/ current = t /\ t \in Task /\ q = runnable,
           NEW outcome \in Ended, NEW V, NEW h \in {0, 1},
           _finish(t, outcome, V, h, refs, status, q), Unlogged
    PROVE  TaskInv' /\ LineStutters
<1> DEFINE T == IF outcome = "failed" THEN Live \ {t} ELSE {}
<1>1. RunQueue /\ Suspensions /\ refs \in [SendOp -> Int]
    BY DEF TaskInv, Tasks, Counts
<1>2. /\ t \in Live /\ current \in {t, Nobody}
      /\ \A op \in Op : Waiting(op) => by[op] # t
      /\ q \in Seq(Task) /\ IsInjective(q) /\ ToSet(q) = ToSet(runnable) \ {t}
    BY <1>1, Ready
<1>3. /\ state' = [state EXCEPT ![t] = outcome]
      /\ pending' = [pending EXCEPT ![t] = NoOp]
      /\ holds' = [holds EXCEPT ![t] = @ \ V]
      /\ current' = Nobody
      /\ UNCHANGED <<closed, got, rootHandle, sendLog, recvLog>>
    BY DEF _finish, Unlogged
<1>4. Requested(T, q)
    BY DEF _finish, request_cancel, Requested
<1>5. Dropped(h) /\ refs' \in [SendOp -> Int]
  <2>1. /\ Discard(V, refs) \in [SendOp -> Int]
        /\ Discard(ToSet(buffer), Discard(V, refs)) \in [SendOp -> Int]
      BY <1>1, DiscardType
  <2> QED
      BY <2>1 DEF _finish, ReleaseHandles, Dropped
<1>6. T \in SUBSET Live /\ t \notin T
    OBVIOUS
<1> HIDE DEF T
<1> QED
    BY <1>2, <1>3, <1>4, <1>5, <1>6, FinishStep

\* The steps of the scheduler loop.
LEMMA LoopStep ==
    ASSUME TaskInv, NEW t \in Task, step(t), capacity' = capacity
    PROVE  TaskInv' /\ LineStutters
<1> DEFINE q == Tail(runnable)
<1>1. /\ ChannelInv /\ Counts /\ Tasks
      /\ current = Nobody /\ runnable # <<>> /\ t = Head(runnable)
    BY DEF TaskInv, step, Driving
<1>2. ASSUME NEW outcome \in Ended, NEW V, NEW h \in {0, 1},
             _finish(t, outcome, V, h, refs, status, q), Unlogged
      PROVE  TaskInv' /\ LineStutters
  <2>1. current = Nobody /\ runnable # <<>> /\ t = Head(runnable) /\ q = Tail(runnable)
      BY <1>1
  <2> HIDE DEF q
  <2> QED
      BY <1>2, <2>1, Finishes
<1>4. ASSUME ~cancelReq[t], Runs(t), Counts' PROVE TaskInv' /\ LineStutters
  <2>1. Tasks'
      BY <1>1, <1>4, TaskRuns
  <2>2. UNCHANGED vars
      BY <1>4 DEF Runs, chanVars, vars, queues
  <2>3. ChannelInv' /\ LineStutters
      BY <1>1, <2>2, MethodStep
  <2> QED
      BY <1>4, <2>1, <2>3 DEF TaskInv
<1>5. CASE StepCancelled(t)
    BY <1>2, <1>5 DEF StepCancelled, Ended
<1>6. CASE StepFaulted(t)
    BY <1>2, <1>6 DEF StepFaulted, Ended
<1>7. CASE StepStart(t)
  <2>1. Counts'
      BY <1>1, <1>7 DEF StepStart, Runs, Counts
  <2> QED
      BY <1>4, <1>7, <2>1 DEF StepStart
<1>8. CASE StepSent(t)
  <2>1. Counts'
      BY <1>1, <1>8 DEF StepSent, Runs, Counts
  <2> QED
      BY <1>4, <1>8, <2>1 DEF StepSent
<1>9. CASE StepReceived(t)
  <2>1. pending[t] \in RecvOp /\ got \in [RecvOp -> SendOp \cup {NoValue}]
      BY <1>1, <1>9 DEF StepReceived, ChannelInv, TypeOK
  <2>2. {got[pending[t]]} \ {NoValue} \subseteq SendOp
      BY <2>1
  <2>3. Counts'
      BY <1>1, <1>9, <2>2 DEF StepReceived, Runs, Counts
  <2> QED
      BY <1>4, <1>9, <2>3 DEF StepReceived
<1> QED
    BY <1>5, <1>6, <1>7, <1>8, <1>9 DEF step

-----------------------------------------------------------------------------
(* Cancellation without an end.                                            *)

LEMMA CancelStep ==
    ASSUME TaskInv, capacity' = capacity, Live # {}, NEW T \in SUBSET Task, current \notin T,
           request_cancel(T, status, runnable),
           UNCHANGED <<closed, buffer, handles, destroyed, got, released>>,
           UNCHANGED <<state, pending, current, holds, refs, rootHandle>>, Unlogged
    PROVE  TaskInv' /\ LineStutters
<1> DEFINE W == {op \in Op : Waiting(op) /\ by[op] \in T}
<1>1. /\ ChannelInv /\ Counts /\ HandlesHeld /\ Tasks
      /\ handles > 0 /\ handles \in 0..MaxHandles /\ ~destroyed /\ destroyed = FALSE
    BY KeptAlive DEF TaskInv, Tasks
<1>2. /\ cancelReq' = [u \in Task |-> cancelReq[u] \/ u \in T]
      /\ status' = [op \in Op |-> IF op \in W THEN "cancelled" ELSE status[op]]
      /\ senders' = Kept(senders, {op \in Op : by[op] \notin T})
      /\ receivers' = Kept(receivers, {op \in Op : by[op] \notin T})
      /\ runnable' = runnable \o Ascending(MaxTask, {by[op] : op \in W})
    BY DEF request_cancel
<1>3. W \subseteq {o \in Op : Waiting(o)} /\ W = {op \in Op : Waiting(op) /\ by[op] \in T}
    OBVIOUS
<1>4. \A op \in Op : status'[op] = "waiting" <=> Waiting(op) /\ op \notin W
    BY <1>2 DEF Waiting
<1> HIDE DEF W
<1>5. /\ Kept(senders, {op \in Op : by[op] \notin T}) = Kept(senders, Op \ W)
      /\ Kept(receivers, {op \in Op : by[op] \notin T}) = Kept(receivers, Op \ W)
    BY <1>1, <1>3, Staying
<1>6. Tasks'
  <2>1. /\ state' = state /\ pending' = pending /\ current' = current
        /\ handles' = handles /\ rootHandle' = rootHandle
      OBVIOUS
  <2> QED
      BY <1>1, <1>2, <1>3, <1>4, <2>1, TasksCancelled
<1>7. Settle(buffer, Kept(senders, Op \ W), Kept(receivers, Op \ W), handles)
  <2> DEFINE ss == Kept(senders, Op \ W)
             rs == Kept(receivers, Op \ W)
  <2>1. buffer' = buffer /\ handles' = handles /\ destroyed' = destroyed /\ released' = released
      OBVIOUS
  <2>2. senders' = ss /\ receivers' = rs /\ handles # 0
      BY <1>1, <1>2, <1>5
  <2> HIDE DEF ss, rs
  <2>3. Settle(buffer, ss, rs, handles)
      BY <1>1, <2>1, <2>2 DEF Settle, Unowned
  <2> QED
      BY <2>3 DEF ss, rs
<1>8. Withdraws(W, handles)
    BY <1>2, <1>3, <1>7 DEF Withdraws, Waiting, Unlogged
<1>9. ChannelInv' /\ LineStutters
    BY <1>1, <1>8, WithdrawStep
<1>10. Counts'
    BY <1>1 DEF Counts
<1> QED
    BY <1>6, <1>9, <1>10 DEF TaskInv

\* What is left when a step of the running task is a method of the channel.
LEMMA CallStep ==
    ASSUME TaskInv, Called, capacity' = capacity, Counts', Tasks'
    PROVE  TaskInv' /\ LineStutters
<1>1. [Next]_vars /\ ChannelInv
    BY DEF Next, TaskInv
<1> QED
    BY <1>1, MethodStep DEF TaskInv

-----------------------------------------------------------------------------
(* The instructions of the running task.                                   *)

\* What they all can assume.
LEMMA Running ==
    ASSUME TaskInv, NEW t \in Task, current = t
    PROVE  /\ ChannelInv /\ TypeOK /\ Counts /\ Tasks /\ RunQueue /\ Suspensions
           /\ t \in Live /\ Live # {} /\ t \notin ToSet(runnable) /\ pending[t] = NoOp
           /\ handles \in 0..MaxHandles /\ handles > 0 /\ ~destroyed /\ destroyed = FALSE
           /\ t # Nobody
<1>1. /\ ChannelInv /\ TypeOK /\ Counts /\ Tasks /\ RunQueue /\ Suspensions /\ HandlesHeld
    BY DEF TaskInv, Tasks, ChannelInv
<1>2. t \in Live /\ ToSet(runnable) = ToSet(runnable) \ {t}
    BY <1>1, Ready
<1>3. t # Nobody
    BY DEF Task, Nobody
<1> QED
    BY <1>1, <1>2, <1>3, KeptAlive DEF Suspensions

\* What a step of the channel that leaves the handles does to the waiters.
LEMMA SendsWake ==
    ASSUME ChannelInv, NEW v \in SendOp, SendToReceiver(v) \/ SendToBuffer(v)
    PROVE  /\ handles' = handles
           /\ \A op \in Op : status'[op] = "waiting" => Waiting(op)
           /\ \A op \in Op : Waiting(op) /\ status'[op] # "waiting" => op \in ToSet(receivers)
<1>1. /\ status \in [Op -> {"idle", "waiting", "sent", "faulted", "received", "eof", "cancelled"}]
      /\ v \in Op /\ status[v] = "idle"
    BY DEF ChannelInv, TypeOK, Op, SendToReceiver, SendToBuffer, SendCall, CanCall
<1>2. CASE SendToBuffer(v)
    BY <1>1, <1>2 DEF SendToBuffer, Waiting
<1>3. CASE SendToReceiver(v)
  <2>1. /\ status' = [status EXCEPT ![v] = "sent", ![Head(receivers)] = "received"]
        /\ receivers # <<>> /\ handles' = handles
      BY <1>3 DEF SendToReceiver, Settle
  <2>2. Head(receivers) \in Op /\ Head(receivers) \in ToSet(receivers)
      BY <2>1, QueuedWait, Behead
  <2> HIDE DEF Op
  <2> QED
      BY <1>1, <2>1, <2>2 DEF Waiting
<1> QED
    BY <1>2, <1>3

LEMMA ReceivesWake ==
    ASSUME ChannelInv, NEW r \in RecvOp,
           ReceiveBuffered(r) \/ ReceiveFromSender(r) \/ ReceiveClosed(r)
    PROVE  /\ handles' = handles
           /\ \A op \in Op : status'[op] = "waiting" => Waiting(op)
           /\ \A op \in Op : Waiting(op) /\ status'[op] # "waiting" => op \in ToSet(senders)
<1>1. /\ status \in [Op -> {"idle", "waiting", "sent", "faulted", "received", "eof", "cancelled"}]
      /\ r \in Op /\ status[r] = "idle"
    BY DEF ChannelInv, TypeOK, Op, ReceiveBuffered, ReceiveFromSender, ReceiveClosed, RecvCall,
           CanCall
<1>2. handles' = handles
    BY DEF ReceiveBuffered, ReceiveFromSender, ReceiveClosed, Settle
<1>3. CASE status' = [status EXCEPT ![r] = "received"] \/ status' = [status EXCEPT ![r] = "eof"]
    BY <1>1, <1>2, <1>3 DEF Waiting
<1>4. CASE /\ senders # <<>>
           /\ status' = [status EXCEPT ![r] = "received", ![Head(senders)] = "sent"]
  <2>1. Head(senders) \in Op /\ Head(senders) \in ToSet(senders)
      BY <1>4, QueuedWait, Behead
  <2> HIDE DEF Op
  <2> QED
      BY <1>1, <1>2, <1>4, <2>1 DEF Waiting
<1> QED
    BY <1>3, <1>4 DEF ReceiveBuffered, ReceiveFromSender, ReceiveClosed

LEMMA SendsStep ==
    ASSUME TaskInv, NEW t \in Task, Sends(t), capacity' = capacity
    PROVE  TaskInv' /\ LineStutters
<1>1. PICK v \in SendOp :
        /\ Idle(t, v) /\ Made(v)
        /\ SendToReceiver(v) \/ SendToBuffer(v)
        /\ Wake(receivers)
        /\ UNCHANGED <<state, cancelReq, pending, current, holds, rootHandle>>
    BY DEF Sends
<1>2. /\ ChannelInv /\ Counts /\ Tasks
    BY <1>1, Running DEF Idle
<1>3. /\ state' = state /\ pending' = pending /\ cancelReq' = cancelReq
      /\ current' = current /\ rootHandle' = rootHandle /\ holds' = holds
    BY <1>1
<1>4. Tasks'
  <2>1. receivers \in Seq(Op) /\ IsInjective(receivers) /\ \A op \in ToSet(receivers) : Waiting(op)
      BY <1>2, QueuedWait
  <2>2. /\ handles' = handles
        /\ \A op \in Op : status'[op] = "waiting" => Waiting(op)
        /\ \A op \in Op : Waiting(op) /\ status'[op] # "waiting" => op \in ToSet(receivers)
      BY <1>1, <1>2, SendsWake
  <2> QED
      BY <1>1, <1>2, <1>3, <2>1, <2>2, TaskWakes
<1>5. Counts'
    BY <1>1, <1>2, <1>3 DEF Counts, Made
<1>6. Called
    BY <1>1 DEF Called, Send
<1> QED
    BY <1>4, <1>5, <1>6, CallStep

LEMMA ReceivesStep ==
    ASSUME TaskInv, NEW t \in Task, Receives(t), capacity' = capacity
    PROVE  TaskInv' /\ LineStutters
<1>1. PICK r \in RecvOp :
        /\ Idle(t, r)
        /\ ReceiveBuffered(r) \/ ReceiveFromSender(r) \/ ReceiveClosed(r)
        /\ Wake(senders)
        /\ holds' = [holds EXCEPT ![t] = @ \cup ({got'[r]} \ {NoValue})]
        /\ UNCHANGED <<state, cancelReq, pending, current, refs, rootHandle>>
    BY DEF Receives
<1>2. ChannelInv /\ Counts /\ Tasks
    BY <1>1, Running DEF Idle
<1>3. /\ state' = state /\ pending' = pending /\ cancelReq' = cancelReq
      /\ current' = current /\ rootHandle' = rootHandle /\ refs' = refs
    BY <1>1
<1>4. Tasks'
  <2>1. senders \in Seq(Op) /\ IsInjective(senders) /\ \A op \in ToSet(senders) : Waiting(op)
      BY <1>2, QueuedWait
  <2>2. /\ handles' = handles
        /\ \A op \in Op : status'[op] = "waiting" => Waiting(op)
        /\ \A op \in Op : Waiting(op) /\ status'[op] # "waiting" => op \in ToSet(senders)
      BY <1>1, <1>2, ReceivesWake
  <2> QED
      BY <1>1, <1>2, <1>3, <2>1, <2>2, TaskWakes
<1>5. Called
    BY <1>1 DEF Called, Recv
<1>6. got' \in [RecvOp -> SendOp \cup {NoValue}]
  <2>1. [Next]_vars
      BY <1>5 DEF Next
  <2> QED
      BY <1>2, <2>1, TypesStep DEF ChannelInv, TypeOK
<1>7. Counts'
  <2>1. {got'[s] : s \in RecvOp} \ {NoValue} \subseteq SendOp
      BY <1>6
  <2>2. holds' \in [Task -> SUBSET SendOp]
      BY <1>1, <1>2, <2>1 DEF Counts
  <2> QED
      BY <1>2, <1>3, <2>2 DEF Counts
<1> QED
    BY <1>4, <1>5, <1>7, CallStep

LEMMA WaitsStep ==
    ASSUME TaskInv, NEW t \in Task, SendWaits(t) \/ ReceiveWaits(t), capacity' = capacity
    PROVE  TaskInv' /\ LineStutters
<1>1. PICK op \in Op :
        /\ Idle(t, op) /\ Called /\ status' = [status EXCEPT ![op] = "waiting"]
        /\ handles' = handles
        /\ pending' = [pending EXCEPT ![t] = op]
        /\ current' = Nobody
        /\ UNCHANGED <<state, cancelReq, runnable, holds, rootHandle>>
        /\ refs' = refs \/ \E v \in SendOp : Made(v)
  <2>1. CASE SendWaits(t)
    <3>1. PICK v \in SendOp :
            /\ Idle(t, v) /\ Made(v)
            /\ SendBlocks(v)
            /\ pending' = [pending EXCEPT ![t] = v]
            /\ current' = Nobody
            /\ UNCHANGED <<state, cancelReq, runnable, holds, rootHandle>>
        BY <2>1 DEF SendWaits
    <3> QED
        BY <3>1 DEF SendBlocks, Called, Send, Op
  <2>2. CASE ReceiveWaits(t)
    <3>1. PICK r \in RecvOp :
            /\ Idle(t, r)
            /\ ReceiveBlocks(r)
            /\ pending' = [pending EXCEPT ![t] = r]
            /\ current' = Nobody
            /\ UNCHANGED <<state, cancelReq, runnable, holds, refs, rootHandle>>
        BY <2>2 DEF ReceiveWaits
    <3> QED
        BY <3>1 DEF ReceiveBlocks, Called, Recv, Op
  <2> QED
      BY <2>1, <2>2
<1>2. /\ ChannelInv /\ TypeOK /\ Counts /\ Tasks /\ current = t /\ by[op] = t
    BY <1>1, Running DEF Idle
<1>3. /\ state' = state /\ cancelReq' = cancelReq /\ runnable' = runnable
      /\ rootHandle' = rootHandle /\ holds' = holds
    BY <1>1
<1>4. Tasks'
  <2>1. \A o \in Op : status'[o] = "waiting" <=> Waiting(o) \/ o = op
      BY <1>1, <1>2 DEF TypeOK, Waiting
  <2> QED
      BY <1>1, <1>2, <1>3, <2>1, TaskWaits
<1>5. Counts'
    BY <1>1, <1>2, <1>3 DEF Counts, Made
<1> QED
    BY <1>1, <1>4, <1>5, CallStep

\* A send to a closed channel, on which nobody waits any more: for the channel
\* it is SendToClosed, although the siblings are cancelled with it.
LEMMA SendFaultsStep ==
    ASSUME TaskInv, NEW t \in Task, SendFaults(t), capacity' = capacity
    PROVE  TaskInv' /\ LineStutters
<1>1. PICK v \in SendOp :
        /\ Idle(t, v) /\ closed
        /\ sendLog' = Append(sendLog, v) /\ UNCHANGED recvLog
        /\ _finish(t, "failed", holds[t], 0, [refs EXCEPT ![v] = 1],
                   [status EXCEPT ![v] = "faulted"], runnable)
    BY DEF SendFaults
<1> DEFINE T == Live \ {t}
           W == {op \in Op : Waiting(op) /\ by[op] \in T}
           made == [refs EXCEPT ![v] = 1]
<1>2. /\ ChannelInv /\ TypeOK /\ Counts /\ Tasks /\ RunQueue /\ Suspensions /\ current = t
      /\ handles > 0 /\ handles \in 0..MaxHandles /\ destroyed = FALSE
    BY <1>1, Running DEF Idle
<1>3. senders = <<>> /\ receivers = <<>>
    BY <1>1, <1>2 DEF ChannelInv, NobodyWaitsInVain
<1>4. \A op \in Op : ~Waiting(op)
    BY <1>2, <1>3, QueuedWait, RangeEmpty DEF Op
<1>5. W = {}
    BY <1>4
<1>6. /\ state' = [state EXCEPT ![t] = "failed"]
      /\ pending' = [pending EXCEPT ![t] = NoOp]
      /\ holds' = [holds EXCEPT ![t] = @ \ holds[t]]
      /\ cancelReq' = [u \in Task |-> cancelReq[u] \/ u \in T]
      /\ runnable' = runnable \o Ascending(MaxTask, {by[op] : op \in W})
      /\ current' = Nobody /\ closed' = closed /\ got' = got /\ rootHandle' = rootHandle
    BY <1>1 DEF _finish, request_cancel
<1>7. /\ status' = [op \in Op |-> IF op \in W THEN "cancelled"
                                  ELSE [status EXCEPT ![v] = "faulted"][op]]
      /\ senders' = Kept(senders, {op \in Op : by[op] \notin T})
      /\ receivers' = Kept(receivers, {op \in Op : by[op] \notin T})
      /\ handles' = handles - 0
      /\ destroyed' = (destroyed \/ handles' = 0)
      /\ buffer' = IF handles' = 0 THEN <<>> ELSE buffer
      /\ released' = IF handles' = 0 THEN released \o buffer ELSE released
      /\ refs' = IF handles' = 0 THEN Discard(ToSet(buffer), Discard(holds[t], made))
                 ELSE Discard(holds[t], made)
    BY <1>1 DEF _finish, request_cancel, ReleaseHandles
<1>8. /\ handles' = handles /\ destroyed' = destroyed /\ buffer' = buffer /\ released' = released
      /\ refs' = Discard(holds[t], made)
  <2>1. handles' = handles /\ handles' # 0
      BY <1>2, <1>7
  <2> HIDE DEF made
  <2> QED
      BY <1>2, <1>7, <2>1
<1>9. senders' = senders /\ receivers' = receivers
    BY <1>3, <1>7, KeptEmpty
<1>10. status' = [status EXCEPT ![v] = "faulted"]
  <2>1. status \in [Op -> {"idle", "waiting", "sent", "faulted", "received", "eof", "cancelled"}]
      BY <1>2 DEF TypeOK
  <2> QED
      BY <1>5, <1>7, <2>1
<1>11. Called
  <2>1. SendToClosed(v)
      BY <1>1, <1>2, <1>6, <1>8, <1>9, <1>10 DEF SendToClosed, SendCall, CanCall, Idle, queues
  <2> QED
      BY <2>1 DEF Called, Send
<1>12. Counts'
  <2>1. made \in [SendOp -> Int]
      BY <1>2 DEF Counts
  <2> HIDE DEF made
  <2>2. refs' \in [SendOp -> Int]
      BY <1>8, <2>1, DiscardType
  <2>3. holds' \in [Task -> SUBSET SendOp]
      BY <1>2, <1>6 DEF Counts
  <2> QED
      BY <1>2, <1>6, <2>2, <2>3 DEF Counts
<1>13. Tasks'
  <2>1. /\ t \in Live /\ current \in {t, Nobody}
        /\ \A op \in Op : Waiting(op) => by[op] # t
        /\ runnable \in Seq(Task) /\ IsInjective(runnable)
        /\ ToSet(runnable) = ToSet(runnable) \ {t}
      BY <1>2, Ready
  <2>2. T \in SUBSET Task /\ t \notin T /\ W = {op \in Op : Waiting(op) /\ by[op] \in T}
      BY DEF Live
  <2>3. \A op \in Op : status'[op] = "waiting" <=> Waiting(op) /\ op \notin W
    <3>1. status \in [Op -> {"idle", "waiting", "sent", "faulted", "received", "eof", "cancelled"}]
        BY <1>2 DEF TypeOK
    <3>2. \A op \in Op : status'[op] # "waiting"
        BY <1>4, <1>10, <3>1 DEF Waiting
    <3> QED
        BY <1>4, <3>2
  <2>4. "failed" \in Ended /\ 0 \in {0, 1} /\ handles' = handles - 0
      BY <1>7 DEF Ended
  <2> HIDE DEF T, W
  <2> QED
      BY <1>2, <1>6, <2>1, <2>2, <2>3, <2>4, TaskEnds
<1> QED
    BY <1>11, <1>12, <1>13, CallStep

LEMMA CloseChannelStep ==
    ASSUME TaskInv, NEW t \in Task, CloseChannel(t), capacity' = capacity
    PROVE  TaskInv' /\ LineStutters
<1> DEFINE q == senders \o receivers
<1>1. /\ current = t /\ Close /\ Wake(q)
      /\ state' = state /\ pending' = pending /\ cancelReq' = cancelReq
      /\ current' = current /\ rootHandle' = rootHandle /\ holds' = holds /\ refs' = refs
    BY DEF CloseChannel
<1>2. ChannelInv /\ Counts /\ Tasks
    BY <1>1, Running
<1>3. /\ q \in Seq(Op) /\ IsInjective(q) /\ ToSet(q) = {op \in Op : Waiting(op)}
  <2>1. /\ senders \in Seq(Op) /\ receivers \in Seq(Op)
        /\ IsInjective(senders) /\ IsInjective(receivers)
        /\ ToSet(senders) = {v \in SendOp : Waiting(v)}
        /\ ToSet(receivers) = {r \in RecvOp : Waiting(r)}
      BY <1>2, QueuedWait
  <2>2. ToSet(senders) \cap ToSet(receivers) = {}
      BY <2>1, ChannelAssumption DEF ChannelAssumption
  <2>3. ToSet(senders) \cup ToSet(receivers) = {op \in Op : Waiting(op)}
      BY <2>1 DEF Op
  <2> QED
      BY <2>1, <2>2, <2>3, ConcatProperties, InjectiveConcat, RangeConcat
<1> HIDE DEF q
<1>4. Called
    BY <1>1 DEF Called
<1>5. Tasks'
  <2>1. \A op \in Op : status'[op] = "waiting" => Waiting(op)
    <3> DEFINE served == IF Len(receivers) < Len(buffer) THEN Len(receivers) ELSE Len(buffer)
               IsServed(r) == \E i \in 1..served : receivers[i] = r
    <3>1. status' = [o \in Op |->
                IF \E i \in DOMAIN senders : senders[i] = o THEN "faulted"
                ELSE IF IsServed(o) THEN "received"
                ELSE IF \E i \in DOMAIN receivers : receivers[i] = o THEN "eof"
                ELSE status[o]]
        BY <1>1 DEF Close
    <3> HIDE DEF IsServed
    <3> QED
        BY <3>1 DEF Waiting
  <2>2. handles' = handles
      BY <1>1 DEF Close, Settle
  <2>3. \A op \in ToSet(q) : Waiting(op)
      BY <1>3
  <2>4. \A op \in Op : Waiting(op) /\ status'[op] # "waiting" => op \in ToSet(q)
      BY <1>3
  <2> QED
      BY <1>1, <1>2, <1>3, <2>1, <2>2, <2>3, <2>4, TaskWakes
<1>6. Counts'
    BY <1>1, <1>2 DEF Counts
<1> QED
    BY <1>4, <1>5, <1>6, CallStep

\* Steps that leave the channel alone.
LEMMA QuietStep ==
    ASSUME TaskInv, NEW t \in Task, Drop(t) \/ Yield(t), capacity' = capacity
    PROVE  TaskInv' /\ LineStutters
<1>1. /\ ChannelInv /\ Counts /\ Tasks /\ HandlesHeld
    BY DEF TaskInv, Tasks
<1>2. UNCHANGED vars
    BY DEF Drop, Yield, chanVars, vars, queues
<1>3. ChannelInv' /\ LineStutters
    BY <1>1, <1>2, MethodStep
<1>4. CASE Drop(t)
  <2>1. PICK v \in holds[t] :
          /\ holds' = [holds EXCEPT ![t] = @ \ {v}]
          /\ refs' = [refs EXCEPT ![v] = @ - 1]
      BY <1>4 DEF Drop
  <2>2. /\ state' = state /\ cancelReq' = cancelReq /\ pending' = pending
        /\ runnable' = runnable /\ current' = current /\ status' = status
        /\ handles' = handles /\ rootHandle' = rootHandle
      BY <1>4 DEF Drop, chanVars
  <2>3. Tasks'
    <3>1. handles' \in Nat /\ handles' >= rootHandle' + Cardinality(Live)
        BY <1>1, <2>2 DEF HandlesHeld
    <3> QED
        BY <1>1, <2>2, <3>1, TasksStay
  <2>4. Counts'
      BY <1>1, <2>1, <2>2 DEF Counts
  <2> QED
      BY <1>3, <2>3, <2>4 DEF TaskInv
<1>5. CASE Yield(t)
  <2>1. Counts'
      BY <1>1, <1>5 DEF Counts, Yield
  <2>2. Tasks'
      BY <1>1, <1>5, TaskYields
  <2> QED
      BY <1>3, <2>1, <2>2 DEF TaskInv
<1> QED
    BY <1>4, <1>5

LEMMA CancelTaskStep ==
    ASSUME TaskInv, NEW t \in Task, Cancel(t), capacity' = capacity
    PROVE  TaskInv' /\ LineStutters
<1>1. PICK u \in Live \ {t} : request_cancel({u}, status, runnable)
    BY DEF Cancel
<1>2. /\ current = t /\ Unlogged
      /\ UNCHANGED <<closed, buffer, handles, destroyed, got, released>>
      /\ UNCHANGED <<state, pending, current, holds, refs, rootHandle>>
    BY DEF Cancel
<1>3. /\ {u} \in SUBSET Task /\ current \notin {u} /\ Live # {}
    BY <1>1, <1>2 DEF Live
<1> QED
    BY <1>1, <1>2, <1>3, CancelStep

LEMMA DeadlockStep ==
    ASSUME TaskInv, Deadlock, capacity' = capacity
    PROVE  TaskInv' /\ LineStutters
<1>1. /\ request_cancel(Live, status, runnable) /\ Unlogged
      /\ UNCHANGED <<closed, buffer, handles, destroyed, got, released>>
      /\ UNCHANGED <<state, pending, current, holds, refs, rootHandle>>
    BY DEF Deadlock
<1>2. Live \in SUBSET Task /\ current \notin Live /\ Live # {}
    BY DEF Deadlock, Driving, Live, Nobody, Task
<1> QED
    BY <1>1, <1>2, CancelStep

\* The root frame leaves: nobody is left who could wait.
LEMMA LeaveStep ==
    ASSUME TaskInv, LeaveBlock, capacity' = capacity
    PROVE  TaskInv' /\ LineStutters
<1>1. /\ ChannelInv /\ TypeOK /\ DestroyedIsEmpty /\ Counts /\ Tasks /\ RunQueue
      /\ Suspensions /\ HandlesHeld
    BY DEF TaskInv, Tasks, ChannelInv
<1>2. /\ Live = {} /\ rootHandle = 1 /\ rootHandle' = 0
      /\ closed' = closed /\ senders' = senders /\ receivers' = receivers
      /\ status' = status /\ got' = got /\ sendLog' = sendLog /\ recvLog' = recvLog
      /\ state' = state /\ cancelReq' = cancelReq /\ pending' = pending
      /\ runnable' = runnable /\ current' = current /\ holds' = holds
    BY DEF LeaveBlock
<1>3. /\ handles' = handles - 1
      /\ destroyed' = (destroyed \/ handles' = 0)
      /\ buffer' = IF handles' = 0 THEN <<>> ELSE buffer
      /\ released' = IF handles' = 0 THEN released \o buffer ELSE released
      /\ refs' = IF handles' = 0 THEN Discard(ToSet(buffer), refs) ELSE refs
    BY DEF LeaveBlock, ReleaseHandles
<1>4. Cardinality(Live) = 0
    BY <1>2, FS_EmptySet
<1>5. handles > 0 /\ handles \in Nat
    BY <1>1, <1>2, <1>4 DEF HandlesHeld
<1>6. destroyed = FALSE
    BY <1>1, <1>5 DEF TypeOK, DestroyedIsEmpty
<1>7. senders = <<>> /\ receivers = <<>>
  <2>1. \A op \in Op : ~Waiting(op)
      BY <1>1, <1>2, WaitersApart
  <2> QED
      BY <1>1, <2>1, NoneWaiting
<1>8. Called
  <2>1. Settle(buffer, senders, receivers, handles - 1)
      BY <1>2, <1>3, <1>6, <1>7 DEF Settle, Unowned
  <2>2. Release
      BY <1>2, <1>5, <2>1 DEF Release
  <2> QED
      BY <2>2 DEF Called
<1>9. Tasks'
  <2>1. handles' \in Nat /\ handles' >= rootHandle' + Cardinality(Live)
      BY <1>2, <1>3, <1>4, <1>5
  <2> QED
      BY <1>1, <1>2, <2>1, TasksStay
<1>10. Counts'
  <2>1. refs \in [SendOp -> Int] /\ Discard(ToSet(buffer), refs) \in [SendOp -> Int]
      BY <1>1, DiscardType DEF Counts
  <2> QED
      BY <1>1, <1>2, <1>3, <2>1 DEF Counts
<1> QED
    BY <1>8, <1>9, <1>10, CallStep

\* Every step of the tasks keeps the invariant, and is a step of the line of
\* values or none.
LEMMA TaskStep == TaskInv /\ [TNext]_allVars => TaskInv' /\ LineStutters
<1> SUFFICES ASSUME TaskInv, [TNext]_allVars PROVE TaskInv' /\ LineStutters
    OBVIOUS
<1>1. CASE UNCHANGED allVars
  <2>1. /\ UNCHANGED chanVars /\ capacity' = capacity /\ UNCHANGED vars
        /\ state' = state /\ cancelReq' = cancelReq /\ pending' = pending
        /\ runnable' = runnable /\ current' = current /\ holds' = holds
        /\ refs' = refs /\ rootHandle' = rootHandle
        /\ status' = status /\ handles' = handles
      BY <1>1 DEF allVars, chanVars, taskVars, vars, queues
  <2>2. ChannelInv /\ Counts /\ Tasks /\ HandlesHeld
      BY DEF TaskInv, Tasks
  <2>3. ChannelInv' /\ LineStutters
      BY <2>1, <2>2, MethodStep
  <2>4. Tasks'
    <3>1. handles' \in Nat /\ handles' >= rootHandle' + Cardinality(Live)
        BY <2>1, <2>2 DEF HandlesHeld
    <3> QED
        BY <2>1, <2>2, <3>1, TasksStay
  <2>5. Counts'
      BY <2>1, <2>2 DEF Counts
  <2> QED
      BY <2>3, <2>4, <2>5 DEF TaskInv
<1>2. ASSUME NEW t \in Task, Instruction(t), capacity' = capacity PROVE TaskInv' /\ LineStutters
  <2>1. CASE Return(t)
    <3>1. /\ current = t /\ _finish(t, "completed", {}, 1, refs, status, runnable) /\ Unlogged
          /\ "completed" \in Ended /\ 1 \in {0, 1}
        BY <2>1 DEF Return, Ended
    <3> QED
        BY <1>2, <3>1, Finishes
  <2>2. CASE Panic(t)
    <3>1. /\ current = t /\ _finish(t, "failed", FrameOf(t), 1, refs, status, runnable) /\ Unlogged
          /\ "failed" \in Ended /\ 1 \in {0, 1}
        BY <2>2 DEF Panic, Ended
    <3> QED
        BY <1>2, <3>1, Finishes
  <2>3. CASE Timeout(t)
    <3>1. /\ current = t /\ _finish(t, "failed", {}, 1, refs, status, runnable) /\ Unlogged
          /\ "failed" \in Ended /\ 1 \in {0, 1}
        BY <2>3 DEF Timeout, Ended
    <3> QED
        BY <1>2, <3>1, Finishes
  <2>4. CASE Sends(t) \/ SendWaits(t) \/ SendFaults(t)
      BY <1>2, <2>4, SendsStep, WaitsStep, SendFaultsStep
  <2>5. CASE Receives(t) \/ ReceiveWaits(t) \/ CloseChannel(t)
      BY <1>2, <2>5, ReceivesStep, WaitsStep, CloseChannelStep
  <2>6. CASE Drop(t) \/ Yield(t) \/ Cancel(t)
      BY <1>2, <2>6, QuietStep, CancelTaskStep
  <2> QED
      BY <1>2, <2>1, <2>2, <2>3, <2>4, <2>5, <2>6 DEF Instruction
<1>3. ASSUME NEW t \in Task, step(t), capacity' = capacity PROVE TaskInv' /\ LineStutters
    BY <1>3, LoopStep
<1>4. ASSUME Deadlock \/ LeaveBlock, capacity' = capacity PROVE TaskInv' /\ LineStutters
    BY <1>4, DeadlockStep, LeaveStep
<1> QED
    BY <1>1, <1>2, <1>3, <1>4 DEF TNext, Quantum, Done

LEMMA TaskInit == TInit => TaskInv /\ Line!FInit
<1> SUFFICES ASSUME TInit PROVE TaskInv /\ Line!FInit
    OBVIOUS
<1>1. /\ capacity \in Capacities /\ closed = FALSE /\ destroyed = FALSE
      /\ buffer = <<>> /\ senders = <<>> /\ receivers = <<>>
      /\ rootHandle \in {0, 1} /\ handles = MaxTask + rootHandle
      /\ status = [op \in Op |-> "idle"] /\ got = [r \in RecvOp |-> NoValue]
      /\ released = <<>> /\ sendLog = <<>> /\ recvLog = <<>>
    BY DEF TInit
<1>2. /\ state = [t \in Task |-> "pending"] /\ cancelReq = [t \in Task |-> FALSE]
      /\ pending = [t \in Task |-> NoOp] /\ runnable = [t \in Task |-> t]
      /\ current = Nobody /\ holds = [t \in Task |-> {}] /\ refs = [v \in SendOp |-> 0]
    BY DEF TInit
<1>3. /\ MaxTask \in Nat \ {0} /\ MaxTask < MaxHandles /\ MaxHandles \in Nat
      /\ by \in [Op -> Task] /\ NoOp \notin Op
    BY TaskAssumption, ChannelAssumption DEF TaskAssumption, ChannelAssumption
<1>4. /\ <<>> \in Seq(SendOp) /\ <<>> \in Seq(RecvOp) /\ Len(<<>>) = 0 /\ DOMAIN <<>> = {}
      /\ <<>> \o <<>> = <<>>
  <2>1. <<>> \in Seq(SendOp) /\ <<>> \in Seq(RecvOp) /\ Len(<<>>) = 0 /\ <<>> \o <<>> = <<>>
      BY EmptySeq, ConcatEmptySeq
  <2> QED
      BY <2>1, LenProperties
<1>5. handles \in 0..MaxHandles
    BY <1>1, <1>3
<1>6. ChannelInv
  <2>1. TypeOK
      BY <1>1, <1>4, <1>5 DEF TypeOK
  <2>2. NobodyWaitsInVain
    <3>1. capacity \in Nat
        BY <1>1, ChannelAssumption DEF ChannelAssumption
    <3> QED
        BY <1>1, <1>4, <3>1 DEF NobodyWaitsInVain
  <2>3. DestroyedIsEmpty /\ EndIsDrained
      BY <1>1 DEF DestroyedIsEmpty, EndIsDrained, Op
  <2>4. WaitingIsQueued
      BY <1>1, <1>4, RangeEmpty DEF WaitingIsQueued, IsInjective, Op
  <2>5. LineInv
    <3>1. /\ Kept(sendLog, Accepted) = <<>> /\ Kept(recvLog, Received) = <<>>
          /\ Kept(recvLog, Served) = <<>>
        BY <1>1, KeptEmpty
    <3>2. GivenSoFar = [i \in DOMAIN <<>> |-> got[<<>>[i]]]
        BY <3>1 DEF GivenSoFar, Given
    <3>3. GivenSoFar = <<>>
        BY <1>4, <3>2
    <3> QED
        BY <1>1, <1>4, <3>1, <3>3, RangeEmpty DEF LineInv, IsInjective
  <2> QED
      BY <2>1, <2>2, <2>3, <2>4, <2>5 DEF ChannelInv
<1>7. /\ DOMAIN runnable = Task /\ runnable \in Seq(Task) /\ IsInjective(runnable)
      /\ ToSet(runnable) = Task
  <2>1. runnable \in Seq(Task)
      BY <1>2, <1>3, IsASeq DEF Task
  <2> QED
      BY <1>2, <2>1 DEF ToSet, IsInjective
<1>8. Live = Task /\ Nobody \notin Task /\ \A t \in Task : ~terminal(t)
    BY <1>2 DEF Live, terminal, Ended, Nobody, Task
<1>9. Tasks
  <2>1. RunQueue
      BY <1>2, <1>7, <1>8 DEF RunQueue
  <2>2. Suspensions
      BY <1>1, <1>2, <1>3, <1>7, <1>8 DEF Suspensions, Waiting
  <2>3. HandlesHeld
    <3>1. Cardinality(1..MaxTask) = MaxTask
        BY <1>3, FS_Interval
    <3> QED
        BY <1>1, <1>3, <1>8, <3>1 DEF HandlesHeld, Task
  <2> QED
      BY <2>1, <2>2, <2>3 DEF Tasks
<1>10. Counts
    BY <1>1, <1>2 DEF Counts
<1>11. Line!FInit
    BY <1>1, <1>4 DEF Line!FInit
<1> QED
    BY <1>6, <1>9, <1>10, <1>11 DEF TaskInv

-----------------------------------------------------------------------------
(* The theorems.                                                           *)

\* The inductive invariant holds.
THEOREM TasksAndChannel == TSpec => []TaskInv
BY TaskInit, TaskStep, PTL DEF TSpec

\* The channel's queues and the tasks' suspensions agree both ways
\* (TaskChannels.RegistrationsAgree), whatever is cancelled, fails or times out
\* while it is blocked.
THEOREM RegistrationsAlwaysAgree == TSpec => []RegistrationsAgree
<1>1. TaskInv => RegistrationsAgree
  <2> SUFFICES ASSUME TaskInv PROVE RegistrationsAgree
      OBVIOUS
  <2>1. /\ ChannelInv /\ TypeOK /\ WaitingIsQueued /\ Counts /\ RunQueue /\ Suspensions
      BY DEF TaskInv, Tasks, ChannelInv
  <2>2. TTypeOK
      BY <2>1 DEF TTypeOK, Counts, RunQueue
  <2>3. RegistrationsAreLive
      BY <2>1, QueuedWait DEF RegistrationsAreLive, Suspensions, Op
  <2> QED
      BY <2>1, <2>2, <2>3 DEF RegistrationsAgree
<1> QED
    BY <1>1, TasksAndChannel, PTL

\* A reported deadlock is one (TaskChannels.DeadlockIsReal): every live task
\* waits at the channel, which is open and has nothing for any of them.
THEOREM DeadlocksAreReal == TSpec => []DeadlockIsReal
<1>1. TaskInv => DeadlockIsReal
  <2> SUFFICES ASSUME TaskInv, Driving, runnable = <<>>
               PROVE  /\ ~closed
                      /\ senders = <<>> \/ receivers = <<>>
                      /\ \A t \in Live : pending[t] # NoOp /\ Waiting(pending[t])
      BY DEF DeadlockIsReal
  <2>1. ChannelInv /\ NobodyWaitsInVain /\ Suspensions
      BY DEF TaskInv, Tasks, ChannelInv
  <2>2. current = Nobody /\ Live # {} /\ Live \subseteq Task /\ Nobody \notin Task /\ NoOp \notin Op
      BY TaskAssumption DEF Driving, Live, Nobody, Task, TaskAssumption
  <2>3. \A t \in Live : pending[t] \in Op /\ Waiting(pending[t])
      BY <2>1, <2>2, RangeEmpty DEF Suspensions
  <2>4. PICK op \in Op : Waiting(op)
      BY <2>2, <2>3
  <2>5. op \in ToSet(senders) \/ op \in ToSet(receivers)
      BY <2>1, <2>4, QueuedWait DEF Op
  <2>6. senders # <<>> \/ receivers # <<>>
      BY <2>5, RangeEmpty
  <2> QED
      BY <2>1, <2>2, <2>3, <2>6 DEF NobodyWaitsInVain
<1> QED
    BY <1>1, TasksAndChannel, PTL

\* Among tasks, too, nobody waits at a channel in vain
\* (Channel.NobodyWaitsInVain), the end of the stream and of the channel come
\* last (Channel.EndsLast), and what is received is what was sent, in order
\* (Channel.Fifo).
THEOREM NoTaskWaitsInVain == TSpec => []NobodyWaitsInVain
<1>1. TaskInv => NobodyWaitsInVain
    BY DEF TaskInv, ChannelInv
<1> QED
    BY <1>1, TasksAndChannel, PTL

\* The end that a task sees and the end of the channel come last.
THEOREM EndsLastForTasks == TSpec => []EndsLast
<1>1. TaskInv => EndsLast
    BY DEF TaskInv, ChannelInv, EndsLast
<1> QED
    BY <1>1, TasksAndChannel, PTL

\* First in, first out for the tasks: a cancelled, failed or ended task takes
\* nothing with it but its own unserved registration.
THEOREM FifoForTasks == TSpec => []Fifo
<1>1. TaskInv => Fifo
    BY DEF TaskInv, ChannelInv, LineInv, Fifo, GivenSoFar, Given, Accepted, Received
<1> QED
    BY <1>1, TasksAndChannel, PTL

\* The tasks use the channel as one line of values (Channel.OneLine): a task
\* that ends with blocked siblings, and the block that is left, are single
\* steps of FifoChannel.
THEOREM TasksUseOneLine == TSpec => OneLine
<1>1. TaskInv /\ [TNext]_allVars => [Line!FNext]_(Line!fvars)
    BY TaskStep DEF LineStutters
<1> QED
    BY <1>1, TaskInit, TasksAndChannel, PTL DEF TSpec, OneLine, Line!FSpec

-----------------------------------------------------------------------------
(* Ownership (TaskChannels.ValuesAreOwned).  A value that has been sent is  *)
(* with a task, on its way to one, buffered, or gone; its count is one or   *)
(* none accordingly, less what a cancelled sender released too much, more   *)
(* what a cancelled receiver did not release.                               *)

OnItsWay(r, v) == got[r] = v /\ pending[by[r]] = r

There(v) ==
    \/ \E t \in Task : v \in holds[t]
    \/ \E r \in RecvOp : OnItsWay(r, v)
    \/ v \in ToSet(buffer)

Present(v) == IF There(v) THEN 1 ELSE 0

SenderGone(v) == state[by[v]] = "cancelled" /\ pending[by[v]] # v
TakerGone(v) == \E r \in RecvOp : got[r] = v /\ state[by[r]] = "cancelled"

CountFits(v) ==
    /\ status[v] = "idle" => refs[v] = 0
    /\ status[v] = "waiting" => refs[v] = 1
    /\ status[v] = "faulted" => refs[v] \in {0, 1} /\ (pending[by[v]] = v => refs[v] = 1)
    /\ status[v] = "sent" =>
          /\ refs[v] \in {-1, 0, 1} /\ Present(v) - refs[v] \in {-1, 0, 1}
          /\ refs[v] < Present(v) => SenderGone(v)
          /\ refs[v] > Present(v) => TakerGone(v)
    /\ status[v] \notin {"idle", "waiting", "faulted", "sent"} =>
          refs[v] = IF pending[by[v]] = v THEN 1 ELSE 0

\* What has been received is with its operation, and what a task holds it has
\* received itself and resumed with.
Receipts ==
    /\ \A r \in RecvOp : status[r] # "received" => got[r] = NoValue
    /\ \A r \in RecvOp : status[r] = "received" => r \in ToSet(recvLog)
    /\ \A t \in Task : \A v \in holds[t] :
          \E r \in RecvOp : got[r] = v /\ by[r] = t /\ pending[t] # r
    /\ \A t \in Task : pending[t] \in Op => status[pending[t]] # "idle"

Ownership == Receipts /\ \A v \in SendOp : CountFits(v)

\* No two places of the channel's history have the same value.
LEMMA Placement ==
    ASSUME ChannelInv, Receipts
    PROVE  /\ IsInjective(buffer) /\ \A v \in ToSet(buffer) : status[v] = "sent"
           /\ \A r \in RecvOp : got[r] \in SendOp => status[r] = "received"
           /\ \A r \in RecvOp : got[r] \in SendOp =>
                  status[got[r]] = "sent" /\ got[r] \notin ToSet(buffer)
           /\ \A r, s \in RecvOp : got[r] \in SendOp /\ got[r] = got[s] => r = s
<1> DEFINE K == Kept(recvLog, Received)
           G == Given(K, got)
<1>1. /\ TypeOK /\ LineInv /\ WaitingIsQueued
      /\ buffer \in Seq(SendOp) /\ senders \in Seq(SendOp)
    BY DEF ChannelInv, TypeOK
<1>2. /\ buffer \in Seq(Values) /\ senders \in Seq(Values) /\ released \in Seq(Values)
      /\ G \in Seq(Values) /\ sendLog \in Seq(SendOp) /\ recvLog \in Seq(RecvOp)
      /\ K \in Seq(RecvOp) /\ got \in [RecvOp -> Values]
    BY <1>1, LineTypes DEF GivenSoFar
<1>3. Kept(sendLog, Accepted) = ((G \o released) \o buffer) \o senders
    BY <1>1 DEF LineInv, GivenSoFar
<1>4. /\ IsInjective(Kept(sendLog, Accepted))
      /\ ToSet(Kept(sendLog, Accepted)) = ToSet(sendLog) \cap Accepted
    BY <1>1, <1>2, KeptInjective, KeptRange DEF LineInv
<1>5. ToSet(K) = ToSet(recvLog) \cap Received
    BY <1>2, KeptRange
<1>6. DOMAIN G = DOMAIN K /\ \A i \in DOMAIN K : G[i] = got[K[i]]
    BY DEF Given
<1> HIDE DEF G, K
<1>7. /\ IsInjective(G) /\ IsInjective(buffer)
      /\ ToSet(G) \cap ToSet(buffer) = {}
      /\ (ToSet(G) \cup ToSet(buffer)) \cap ToSet(senders) = {}
      /\ ToSet(G) \cup ToSet(buffer) \subseteq Accepted
  <2>1. /\ G \o released \in Seq(Values) /\ (G \o released) \o buffer \in Seq(Values)
      BY <1>2, ConcatProperties
  <2>2. /\ IsInjective((G \o released) \o buffer)
        /\ ToSet((G \o released) \o buffer) \cap ToSet(senders) = {}
        /\ ToSet((G \o released) \o buffer) \cup ToSet(senders) \subseteq Accepted
    <3> DEFINE q == (G \o released) \o buffer
    <3>1. q \in Seq(Values) /\ senders \in Seq(Values)
        BY <1>2, <2>1
    <3>2. IsInjective(q \o senders) /\ ToSet(q \o senders) \subseteq Accepted
        BY <1>3, <1>4
    <3> HIDE DEF q
    <3>3. /\ IsInjective(q) /\ ToSet(q) \cap ToSet(senders) = {}
          /\ ToSet(q \o senders) = ToSet(q) \cup ToSet(senders)
        BY <3>1, <3>2, InjectiveConcat, RangeConcat
    <3> QED
        BY <3>2, <3>3 DEF q
  <2>3. /\ IsInjective(G \o released) /\ IsInjective(buffer)
        /\ ToSet(G \o released) \cap ToSet(buffer) = {}
        /\ ToSet((G \o released) \o buffer) = ToSet(G \o released) \cup ToSet(buffer)
    <3> DEFINE q == G \o released
    <3>1. q \in Seq(Values) /\ buffer \in Seq(Values) /\ IsInjective(q \o buffer)
        BY <1>2, <2>1, <2>2
    <3> HIDE DEF q
    <3>2. /\ IsInjective(q) /\ IsInjective(buffer) /\ ToSet(q) \cap ToSet(buffer) = {}
          /\ ToSet(q \o buffer) = ToSet(q) \cup ToSet(buffer)
        BY <3>1, InjectiveConcat, RangeConcat
    <3> QED
        BY <3>2 DEF q
  <2>4. IsInjective(G) /\ ToSet(G \o released) = ToSet(G) \cup ToSet(released)
      BY <1>2, <2>3, InjectiveConcat, RangeConcat
  <2> QED
      BY <2>2, <2>3, <2>4
<1>8. \A v \in ToSet(G) \cup ToSet(buffer) : status[v] = "sent"
  <2>1. \A v \in SendOp : status[v] = "waiting" => v \in ToSet(senders)
      BY <1>1 DEF WaitingIsQueued
  <2> QED
      BY <1>7, <2>1 DEF Accepted
<1>9. \A r \in RecvOp : got[r] \in SendOp => status[r] = "received"
    BY ChannelAssumption DEF Receipts, ChannelAssumption
<1>10. \A r \in RecvOp : got[r] \in SendOp => \E i \in DOMAIN K : K[i] = r
  <2>1. \A r \in RecvOp : got[r] \in SendOp => r \in ToSet(K)
      BY <1>5, <1>9 DEF Receipts, Received
  <2> QED
      BY <2>1 DEF ToSet
<1>11. \A r \in RecvOp : got[r] \in SendOp => got[r] \in ToSet(G)
    BY <1>6, <1>10 DEF ToSet
<1>12. \A r, s \in RecvOp : got[r] \in SendOp /\ got[r] = got[s] => r = s
  <2>1. \A i, j \in DOMAIN K : got[K[i]] = got[K[j]] => i = j
      BY <1>6, <1>7 DEF IsInjective
  <2> QED
      BY <1>10, <2>1
<1> QED
    BY <1>7, <1>8, <1>9, <1>11, <1>12

\* Where one value can be at once.
LEMMA Apart ==
    ASSUME ChannelInv, Counts, Receipts, NEW v \in SendOp
    PROVE  /\ \A t, u \in Task : v \in holds[t] /\ v \in holds[u] => t = u
           /\ \A t \in Task : v \in holds[t] =>
                 /\ status[v] = "sent" /\ v \notin ToSet(buffer)
                 /\ \A r \in RecvOp : got[r] = v => by[r] = t /\ pending[t] # r
           /\ \A r \in RecvOp : got[r] = v => status[v] = "sent" /\ v \notin ToSet(buffer)
           /\ \A r, s \in RecvOp : got[r] = v /\ got[s] = v => r = s
           /\ v \in ToSet(buffer) => status[v] = "sent"
           /\ There(v) => status[v] = "sent"
<1>1. /\ \A u \in ToSet(buffer) : status[u] = "sent"
      /\ \A r \in RecvOp : got[r] = v => status[v] = "sent" /\ v \notin ToSet(buffer)
      /\ \A r, s \in RecvOp : got[r] = v /\ got[s] = v => r = s
    BY Placement
<1>2. \A t \in Task : v \in holds[t] =>
          \E r \in RecvOp : got[r] = v /\ by[r] = t /\ pending[t] # r
    BY DEF Receipts
<1> QED
    BY <1>1, <1>2 DEF There, OnItsWay

\* The theorem: the cardinalities count places of which there is one or none.
LEMMA OwnedIsOwned == TaskInv /\ Ownership => ValuesAreOwned
<1> SUFFICES ASSUME TaskInv, Ownership, NEW v \in SendOp
             PROVE  /\ Occurrences(v) <= 1
                    /\ \/ refs[v] = Occurrences(v)
                       \/ status[v] = "faulted"
                       \/ status[v] = "sent" /\ state[by[v]] = "cancelled"
                       \/ \E r \in RecvOp : got[r] = v /\ state[by[r]] = "cancelled"
                    /\ refs[v] \in {-1, 0, 1}
    BY DEF ValuesAreOwned, OnePlace, CountsAgree
<1> DEFINE A == {t \in Task : v \in holds[t]}
           B == {r \in RecvOp : got[r] = v /\ pending[by[r]] = r}
           C == {i \in DOMAIN buffer : buffer[i] = v}
           D == {op \in {v} : pending[by[v]] = v /\ status[v] # "sent"}
           One(S) == IF S = {} THEN 0 ELSE 1
<1>1. /\ ChannelInv /\ Counts /\ Receipts /\ CountFits(v) /\ Suspensions
    BY DEF TaskInv, Tasks, Ownership
<1>2. /\ Cardinality(A) = One(A) /\ Cardinality(B) = One(B)
      /\ Cardinality(C) = One(C) /\ Cardinality(D) = One(D)
  <2>1. /\ \A x, y \in A : x = y
        /\ \A x, y \in B : x = y
        /\ \A x, y \in C : x = y
        /\ \A x, y \in D : x = y
      BY <1>1, Apart, Placement DEF IsInjective
  <2>2. \A S : (\A x, y \in S : x = y) => Cardinality(S) = One(S)
    <3> SUFFICES ASSUME NEW S, \A x, y \in S : x = y PROVE Cardinality(S) = One(S)
        OBVIOUS
    <3>1. CASE S = {}
        BY <3>1, FS_EmptySet
    <3>2. CASE S # {}
      <4>1. PICK x : S = {x}
          BY <3>2
      <4> QED
          BY <3>2, <4>1, FS_Singleton
    <3> QED
        BY <3>1, <3>2
  <2> HIDE DEF A, B, C, D, One
  <2> QED
      BY <2>1, <2>2
<1>3. Occurrences(v) = One(A) + One(B) + One(C) + One(D)
    BY <1>2 DEF Occurrences, Places
<1>4. /\ There(v) <=> A # {} \/ B # {} \/ C # {}
      /\ D # {} <=> pending[by[v]] = v /\ status[v] # "sent"
      /\ There(v) => D = {}
      /\ A # {} => B = {} /\ C = {}
      /\ B # {} => C = {}
  <2>1. There(v) <=> A # {} \/ B # {} \/ C # {}
      BY DEF There, OnItsWay, ToSet
  <2>2. D # {} <=> pending[by[v]] = v /\ status[v] # "sent"
      OBVIOUS
  <2>3. There(v) => D = {}
      BY <1>1, Apart
  <2>4. C # {} => v \in ToSet(buffer)
      BY DEF ToSet
  <2> QED
      BY <1>1, <2>1, <2>2, <2>3, <2>4, Apart
<1> HIDE DEF A, B, C, D
<1>5. Occurrences(v) = IF There(v) \/ D # {} THEN 1 ELSE 0
    BY <1>3, <1>4
<1>6. /\ status[v] = "waiting" => pending[by[v]] = v
      /\ status[v] = "idle" => pending[by[v]] # v
      /\ There(v) => status[v] = "sent"
  <2>1. v \in Op /\ by[v] \in Task
      BY TaskAssumption DEF Op, TaskAssumption
  <2> QED
      BY <1>1, <2>1, Apart DEF Suspensions, Waiting, Receipts
<1> HIDE DEF One
<1> QED
    BY <1>1, <1>4, <1>5, <1>6 DEF CountFits, Present, SenderGone, TakerGone

\* Steps in which values are let go: those of V by task t, which is Nobody if no
\* task loses its frame, and those of B by the buffer.  Operations that waited
\* may be withdrawn or dismissed, and a send may be refused.
Lost(t, V, B) ==
    /\ ToSet(buffer') = ToSet(buffer) \ B /\ got' = got
    /\ ToSet(recvLog) \subseteq ToSet(recvLog')
    /\ \A u \in Task : holds'[u] = IF u = t THEN holds[u] \ V ELSE holds[u]
    /\ \A u \in Task : pending'[u] = IF u = t THEN NoOp ELSE pending[u]
    /\ \A u \in Task : /\ u # t => state'[u] = state[u]
                       /\ state[u] = "cancelled" => state'[u] = "cancelled"
    /\ \A op \in Op :
          \/ status'[op] = status[op]
          \/ Waiting(op) /\ status'[op] \in {"cancelled", "faulted", "eof"}
          \/ op \in SendOp /\ status[op] = "idle" /\ status'[op] = "faulted"
    /\ \A v \in SendOp :
          IF status[v] = "idle" /\ status'[v] = "faulted" THEN refs'[v] = 1
          ELSE refs'[v] = (refs[v] - (IF v \in V THEN 1 ELSE 0))
                                   - (IF v \in B THEN 1 ELSE 0)
    /\ \A op \in Op : Waiting(op) => by[op] # t
    /\ \A v \in V : /\ t \in Task
                    /\ v \in holds[t] \/ (v = pending[t] /\ state'[t] = "cancelled")
    /\ t \in Task /\ pending[t] \in SendOp /\ pending[t] \notin V
          => status[pending[t]] = "faulted"
    /\ t \in Task /\ pending[t] \in RecvOp => state'[t] = "cancelled"

LEMMA LossOwned ==
    ASSUME TaskInv, Ownership, NEW t \in Task \cup {Nobody},
           NEW V \in SUBSET SendOp, NEW B \in SUBSET ToSet(buffer), Lost(t, V, B)
    PROVE  Ownership'
<1>0. /\ ToSet(buffer') = ToSet(buffer) \ B /\ got' = got
      /\ ToSet(recvLog) \subseteq ToSet(recvLog')
      /\ \A u \in Task : holds'[u] = IF u = t THEN holds[u] \ V ELSE holds[u]
      /\ \A u \in Task : pending'[u] = IF u = t THEN NoOp ELSE pending[u]
      /\ \A u \in Task : /\ u # t => state'[u] = state[u]
                         /\ state[u] = "cancelled" => state'[u] = "cancelled"
      /\ \A op \in Op :
            \/ status'[op] = status[op]
            \/ Waiting(op) /\ status'[op] \in {"cancelled", "faulted", "eof"}
            \/ op \in SendOp /\ status[op] = "idle" /\ status'[op] = "faulted"
      /\ \A v \in SendOp :
            IF status[v] = "idle" /\ status'[v] = "faulted" THEN refs'[v] = 1
            ELSE refs'[v] = (refs[v] - (IF v \in V THEN 1 ELSE 0))
                                     - (IF v \in B THEN 1 ELSE 0)
      /\ \A op \in Op : Waiting(op) => by[op] # t
      /\ \A v \in V : /\ t \in Task
                      /\ v \in holds[t] \/ (v = pending[t] /\ state'[t] = "cancelled")
      /\ t \in Task /\ pending[t] \in SendOp /\ pending[t] \notin V
            => status[pending[t]] = "faulted"
      /\ t \in Task /\ pending[t] \in RecvOp => state'[t] = "cancelled"
    BY DEF Lost
<1> USE <1>0
<1>1. /\ ChannelInv /\ TypeOK /\ Counts /\ Receipts /\ Suspensions
      /\ \A v \in SendOp : CountFits(v)
    BY DEF TaskInv, Tasks, Ownership, ChannelInv
<1>2. /\ by \in [Op -> Task] /\ NoOp \notin Op /\ SendOp \cap RecvOp = {} /\ NoValue \notin SendOp
    BY TaskAssumption, ChannelAssumption DEF TaskAssumption, ChannelAssumption
<1>3. \A u \in Task : pending[u] \in Op => by[pending[u]] = u /\ status[pending[u]] # "idle"
    BY <1>1 DEF Suspensions, Receipts
<1>4. Receipts'
  <2>1. \A r \in RecvOp : status'[r] = "received" <=> status[r] = "received"
      BY <1>2 DEF Waiting, Op
  <2>2. /\ \A r \in RecvOp : status'[r] # "received" => got'[r] = NoValue
        /\ \A r \in RecvOp : status'[r] = "received" => r \in ToSet(recvLog')
      BY <1>1, <2>1 DEF Receipts
  <2>3. \A u \in Task : \A v \in holds'[u] :
            \E r \in RecvOp : got'[r] = v /\ by[r] = u /\ pending'[u] # r
    <3> SUFFICES ASSUME NEW u \in Task, NEW v \in holds'[u]
                 PROVE  \E r \in RecvOp : got'[r] = v /\ by[r] = u /\ pending'[u] # r
        OBVIOUS
    <3>1. v \in holds[u]
        OBVIOUS
    <3>2. PICK r \in RecvOp : got[r] = v /\ by[r] = u /\ pending[u] # r
        BY <1>1, <3>1 DEF Receipts
    <3>3. pending'[u] # r
        BY <1>2, <3>2 DEF Op
    <3> QED
        BY <3>2, <3>3
  <2>4. \A u \in Task : pending'[u] \in Op => status'[pending'[u]] # "idle"
      BY <1>2, <1>3 DEF Waiting
  <2> QED
      BY <2>2, <2>3, <2>4 DEF Receipts
<1>5. ASSUME NEW v \in SendOp PROVE CountFits(v)'
  <2>1. /\ v \in Op /\ by[v] \in Task /\ CountFits(v)
        /\ \A u \in Task : pending[u] = v => u = by[v]
        /\ pending[by[v]] = v => status[v] # "idle"
        /\ status[v] = "waiting" => pending[by[v]] = v /\ by[v] # t
      BY <1>1, <1>2, <1>3 DEF Op, Suspensions, Waiting
  <2>2. /\ \A u, w \in Task : v \in holds[u] /\ v \in holds[w] => u = w
        /\ \A u \in Task : v \in holds[u] =>
              /\ status[v] = "sent" /\ v \notin ToSet(buffer)
              /\ \A r \in RecvOp : got[r] = v => by[r] = u /\ pending[u] # r
        /\ \A r \in RecvOp : got[r] = v => status[v] = "sent" /\ v \notin ToSet(buffer)
        /\ \A r, s \in RecvOp : got[r] = v /\ got[s] = v => r = s
        /\ v \in ToSet(buffer) => status[v] = "sent"
      BY <1>1, Apart
  <2>3. v \in V => /\ t \in Task
                   /\ v \in holds[t] \/ (v = pending[t] /\ by[v] = t /\ state'[t] = "cancelled")
      BY <2>1
  <2>4. pending'[by[v]] = IF by[v] = t THEN NoOp ELSE pending[by[v]]
      BY <2>1
  <2>5. NoOp # v
      BY <1>2, <2>1
  <2>6. by[v] = t /\ pending[t] = v => v \in V \/ status[v] = "faulted"
      BY <2>1
  <2>7. status[v] # "sent" => v \notin B /\ (v \in V => by[v] = t /\ pending[t] = v)
      BY <2>2, <2>3
  <2>8. \A u \in Task : v \in holds'[u] <=> v \in holds[u] /\ ~(u = t /\ v \in V)
      OBVIOUS
  <2>9. CASE status[v] # "sent"
    <3>1. \/ status'[v] = status[v]
          \/ status[v] = "waiting" /\ status'[v] \in {"cancelled", "faulted", "eof"}
          \/ status[v] = "idle" /\ status'[v] = "faulted"
        BY <2>1 DEF Waiting
    <3>2. \/ status[v] = "idle" /\ status'[v] = "faulted" /\ refs'[v] = 1
          \/ ~(status[v] = "idle" /\ status'[v] = "faulted")
             /\ refs'[v] = refs[v] - (IF v \in V THEN 1 ELSE 0)
      <4>1. refs[v] \in Int
          BY <1>1 DEF Counts
      <4> QED
          BY <2>7, <2>9, <4>1
    <3>3. status'[v] # "sent"
        BY <2>9, <3>1
    <3>4. refs[v] \in Int
        BY <1>1 DEF Counts
    <3> QED
        BY <2>1, <2>4, <2>5, <2>6, <2>7, <2>9, <3>1, <3>2, <3>3, <3>4 DEF CountFits
  <2>10. CASE status[v] = "sent"
    <3>1. status'[v] = "sent"
        BY <2>1, <2>10 DEF Waiting
    <3>2. refs'[v] = (refs[v] - (IF v \in V THEN 1 ELSE 0)) - (IF v \in B THEN 1 ELSE 0)
        BY <2>10
    <3>3. /\ refs[v] \in {-1, 0, 1} /\ Present(v) - refs[v] \in {-1, 0, 1}
          /\ Present(v) \in {0, 1}
          /\ refs[v] < Present(v) => state[by[v]] = "cancelled" /\ pending[by[v]] # v
          /\ refs[v] > Present(v) => TakerGone(v)
        BY <2>1, <2>10 DEF CountFits, SenderGone, Present
    <3>4. Present(v)' \in {0, 1} /\ (Present(v)' = 1 <=> There(v)') /\ (Present(v) = 1 <=> There(v))
        BY DEF Present
    <3>5. /\ TakerGone(v) => TakerGone(v)'
          /\ SenderGone(v) => SenderGone(v)'
      <4>1. \A r \in RecvOp : by[r] \in Task
          BY <1>2 DEF Op
      <4> QED
          BY <2>1, <2>4, <2>5, <4>1 DEF TakerGone, SenderGone
    <3>6. There(v)' => There(v)
      <4> SUFFICES ASSUME There(v)' PROVE There(v)
          OBVIOUS
      <4>1. CASE \E u \in Task : v \in holds'[u]
          BY <4>1 DEF There
      <4>2. CASE \E r \in RecvOp : got'[r] = v /\ pending'[by[r]] = r
        <5>1. PICK r \in RecvOp : got'[r] = v /\ pending'[by[r]] = r
            BY <4>2
        <5>2. r \in Op /\ by[r] \in Task
            BY <1>2 DEF Op
        <5>3. pending[by[r]] = r
            BY <1>2, <5>1, <5>2
        <5> QED
            BY <5>1, <5>3 DEF There, OnItsWay
      <4>3. CASE v \in ToSet(buffer')
          BY <4>3 DEF There
      <4> QED
          BY <4>1, <4>2, <4>3 DEF There, OnItsWay
    \* What was lost, if the value was somewhere.
    <3>7. ASSUME There(v), ~There(v)'
          PROVE  \/ t \in Task /\ v \in holds[t] /\ v \in V
                 \/ v \in B
                 \/ TakerGone(v)' /\ v \notin B /\ (v \in V => v = pending[t])
      <4>1. CASE \E u \in Task : v \in holds[u]
        <5>1. PICK u \in Task : v \in holds[u] /\ v \notin holds'[u]
            BY <3>7, <4>1 DEF There
        <5> QED
            BY <5>1
      <4>2. CASE \E r \in RecvOp : got[r] = v /\ pending[by[r]] = r
        <5>1. PICK r \in RecvOp : got[r] = v /\ pending[by[r]] = r
            BY <4>2
        <5>2. r \in Op /\ by[r] \in Task
            BY <1>2 DEF Op
        <5>3. pending'[by[r]] # r
            BY <3>7, <5>1 DEF There, OnItsWay
        <5>4. by[r] = t /\ pending[t] = r
            BY <5>1, <5>2, <5>3
        <5>5. state'[t] = "cancelled"
            BY <5>2, <5>4
        <5>6. TakerGone(v)'
            BY <5>1, <5>4, <5>5 DEF TakerGone
        <5>7. v \notin B
            BY <2>2, <5>1
        <5>8. \A u \in Task : v \notin holds[u]
            BY <2>2, <5>1
        <5> QED
            BY <2>3, <5>6, <5>7, <5>8
      <4>3. CASE v \in ToSet(buffer)
          BY <3>7, <4>3 DEF There
      <4> QED
          BY <3>7, <4>1, <4>2, <4>3 DEF There, OnItsWay
    <3>8. v \in B => There(v) /\ ~There(v)'
      <4> SUFFICES ASSUME v \in B PROVE There(v) /\ ~There(v)'
          OBVIOUS
      <4>1. v \in ToSet(buffer) /\ v \notin ToSet(buffer')
          OBVIOUS
      <4>2. There(v)
          BY <4>1 DEF There
      <4>3. /\ \A u \in Task : v \notin holds'[u]
            /\ \A r \in RecvOp : got'[r] # v
          BY <2>2, <2>8, <4>1
      <4> QED
          BY <4>1, <4>2, <4>3 DEF There, OnItsWay
    <3>9. v \in V /\ v \in holds[t] => There(v) /\ ~There(v)' /\ v \notin B
      <4> SUFFICES ASSUME v \in V, v \in holds[t] PROVE There(v) /\ ~There(v)' /\ v \notin B
          OBVIOUS
      <4>1. t \in Task /\ There(v) /\ v \notin ToSet(buffer)
          BY <2>2, <2>3 DEF There
      <4>2. \A u \in Task : v \notin holds'[u]
          BY <2>2, <2>8, <4>1
      <4>3. \A r \in RecvOp : ~(got'[r] = v /\ pending'[by[r]] = r)
        <5>1. SUFFICES ASSUME NEW r \in RecvOp, got[r] = v PROVE pending'[by[r]] # r
            OBVIOUS
        <5>2. by[r] = t /\ r \in Op
            BY <2>2, <4>1, <5>1 DEF Op
        <5> QED
            BY <1>2, <4>1, <5>2
      <4> QED
          BY <4>1, <4>2, <4>3 DEF There, OnItsWay
    <3>10. v \in V /\ v \notin holds[t] => pending[by[v]] = v /\ SenderGone(v)'
        BY <2>1, <2>3, <2>4, <2>5 DEF SenderGone
    <3>11. pending[by[v]] = v /\ by[v] = t => v \in V
        BY <2>6, <2>10
    <3>12. /\ refs'[v] \in {-1, 0, 1} /\ Present(v)' - refs'[v] \in {-1, 0, 1}
           /\ refs'[v] < Present(v)' => SenderGone(v)'
           /\ refs'[v] > Present(v)' => TakerGone(v)'
      <4>1. SenderGone(v) <=> state[by[v]] = "cancelled" /\ pending[by[v]] # v
          BY DEF SenderGone
      <4>2. CASE v \in V /\ v \in holds[t]
          BY <3>2, <3>3, <3>4, <3>5, <3>9, <4>1, <4>2
      <4>3. CASE v \in V /\ v \notin holds[t]
        <5>1. refs[v] >= Present(v)
            BY <3>3, <3>10, <4>3
        <5> QED
            BY <3>2, <3>3, <3>4, <3>5, <3>6, <3>7, <3>8, <3>10, <4>3, <5>1
      <4>4. CASE v \notin V
          BY <3>2, <3>3, <3>4, <3>5, <3>6, <3>7, <3>8, <4>1, <4>4
      <4> QED
          BY <4>2, <4>3, <4>4
    <3> QED
        BY <3>1, <3>12 DEF CountFits
  <2> QED
      BY <2>9, <2>10
<1> QED
    BY <1>4, <1>5 DEF Ownership

\* A task starts, or goes on with the result of its operation: what was on its
\* way to it is now with it.
LEMMA RunsOwned ==
    ASSUME TaskInv, Ownership, NEW t \in Live,
           UNCHANGED <<buffer, got, status, recvLog, refs>>,
           state' = [state EXCEPT ![t] = "running"],
           pending' = [pending EXCEPT ![t] = NoOp],
           pending[t] \in SendOp => status[pending[t]] = "sent",
           \A u \in Task : \A v \in SendOp :
              v \in holds'[u] <=> \/ v \in holds[u]
                                  \/ u = t /\ pending[t] \in RecvOp /\ got[pending[t]] = v,
           \A u \in Task : holds'[u] \subseteq SendOp
    PROVE  Ownership'
<1>1. /\ ChannelInv /\ TypeOK /\ Counts /\ Receipts /\ Suspensions /\ RunQueue
      /\ \A v \in SendOp : CountFits(v)
    BY DEF TaskInv, Tasks, Ownership, ChannelInv
<1>2. /\ by \in [Op -> Task] /\ NoOp \notin Op /\ SendOp \cap RecvOp = {} /\ NoValue \notin SendOp
    BY TaskAssumption, ChannelAssumption DEF TaskAssumption, ChannelAssumption
<1>3. \A u \in Task : pending[u] \in Op => by[pending[u]] = u /\ status[pending[u]] # "idle"
    BY <1>1 DEF Suspensions, Receipts
<1>4. /\ buffer' = buffer /\ got' = got /\ status' = status /\ recvLog' = recvLog /\ refs' = refs
    OBVIOUS
<1>5. /\ t \in Task /\ state[t] # "cancelled"
      /\ \A u \in Task : state'[u] = IF u = t THEN "running" ELSE state[u]
      /\ \A u \in Task : pending'[u] = IF u = t THEN NoOp ELSE pending[u]
    BY <1>1 DEF Live, RunQueue, terminal, Ended
<1>6. Receipts'
  <2>1. \A u \in Task : \A v \in holds'[u] :
            \E r \in RecvOp : got'[r] = v /\ by[r] = u /\ pending'[u] # r
    <3> SUFFICES ASSUME NEW u \in Task, NEW v \in holds'[u]
                 PROVE  \E r \in RecvOp : got[r] = v /\ by[r] = u /\ pending'[u] # r
        BY <1>4
    <3>1. CASE v \in holds[u]
      <4>1. PICK r \in RecvOp : got[r] = v /\ by[r] = u /\ pending[u] # r
          BY <1>1, <3>1 DEF Receipts
      <4>2. pending'[u] # r
          BY <1>2, <1>5, <4>1 DEF Op
      <4> QED
          BY <4>1, <4>2
    <3>2. CASE v \notin holds[u]
      <4>1. u = t /\ pending[t] \in RecvOp /\ got[pending[t]] = v
          BY <3>2
      <4>2. by[pending[t]] = t /\ pending'[t] # pending[t]
          BY <1>2, <1>3, <1>5, <4>1 DEF Op
      <4> QED
          BY <4>1, <4>2
    <3> QED
        BY <3>1, <3>2
  <2>2. \A u \in Task : pending'[u] \in Op => status'[pending'[u]] # "idle"
      BY <1>2, <1>3, <1>4, <1>5
  <2> QED
      BY <1>1, <1>4, <2>1, <2>2 DEF Receipts
<1>7. ASSUME NEW v \in SendOp PROVE CountFits(v)'
  <2>1. /\ v \in Op /\ by[v] \in Task /\ CountFits(v) /\ NoOp # v
        /\ status[v] # "sent" => pending[t] # v
        /\ \A u \in Task : pending[u] = v => u = by[v]
      BY <1>1, <1>2, <1>3 DEF Op
  <2>2. There(v)' <=> There(v)
    <3>1. \A r \in RecvOp : by[r] \in Task /\ (pending[t] = r => by[r] = t) /\ r # NoOp
        BY <1>2, <1>3, <1>5 DEF Op
    <3>2. (\E r \in RecvOp : got'[r] = v /\ pending'[by[r]] = r)
          <=> (\E r \in RecvOp : got[r] = v /\ pending[by[r]] = r /\ r # pending[t])
        BY <1>4, <1>5, <3>1
    <3>3. (\E u \in Task : v \in holds'[u])
          <=> (\E u \in Task : v \in holds[u]) \/ (pending[t] \in RecvOp /\ got[pending[t]] = v)
        BY <1>5
    <3>4. There(v) <=> \/ \E u \in Task : v \in holds[u]
                       \/ \E r \in RecvOp : got[r] = v /\ pending[by[r]] = r /\ r # pending[t]
                       \/ pending[t] \in RecvOp /\ got[pending[t]] = v
                       \/ v \in ToSet(buffer)
        BY <3>1 DEF There, OnItsWay
    <3> QED
        BY <1>4, <3>2, <3>3, <3>4 DEF There, OnItsWay
  <2>3. Present(v)' = Present(v)
      BY <2>2 DEF Present
  <2>4. /\ TakerGone(v) => TakerGone(v)'
        /\ SenderGone(v) => SenderGone(v)'
    <3>1. \A r \in RecvOp : by[r] \in Task
        BY <1>2 DEF Op
    <3>2. \A u \in Task : state[u] = "cancelled" => state'[u] = "cancelled"
        BY <1>5
    <3> QED
        BY <1>4, <1>5, <2>1, <3>1, <3>2 DEF TakerGone, SenderGone
  <2>5. status'[v] = status[v] /\ refs'[v] = refs[v]
      BY <1>4
  <2>6. status[v] # "sent" => (pending'[by[v]] = v <=> pending[by[v]] = v)
      BY <1>5, <2>1
  <2> QED
      BY <2>1, <2>3, <2>4, <2>5, <2>6 DEF CountFits
<1> QED
    BY <1>6, <1>7 DEF Ownership

\* The running task is suspended on an operation, which may make its value.
LEMMA WaitsOwned ==
    ASSUME TaskInv, Ownership, NEW t \in Task, NEW op \in Op, current = t, by[op] = t,
           status[op] = "idle", UNCHANGED <<buffer, got, state, holds>>,
           status' = [status EXCEPT ![op] = "waiting"],
           pending' = [pending EXCEPT ![t] = op],
           ToSet(recvLog) \subseteq ToSet(recvLog'),
           \A v \in SendOp : refs'[v] = IF v = op THEN 1 ELSE refs[v]
    PROVE  Ownership'
<1>1. /\ ChannelInv /\ TypeOK /\ Counts /\ Receipts /\ Suspensions /\ RunQueue
      /\ \A v \in SendOp : CountFits(v)
      /\ pending[t] = NoOp
    BY Running DEF TaskInv, Tasks, Ownership, ChannelInv
<1>2. /\ by \in [Op -> Task] /\ NoOp \notin Op /\ SendOp \cap RecvOp = {} /\ NoValue \notin SendOp
    BY TaskAssumption, ChannelAssumption DEF TaskAssumption, ChannelAssumption
<1>3. \A u \in Task : pending[u] \in Op => by[pending[u]] = u /\ status[pending[u]] # "idle"
    BY <1>1 DEF Suspensions, Receipts
<1>4. /\ buffer' = buffer /\ got' = got /\ state' = state /\ holds' = holds
      /\ \A o \in Op : status'[o] = IF o = op THEN "waiting" ELSE status[o]
      /\ \A u \in Task : pending'[u] = IF u = t THEN op ELSE pending[u]
    BY <1>1 DEF TypeOK, RunQueue
<1>5. op \in RecvOp => got[op] = NoValue
    BY <1>1 DEF Receipts
<1>6. Receipts'
  <2>1. /\ \A r \in RecvOp : status'[r] # "received" => got'[r] = NoValue
        /\ \A r \in RecvOp : status'[r] = "received" => r \in ToSet(recvLog')
      BY <1>1, <1>4, <1>5 DEF Receipts, Op
  <2>2. \A u \in Task : \A v \in holds'[u] :
            \E r \in RecvOp : got'[r] = v /\ by[r] = u /\ pending'[u] # r
    <3> SUFFICES ASSUME NEW u \in Task, NEW v \in holds[u]
                 PROVE  \E r \in RecvOp : got[r] = v /\ by[r] = u /\ pending'[u] # r
        BY <1>4
    <3>1. PICK r \in RecvOp : got[r] = v /\ by[r] = u /\ pending[u] # r
        BY <1>1 DEF Receipts
    <3>2. v \in SendOp
        BY <1>1 DEF Counts
    <3>3. pending'[u] # r
        BY <1>2, <1>4, <1>5, <3>1, <3>2
    <3> QED
        BY <3>1, <3>3
  <2>3. \A u \in Task : pending'[u] \in Op => status'[pending'[u]] # "idle"
      BY <1>3, <1>4
  <2> QED
      BY <2>1, <2>2, <2>3 DEF Receipts
<1>7. ASSUME NEW v \in SendOp PROVE CountFits(v)'
  <2>1. /\ v \in Op /\ by[v] \in Task /\ CountFits(v) /\ NoOp # v
        /\ \A u \in Task : pending[u] = v => u = by[v] /\ status[v] # "idle"
      BY <1>1, <1>2, <1>3 DEF Op
  <2>2. CASE v = op
      BY <1>4, <2>1, <2>2 DEF CountFits
  <2>3. CASE v # op
    <3>1. There(v)' <=> There(v)
      <4>1. \A r \in RecvOp : got[r] = v =>
               /\ by[r] \in Task /\ r # op /\ r # NoOp
               /\ (pending'[by[r]] = r <=> pending[by[r]] = r)
          BY <1>1, <1>2, <1>4, <1>5 DEF Op
      <4> QED
          BY <1>4, <4>1 DEF There, OnItsWay
    <3>2. Present(v)' = Present(v)
        BY <3>1 DEF Present
    <3>3. pending'[by[v]] = v <=> pending[by[v]] = v
        BY <1>1, <1>4, <2>1, <2>3
    <3>4. /\ TakerGone(v) => TakerGone(v)'
          /\ SenderGone(v) => SenderGone(v)'
        BY <1>4, <3>3 DEF TakerGone, SenderGone
    <3>5. status'[v] = status[v] /\ refs'[v] = refs[v]
        BY <1>4, <2>1, <2>3
    <3> QED
        BY <2>1, <3>2, <3>3, <3>4, <3>5 DEF CountFits
  <2> QED
      BY <2>2, <2>3
<1> QED
    BY <1>6, <1>7 DEF Ownership

\* Steps that bring some values into the channel and leave the others and all
\* suspensions where they are.
LEMMA MovesOwned ==
    ASSUME Ownership, Receipts', state' = state, pending' = pending,
           \A v \in SendOp :
              \/ status'[v] = "sent" /\ refs'[v] = 1 /\ There(v)'
              \/ /\ status'[v] = status[v] /\ refs'[v] = refs[v]
                 /\ There(v)' <=> There(v)
                 /\ \A r \in RecvOp : got[r] = v => got'[r] = v
    PROVE  Ownership'
<1>1. ASSUME NEW v \in SendOp PROVE CountFits(v)'
  <2>1. CASE status'[v] = "sent" /\ refs'[v] = 1 /\ There(v)'
      BY <2>1 DEF CountFits, Present
  <2>2. CASE /\ status'[v] = status[v] /\ refs'[v] = refs[v]
             /\ There(v)' <=> There(v)
             /\ \A r \in RecvOp : got[r] = v => got'[r] = v
    <3>1. CountFits(v)
        BY DEF Ownership
    <3>2. Present(v)' = Present(v)
        BY <2>2 DEF Present
    <3>3. /\ TakerGone(v) => TakerGone(v)'
          /\ SenderGone(v) => SenderGone(v)'
        BY <2>2 DEF TakerGone, SenderGone
    <3> QED
        BY <2>2, <3>1, <3>2, <3>3 DEF CountFits
  <2> QED
      BY <2>1, <2>2
<1> QED
    BY <1>1 DEF Ownership

\* Blocked receives have been called.
LEMMA BlockedIsLogged ==
    ASSUME ChannelInv, NEW r \in ToSet(receivers)
    PROVE  r \in ToSet(recvLog)
<1>1. /\ recvLog \in Seq(RecvOp) /\ receivers \in Seq(RecvOp)
      /\ Kept(recvLog, Received) \in Seq(RecvOp)
      /\ Kept(recvLog, Served) = Kept(recvLog, Received) \o receivers
    BY LineTypes DEF ChannelInv, LineInv, TypeOK
<1>2. ToSet(Kept(recvLog, Served)) = ToSet(recvLog) \cap Served
    BY <1>1, KeptRange
<1>3. ToSet(Kept(recvLog, Served)) = ToSet(Kept(recvLog, Received)) \cup ToSet(receivers)
  <2> DEFINE K == Kept(recvLog, Received)
  <2>1. K \in Seq(RecvOp) /\ receivers \in Seq(RecvOp)
      BY <1>1
  <2>2. Kept(recvLog, Served) = K \o receivers
      BY <1>1
  <2> HIDE DEF K
  <2>3. ToSet(K \o receivers) = ToSet(K) \cup ToSet(receivers)
      BY <2>1, RangeConcat
  <2> QED
      BY <2>2, <2>3 DEF K
<1> QED
    BY <1>2, <1>3

\* What Settle leaves while a handle is held.
LEMMA HeldSettles ==
    ASSUME NEW buf, NEW ss, NEW rs, Settle(buf, ss, rs, handles), handles > 0
    PROVE  buffer' = buf
<1>1. ~(handles > 0 /\ handles = 0)
    OBVIOUS
<1> QED
    BY <1>1 DEF Settle, Unowned

LEMMA SendsOwned ==
    ASSUME TaskInv, Ownership, NEW t \in Task, Sends(t)
    PROVE  Ownership'
<1>1. PICK v \in SendOp :
        /\ Idle(t, v) /\ Made(v)
        /\ SendToReceiver(v) \/ SendToBuffer(v)
        /\ UNCHANGED <<state, cancelReq, pending, current, holds, rootHandle>>
    BY DEF Sends
<1>2. /\ state' = state /\ pending' = pending /\ holds' = holds
      /\ current = t /\ status[v] = "idle" /\ v \in Op
      /\ recvLog' = recvLog
    BY <1>1 DEF Idle, SendToReceiver, SendToBuffer, SendCall, Op
<1>3. /\ ChannelInv /\ TypeOK /\ Counts /\ Receipts /\ Suspensions /\ handles > 0
    BY <1>2, Running DEF Ownership
<1>4. /\ SendOp \cap RecvOp = {} /\ NoValue \notin SendOp
    BY ChannelAssumption DEF ChannelAssumption
<1>5. \A u \in SendOp : refs'[u] = IF u = v THEN 1 ELSE refs[u]
    BY <1>1, <1>3 DEF Made, Counts
<1>6. ~There(v) /\ \A r \in RecvOp : got[r] # v
    BY <1>2, <1>3, Apart
<1>7. CASE SendToBuffer(v)
  <2>1. /\ buffer' = Append(buffer, v) /\ got' = got /\ status' = [status EXCEPT ![v] = "sent"]
      BY <1>7 DEF SendToBuffer
  <2>2. \A o \in Op : status'[o] = IF o = v THEN "sent" ELSE status[o]
      BY <1>3, <2>1 DEF TypeOK
  <2>3. ToSet(buffer') = ToSet(buffer) \cup {v}
      BY <1>3, <2>1, RangeAppend DEF TypeOK
  <2>4. Receipts'
      BY <1>2, <1>3, <1>4, <2>1, <2>2 DEF Receipts, Op
  <2>5. \A u \in SendOp : There(u)' <=> There(u) \/ u = v
      BY <1>2, <2>1, <2>3 DEF There, OnItsWay
  <2>6. \A u \in SendOp :
              \/ status'[u] = "sent" /\ refs'[u] = 1 /\ There(u)'
              \/ /\ status'[u] = status[u] /\ refs'[u] = refs[u]
                 /\ There(u)' <=> There(u)
                 /\ \A r \in RecvOp : got[r] = u => got'[r] = u
      BY <1>5, <2>1, <2>2, <2>5 DEF Op
  <2> QED
      BY <1>2, <2>4, <2>6, MovesOwned
<1>8. CASE SendToReceiver(v)
  <2> DEFINE h == Head(receivers)
  <2>1. /\ status' = [status EXCEPT ![v] = "sent", ![h] = "received"]
        /\ got' = [got EXCEPT ![h] = v]
        /\ Settle(buffer, senders, Tail(receivers), handles) /\ receivers # <<>>
      BY <1>8 DEF SendToReceiver
  <2>2. h \in RecvOp /\ h \in ToSet(receivers) /\ h \in Op
      BY <1>3, <2>1, Behead DEF TypeOK, Op
  <2>3. status[h] = "waiting" /\ pending[by[h]] = h /\ got[h] = NoValue /\ h \in ToSet(recvLog)
    <3>1. Waiting(h)
        BY <1>3, <2>2, QueuedWait
    <3>2. h \in ToSet(recvLog)
        BY <1>3, <2>2, BlockedIsLogged
    <3> QED
        BY <1>3, <2>2, <3>1, <3>2 DEF Waiting, Suspensions, Receipts
  <2>4. buffer' = buffer
      BY <1>3, <2>1, HeldSettles
  <2> HIDE DEF h
  <2>5. /\ \A o \in Op : status'[o] = IF o = h THEN "received"
                                       ELSE IF o = v THEN "sent" ELSE status[o]
        /\ \A r \in RecvOp : got'[r] = IF r = h THEN v ELSE got[r]
      BY <1>2, <1>3, <2>1, <2>2 DEF TypeOK
  <2>6. Receipts'
    <3>1. /\ \A r \in RecvOp : status'[r] # "received" => got'[r] = NoValue
          /\ \A r \in RecvOp : status'[r] = "received" => r \in ToSet(recvLog')
        BY <1>2, <1>3, <1>4, <2>3, <2>5 DEF Receipts, Op
    <3>2. \A u \in Task : \A w \in holds'[u] :
              \E r \in RecvOp : got'[r] = w /\ by[r] = u /\ pending'[u] # r
      <4> SUFFICES ASSUME NEW u \in Task, NEW w \in holds[u]
                   PROVE  \E r \in RecvOp : got'[r] = w /\ by[r] = u /\ pending[u] # r
          BY <1>2
      <4>1. PICK r \in RecvOp : got[r] = w /\ by[r] = u /\ pending[u] # r
          BY <1>3 DEF Receipts
      <4>2. w \in SendOp
          BY <1>3 DEF Counts
      <4>3. r # h
          BY <1>4, <2>3, <4>1, <4>2
      <4> QED
          BY <2>5, <4>1, <4>3
    <3>3. \A u \in Task : pending'[u] \in Op => status'[pending'[u]] # "idle"
        BY <1>2, <1>3, <2>5 DEF Receipts
    <3> QED
        BY <3>1, <3>2, <3>3 DEF Receipts
  <2>7. \A u \in SendOp : There(u)' <=> There(u) \/ u = v
      BY <1>2, <1>4, <2>2, <2>3, <2>4, <2>5 DEF There, OnItsWay
  <2>8. \A u \in SendOp : \A r \in RecvOp : got[r] = u => got'[r] = u
      BY <1>4, <2>3, <2>5
  <2>9. \A u \in SendOp :
              \/ status'[u] = "sent" /\ refs'[u] = 1 /\ There(u)'
              \/ /\ status'[u] = status[u] /\ refs'[u] = refs[u]
                 /\ There(u)' <=> There(u)
                 /\ \A r \in RecvOp : got[r] = u => got'[r] = u
    <3>1. \A u \in SendOp : u # h /\ u \in Op
        BY <1>4, <2>2 DEF Op
    <3>2. \A u \in SendOp : status'[u] = IF u = v THEN "sent" ELSE status[u]
        BY <2>5, <3>1
    <3> QED
        BY <1>5, <2>7, <2>8, <3>2
  <2> QED
      BY <1>2, <2>6, <2>9, MovesOwned
<1> QED
    BY <1>1, <1>7, <1>8

\* The receive that was called gets x; s is the blocked send that comes in from
\* the queue, into the buffer or straight to the receiver, if there is one.
Took(t, r, x, s) ==
    /\ \A q \in RecvOp : got'[q] = IF q = r THEN x ELSE got[q]
    /\ \A u \in Task : holds'[u] = IF u = t THEN holds[u] \cup {x} ELSE holds[u]
    /\ \A o \in Op : status'[o] = IF o = r THEN "received"
                                  ELSE IF o \in s THEN "sent" ELSE status[o]
    /\ x \in ToSet(buffer) \/ x \in s
    /\ ToSet(buffer') = (ToSet(buffer) \cup s) \ {x}

LEMMA TakesOwned ==
    ASSUME TaskInv, Ownership, NEW t \in Task, current = t, NEW r \in RecvOp, by[r] = t,
           status[r] = "idle", state' = state, pending' = pending, refs' = refs,
           ToSet(recvLog') = ToSet(recvLog) \cup {r},
           NEW x \in SendOp, NEW s \in SUBSET SendOp, \A v \in s : Waiting(v),
           Took(t, r, x, s)
    PROVE  Ownership'
<1>1. /\ ChannelInv /\ TypeOK /\ Counts /\ Receipts /\ Suspensions /\ pending[t] = NoOp
    BY Running DEF Ownership
<1>2. /\ SendOp \cap RecvOp = {} /\ NoValue \notin SendOp /\ by \in [Op -> Task] /\ NoOp \notin Op
      /\ r \in Op /\ r # NoOp
    BY ChannelAssumption, TaskAssumption DEF ChannelAssumption, TaskAssumption, Op
<1>3. got[r] = NoValue
    BY <1>1 DEF Receipts
<1>4. /\ \A q \in RecvOp : got'[q] = IF q = r THEN x ELSE got[q]
      /\ \A u \in Task : holds'[u] = IF u = t THEN holds[u] \cup {x} ELSE holds[u]
      /\ \A o \in Op : status'[o] = IF o = r THEN "received"
                                    ELSE IF o \in s THEN "sent" ELSE status[o]
      /\ x \in ToSet(buffer) \/ x \in s
      /\ ToSet(buffer') = (ToSet(buffer) \cup s) \ {x}
    BY DEF Took
<1>5. Receipts'
  <2>1. /\ \A q \in RecvOp : status'[q] # "received" => got'[q] = NoValue
        /\ \A q \in RecvOp : status'[q] = "received" => q \in ToSet(recvLog')
      BY <1>1, <1>2, <1>4 DEF Receipts, Op
  <2>2. \A u \in Task : \A w \in holds'[u] :
            \E q \in RecvOp : got'[q] = w /\ by[q] = u /\ pending'[u] # q
    <3> SUFFICES ASSUME NEW u \in Task, NEW w \in holds'[u]
                 PROVE  \E q \in RecvOp : got'[q] = w /\ by[q] = u /\ pending[u] # q
        OBVIOUS
    <3>1. CASE w \in holds[u]
      <4>1. PICK q \in RecvOp : got[q] = w /\ by[q] = u /\ pending[u] # q
          BY <1>1, <3>1 DEF Receipts
      <4>2. q # r
          BY <1>1, <1>2, <1>3, <3>1, <4>1 DEF Counts
      <4> QED
          BY <1>4, <4>1, <4>2
    <3>2. CASE w \notin holds[u]
      <4>1. u = t /\ w = x
          BY <1>4, <3>2
      <4> QED
          BY <1>1, <1>2, <1>4, <4>1
    <3> QED
        BY <3>1, <3>2
  <2>3. \A u \in Task : pending'[u] \in Op => status'[pending'[u]] # "idle"
      BY <1>1, <1>2, <1>4 DEF Receipts
  <2> QED
      BY <2>1, <2>2, <2>3 DEF Receipts
<1>6. ASSUME NEW v \in SendOp
      PROVE  \/ status'[v] = "sent" /\ refs'[v] = 1 /\ There(v)'
             \/ /\ status'[v] = status[v] /\ refs'[v] = refs[v]
                /\ There(v)' <=> There(v)
                /\ \A q \in RecvOp : got[q] = v => got'[q] = v
  <2>1. v \in Op /\ v # r
      BY <1>2 DEF Op
  <2>2. v = x => There(v)'
    <3>1. x \in holds'[t]
        BY <1>4
    <3>2. v = x => \E u \in Task : v \in holds'[u]
        BY <3>1
    <3> QED
        BY <3>2 DEF There
  <2>3. v \in s => There(v)'
      BY <1>4, <2>2 DEF There
  <2>4. CASE v \in s
    <3>1. status[v] = "waiting" /\ CountFits(v)
        BY <2>4 DEF Waiting, Ownership
    <3> QED
        BY <1>4, <2>1, <2>3, <2>4, <3>1 DEF CountFits
  <2>5. CASE v \notin s
    <3>1. status'[v] = status[v] /\ refs'[v] = refs[v]
        BY <1>4, <2>1, <2>5
    <3>2. \A q \in RecvOp : got[q] = v => got'[q] = v
        BY <1>2, <1>3, <1>4
    <3>3. v = x => There(v)
        BY <1>4, <2>5 DEF There
    <3>4. v # x => (There(v)' <=> There(v))
      <4> SUFFICES ASSUME v # x PROVE There(v)' <=> There(v)
          OBVIOUS
      <4>1. \A u \in Task : v \in holds'[u] <=> v \in holds[u]
          BY <1>4
      <4>2. \A q \in RecvOp : got'[q] = v <=> got[q] = v
          BY <1>2, <1>3, <1>4
      <4>3. v \in ToSet(buffer') <=> v \in ToSet(buffer)
          BY <1>4, <2>5
      <4> QED
          BY <4>1, <4>2, <4>3 DEF There, OnItsWay
    <3> QED
        BY <2>2, <3>1, <3>2, <3>3, <3>4
  <2> QED
      BY <2>4, <2>5
<1> QED
    BY <1>5, <1>6, MovesOwned

LEMMA ReceivesOwned ==
    ASSUME TaskInv, Ownership, NEW t \in Task, Receives(t)
    PROVE  Ownership'
<1>1. PICK r \in RecvOp :
        /\ Idle(t, r)
        /\ ReceiveBuffered(r) \/ ReceiveFromSender(r) \/ ReceiveClosed(r)
        /\ Wake(senders)
        /\ holds' = [holds EXCEPT ![t] = @ \cup ({got'[r]} \ {NoValue})]
        /\ UNCHANGED <<state, cancelReq, pending, current, refs, rootHandle>>
    BY DEF Receives
<1>2. /\ current = t /\ by[r] = t /\ status[r] = "idle" /\ r \in Op
      /\ state' = state /\ pending' = pending /\ refs' = refs
      /\ recvLog' = Append(recvLog, r)
    BY <1>1 DEF Idle, ReceiveBuffered, ReceiveFromSender, ReceiveClosed, RecvCall, Op
<1>3. /\ ChannelInv /\ TypeOK /\ Counts /\ Receipts /\ Suspensions /\ handles > 0
      /\ buffer \in Seq(SendOp) /\ senders \in Seq(SendOp) /\ recvLog \in Seq(RecvOp)
      /\ status \in [Op -> {"idle", "waiting", "sent", "faulted", "received", "eof", "cancelled"}]
    BY <1>2, Running DEF Ownership, TypeOK
<1>4. ToSet(recvLog') = ToSet(recvLog) \cup {r}
    BY <1>2, <1>3, RangeAppend
<1>5. senders # <<>> => /\ Head(senders) \in {v \in SendOp : Waiting(v)}
                        /\ Head(senders) \notin ToSet(buffer)
  <2>1. senders # <<>> => Head(senders) \in ToSet(senders)
      BY <1>3, Behead
  <2>2. \A v \in SendOp : Waiting(v) => v \notin ToSet(buffer)
      BY <1>3, Apart DEF Waiting
  <2> QED
      BY <1>3, <2>1, <2>2, QueuedWait
<1>6. buffer # <<>> => /\ Head(buffer) \in ToSet(buffer) /\ Head(buffer) \in SendOp
                       /\ ToSet(Tail(buffer)) = ToSet(buffer) \ {Head(buffer)}
                       /\ Tail(buffer) \in Seq(SendOp)
  <2>1. IsInjective(buffer)
      BY <1>3, Placement
  <2>2. buffer # <<>> => /\ Head(buffer) \in SendOp /\ Tail(buffer) \in Seq(SendOp)
                         /\ ToSet(buffer) = {Head(buffer)} \cup ToSet(Tail(buffer))
                         /\ Head(buffer) \notin ToSet(Tail(buffer))
      BY <1>3, <2>1, Behead
  <2> QED
      BY <2>2
<1>7. ASSUME NEW x \in SendOp, NEW s \in SUBSET SendOp,
             \A v \in s : Waiting(v), Took(t, r, x, s)
       PROVE  Ownership'
    BY <1>2, <1>4, <1>7, TakesOwned
<1>8. ASSUME NEW x \in SendOp, got' = [got EXCEPT ![r] = x]
       PROVE  /\ \A q \in RecvOp : got'[q] = IF q = r THEN x ELSE got[q]
              /\ \A u \in Task : holds'[u] = IF u = t THEN holds[u] \cup {x} ELSE holds[u]
  <2>1. \A q \in RecvOp : got'[q] = IF q = r THEN x ELSE got[q]
      BY <1>3, <1>8 DEF TypeOK
  <2>2. {got'[r]} \ {NoValue} = {x}
      BY <2>1, ChannelAssumption DEF ChannelAssumption
  <2>3. holds' = [holds EXCEPT ![t] = @ \cup {x}]
      BY <1>1, <2>2
  <2> QED
      BY <1>3, <2>1, <2>3 DEF Counts
<1>9. senders # <<>> => \E w \in SendOp : /\ w = Head(senders) /\ Waiting(w) /\ w \in Op
                                           /\ w \notin ToSet(buffer) /\ w # r
    BY <1>2, <1>5 DEF Waiting, Op
<1>10. CASE ReceiveBuffered(r)
  <2>1. buffer # <<>> /\ got' = [got EXCEPT ![r] = Head(buffer)]
      BY <1>10 DEF ReceiveBuffered, Receive
  <2>2. PICK x \in SendOp : x = Head(buffer)
      BY <1>6, <2>1
  <2>3. PICK rest \in Seq(SendOp) : rest = Tail(buffer)
      BY <1>6, <2>1
  <2>4. x \in ToSet(buffer) /\ ToSet(rest) = ToSet(buffer) \ {x} /\ got' = [got EXCEPT ![r] = x]
      BY <1>6, <2>1, <2>2, <2>3
  <2>5. CASE senders # <<>> /\ ~closed
    <3>1. PICK w \in SendOp : /\ w = Head(senders) /\ Waiting(w) /\ w \in Op
                              /\ w \notin ToSet(buffer) /\ w # r
        BY <1>9, <2>5
    <3>2. /\ status' = [status EXCEPT ![r] = "received", ![w] = "sent"]
          /\ Settle(Append(rest, w), Tail(senders), receivers, handles)
        BY <1>10, <2>3, <2>5, <3>1 DEF ReceiveBuffered
    <3>3. buffer' = Append(rest, w)
        BY <1>3, <3>2, HeldSettles
    <3>4. ToSet(buffer') = ToSet(rest) \cup {w}
        BY <3>3, RangeAppend
    <3>5. ToSet(buffer') = (ToSet(buffer) \cup {w}) \ {x}
        BY <2>4, <3>1, <3>4
    <3>6. \A o \in Op : status'[o] = IF o = r THEN "received"
                                     ELSE IF o \in {w} THEN "sent" ELSE status[o]
        BY <1>2, <1>3, <3>1, <3>2
    <3>7. Took(t, r, x, {w})
        BY <1>8, <2>4, <3>5, <3>6 DEF Took
    <3> QED
        BY <1>7, <3>1, <3>7
  <2>6. CASE ~(senders # <<>> /\ ~closed)
    <3>1. /\ status' = [status EXCEPT ![r] = "received"]
          /\ Settle(rest, senders, receivers, handles)
        BY <1>10, <2>3, <2>6 DEF ReceiveBuffered
    <3>2. buffer' = rest
        BY <1>3, <3>1, HeldSettles
    <3>3. ToSet(buffer') = (ToSet(buffer) \cup {}) \ {x}
        BY <2>4, <3>2
    <3>4. \A o \in Op : status'[o] = IF o = r THEN "received"
                                     ELSE IF o \in {} THEN "sent" ELSE status[o]
        BY <1>2, <1>3, <3>1
    <3>5. Took(t, r, x, {})
        BY <1>8, <2>4, <3>3, <3>4 DEF Took
    <3> QED
        BY <1>7, <3>5
  <2> QED
      BY <2>5, <2>6
<1>11. CASE ReceiveFromSender(r)
  <2>1. senders # <<>>
      BY <1>11 DEF ReceiveFromSender
  <2>2. PICK w \in SendOp : /\ w = Head(senders) /\ Waiting(w) /\ w \in Op
                            /\ w \notin ToSet(buffer) /\ w # r
      BY <1>9, <2>1
  <2>3. /\ got' = [got EXCEPT ![r] = w]
        /\ status' = [status EXCEPT ![r] = "received", ![w] = "sent"]
        /\ Settle(buffer, Tail(senders), receivers, handles)
      BY <1>11, <2>2 DEF ReceiveFromSender, Receive
  <2>4. buffer' = buffer
      BY <1>3, <2>3, HeldSettles
  <2>5. ToSet(buffer') = (ToSet(buffer) \cup {w}) \ {w}
      BY <2>2, <2>4
  <2>6. \A o \in Op : status'[o] = IF o = r THEN "received"
                                   ELSE IF o \in {w} THEN "sent" ELSE status[o]
      BY <1>2, <1>3, <2>2, <2>3
  <2>7. Took(t, r, w, {w})
      BY <1>8, <2>3, <2>5, <2>6 DEF Took
  <2> QED
      BY <1>7, <2>2, <2>7
<1>12. CASE ReceiveClosed(r)
  <2>1. /\ got' = got /\ buffer' = buffer /\ status' = [status EXCEPT ![r] = "eof"]
      BY <1>12 DEF ReceiveClosed, queues
  <2>2. got[r] = NoValue
      BY <1>2, <1>3 DEF Receipts
  <2>3. holds' = holds
    <3>1. {got'[r]} \ {NoValue} = {}
        BY <2>1, <2>2
    <3>2. holds' = [holds EXCEPT ![t] = @ \cup {}]
        BY <1>1, <3>1
    <3>3. holds \in [Task -> SUBSET SendOp]
        BY <1>3 DEF Counts
    <3> QED
        BY <3>2, <3>3
  <2>4. \A o \in Op : status'[o] = IF o = r THEN "eof" ELSE status[o]
      BY <1>2, <1>3, <2>1
  <2>5. Receipts'
    <3>1. /\ \A q \in RecvOp : status'[q] # "received" => got'[q] = NoValue
          /\ \A q \in RecvOp : status'[q] = "received" => q \in ToSet(recvLog')
        BY <1>3, <1>4, <2>1, <2>2, <2>4 DEF Receipts, Op
    <3>2. \A u \in Task : pending'[u] \in Op => status'[pending'[u]] # "idle"
        BY <1>2, <1>3, <2>4 DEF Receipts
    <3> QED
        BY <1>2, <1>3, <2>1, <2>3, <3>1, <3>2 DEF Receipts
  <2>6. \A v \in SendOp :
              /\ status'[v] = status[v] /\ refs'[v] = refs[v]
              /\ There(v)' <=> There(v)
              /\ \A q \in RecvOp : got[q] = v => got'[q] = v
    <3>1. \A v \in SendOp : v \in Op /\ v # r
        BY ChannelAssumption DEF ChannelAssumption, Op
    <3>2. \A v \in SendOp : There(v)' <=> There(v)
        BY <1>2, <2>1, <2>3 DEF There, OnItsWay
    <3> QED
        BY <1>2, <2>1, <2>4, <3>1, <3>2
  <2> QED
      BY <1>2, <2>5, <2>6, MovesOwned
<1> QED
    BY <1>1, <1>10, <1>11, <1>12

\* Steps that leave what the tasks hold and what they are suspended on, and at
\* most withdraw or dismiss blocked operations.
LEMMA WithdrawsOwned ==
    ASSUME TaskInv, Ownership,
           UNCHANGED <<buffer, got, recvLog, state, pending, holds, refs>>,
           \A op \in Op : \/ status'[op] = status[op]
                          \/ Waiting(op) /\ status'[op] \in {"cancelled", "faulted", "eof"}
    PROVE  Ownership'
<1>1. /\ Nobody \notin Task /\ by \in [Op -> Task]
    BY TaskAssumption DEF TaskAssumption, Nobody, Task
<1>2. /\ ToSet(buffer') = ToSet(buffer) \ {} /\ got' = got /\ recvLog' = recvLog
      /\ ToSet(recvLog) \subseteq ToSet(recvLog')
      /\ \A u \in Task : holds'[u] = IF u = Nobody THEN holds[u] \ {} ELSE holds[u]
      /\ \A u \in Task : pending'[u] = IF u = Nobody THEN NoOp ELSE pending[u]
      /\ \A u \in Task : /\ u # Nobody => state'[u] = state[u]
                         /\ state[u] = "cancelled" => state'[u] = "cancelled"
    BY <1>1
<1>3. \A v \in SendOp :
         /\ ~(status[v] = "idle" /\ status'[v] = "faulted")
         /\ refs'[v] = (refs[v] - (IF v \in {} THEN 1 ELSE 0)) - (IF v \in {} THEN 1 ELSE 0)
  <2>1. refs \in [SendOp -> Int] /\ refs' = refs
      BY DEF TaskInv, Counts
  <2>2. \A v \in SendOp : ~(status[v] = "idle" /\ status'[v] = "faulted")
      BY DEF Waiting, Op
  <2> QED
      BY <2>1, <2>2
<1>4. \A op \in Op : Waiting(op) => by[op] # Nobody
    BY <1>1
<1>5. Nobody \in Task \cup {Nobody} /\ {} \in SUBSET SendOp /\ {} \in SUBSET ToSet(buffer)
    OBVIOUS
<1>6. Lost(Nobody, {}, {})
    BY <1>1, <1>2, <1>3, <1>4 DEF Lost
<1> QED
    BY <1>5, <1>6, LossOwned

\* What _finish does to counts and statuses, made apart from r and st.
Discarded(V, B, r) == [v \in SendOp |-> (r[v] - (IF v \in V THEN 1 ELSE 0))
                                               - (IF v \in B THEN 1 ELSE 0)]

LEMMA DiscardTwice ==
    ASSUME NEW V, NEW B, NEW r \in [SendOp -> Int]
    PROVE  /\ Discard(B, Discard(V, r)) = Discarded(V, B, r)
           /\ Discard(V, r) = Discarded(V, {}, r)
BY DEF Discard, Discarded

\* ReleaseHandles takes all that is buffered, or nothing.
LEMMA ReleasesOwned ==
    ASSUME TypeOK, NEW h, NEW V, NEW r \in [SendOp -> Int], ReleaseHandles(h, Discard(V, r))
    PROVE  \E B \in SUBSET ToSet(buffer) :
              ToSet(buffer') = ToSet(buffer) \ B /\ refs' = Discarded(V, B, r)
<1>1. CASE handles' = 0
  <2>1. buffer' = <<>> /\ refs' = Discard(ToSet(buffer), Discard(V, r))
      BY <1>1 DEF ReleaseHandles
  <2>2. ToSet(buffer') = ToSet(buffer) \ ToSet(buffer) /\ refs' = Discarded(V, ToSet(buffer), r)
      BY <2>1, RangeEmpty, DiscardTwice
  <2> QED
      BY <2>2
<1>2. CASE handles' # 0
  <2>1. buffer' = buffer /\ refs' = Discard(V, r)
      BY <1>2 DEF ReleaseHandles
  <2>2. ToSet(buffer') = ToSet(buffer) \ {} /\ refs' = Discarded(V, {}, r)
      BY <2>1, DiscardTwice
  <2> QED
      BY <2>2
<1> QED
    BY <1>1, <1>2

\* _finish, of a task that waits for nothing; r and st differ from refs and
\* status by a send that was refused.
LEMMA FinishOwned ==
    ASSUME TaskInv, Ownership, NEW t \in Live,
           \A op \in Op : Waiting(op) => by[op] # t,
           NEW outcome \in Ended, NEW V, NEW h, NEW r \in [SendOp -> Int], NEW st, NEW q,
           _finish(t, outcome, V, h, r, st, q), ToSet(recvLog) \subseteq ToSet(recvLog'),
           \A op \in Op : \/ st[op] = status[op]
                          \/ op \in SendOp /\ status[op] = "idle" /\ st[op] = "faulted",
           \A v \in SendOp : IF status[v] = "idle" /\ st[v] = "faulted" THEN r[v] = 1
                             ELSE r[v] = refs[v],
           V \subseteq FrameOf(t),
           pending[t] \in SendOp => \/ pending[t] \in V /\ outcome = "cancelled"
                                    \/ pending[t] \notin V /\ status[pending[t]] = "faulted",
           pending[t] \in RecvOp => outcome = "cancelled"
    PROVE  Ownership'
<1>1. /\ TypeOK /\ Counts /\ RunQueue /\ ChannelInv /\ Receipts /\ Suspensions
      /\ t \in Task /\ state[t] # "cancelled" /\ NoOp \notin Op /\ by \in [Op -> Task]
    BY TaskAssumption
       DEF TaskInv, Tasks, ChannelInv, Live, terminal, Ended, TaskAssumption, Ownership
<1>2. /\ state' = [state EXCEPT ![t] = outcome]
      /\ pending' = [pending EXCEPT ![t] = NoOp]
      /\ holds' = [holds EXCEPT ![t] = @ \ V] /\ got' = got
      /\ ReleaseHandles(h, Discard(V, r))
      /\ request_cancel(IF outcome = "failed" THEN Live \ {t} ELSE {}, st, q)
    BY DEF _finish
<1>3. PICK B \in SUBSET ToSet(buffer) :
         ToSet(buffer') = ToSet(buffer) \ B /\ refs' = Discarded(V, B, r)
    BY <1>1, <1>2, ReleasesOwned
<1>4. \A op \in Op : status'[op] = st[op] \/ (Waiting(op) /\ status'[op] = "cancelled")
    BY <1>2 DEF request_cancel
<1>5. \A op \in Op : \/ status'[op] = status[op]
                     \/ Waiting(op) /\ status'[op] \in {"cancelled", "faulted", "eof"}
                     \/ op \in SendOp /\ status[op] = "idle" /\ status'[op] = "faulted"
    BY <1>4
<1>6. /\ V \in SUBSET SendOp
      /\ \A v \in V : v \in holds[t] \/ (v = pending[t] /\ v \in SendOp)
    BY <1>1 DEF FrameOf, Counts
<1>7. \A v \in SendOp : status[v] = "idle" => v \notin V /\ v \notin B
  <2>1. \A v \in SendOp : status[v] = "idle" => v \notin holds[t] /\ v \notin ToSet(buffer)
      BY <1>1, Apart
  <2>2. \A v \in SendOp : status[v] = "idle" => v # pending[t]
      BY <1>1 DEF Receipts, Op
  <2> QED
      BY <1>6, <2>1, <2>2
<1>8. \A v \in SendOp :
         IF status[v] = "idle" /\ status'[v] = "faulted" THEN refs'[v] = 1
         ELSE refs'[v] = (refs[v] - (IF v \in V THEN 1 ELSE 0)) - (IF v \in B THEN 1 ELSE 0)
  <2> SUFFICES ASSUME NEW v \in SendOp
               PROVE  IF status[v] = "idle" /\ status'[v] = "faulted" THEN refs'[v] = 1
                      ELSE refs'[v] = (refs[v] - (IF v \in V THEN 1 ELSE 0))
                                              - (IF v \in B THEN 1 ELSE 0)
      OBVIOUS
  <2>1. refs'[v] = (r[v] - (IF v \in V THEN 1 ELSE 0)) - (IF v \in B THEN 1 ELSE 0)
      BY <1>3 DEF Discarded
  <2>2. v \in Op
      BY DEF Op
  <2>3. CASE status[v] = "idle"
    <3>1. status'[v] = st[v]
        BY <1>4, <2>2, <2>3 DEF Waiting
    <3> QED
        BY <1>7, <2>1, <2>3, <3>1
  <2>4. CASE status[v] # "idle"
      BY <2>1, <2>4
  <2> QED
      BY <2>3, <2>4
<1>9. /\ \A u \in Task : holds'[u] = IF u = t THEN holds[u] \ V ELSE holds[u]
      /\ \A u \in Task : pending'[u] = IF u = t THEN NoOp ELSE pending[u]
      /\ \A u \in Task : /\ u # t => state'[u] = state[u]
                         /\ state[u] = "cancelled" => state'[u] = "cancelled"
      /\ state'[t] = outcome
    BY <1>1, <1>2 DEF Counts, RunQueue
<1>10. /\ \A v \in V : /\ t \in Task
                       /\ v \in holds[t] \/ (v = pending[t] /\ state'[t] = "cancelled")
       /\ t \in Task /\ pending[t] \in SendOp /\ pending[t] \notin V
             => status[pending[t]] = "faulted"
       /\ t \in Task /\ pending[t] \in RecvOp => state'[t] = "cancelled"
    BY <1>1, <1>6, <1>9
<1>11. t \in Task \cup {Nobody}
    BY <1>1
<1>12. Lost(t, V, B)
  <2>1. /\ ToSet(buffer') = ToSet(buffer) \ B /\ got' = got
        /\ ToSet(recvLog) \subseteq ToSet(recvLog')
        /\ \A op \in Op : Waiting(op) => by[op] # t
      BY <1>2, <1>3
  <2> QED
      BY <1>5, <1>8, <1>9, <1>10, <2>1 DEF Lost
<1> QED
    BY <1>3, <1>6, <1>11, <1>12, LossOwned

\* _finish as the loop and the running task call it.
LEMMA EndsOwned ==
    ASSUME TaskInv, Ownership, NEW t, NEW q,
           \/ current = Nobody /\ runnable # <<>> /\ t = Head(runnable) /\ q = Tail(runnable)
           \/ current = t /\ t \in Task /\ q = runnable,
           NEW outcome \in Ended, NEW V, NEW h,
           _finish(t, outcome, V, h, refs, status, q), Unlogged, V \subseteq FrameOf(t),
           pending[t] \in SendOp => \/ pending[t] \in V /\ outcome = "cancelled"
                                    \/ pending[t] \notin V /\ status[pending[t]] = "faulted",
           pending[t] \in RecvOp => outcome = "cancelled"
    PROVE  Ownership'
<1>1. RunQueue /\ Suspensions /\ refs \in [SendOp -> Int]
    BY DEF TaskInv, Tasks, Counts
<1>2. t \in Live /\ \A op \in Op : Waiting(op) => by[op] # t
    BY <1>1, Ready
<1>3. /\ \A op \in Op : \/ status[op] = status[op]
                        \/ op \in SendOp /\ status[op] = "idle" /\ status[op] = "faulted"
      /\ \A v \in SendOp : IF status[v] = "idle" /\ status[v] = "faulted" THEN refs[v] = 1
                           ELSE refs[v] = refs[v]
      /\ ToSet(recvLog) \subseteq ToSet(recvLog')
    BY DEF Unlogged
<1> QED
    BY <1>1, <1>2, <1>3, FinishOwned

\* The steps of the scheduler loop.
LEMMA LoopOwned ==
    ASSUME TaskInv, Ownership, NEW t \in Task, step(t)
    PROVE  Ownership'
<1>1. /\ RunQueue /\ Suspensions /\ Receipts /\ TypeOK /\ Counts
      /\ current = Nobody /\ runnable # <<>> /\ t = Head(runnable)
      /\ NoOp \notin Op /\ SendOp \cap RecvOp = {} /\ NoValue \notin SendOp
    BY TaskAssumption, ChannelAssumption
       DEF TaskAssumption, ChannelAssumption, TaskInv, Tasks, ChannelInv, Ownership, step, Driving
<1>2. t \in Live
  <2>1. \/ /\ current = Nobody /\ runnable # <<>> /\ t = Head(runnable)
           /\ Tail(runnable) = Tail(runnable)
        \/ current = t /\ t \in Task /\ Tail(runnable) = runnable
      BY <1>1
  <2> QED
      BY <1>1, <2>1, Ready
<1>3. ASSUME NEW outcome \in Ended, NEW V, NEW h,
             _finish(t, outcome, V, h, refs, status, Tail(runnable)), Unlogged,
             V \subseteq FrameOf(t),
             pending[t] \in SendOp => \/ pending[t] \in V /\ outcome = "cancelled"
                                      \/ pending[t] \notin V /\ status[pending[t]] = "faulted",
             pending[t] \in RecvOp => outcome = "cancelled"
      PROVE  Ownership'
  <2> DEFINE q == Tail(runnable)
  <2>1. /\ current = Nobody /\ runnable # <<>> /\ t = Head(runnable) /\ q = Tail(runnable)
        /\ _finish(t, outcome, V, h, refs, status, q)
      BY <1>1, <1>3
  <2> HIDE DEF q
  <2> QED
      BY <1>3, <2>1, EndsOwned
<1>4. ASSUME Runs(t), pending[t] \in SendOp => status[pending[t]] = "sent",
             \A u \in Task : \A v \in SendOp :
                v \in holds'[u] <=> \/ v \in holds[u]
                                    \/ u = t /\ pending[t] \in RecvOp /\ got[pending[t]] = v,
             \A u \in Task : holds'[u] \subseteq SendOp
      PROVE  Ownership'
  <2>1. /\ UNCHANGED <<buffer, got, status, recvLog, refs>>
        /\ state' = [state EXCEPT ![t] = "running"]
        /\ pending' = [pending EXCEPT ![t] = NoOp]
      BY <1>4 DEF Runs, chanVars, queues
  <2> QED
      BY <1>2, <1>4, <2>1, RunsOwned
<1>5. CASE StepCancelled(t)
  <2>1. CASE state[t] = "pending"
    <3>1. _finish(t, "cancelled", {}, 0, refs, status, Tail(runnable)) /\ Unlogged
        BY <1>5, <2>1 DEF StepCancelled
    <3>2. pending[t] \notin SendOp /\ pending[t] \notin RecvOp
        BY <1>1, <2>1 DEF Suspensions, Op
    <3> QED
        BY <1>3, <3>1, <3>2 DEF Ended
  <2>2. CASE state[t] # "pending"
    <3>1. _finish(t, "cancelled", FrameOf(t), 1, refs, status, Tail(runnable)) /\ Unlogged
        BY <1>5, <2>2 DEF StepCancelled
    <3>2. pending[t] \in SendOp => pending[t] \in FrameOf(t)
        BY DEF FrameOf
    <3> QED
        BY <1>3, <3>1, <3>2 DEF Ended
  <2> QED
      BY <2>1, <2>2
<1>6. CASE StepFaulted(t)
  <2>1. /\ _finish(t, "failed", {}, 0, refs, status, Tail(runnable)) /\ Unlogged
        /\ pending[t] \in SendOp /\ pending[t] \notin RecvOp /\ status[pending[t]] = "faulted"
      BY <1>1, <1>6 DEF StepFaulted
  <2> QED
      BY <1>3, <2>1 DEF Ended
<1>7. CASE StepStart(t) \/ StepSent(t)
  <2>1. /\ Runs(t) /\ holds' = holds /\ pending[t] \notin RecvOp
        /\ pending[t] \in SendOp => status[pending[t]] = "sent"
      BY <1>1, <1>7 DEF StepStart, StepSent, Op
  <2>2. \A u \in Task : holds'[u] \subseteq SendOp
      BY <1>1, <2>1 DEF Counts
  <2> QED
      BY <1>4, <2>1, <2>2
<1>8. CASE StepReceived(t)
  <2>1. /\ Runs(t) /\ pending[t] \in RecvOp /\ pending[t] \notin SendOp
        /\ holds' = [holds EXCEPT ![t] = @ \cup ({got[pending[t]]} \ {NoValue})]
        /\ got[pending[t]] \in SendOp \cup {NoValue}
      BY <1>1, <1>8 DEF StepReceived, TypeOK
  <2>2. /\ \A u \in Task : holds'[u] \subseteq SendOp
        /\ \A u \in Task : \A v \in SendOp :
              v \in holds'[u] <=> \/ v \in holds[u]
                                  \/ u = t /\ pending[t] \in RecvOp /\ got[pending[t]] = v
      BY <1>1, <2>1 DEF Counts
  <2> QED
      BY <1>4, <2>1, <2>2
<1> QED
    BY <1>5, <1>6, <1>7, <1>8 DEF step

\* The running task is refused a send: both operands are lost with it.
LEMMA RefusedOwned ==
    ASSUME TaskInv, Ownership, NEW t \in Task, SendFaults(t)
    PROVE  Ownership'
<1>1. PICK v \in SendOp :
        /\ Idle(t, v)
        /\ recvLog' = recvLog
        /\ _finish(t, "failed", holds[t], 0, [refs EXCEPT ![v] = 1],
                   [status EXCEPT ![v] = "faulted"], runnable)
    BY DEF SendFaults
<1>2. /\ TypeOK /\ Counts /\ RunQueue /\ Suspensions /\ t \in Live /\ pending[t] = NoOp
      /\ NoOp \notin Op /\ status[v] = "idle" /\ current = t
    BY <1>1, Running, TaskAssumption DEF TaskAssumption, Idle
<1>3. PICK r : r = [refs EXCEPT ![v] = 1]
    OBVIOUS
<1>4. PICK st : st = [status EXCEPT ![v] = "faulted"]
    OBVIOUS
<1>5. PICK V : V = holds[t]
    OBVIOUS
<1>6. _finish(t, "failed", V, 0, r, st, runnable) /\ "failed" \in Ended
    BY <1>1, <1>3, <1>4, <1>5 DEF Ended
<1>7. \A op \in Op : Waiting(op) => by[op] # t
    BY <1>2, WaitersApart
<1>8. /\ r \in [SendOp -> Int]
      /\ \A op \in Op : \/ st[op] = status[op]
                        \/ op \in SendOp /\ status[op] = "idle" /\ st[op] = "faulted"
      /\ \A u \in SendOp : IF status[u] = "idle" /\ st[u] = "faulted" THEN r[u] = 1
                           ELSE r[u] = refs[u]
    BY <1>2, <1>3, <1>4 DEF Counts, TypeOK, Op
<1>9. /\ V \subseteq FrameOf(t) /\ ToSet(recvLog) \subseteq ToSet(recvLog')
      /\ pending[t] \notin SendOp /\ pending[t] \notin RecvOp
    BY <1>1, <1>2, <1>5 DEF FrameOf, Op
<1> QED
    BY <1>2, <1>6, <1>7, <1>8, <1>9, FinishOwned

LEMMA BlocksOwned ==
    ASSUME TaskInv, Ownership, NEW t \in Task, SendWaits(t) \/ ReceiveWaits(t)
    PROVE  Ownership'
<1>1. CASE SendWaits(t)
  <2>1. PICK v \in SendOp :
          /\ Idle(t, v) /\ Made(v) /\ SendBlocks(v)
          /\ pending' = [pending EXCEPT ![t] = v]
          /\ UNCHANGED <<state, holds>>
      BY <1>1 DEF SendWaits
  <2>2. /\ v \in Op /\ current = t /\ by[v] = t /\ status[v] = "idle"
        /\ status' = [status EXCEPT ![v] = "waiting"] /\ recvLog' = recvLog
        /\ UNCHANGED <<buffer, got, state, holds>>
      BY <2>1 DEF Idle, SendBlocks, SendCall, Op
  <2>3. refs \in [SendOp -> Int]
      BY DEF TaskInv, Counts
  <2>4. \A u \in SendOp : refs'[u] = IF u = v THEN 1 ELSE refs[u]
      BY <2>1, <2>3 DEF Made
  <2>5. ToSet(recvLog) \subseteq ToSet(recvLog')
      BY <2>2
  <2> QED
      BY <2>1, <2>2, <2>4, <2>5, WaitsOwned
<1>2. CASE ReceiveWaits(t)
  <2>1. PICK r \in RecvOp :
          /\ Idle(t, r) /\ ReceiveBlocks(r)
          /\ pending' = [pending EXCEPT ![t] = r]
          /\ UNCHANGED <<state, holds, refs>>
      BY <1>2 DEF ReceiveWaits
  <2>2. /\ r \in Op /\ r \notin SendOp
        /\ current = t /\ by[r] = t /\ status[r] = "idle"
        /\ status' = [status EXCEPT ![r] = "waiting"] /\ recvLog' = Append(recvLog, r)
        /\ UNCHANGED <<buffer, got, state, holds>>
      BY <2>1, ChannelAssumption DEF Idle, ReceiveBlocks, RecvCall, Op, ChannelAssumption
  <2>3. recvLog \in Seq(RecvOp)
      BY DEF TaskInv, ChannelInv, TypeOK
  <2>4. ToSet(recvLog) \subseteq ToSet(recvLog')
      BY <2>2, <2>3, RangeAppend
  <2>5. \A u \in SendOp : refs'[u] = IF u = r THEN 1 ELSE refs[u]
      BY <2>1, <2>2
  <2> QED
      BY <2>1, <2>2, <2>4, <2>5, WaitsOwned
<1> QED
    BY <1>1, <1>2

\* The close serves no receive: one that is blocked has found nothing buffered.
LEMMA ClosesOwned ==
    ASSUME TaskInv, Ownership, NEW t \in Task, CloseChannel(t)
    PROVE  Ownership'
<1> DEFINE served == IF Len(receivers) < Len(buffer) THEN Len(receivers) ELSE Len(buffer)
           IsServed(r) == \E i \in 1..served : receivers[i] = r
<1>1. /\ current = t /\ Close
      /\ UNCHANGED <<state, pending, holds, refs>>
    BY DEF CloseChannel
<1>2. /\ ChannelInv /\ TypeOK /\ NobodyWaitsInVain /\ handles > 0
      /\ buffer \in Seq(SendOp) /\ receivers \in Seq(RecvOp) /\ senders \in Seq(SendOp)
    BY <1>1, Running DEF ChannelInv, TypeOK
<1>3. /\ status' = [o \in Op |->
                IF \E i \in DOMAIN senders : senders[i] = o THEN "faulted"
                ELSE IF IsServed(o) THEN "received"
                ELSE IF \E i \in DOMAIN receivers : receivers[i] = o THEN "eof"
                ELSE status[o]]
      /\ got' = [r \in RecvOp |->
                IF IsServed(r) THEN buffer[CHOOSE i \in 1..served : receivers[i] = r]
                ELSE got[r]]
      /\ Settle(SubSeq(buffer, served + 1, Len(buffer)), <<>>, <<>>, handles)
      /\ recvLog' = recvLog
    BY <1>1 DEF Close
<1>4. served = 0
  <2>1. receivers = <<>> \/ buffer = <<>>
      BY <1>2 DEF NobodyWaitsInVain
  <2> QED
      BY <1>2, <2>1
<1>5. \A r : ~IsServed(r)
    BY <1>4
<1> HIDE DEF IsServed
<1>6. got' = got
    BY <1>2, <1>3, <1>5 DEF TypeOK
<1>7. buffer' = buffer
  <2>1. SubSeq(buffer, 0 + 1, Len(buffer)) = buffer
      BY <1>2
  <2>2. SubSeq(buffer, served + 1, Len(buffer)) = buffer
      BY <1>4, <2>1
  <2> HIDE DEF served
  <2> DEFINE buf == SubSeq(buffer, served + 1, Len(buffer))
  <2>3. Settle(buf, <<>>, <<>>, handles)
      BY <1>3
  <2> HIDE DEF buf
  <2>4. buffer' = buf
      BY <1>2, <2>3, HeldSettles
  <2> QED
      BY <2>2, <2>4 DEF buf
<1>8. \A op \in Op : \/ status'[op] = status[op]
                     \/ Waiting(op) /\ status'[op] \in {"cancelled", "faulted", "eof"}
  <2>1. /\ \A op \in ToSet(senders) : Waiting(op)
        /\ \A op \in ToSet(receivers) : Waiting(op)
      BY <1>2, QueuedWait
  <2>2. \A op \in Op : /\ (\E i \in DOMAIN senders : senders[i] = op) => Waiting(op)
                       /\ (\E i \in DOMAIN receivers : receivers[i] = op) => Waiting(op)
      BY <2>1 DEF ToSet
  <2> QED
      BY <1>3, <1>5, <2>2
<1>9. UNCHANGED <<buffer, got, recvLog, state, pending, holds, refs>>
    BY <1>1, <1>3, <1>6, <1>7
<1> QED
    BY <1>8, <1>9, WithdrawsOwned

\* Steps that leave every value where it is.
LEMMA StaysOwned ==
    ASSUME TaskInv, Ownership, UNCHANGED <<buffer, got, recvLog, state, pending, holds, refs>>,
           status' = status \/ \E T, q : request_cancel(T, status, q)
    PROVE  Ownership'
<1>1. \A op \in Op : \/ status'[op] = status[op]
                     \/ Waiting(op) /\ status'[op] \in {"cancelled", "faulted", "eof"}
  <2>1. CASE status' = status
      BY <2>1
  <2>2. ASSUME NEW T, NEW q, request_cancel(T, status, q)
        PROVE  \A op \in Op : \/ status'[op] = status[op]
                              \/ Waiting(op) /\ status'[op] \in {"cancelled", "faulted", "eof"}
      BY <2>2 DEF request_cancel
  <2> QED
      BY <2>1, <2>2
<1> QED
    BY <1>1, WithdrawsOwned

\* A task consumes a value it holds.
LEMMA DropsOwned ==
    ASSUME TaskInv, Ownership, NEW t \in Task, Drop(t)
    PROVE  Ownership'
<1>1. PICK v \in holds[t] :
        /\ holds' = [holds EXCEPT ![t] = @ \ {v}]
        /\ refs' = [refs EXCEPT ![v] = @ - 1]
    BY DEF Drop
<1>2. /\ current = t /\ buffer' = buffer /\ got' = got /\ recvLog' = recvLog /\ status' = status
      /\ state' = state /\ pending' = pending
    BY DEF Drop, chanVars, queues
<1>3. /\ Counts /\ RunQueue /\ Suspensions /\ TypeOK /\ ChannelInv /\ Receipts
      /\ t # Nobody /\ pending[t] = NoOp /\ NoOp \notin Op
      /\ \A op \in Op : Waiting(op) => by[op] # t
      /\ \A u \in Task : pending[u] \in Op \cup {NoOp}
    BY <1>2, Running, WaitersApart, TaskAssumption DEF TaskAssumption, Ownership, RunQueue
<1>4. v \in SendOp /\ status[v] # "idle"
    BY <1>1, <1>3, Apart DEF Counts
<1>5. {v} \in SUBSET SendOp /\ {} \in SUBSET ToSet(buffer) /\ t \in Task \cup {Nobody}
    BY <1>4
<1>6. \A u \in SendOp :
         IF status[u] = "idle" /\ status'[u] = "faulted" THEN refs'[u] = 1
         ELSE refs'[u] = (refs[u] - (IF u \in {v} THEN 1 ELSE 0)) - (IF u \in {} THEN 1 ELSE 0)
    BY <1>1, <1>2, <1>3, <1>4 DEF Counts
<1>7. /\ ToSet(buffer') = ToSet(buffer) \ {} /\ ToSet(recvLog) \subseteq ToSet(recvLog')
      /\ \A u \in Task : holds'[u] = IF u = t THEN holds[u] \ {v} ELSE holds[u]
      /\ \A u \in Task : pending'[u] = IF u = t THEN NoOp ELSE pending[u]
      /\ \A u \in Task : /\ u # t => state'[u] = state[u]
                         /\ state[u] = "cancelled" => state'[u] = "cancelled"
      /\ \A op \in Op : status'[op] = status[op]
      /\ \A u \in {v} : t \in Task /\ u \in holds[t]
      /\ pending[t] \notin SendOp /\ pending[t] \notin RecvOp
    BY <1>1, <1>2, <1>3 DEF Counts, Op
<1>8. Lost(t, {v}, {})
    BY <1>2, <1>3, <1>6, <1>7 DEF Lost
<1> QED
    BY <1>5, <1>8, LossOwned

\* The root frame leaves with the last handle.
LEMMA LeavesOwned ==
    ASSUME TaskInv, Ownership, LeaveBlock
    PROVE  Ownership'
<1>1. /\ TypeOK /\ RunQueue /\ ChannelInv /\ Receipts /\ refs \in [SendOp -> Int]
      /\ Nobody \notin Task /\ by \in [Op -> Task]
    BY TaskAssumption
       DEF TaskInv, Tasks, Counts, ChannelInv, Ownership, TaskAssumption, Nobody, Task
<1>2. /\ got' = got /\ recvLog' = recvLog /\ status' = status /\ state' = state
      /\ pending' = pending /\ holds' = holds
      /\ ReleaseHandles(1, refs)
    BY DEF LeaveBlock
<1>3. Discard({}, refs) = refs
    BY <1>1 DEF Discard
<1>4. PICK B \in SUBSET ToSet(buffer) :
         ToSet(buffer') = ToSet(buffer) \ B /\ refs' = Discarded({}, B, refs)
  <2>1. ReleaseHandles(1, Discard({}, refs))
      BY <1>2, <1>3
  <2> QED
      BY <1>1, <2>1, ReleasesOwned
<1>5. \A v \in SendOp :
         /\ ~(status[v] = "idle" /\ status'[v] = "faulted")
         /\ refs'[v] = (refs[v] - (IF v \in {} THEN 1 ELSE 0)) - (IF v \in B THEN 1 ELSE 0)
    BY <1>2, <1>4 DEF Discarded
<1>6. Lost(Nobody, {}, B)
    BY <1>1, <1>2, <1>4, <1>5 DEF Lost
<1> QED
    BY <1>6, LossOwned

LEMMA InstructionOwned ==
    ASSUME TaskInv, Ownership, NEW t \in Task, Instruction(t)
    PROVE  Ownership'
<1>1. CASE Sends(t) \/ SendWaits(t) \/ SendFaults(t)
    BY <1>1, SendsOwned, BlocksOwned, RefusedOwned
<1>2. CASE Receives(t) \/ ReceiveWaits(t) \/ CloseChannel(t) \/ Drop(t)
    BY <1>2, ReceivesOwned, BlocksOwned, ClosesOwned, DropsOwned
<1>3. CASE Yield(t)
  <2>1. UNCHANGED <<buffer, got, recvLog, state, pending, holds, refs>> /\ status' = status
      BY <1>3 DEF Yield, chanVars, queues
  <2> QED
      BY <2>1, StaysOwned
<1>4. CASE Cancel(t)
  <2>1. /\ UNCHANGED <<buffer, got, recvLog, state, pending, holds, refs>>
        /\ \E T, q : request_cancel(T, status, q)
      BY <1>4 DEF Cancel, Unlogged
  <2> QED
      BY <2>1, StaysOwned
<1>5. ASSUME current = t, NEW outcome \in Ended, NEW V, NEW h,
             _finish(t, outcome, V, h, refs, status, runnable), Unlogged, V \subseteq FrameOf(t)
      PROVE  Ownership'
  <2>1. pending[t] \notin SendOp /\ pending[t] \notin RecvOp
      BY <1>5, Running, TaskAssumption DEF TaskAssumption, Op
  <2>2. PICK q : q = runnable
      OBVIOUS
  <2> QED
      BY <1>5, <2>1, <2>2, EndsOwned
<1>6. CASE Return(t)
    BY <1>5, <1>6 DEF Return, Ended
<1>7. CASE Panic(t)
    BY <1>5, <1>7 DEF Panic, Ended
<1>8. CASE Timeout(t)
    BY <1>5, <1>8 DEF Timeout, Ended
<1> QED
    BY <1>1, <1>2, <1>3, <1>4, <1>6, <1>7, <1>8 DEF Instruction

LEMMA OwnStep == TaskInv /\ Ownership /\ [TNext]_allVars => Ownership'
<1> SUFFICES ASSUME TaskInv, Ownership, [TNext]_allVars PROVE Ownership'
    OBVIOUS
<1>1. CASE UNCHANGED allVars
  <2>1. UNCHANGED <<buffer, got, recvLog, state, pending, holds, refs>> /\ status' = status
      BY <1>1 DEF allVars, chanVars, taskVars, queues
  <2> QED
      BY <2>1, StaysOwned
<1>2. CASE Deadlock
  <2>1. /\ UNCHANGED <<buffer, got, recvLog, state, pending, holds, refs>>
        /\ \E T, q : request_cancel(T, status, q)
      BY <1>2 DEF Deadlock, Unlogged
  <2> QED
      BY <2>1, StaysOwned
<1> QED
    BY <1>1, <1>2, LoopOwned, InstructionOwned, LeavesOwned DEF TNext, Quantum, Done

LEMMA OwnInit == TInit => Ownership
<1> SUFFICES ASSUME TInit PROVE Ownership
    OBVIOUS
<1>1. /\ status = [op \in Op |-> "idle"] /\ got = [r \in RecvOp |-> NoValue]
      /\ pending = [t \in Task |-> NoOp] /\ holds = [t \in Task |-> {}]
      /\ refs = [v \in SendOp |-> 0]
      /\ NoOp \notin Op
    BY TaskAssumption DEF TInit, TaskAssumption
<1>2. Receipts
    BY <1>1 DEF Receipts, Op
<1>3. \A v \in SendOp : CountFits(v)
    BY <1>1 DEF CountFits, Op
<1> QED
    BY <1>2, <1>3 DEF Ownership

\* A value that was sent is in one place at a time and its reference count says
\* whether it is anywhere, unless its send was refused or a side of its transfer
\* was cancelled, when it is off by one at most (TaskChannels.ValuesAreOwned;
\* _discard_frame and the resumption of CHANNEL_SEND and CHANNEL_RECEIVE).
THEOREM ValuesAlwaysOwned == TSpec => []ValuesAreOwned
BY TaskInit, OwnInit, TaskStep, OwnStep, OwnedIsOwned, PTL DEF TSpec
=============================================================================
