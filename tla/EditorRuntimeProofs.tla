------------------------- MODULE EditorRuntimeProofs -------------------------
(***************************************************************************)
(* What holds of the editor and the sessions it owns and replaces, for     *)
(* every number of requests, chunks, texts and faults.                     *)
(*                                                                         *)
(* WorkerInv is about one session and its owner.  It counts: the           *)
(* submissions between the owner and the process, wherever they are, are   *)
(* as many as `busy` says; so are the previews and the lines of input; and *)
(* the output of a request that is not with the process is no more than    *)
(* its end says was written.  EditorInv adds what the editor knows of the  *)
(* process: what is loaded or reset is told in order and before the end of *)
(* its submission, the load under way is of the pending text, and what the *)
(* editor will show when it has taken everything is what is loaded now.    *)
(***************************************************************************)
EXTENDS EditorRuntime, QueueLemmas, SequenceTheorems, FiniteSetTheorems, TLAPS

-----------------------------------------------------------------------------
(* Counting what is in the queues.                                         *)

EventType == [kind : Kinds, request : 0..MaxRequest, written : Nat]
MessageType == [op : {"load", "command", "complete", "commit", "shutdown"},
                request : 0..MaxRequest, current : BOOLEAN]

Ending == {"finished", "failed", "cancelled"}   \* ends of a submission
Jobs == {"load", "command"}                     \* messages that are one
Marks == {"loaded", "reset"}                    \* changes of what is loaded
Deaths == {"closed", "interrupted"}             \* ends of a session

EventsOf(K) == {e \in EventType : e.kind \in K}
MessagesOf(K) == {m \in MessageType : m.op \in K}

EndsIn(q) == Number(q, EventsOf(Ending))
PreparedIn(q) == Number(q, EventsOf({"prepared"}))
PreviewedIn(q) == Number(q, EventsOf({"completion"}))
AsksIn(q) == Number(q, EventsOf({"input"}))

JobsIn(q) == Number(q, MessagesOf(Jobs))
CommitsIn(q) == Number(q, MessagesOf({"commit"}))
PreviewsIn(q) == Number(q, MessagesOf({"complete"}))
ShutdownsIn(q) == Number(q, MessagesOf({"shutdown"}))

Has(q, K) == \E e \in ToSet(q) : e.kind \in K

\* The counts of events, and of an event more.
LEMMA EventCounts ==
    ASSUME NEW q \in Seq(EventType)
    PROVE  /\ EndsIn(q) \in Nat /\ PreparedIn(q) \in Nat
           /\ PreviewedIn(q) \in Nat /\ AsksIn(q) \in Nat
           /\ EndsIn(q) = 0 <=> ~Has(q, Ending)
           /\ PreparedIn(q) = 0 <=> ~Has(q, {"prepared"})
           /\ ToSet(q) \subseteq EventType
<1>1. ToSet(q) \subseteq EventType
    BY RangeIn
<1>2. ASSUME NEW K PROVE /\ Number(q, EventsOf(K)) \in Nat
                         /\ Number(q, EventsOf(K)) = 0 <=> ~Has(q, K)
  <2>1. Number(q, EventsOf(K)) \in Nat
      BY NumberType
  <2>2. Number(q, EventsOf(K)) = 0 <=> ToSet(q) \cap EventsOf(K) = {}
      BY NumberType
  <2>3. ToSet(q) \cap EventsOf(K) = {} <=> ~Has(q, K)
      BY <1>1 DEF EventsOf, Has
  <2> QED
      BY <2>1, <2>2, <2>3
<1> QED
    BY <1>1, <1>2 DEF EndsIn, PreparedIn, PreviewedIn, AsksIn

\* One element more, or the first taken: a count changes by one or by nothing.
LEMMA NumberMore ==
    ASSUME NEW X, NEW q \in Seq(X), NEW x \in X, NEW S
    PROVE  /\ x \in S => Number(Append(q, x), S) = Number(q, S) + 1
           /\ x \notin S => Number(Append(q, x), S) = Number(q, S) + 0
<1>1. Number(q, S) \in Nat
    BY NumberType
<1> QED
    BY <1>1, NumberAppend

\* The same of the tail of a queue, counted from there.
LEMMA NumberLess ==
    ASSUME NEW X, NEW q \in Seq(X), q # <<>>, NEW S
    PROVE  /\ Head(q) \in S => Number(q, S) = Number(Tail(q), S) + 1
           /\ Head(q) \notin S => Number(q, S) = Number(Tail(q), S) + 0
<1>1. Number(Tail(q), S) \in Nat
    BY Behead, NumberType
<1> QED
    BY <1>1, NumberTail

\* One event more changes each count of events by one or by nothing, by its kind.
LEMMA EventAppended ==
    ASSUME NEW q \in Seq(EventType), NEW e \in EventType
    PROVE  /\ Append(q, e) \in Seq(EventType) /\ Append(q, e) # <<>>
           /\ ToSet(Append(q, e)) = ToSet(q) \cup {e}
           /\ \E ended, prepared, previewed, asked \in {0, 1} :
                 /\ EndsIn(Append(q, e)) = EndsIn(q) + ended /\ (ended = 1 <=> e.kind \in Ending)
                 /\ PreparedIn(Append(q, e)) = PreparedIn(q) + prepared /\ (prepared = 1 <=> e.kind = "prepared")
                 /\ PreviewedIn(Append(q, e)) = PreviewedIn(q) + previewed /\ (previewed = 1 <=> e.kind = "completion")
                 /\ AsksIn(Append(q, e)) = AsksIn(q) + asked /\ (asked = 1 <=> e.kind = "input")
<1>1. Append(q, e) \in Seq(EventType) /\ Append(q, e) # <<>>
    BY AppendProperties
<1>2. ToSet(Append(q, e)) = ToSet(q) \cup {e}
    BY RangeAppend
<1>3. ASSUME NEW K
      PROVE  /\ e.kind \in K => Number(Append(q, e), EventsOf(K)) = Number(q, EventsOf(K)) + 1
             /\ e.kind \notin K => Number(Append(q, e), EventsOf(K)) = Number(q, EventsOf(K)) + 0
  <2>1. e \in EventsOf(K) <=> e.kind \in K
      BY DEF EventsOf
  <2>2. /\ e \in EventsOf(K) => Number(Append(q, e), EventsOf(K)) = Number(q, EventsOf(K)) + 1
        /\ e \notin EventsOf(K) => Number(Append(q, e), EventsOf(K)) = Number(q, EventsOf(K)) + 0
      BY NumberMore
  <2> QED
      BY <2>1, <2>2
<1>4. \E n \in {0, 1} : EndsIn(Append(q, e)) = EndsIn(q) + n /\ (n = 1 <=> e.kind \in Ending)
  <2>1. /\ e.kind \in Ending => EndsIn(Append(q, e)) = EndsIn(q) + 1
        /\ e.kind \notin Ending => EndsIn(Append(q, e)) = EndsIn(q) + 0
      BY <1>3 DEF EndsIn
  <2> QED
      BY <2>1
<1>5. \E n \in {0, 1} : PreparedIn(Append(q, e)) = PreparedIn(q) + n /\ (n = 1 <=> e.kind = "prepared")
  <2>1. /\ e.kind \in {"prepared"} => PreparedIn(Append(q, e)) = PreparedIn(q) + 1
        /\ e.kind \notin {"prepared"} => PreparedIn(Append(q, e)) = PreparedIn(q) + 0
      BY <1>3 DEF PreparedIn
  <2> QED
      BY <2>1
<1>6. \E n \in {0, 1} : PreviewedIn(Append(q, e)) = PreviewedIn(q) + n /\ (n = 1 <=> e.kind = "completion")
  <2>1. /\ e.kind \in {"completion"} => PreviewedIn(Append(q, e)) = PreviewedIn(q) + 1
        /\ e.kind \notin {"completion"} => PreviewedIn(Append(q, e)) = PreviewedIn(q) + 0
      BY <1>3 DEF PreviewedIn
  <2> QED
      BY <2>1
<1>7. \E n \in {0, 1} : AsksIn(Append(q, e)) = AsksIn(q) + n /\ (n = 1 <=> e.kind = "input")
  <2>1. /\ e.kind \in {"input"} => AsksIn(Append(q, e)) = AsksIn(q) + 1
        /\ e.kind \notin {"input"} => AsksIn(Append(q, e)) = AsksIn(q) + 0
      BY <1>3 DEF AsksIn
  <2> QED
      BY <2>1
<1> QED
    BY <1>1, <1>2, <1>4, <1>5, <1>6, <1>7

\* So does the first event taken.
LEMMA EventTaken ==
    ASSUME NEW q \in Seq(EventType), q # <<>>
    PROVE  /\ Head(q) \in EventType /\ Tail(q) \in Seq(EventType)
           /\ ToSet(q) = {Head(q)} \cup ToSet(Tail(q))
           /\ \E ended, prepared, previewed, asked \in {0, 1} :
                 /\ EndsIn(q) = EndsIn(Tail(q)) + ended /\ (ended = 1 <=> Head(q).kind \in Ending)
                 /\ PreparedIn(q) = PreparedIn(Tail(q)) + prepared /\ (prepared = 1 <=> Head(q).kind = "prepared")
                 /\ PreviewedIn(q) = PreviewedIn(Tail(q)) + previewed /\ (previewed = 1 <=> Head(q).kind = "completion")
                 /\ AsksIn(q) = AsksIn(Tail(q)) + asked /\ (asked = 1 <=> Head(q).kind = "input")
<1> DEFINE h == Head(q)
           t == Tail(q)
<1>1. h \in EventType /\ t \in Seq(EventType) /\ ToSet(q) = {h} \cup ToSet(t)
    BY Behead
<1>2. ASSUME NEW S
      PROVE  /\ h \in S => Number(q, S) = Number(t, S) + 1
             /\ h \notin S => Number(q, S) = Number(t, S) + 0
    BY NumberLess
<1> HIDE DEF h, t
<1>3. ASSUME NEW K
      PROVE  /\ h.kind \in K => Number(q, EventsOf(K)) = Number(t, EventsOf(K)) + 1
             /\ h.kind \notin K => Number(q, EventsOf(K)) = Number(t, EventsOf(K)) + 0
  <2>1. h \in EventsOf(K) <=> h.kind \in K
      BY <1>1 DEF EventsOf
  <2>2. /\ h \in EventsOf(K) => Number(q, EventsOf(K)) = Number(t, EventsOf(K)) + 1
        /\ h \notin EventsOf(K) => Number(q, EventsOf(K)) = Number(t, EventsOf(K)) + 0
      BY <1>2
  <2> QED
      BY <2>1, <2>2
<1>4. \E n \in {0, 1} : EndsIn(q) = EndsIn(t) + n /\ (n = 1 <=> h.kind \in Ending)
  <2>1. /\ h.kind \in Ending => EndsIn(q) = EndsIn(t) + 1
        /\ h.kind \notin Ending => EndsIn(q) = EndsIn(t) + 0
      BY <1>3 DEF EndsIn
  <2> QED
      BY <2>1
<1>5. \E n \in {0, 1} : PreparedIn(q) = PreparedIn(t) + n /\ (n = 1 <=> h.kind = "prepared")
  <2>1. /\ h.kind \in {"prepared"} => PreparedIn(q) = PreparedIn(t) + 1
        /\ h.kind \notin {"prepared"} => PreparedIn(q) = PreparedIn(t) + 0
      BY <1>3 DEF PreparedIn
  <2> QED
      BY <2>1
<1>6. \E n \in {0, 1} : PreviewedIn(q) = PreviewedIn(t) + n /\ (n = 1 <=> h.kind = "completion")
  <2>1. /\ h.kind \in {"completion"} => PreviewedIn(q) = PreviewedIn(t) + 1
        /\ h.kind \notin {"completion"} => PreviewedIn(q) = PreviewedIn(t) + 0
      BY <1>3 DEF PreviewedIn
  <2> QED
      BY <2>1
<1>7. \E n \in {0, 1} : AsksIn(q) = AsksIn(t) + n /\ (n = 1 <=> h.kind = "input")
  <2>1. /\ h.kind \in {"input"} => AsksIn(q) = AsksIn(t) + 1
        /\ h.kind \notin {"input"} => AsksIn(q) = AsksIn(t) + 0
      BY <1>3 DEF AsksIn
  <2> QED
      BY <2>1
<1>8. \E ended, prepared, previewed, asked \in {0, 1} :
        /\ EndsIn(q) = EndsIn(t) + ended /\ (ended = 1 <=> h.kind \in Ending)
        /\ PreparedIn(q) = PreparedIn(t) + prepared /\ (prepared = 1 <=> h.kind = "prepared")
        /\ PreviewedIn(q) = PreviewedIn(t) + previewed /\ (previewed = 1 <=> h.kind = "completion")
        /\ AsksIn(q) = AsksIn(t) + asked /\ (asked = 1 <=> h.kind = "input")
    BY <1>4, <1>5, <1>6, <1>7
<1> QED
    BY <1>1, <1>8 DEF h, t

\* Nothing is in an empty queue.
LEMMA NothingIn ==
    /\ EndsIn(<<>>) = 0 /\ PreparedIn(<<>>) = 0 /\ PreviewedIn(<<>>) = 0 /\ AsksIn(<<>>) = 0
    /\ JobsIn(<<>>) = 0 /\ CommitsIn(<<>>) = 0 /\ PreviewsIn(<<>>) = 0 /\ ShutdownsIn(<<>>) = 0
    /\ ToSet(<<>>) = {} /\ Len(<<>>) = 0
<1>1. ASSUME NEW S PROVE Number(<<>>, S) = 0
    BY NumberEmpty
<1>2. Len(<<>>) = 0
    BY EmptySeq
<1> QED
    BY <1>1, <1>2, RangeEmpty DEF EndsIn, PreparedIn, PreviewedIn, AsksIn, JobsIn, CommitsIn,
       PreviewsIn, ShutdownsIn

\* The counts of messages, which are all of them, and of a message more.
LEMMA MessageCounts ==
    ASSUME NEW q \in Seq(MessageType)
    PROVE  /\ JobsIn(q) \in Nat /\ CommitsIn(q) \in Nat
           /\ PreviewsIn(q) \in Nat /\ ShutdownsIn(q) \in Nat
           /\ Len(q) = JobsIn(q) + CommitsIn(q) + PreviewsIn(q) + ShutdownsIn(q)
           /\ ToSet(q) \subseteq MessageType
           /\ JobsIn(q) = 0 <=> \A m \in ToSet(q) : m.op \notin Jobs
           /\ CommitsIn(q) = 0 <=> \A m \in ToSet(q) : m.op # "commit"
<1> DEFINE J == MessagesOf(Jobs)
           C == MessagesOf({"commit"})
           P == MessagesOf({"complete"})
           D == MessagesOf({"shutdown"})
<1>1. ToSet(q) \subseteq MessageType
    BY RangeIn
<1>2. J \cap C = {} /\ (J \cup C) \cap P = {} /\ (J \cup C \cup P) \cap D = {}
    BY DEF MessagesOf, Jobs
<1>3. MessageType = J \cup C \cup P \cup D
    BY DEF MessagesOf, Jobs, MessageType
<1>4. /\ ToSet(q) \cap J = {} <=> \A m \in ToSet(q) : m.op \notin Jobs
      /\ ToSet(q) \cap C = {} <=> \A m \in ToSet(q) : m.op # "commit"
    BY <1>1 DEF MessagesOf
<1> HIDE DEF J, C, P, D
<1>5. ASSUME NEW S PROVE Number(q, S) \in Nat /\ (Number(q, S) = 0 <=> ToSet(q) \cap S = {})
    BY NumberType
<1>6. Number(q, J \cup C) = Number(q, J) + Number(q, C)
    BY <1>2, NumberUnion
<1>7. Number(q, (J \cup C) \cup P) = Number(q, J \cup C) + Number(q, P)
    BY <1>2, NumberUnion
<1>8. Number(q, (J \cup C \cup P) \cup D) = Number(q, J \cup C \cup P) + Number(q, D)
    BY <1>2, NumberUnion
<1>9. Number(q, MessageType) = Len(q)
    BY <1>1, NumberType
<1>10. Len(q) = Number(q, J) + Number(q, C) + Number(q, P) + Number(q, D)
    BY <1>3, <1>6, <1>7, <1>8, <1>9
<1>11. JobsIn(q) = Number(q, J) /\ CommitsIn(q) = Number(q, C)
       /\ PreviewsIn(q) = Number(q, P) /\ ShutdownsIn(q) = Number(q, D)
    BY DEF J, C, P, D, JobsIn, CommitsIn, PreviewsIn, ShutdownsIn
<1> QED
    BY <1>1, <1>4, <1>5, <1>10, <1>11

\* One message more changes each count of messages by one or by nothing; the head
\* of a queue that is not empty stays.
LEMMA MessageAppended ==
    ASSUME NEW q \in Seq(MessageType), NEW m \in MessageType
    PROVE  /\ Append(q, m) \in Seq(MessageType) /\ Append(q, m) # <<>>
           /\ ToSet(Append(q, m)) = ToSet(q) \cup {m}
           /\ q # <<>> => Head(Append(q, m)) = Head(q)
           /\ \E job, commit, preview, shutdown \in {0, 1} :
                 /\ JobsIn(Append(q, m)) = JobsIn(q) + job /\ (job = 1 <=> m.op \in Jobs)
                 /\ CommitsIn(Append(q, m)) = CommitsIn(q) + commit /\ (commit = 1 <=> m.op = "commit")
                 /\ PreviewsIn(Append(q, m)) = PreviewsIn(q) + preview /\ (preview = 1 <=> m.op = "complete")
                 /\ ShutdownsIn(Append(q, m)) = ShutdownsIn(q) + shutdown /\ (shutdown = 1 <=> m.op = "shutdown")
<1>1. Append(q, m) \in Seq(MessageType) /\ Append(q, m) # <<>>
    BY AppendProperties
<1>2. ToSet(Append(q, m)) = ToSet(q) \cup {m}
    BY RangeAppend
<1>3. ASSUME NEW K
      PROVE  /\ m.op \in K => Number(Append(q, m), MessagesOf(K)) = Number(q, MessagesOf(K)) + 1
             /\ m.op \notin K => Number(Append(q, m), MessagesOf(K)) = Number(q, MessagesOf(K)) + 0
  <2>1. m \in MessagesOf(K) <=> m.op \in K
      BY DEF MessagesOf
  <2>2. /\ m \in MessagesOf(K) => Number(Append(q, m), MessagesOf(K)) = Number(q, MessagesOf(K)) + 1
        /\ m \notin MessagesOf(K) => Number(Append(q, m), MessagesOf(K)) = Number(q, MessagesOf(K)) + 0
      BY NumberMore
  <2> QED
      BY <2>1, <2>2
<1>4. \E n \in {0, 1} : JobsIn(Append(q, m)) = JobsIn(q) + n /\ (n = 1 <=> m.op \in Jobs)
  <2>1. /\ m.op \in Jobs => JobsIn(Append(q, m)) = JobsIn(q) + 1
        /\ m.op \notin Jobs => JobsIn(Append(q, m)) = JobsIn(q) + 0
      BY <1>3 DEF JobsIn
  <2> QED
      BY <2>1
<1>5. \E n \in {0, 1} : CommitsIn(Append(q, m)) = CommitsIn(q) + n /\ (n = 1 <=> m.op = "commit")
  <2>1. /\ m.op \in {"commit"} => CommitsIn(Append(q, m)) = CommitsIn(q) + 1
        /\ m.op \notin {"commit"} => CommitsIn(Append(q, m)) = CommitsIn(q) + 0
      BY <1>3 DEF CommitsIn
  <2> QED
      BY <2>1
<1>6. \E n \in {0, 1} : PreviewsIn(Append(q, m)) = PreviewsIn(q) + n /\ (n = 1 <=> m.op = "complete")
  <2>1. /\ m.op \in {"complete"} => PreviewsIn(Append(q, m)) = PreviewsIn(q) + 1
        /\ m.op \notin {"complete"} => PreviewsIn(Append(q, m)) = PreviewsIn(q) + 0
      BY <1>3 DEF PreviewsIn
  <2> QED
      BY <2>1
<1>7. \E n \in {0, 1} : ShutdownsIn(Append(q, m)) = ShutdownsIn(q) + n /\ (n = 1 <=> m.op = "shutdown")
  <2>1. /\ m.op \in {"shutdown"} => ShutdownsIn(Append(q, m)) = ShutdownsIn(q) + 1
        /\ m.op \notin {"shutdown"} => ShutdownsIn(Append(q, m)) = ShutdownsIn(q) + 0
      BY <1>3 DEF ShutdownsIn
  <2> QED
      BY <2>1
<1>8. q # <<>> => Head(Append(q, m)) = Head(q)
  <2> SUFFICES ASSUME q # <<>> PROVE Head(Append(q, m)) = Head(q)
      OBVIOUS
  <2>1. Len(q) \in Nat \ {0}
      BY EmptySeq
  <2>2. Head(q) = q[1] /\ Head(Append(q, m)) = Append(q, m)[1]
      OBVIOUS
  <2>3. Append(q, m)[1] = q[1]
      BY <2>1, AppendProperties
  <2> QED
      BY <2>2, <2>3
<1> QED
    BY <1>1, <1>2, <1>4, <1>5, <1>6, <1>7, <1>8

\* So does the first message taken.
LEMMA MessageTaken ==
    ASSUME NEW q \in Seq(MessageType), q # <<>>
    PROVE  /\ Head(q) \in MessageType /\ Tail(q) \in Seq(MessageType)
           /\ ToSet(q) = {Head(q)} \cup ToSet(Tail(q))
           /\ \E job, commit, preview, shutdown \in {0, 1} :
                 /\ JobsIn(q) = JobsIn(Tail(q)) + job /\ (job = 1 <=> Head(q).op \in Jobs)
                 /\ CommitsIn(q) = CommitsIn(Tail(q)) + commit /\ (commit = 1 <=> Head(q).op = "commit")
                 /\ PreviewsIn(q) = PreviewsIn(Tail(q)) + preview /\ (preview = 1 <=> Head(q).op = "complete")
                 /\ ShutdownsIn(q) = ShutdownsIn(Tail(q)) + shutdown /\ (shutdown = 1 <=> Head(q).op = "shutdown")
<1> DEFINE h == Head(q)
           t == Tail(q)
<1>1. h \in MessageType /\ t \in Seq(MessageType) /\ ToSet(q) = {h} \cup ToSet(t)
    BY Behead
<1>2. ASSUME NEW S
      PROVE  /\ h \in S => Number(q, S) = Number(t, S) + 1
             /\ h \notin S => Number(q, S) = Number(t, S) + 0
    BY NumberLess
<1> HIDE DEF h, t
<1>3. ASSUME NEW K
      PROVE  /\ h.op \in K => Number(q, MessagesOf(K)) = Number(t, MessagesOf(K)) + 1
             /\ h.op \notin K => Number(q, MessagesOf(K)) = Number(t, MessagesOf(K)) + 0
  <2>1. h \in MessagesOf(K) <=> h.op \in K
      BY <1>1 DEF MessagesOf
  <2>2. /\ h \in MessagesOf(K) => Number(q, MessagesOf(K)) = Number(t, MessagesOf(K)) + 1
        /\ h \notin MessagesOf(K) => Number(q, MessagesOf(K)) = Number(t, MessagesOf(K)) + 0
      BY <1>2
  <2> QED
      BY <2>1, <2>2
<1>4. \E n \in {0, 1} : JobsIn(q) = JobsIn(t) + n /\ (n = 1 <=> h.op \in Jobs)
  <2>1. /\ h.op \in Jobs => JobsIn(q) = JobsIn(t) + 1
        /\ h.op \notin Jobs => JobsIn(q) = JobsIn(t) + 0
      BY <1>3 DEF JobsIn
  <2> QED
      BY <2>1
<1>5. \E n \in {0, 1} : CommitsIn(q) = CommitsIn(t) + n /\ (n = 1 <=> h.op = "commit")
  <2>1. /\ h.op \in {"commit"} => CommitsIn(q) = CommitsIn(t) + 1
        /\ h.op \notin {"commit"} => CommitsIn(q) = CommitsIn(t) + 0
      BY <1>3 DEF CommitsIn
  <2> QED
      BY <2>1
<1>6. \E n \in {0, 1} : PreviewsIn(q) = PreviewsIn(t) + n /\ (n = 1 <=> h.op = "complete")
  <2>1. /\ h.op \in {"complete"} => PreviewsIn(q) = PreviewsIn(t) + 1
        /\ h.op \notin {"complete"} => PreviewsIn(q) = PreviewsIn(t) + 0
      BY <1>3 DEF PreviewsIn
  <2> QED
      BY <2>1
<1>7. \E n \in {0, 1} : ShutdownsIn(q) = ShutdownsIn(t) + n /\ (n = 1 <=> h.op = "shutdown")
  <2>1. /\ h.op \in {"shutdown"} => ShutdownsIn(q) = ShutdownsIn(t) + 1
        /\ h.op \notin {"shutdown"} => ShutdownsIn(q) = ShutdownsIn(t) + 0
      BY <1>3 DEF ShutdownsIn
  <2> QED
      BY <2>1
<1>8. \E job, commit, preview, shutdown \in {0, 1} :
        /\ JobsIn(q) = JobsIn(t) + job /\ (job = 1 <=> h.op \in Jobs)
        /\ CommitsIn(q) = CommitsIn(t) + commit /\ (commit = 1 <=> h.op = "commit")
        /\ PreviewsIn(q) = PreviewsIn(t) + preview /\ (preview = 1 <=> h.op = "complete")
        /\ ShutdownsIn(q) = ShutdownsIn(t) + shutdown /\ (shutdown = 1 <=> h.op = "shutdown")
    BY <1>4, <1>5, <1>6, <1>7
<1> QED
    BY <1>1, <1>8 DEF h, t

\* The output of a request in a queue.
OutputIn(q, r) == Number(q, {r})

\* The first chunk taken changes it by one or by nothing.
LEMMA ChunkTaken ==
    ASSUME NEW q \in Seq(1..MaxRequest), NEW r, q # <<>>
    PROVE  /\ Head(q) \in 1..MaxRequest /\ Tail(q) \in Seq(1..MaxRequest)
           /\ \E n \in {0, 1} : OutputIn(q, r) = OutputIn(Tail(q), r) + n /\ (n = 1 <=> Head(q) = r)
<1>1. Head(q) \in 1..MaxRequest /\ Tail(q) \in Seq(1..MaxRequest)
    BY Behead
<1>2. /\ Head(q) \in {r} => OutputIn(q, r) = OutputIn(Tail(q), r) + 1
      /\ Head(q) \notin {r} => OutputIn(q, r) = OutputIn(Tail(q), r) + 0
    BY NumberLess DEF OutputIn
<1> QED
    BY <1>1, <1>2

\* It is a number, zero if there is none, and changes by one or by nothing.
LEMMA OutputCounts ==
    ASSUME NEW q \in Seq(1..MaxRequest), NEW r
    PROVE  /\ OutputIn(q, r) \in Nat
           /\ OutputIn(q, r) = 0 <=> r \notin ToSet(q)
           /\ OutputIn(<<>>, r) = 0 /\ <<>> \in Seq(1..MaxRequest)
           /\ \A x \in 1..MaxRequest :
                 /\ Append(q, x) \in Seq(1..MaxRequest)
                 /\ \E n \in {0, 1} : OutputIn(Append(q, x), r) = OutputIn(q, r) + n /\ (n = 1 <=> x = r)
           /\ q # <<>> =>
                 /\ Head(q) \in 1..MaxRequest /\ Tail(q) \in Seq(1..MaxRequest)
                 /\ \E n \in {0, 1} : OutputIn(q, r) = OutputIn(Tail(q), r) + n /\ (n = 1 <=> Head(q) = r)
<1>1. /\ OutputIn(q, r) \in Nat
      /\ OutputIn(q, r) = 0 <=> ToSet(q) \cap {r} = {}
    BY NumberType DEF OutputIn
<1>2. OutputIn(<<>>, r) = 0 /\ <<>> \in Seq(1..MaxRequest)
    BY NumberEmpty, EmptySeq DEF OutputIn
<1>3. ASSUME NEW x \in 1..MaxRequest
      PROVE  /\ Append(q, x) \in Seq(1..MaxRequest)
             /\ \E n \in {0, 1} : OutputIn(Append(q, x), r) = OutputIn(q, r) + n /\ (n = 1 <=> x = r)
  <2>1. Append(q, x) \in Seq(1..MaxRequest)
      BY AppendProperties
  <2>2. /\ x \in {r} => OutputIn(Append(q, x), r) = OutputIn(q, r) + 1
        /\ x \notin {r} => OutputIn(Append(q, x), r) = OutputIn(q, r) + 0
      BY NumberMore DEF OutputIn
  <2> QED
      BY <2>1, <2>2
<1>4. ASSUME q # <<>>
      PROVE  /\ Head(q) \in 1..MaxRequest /\ Tail(q) \in Seq(1..MaxRequest)
             /\ \E n \in {0, 1} : OutputIn(q, r) = OutputIn(Tail(q), r) + n /\ (n = 1 <=> Head(q) = r)
    BY <1>4, ChunkTaken
<1> QED
    BY <1>1, <1>2, <1>3, <1>4

\* What Kept leaves of the ends that wait, of which there is at most one.
LEMMA KeptOfOne ==
    ASSUME NEW X, NEW q \in Seq(X), Len(q) <= 1, NEW S
    PROVE  \/ Kept(q, S) = q /\ ToSet(q) \subseteq S
           \/ Kept(q, S) = <<>> /\ ToSet(q) \cap S = {}
<1>1. Len(q) \in Nat /\ DOMAIN q = 1..Len(q)
    BY LenProperties
<1>2. ToSet(q) \subseteq S \/ ToSet(q) \cap S = {}
  <2>1. \A i, j \in 1..Len(q) : i = j
      BY <1>1
  <2> QED
      BY <1>1, <2>1 DEF ToSet
<1> QED
    BY <1>2, KeptAll, KeptNone

-----------------------------------------------------------------------------
(* The inductive invariant of the session and its owner.                   *)

ChildType == [pc : ChildPcs, op : {"load", "command", "complete", "shutdown"},
              request : 0..MaxRequest, chunks : Nat, written : Nat,
              outcome : Ends \cup {"closed", "interrupted"}, resume : ChildPcs]

Types ==
    /\ TypeOK
    /\ \A m \in ToSet(commands) : m.op \in {"load", "command", "complete"} => m.request \in 1..request
    /\ child.pc \in Working \cup {"previewing"} => child.request \in 1..request
    /\ child.pc = "dropping" => child.resume \in {"executing", "reporting"}
    /\ child.pc \notin {"closing", "exited", "killed"} => child.outcome \in Ends
    /\ child.pc = "closing" => child.outcome \in Deaths
    /\ \A e \in ToSet(events) : e.kind \in Ends => e.request \in 1..request
    /\ \A e \in ToSet(completions) : e.kind \in Ends /\ e.request \in 1..request
    /\ \A e \in ToSet(batch) : e.kind \in Ends => e.request \in 1..MaxRequest

\* Submissions that wait for the process, or have ended and not been taken; the
\* one in the process; and what is under way about its commit.
Waits == JobsIn(commands) + EndsIn(events) + Len(completions)
InProcess == IF child.pc \in Working THEN 1 ELSE 0
Commits == CommitsIn(commands) + PreparedIn(events) + PreparedIn(batch)

\* What `busy`, `previewPending` and `waitingInput` stand for, as numbers.
Held == IF busy THEN 1 ELSE 0
PreviewHeld == IF previewPending THEN 1 ELSE 0
PreviewInProcess == IF child.pc = "previewing" THEN 1 ELSE 0
LineHeld == IF waitingInput THEN 1 ELSE 0

\* The owner has taken everything a dead process left, or is about to.
GivenUp == ~Alive /\ (~ready \/ pollPc = "events")

OneAtATime ==
    /\ Waits + InProcess <= 1
    /\ Serving => Waits + InProcess = Held
    /\ GivenUp \/ Waits + Commits <= Held
    /\ Alive /\ child.pc # "awaitCommit" => Commits = 0
    /\ Waits + Commits + EndsIn(batch) + ShutdownsIn(commands) <= 1
    /\ EndsIn(batch) > 0 => ~busy /\ pollPc # "idle"
    /\ ShutdownsIn(commands) > 0 => ~busy /\ closePc # "open"

\* Previews are asked for one at a time, and before the submission they precede.
Previews ==
    /\ PreviewsIn(commands) + PreviewInProcess + PreviewedIn(events) <= PreviewHeld
    /\ busy /\ PreviewsIn(commands) > 0 => JobsIn(commands) = 1 /\ Head(commands).op = "complete"

\* A line is asked for, waited for, or given.
Asked == AsksIn(events) + AsksIn(batch) + LineHeld + inputs
Lines ==
    /\ Asked <= 1
    /\ Alive /\ child.pc # "awaitInput" => Asked = 0

DeathIsLast ==
    /\ Has(events, Deaths) => child.pc = "exited"
    /\ Has(batch, Deaths) => ~Alive
    /\ pollPc = "idle" => batch = <<>>
    /\ closePc \in {"draining", "closed"} => ~Alive

\* What is said about a commit is about the load in the process.
OwnCommit ==
    /\ \A m \in ToSet(commands) : m.op = "commit" => m.request = child.request
    /\ \A e \in ToSet(events) : e.kind = "prepared" => e.request = child.request
    /\ \A e \in ToSet(batch) : e.kind = "prepared" => e.request = child.request

\* The output of a request that is not with the process any more: no more than
\* the process has said, and all of it taken when its end is reported.
SentOf(buffered, piped, taken, r) == OutputIn(buffered, r) + OutputIn(piped, r) + taken[r]
Sent(r) == SentOf(outBuffer, outPipe, received, r)
OutputIsCounted ==
    /\ \A r \in 1..MaxRequest : r > request => Sent(r) = 0
    /\ \A m \in ToSet(commands) : m.op \in Jobs => Sent(m.request) = 0
    /\ child.pc \in Working => Sent(child.request) <= child.written
    /\ \A e \in ToSet(events) : e.kind \in Ends => Sent(e.request) <= e.written
    /\ \A e \in ToSet(completions) : Sent(e.request) <= e.written
    /\ \A e \in ToSet(batch) : e.kind \in Ends =>
          OutputIn(outBuffer, e.request) = 0 /\ OutputIn(outPipe, e.request) = 0

\* The counts of what is where, apart from the output.
Counts == OneAtATime /\ Previews /\ Lines /\ DeathIsLast /\ OwnCommit
WorkerInv == Types /\ Counts /\ OutputIsCounted

\* The queues have the types that the lemmas above are about.
LEMMA Typed ==
    ASSUME Types
    PROVE  /\ commands \in Seq(MessageType) /\ events \in Seq(EventType)
           /\ completions \in Seq(EventType) /\ batch \in Seq(EventType)
           /\ outBuffer \in Seq(1..MaxRequest) /\ outPipe \in Seq(1..MaxRequest)
           /\ ready \in BOOLEAN /\ busy \in BOOLEAN /\ previewPending \in BOOLEAN
           /\ request \in 0..MaxRequest /\ MaxRequest \in Nat
           /\ received \in [1..MaxRequest -> Nat] /\ inputs \in Nat /\ waitingInput \in BOOLEAN
           /\ child \in ChildType
           /\ pollPc \in {"idle", "events", "output", "report"}
           /\ closePc \in {"open", "joining", "draining", "closed"}
           /\ stopSignal \in BOOLEAN
           /\ dropLock \in BOOLEAN /\ dropped \in Nat /\ reportedDrops \in Nat
<1>1. TypeOK /\ MaxRequest \in Nat
    BY SessionWorkerAssumption DEF Types
<1> QED
    BY <1>1 DEF TypeOK, MessageType, EventType, ChildType

\* The counts are numbers.
LEMMA Counted ==
    ASSUME Types
    PROVE  /\ JobsIn(commands) \in Nat /\ CommitsIn(commands) \in Nat
           /\ PreviewsIn(commands) \in Nat /\ ShutdownsIn(commands) \in Nat
           /\ Len(commands) = JobsIn(commands) + CommitsIn(commands) + PreviewsIn(commands)
                                + ShutdownsIn(commands)
           /\ EndsIn(events) \in Nat /\ PreparedIn(events) \in Nat
           /\ PreviewedIn(events) \in Nat /\ AsksIn(events) \in Nat
           /\ EndsIn(batch) \in Nat /\ PreparedIn(batch) \in Nat /\ AsksIn(batch) \in Nat
           /\ Len(completions) \in Nat /\ inputs \in Nat
BY Typed, MessageCounts, EventCounts, LenProperties

-----------------------------------------------------------------------------
(* The counts.  Steps of the process that move nothing in the queues.      *)

\* The sums of the counts are numbers, and what stands for a flag is 0 or 1.
LEMMA Summed ==
    ASSUME Types
    PROVE  /\ Waits \in Nat /\ Commits \in Nat /\ Asked \in Nat
           /\ InProcess \in {0, 1} /\ (InProcess = 1 <=> child.pc \in Working)
           /\ Held \in {0, 1} /\ (Held = 1 <=> busy)
           /\ PreviewHeld \in {0, 1} /\ (PreviewHeld = 1 <=> previewPending)
           /\ PreviewInProcess \in {0, 1} /\ (PreviewInProcess = 1 <=> child.pc = "previewing")
           /\ LineHeld \in {0, 1} /\ (LineHeld = 1 <=> waitingInput)
<1>1. /\ InProcess \in {0, 1} /\ (InProcess = 1 <=> child.pc \in Working)
      /\ Held \in {0, 1} /\ (Held = 1 <=> busy)
      /\ PreviewHeld \in {0, 1} /\ (PreviewHeld = 1 <=> previewPending)
      /\ PreviewInProcess \in {0, 1} /\ (PreviewInProcess = 1 <=> child.pc = "previewing")
      /\ LineHeld \in {0, 1} /\ (LineHeld = 1 <=> waitingInput)
    BY DEF InProcess, Held, PreviewHeld, PreviewInProcess, LineHeld
<1>2. /\ JobsIn(commands) \in Nat /\ CommitsIn(commands) \in Nat /\ EndsIn(events) \in Nat
      /\ Len(completions) \in Nat /\ PreparedIn(events) \in Nat /\ PreparedIn(batch) \in Nat
      /\ AsksIn(events) \in Nat /\ AsksIn(batch) \in Nat /\ inputs \in Nat
    BY Counted
<1>3. Waits \in Nat
    BY <1>2 DEF Waits
<1>4. Commits \in Nat
    BY <1>2 DEF Commits
<1>5. Asked \in Nat
  <2>1. LineHeld \in Nat
      BY <1>1
  <2> QED
      BY <1>2, <2>1 DEF Asked
<1> QED
    BY <1>1, <1>3, <1>4, <1>5

\* The owner's variables and the queues it reads are as they were.
OwnerKeeps == UNCHANGED <<commands, batch, completions, busy, ready, previewPending,
                          pollPc, closePc, waitingInput, inputs>>

\* What that is, variable by variable.
LEMMA OwnerKept ==
    ASSUME OwnerKeeps
    PROVE  /\ commands' = commands /\ batch' = batch
           /\ completions' = completions /\ busy' = busy /\ ready' = ready
           /\ previewPending' = previewPending /\ pollPc' = pollPc /\ closePc' = closePc
           /\ waitingInput' = waitingInput /\ inputs' = inputs
           /\ Held' = Held /\ PreviewHeld' = PreviewHeld /\ LineHeld' = LineHeld
BY DEF OwnerKeeps, Held, PreviewHeld, LineHeld

\* The process works on, writes, or does nothing.
LEMMA WorksOn ==
    ASSUME Types, Counts,
           OwnerKeeps, events' = events,
           child'.request = child.request,
           \/ child'.pc = child.pc
           \/ {child.pc, child'.pc} \subseteq Working \ {"awaitCommit", "awaitInput"}
    PROVE  Counts'
<1>1. /\ commands' = commands /\ events' = events /\ batch' = batch
      /\ completions' = completions /\ busy' = busy /\ ready' = ready
      /\ previewPending' = previewPending /\ pollPc' = pollPc /\ closePc' = closePc
      /\ waitingInput' = waitingInput /\ inputs' = inputs
      /\ child'.request = child.request
      /\ Held' = Held /\ PreviewHeld' = PreviewHeld /\ LineHeld' = LineHeld
    BY OwnerKept
<1>2. /\ child'.pc \in Working <=> child.pc \in Working
      /\ child'.pc = "awaitCommit" <=> child.pc = "awaitCommit"
      /\ child'.pc = "awaitInput" <=> child.pc = "awaitInput"
      /\ child'.pc = "previewing" <=> child.pc = "previewing"
      /\ child'.pc = "exited" <=> child.pc = "exited"
      /\ Serving' <=> Serving
      /\ Alive' <=> Alive
    BY DEF Working, Serving, Alive
<1>3. OneAtATime'
    BY <1>1, <1>2 DEF Counts, OneAtATime, Waits, InProcess, Commits, GivenUp
<1>4. Previews'
    BY <1>1, <1>2 DEF Counts, Previews, PreviewInProcess
<1>5. Lines'
    BY <1>1, <1>2 DEF Counts, Lines, Asked
<1>6. DeathIsLast'
    BY <1>1, <1>2 DEF Counts, DeathIsLast, Has
<1>7. OwnCommit'
    BY <1>1 DEF Counts, OwnCommit
<1> QED
    BY <1>3, <1>4, <1>5, <1>6, <1>7 DEF Counts

\* The process leaves the loop, or is gone.
LEMMA WorksNoMore ==
    ASSUME Types, Counts, Alive,
           OwnerKeeps, events' = events,
           child'.request = child.request,
           \/ child'.pc = "killed"
           \/ child'.pc = "closing" /\ child.pc \notin {"awaitCommit", "awaitInput"}
    PROVE  Counts'
<1>1. /\ commands' = commands /\ events' = events /\ batch' = batch
      /\ completions' = completions /\ busy' = busy /\ ready' = ready
      /\ previewPending' = previewPending /\ pollPc' = pollPc /\ closePc' = closePc
      /\ waitingInput' = waitingInput /\ inputs' = inputs
      /\ child'.request = child.request
      /\ Held' = Held /\ PreviewHeld' = PreviewHeld /\ LineHeld' = LineHeld
    BY OwnerKept
<1>2. /\ child'.pc \notin Working /\ child'.pc # "previewing" /\ ~Serving'
      /\ Alive' => child.pc \notin {"awaitCommit", "awaitInput"}
      /\ child.pc # "exited"
    BY DEF Working, Serving, Alive
<1>3. Alive
    OBVIOUS
<1>4. OneAtATime'
  <2>1. Waits' = Waits /\ Commits' = Commits /\ InProcess' = 0 /\ Waits \in Nat /\ InProcess \in Nat
    <3>1. Waits' = Waits /\ Commits' = Commits
        BY <1>1 DEF Waits, Commits
    <3>2. InProcess' = 0
        BY <1>2 DEF InProcess
    <3> QED
        BY <3>1, <3>2, Summed
  <2>2. EndsIn(batch)' = EndsIn(batch) /\ ShutdownsIn(commands)' = ShutdownsIn(commands)
      BY <1>1
  <2>3. GivenUp' \/ Waits + Commits <= Held
      BY <1>1, <1>2, <1>3 DEF Counts, OneAtATime, GivenUp
  <2> QED
      BY <1>1, <1>2, <1>3, <2>1, <2>2, <2>3 DEF Counts, OneAtATime
<1>5. Previews'
  <2>1. /\ PreviewsIn(commands) \in Nat /\ PreviewedIn(events) \in Nat
        /\ PreviewInProcess \in {0, 1} /\ PreviewHeld \in {0, 1}
      BY Counted, Summed
  <2>2. PreviewInProcess' = 0
      BY <1>2 DEF PreviewInProcess
  <2> QED
      BY <1>1, <2>1, <2>2 DEF Counts, Previews
<1>6. Lines'
    BY <1>1, <1>2, <1>3 DEF Counts, Lines, Asked
<1>7. DeathIsLast'
  <2>1. ~Has(events, Deaths) /\ (Has(batch, Deaths) => ~Alive)
      BY <1>2 DEF Counts, DeathIsLast
  <2>2. ~Has(events', Deaths) /\ ~Has(batch', Deaths)
      BY <1>1, <1>3, <2>1
  <2>3. closePc \notin {"draining", "closed"} /\ (pollPc = "idle" => batch = <<>>)
      BY <1>3 DEF Counts, DeathIsLast
  <2> QED
      BY <1>1, <2>2, <2>3 DEF DeathIsLast
<1>8. OwnCommit'
    BY <1>1 DEF Counts, OwnCommit
<1> QED
    BY <1>4, <1>5, <1>6, <1>7, <1>8 DEF Counts

\* The event that the process emits has its request.
LEMMA Emitted ==
    ASSUME Types, NEW kind \in Kinds
    PROVE  /\ Event(kind, child.request, child.written) \in EventType
           /\ Event(kind, child.request, child.written).kind = kind
           /\ Event(kind, child.request, child.written).request = child.request
<1>1. child.request \in 0..MaxRequest /\ child.written \in Nat
    BY Typed DEF ChildType
<1> QED
    BY <1>1 DEF Event, EventType

\* The process tells its owner of something, and where that leaves it.
Telling(e) ==
    /\ e \in EventType /\ e.request = child.request /\ child'.request = child.request
    /\ events' = Append(events, e) /\ OwnerKeeps
    /\ \/ /\ e.kind \in {"ready", "blocked", "accepted", "reset"}
          /\ \/ {child.pc, child'.pc} \subseteq Working \ {"awaitCommit", "awaitInput"}
             \/ child.pc = "boot" /\ child'.pc = "idle"
       \/ e.kind = "prepared" /\ child.pc = "preparing" /\ child'.pc = "awaitCommit"
       \/ e.kind = "completion" /\ child.pc = "previewing" /\ child'.pc = "idle"
       \/ e.kind = "input" /\ child.pc = "executing" /\ child'.pc = "awaitInput"
       \/ /\ e.kind \in Ending /\ child.pc \in {"executing", "reporting", "faulted"}
          /\ child'.pc = "idle"
       \/ e.kind \in Deaths /\ child.pc = "closing" /\ child'.pc = "exited"

\* The counts after such a step.
LEMMA Tells ==
    ASSUME Types, Counts, NEW e, Telling(e)
    PROVE  Counts'
<1>1. /\ commands' = commands /\ batch' = batch
      /\ completions' = completions /\ busy' = busy /\ ready' = ready
      /\ previewPending' = previewPending /\ pollPc' = pollPc /\ closePc' = closePc
      /\ waitingInput' = waitingInput /\ inputs' = inputs
      /\ child'.request = child.request
      /\ Held' = Held /\ PreviewHeld' = PreviewHeld /\ LineHeld' = LineHeld
  <2>1. OwnerKeeps /\ child'.request = child.request
      BY DEF Telling
  <2> QED
      BY <2>1, OwnerKept
<1>e. e \in EventType /\ events' = Append(events, e) /\ events \in Seq(EventType)
    BY Typed DEF Telling
<1>2. ToSet(events') = ToSet(events) \cup {e}
    BY <1>e, EventAppended
<1>3. PICK ended \in {0, 1}, prepared \in {0, 1}, previewed \in {0, 1}, asked \in {0, 1} :
         /\ EndsIn(events') = EndsIn(events) + ended /\ (ended = 1 <=> e.kind \in Ending)
         /\ PreparedIn(events') = PreparedIn(events) + prepared /\ (prepared = 1 <=> e.kind = "prepared")
         /\ PreviewedIn(events') = PreviewedIn(events) + previewed /\ (previewed = 1 <=> e.kind = "completion")
         /\ AsksIn(events') = AsksIn(events) + asked /\ (asked = 1 <=> e.kind = "input")
    BY <1>e, EventAppended
<1>4. /\ JobsIn(commands) \in Nat /\ CommitsIn(commands) \in Nat /\ EndsIn(events) \in Nat
      /\ Len(completions) \in Nat /\ PreparedIn(events) \in Nat /\ PreparedIn(batch) \in Nat
      /\ AsksIn(events) \in Nat /\ AsksIn(batch) \in Nat /\ inputs \in Nat
      /\ PreviewsIn(commands) \in Nat /\ PreviewedIn(events) \in Nat
      /\ EndsIn(batch) \in Nat /\ ShutdownsIn(commands) \in Nat
    BY Counted
<1>5. /\ Waits \in Nat /\ Commits \in Nat /\ Asked \in Nat
      /\ InProcess \in {0, 1} /\ (InProcess = 1 <=> child.pc \in Working)
      /\ Held \in {0, 1} /\ (Held = 1 <=> busy)
      /\ PreviewHeld \in {0, 1} /\ LineHeld \in {0, 1}
      /\ PreviewInProcess \in {0, 1} /\ (PreviewInProcess = 1 <=> child.pc = "previewing")
    BY Summed
<1>6. /\ Alive /\ (Alive' => e.kind \notin Deaths)
      /\ Serving' => Serving
      /\ ended = 1 \/ prepared = 1 => child.pc \in Working /\ Serving
      /\ child.pc # "awaitCommit" /\ child.pc # "awaitInput" /\ child.pc # "exited"
      /\ prepared = 1 => child'.pc = "awaitCommit" /\ ended = 0
      /\ asked = 1 => child'.pc = "awaitInput"
      /\ previewed = 1 <=> child.pc = "previewing"
      /\ e.kind \in Deaths => child'.pc = "exited"
      /\ child'.pc # "previewing"
    BY <1>3 DEF Telling, Serving, Alive, Working, Deaths, Ending, Ends
<1>7. InProcess' = InProcess - ended
    BY <1>3 DEF Telling, InProcess, Ending, Ends, Working, Deaths
<1>8. /\ Waits' = Waits + ended
      /\ Commits' = Commits + prepared
      /\ Asked' = Asked + asked
  <2>1. Waits' = Waits + ended
    <3>1. /\ commands' = commands /\ completions' = completions
          /\ EndsIn(events') = EndsIn(events) + ended
        BY <1>1, <1>3
    <3>2. /\ JobsIn(commands) \in Nat /\ EndsIn(events) \in Nat /\ Len(completions) \in Nat
        BY <1>4
    <3>3. ended \in {0, 1}
        BY <1>3
    <3> QED
        BY <3>1, <3>2, <3>3 DEF Waits
  <2>2. Commits' = Commits + prepared
    <3>1. /\ commands' = commands /\ batch' = batch
          /\ PreparedIn(events') = PreparedIn(events) + prepared
        BY <1>1, <1>3
    <3>2. /\ CommitsIn(commands) \in Nat /\ PreparedIn(events) \in Nat /\ PreparedIn(batch) \in Nat
        BY <1>4
    <3>3. prepared \in {0, 1}
        BY <1>3
    <3> QED
        BY <3>1, <3>2, <3>3 DEF Commits
  <2>3. Asked' = Asked + asked
    <3>1. /\ LineHeld' = LineHeld /\ batch' = batch /\ inputs' = inputs
          /\ AsksIn(events') = AsksIn(events) + asked
        BY <1>1, <1>3
    <3>2. /\ AsksIn(events) \in Nat /\ AsksIn(batch) \in Nat /\ LineHeld \in {0, 1} /\ inputs \in Nat
        BY <1>4, <1>5
    <3>3. asked \in {0, 1}
        BY <1>3
    <3> QED
        BY <3>1, <3>2, <3>3 DEF Asked
  <2> QED
      BY <2>1, <2>2, <2>3
<1>9. /\ Waits + InProcess <= 1
      /\ Serving => Waits + InProcess = Held
      /\ GivenUp \/ Waits + Commits <= Held
      /\ Alive /\ child.pc # "awaitCommit" => Commits = 0
      /\ Waits + Commits + EndsIn(batch) + ShutdownsIn(commands) <= 1
      /\ EndsIn(batch) > 0 => ~busy /\ pollPc # "idle"
      /\ ShutdownsIn(commands) > 0 => ~busy /\ closePc # "open"
    BY DEF Counts, OneAtATime
<1>10. Commits = 0 /\ ~GivenUp
    BY <1>6, <1>9 DEF GivenUp
<1>11. OneAtATime'
  <2>1. Waits' + InProcess' = Waits + InProcess
    <3> QED
        BY <1>3, <1>5, <1>7, <1>8
  <2>2. Waits' + Commits' <= Held
    <3>1. ended = 1 \/ prepared = 1 => Waits + InProcess = Held /\ InProcess = 1
        BY <1>5, <1>6, <1>9
    <3>2. /\ Waits \in Nat /\ Held \in {0, 1} /\ InProcess \in {0, 1} /\ Commits = 0
          /\ Waits + Commits <= Held
        BY <1>5, <1>9, <1>10
    <3>3. /\ ended \in {0, 1} /\ prepared \in {0, 1} /\ ~(ended = 1 /\ prepared = 1)
          /\ Waits' = Waits + ended /\ Commits' = Commits + prepared
        BY <1>3, <1>6, <1>8
    <3> QED
        BY <3>1, <3>2, <3>3
  <2>3. child'.pc # "awaitCommit" => Commits' = 0
      BY <1>3, <1>6, <1>8, <1>10
  <2>4. Waits' + Commits' + EndsIn(batch) + ShutdownsIn(commands) <= 1
    <3>1. Held = 1 => EndsIn(batch) = 0 /\ ShutdownsIn(commands) = 0
        BY <1>4, <1>5, <1>9
    <3>2. /\ Waits + EndsIn(batch) + ShutdownsIn(commands) <= 1
          /\ Waits' = Waits + ended /\ Commits' = Commits + prepared /\ Commits = 0
        BY <1>8, <1>9, <1>10, <1>5, <1>4
    <3>3. /\ Held \in {0, 1} /\ Waits \in Nat /\ EndsIn(batch) \in Nat
          /\ ShutdownsIn(commands) \in Nat /\ ended \in {0, 1} /\ prepared \in {0, 1}
        BY <1>3, <1>4, <1>5
    <3> QED
        BY <2>2, <3>1, <3>2, <3>3
  <2>5. /\ Waits' + InProcess' <= 1
        /\ Serving' => Waits' + InProcess' = Held
      BY <1>6, <1>9, <2>1
  <2> QED
      BY <1>1, <1>9, <2>2, <2>3, <2>4, <2>5 DEF OneAtATime
<1>12. Previews'
  <2>1. /\ PreviewsIn(commands) + PreviewInProcess + PreviewedIn(events) <= PreviewHeld
        /\ busy /\ PreviewsIn(commands) > 0 => JobsIn(commands) = 1 /\ Head(commands).op = "complete"
      BY DEF Counts, Previews
  <2>2. PreviewInProcess' = 0
      BY <1>6 DEF PreviewInProcess
  <2>3. PreviewsIn(commands) + 0 + PreviewedIn(events') <= PreviewHeld
    <3>1. /\ PreviewedIn(events') = PreviewedIn(events) + previewed
          /\ previewed \in {0, 1} /\ (previewed = 1 => PreviewInProcess = 1)
        BY <1>3, <1>5, <1>6
    <3>2. /\ PreviewsIn(commands) \in Nat /\ PreviewedIn(events) \in Nat
          /\ PreviewInProcess \in {0, 1} /\ PreviewHeld \in {0, 1}
        BY <1>4, <1>5
    <3> QED
        BY <2>1, <3>1, <3>2
  <2> QED
      BY <1>1, <2>1, <2>2, <2>3 DEF Previews
<1>13. Lines'
  <2>1. Asked = 0
      BY <1>6 DEF Counts, Lines
  <2> QED
      BY <1>3, <1>6, <1>8, <2>1 DEF Lines
<1>14. DeathIsLast'
  <2>1. ~Has(events, Deaths) /\ ~Has(batch, Deaths)
      BY <1>6 DEF Counts, DeathIsLast
  <2>2. Has(events', Deaths) => e.kind \in Deaths
      BY <1>2, <2>1 DEF Has
  <2>3. closePc \notin {"draining", "closed"} /\ (pollPc = "idle" => batch = <<>>)
      BY <1>6 DEF Counts, DeathIsLast
  <2> QED
      BY <1>1, <1>6, <2>1, <2>2, <2>3 DEF DeathIsLast
<1>15. OwnCommit'
  <2>1. e.request = child.request
      BY DEF Telling
  <2> QED
      BY <1>1, <1>2, <2>1 DEF Counts, OwnCommit
<1> QED
    BY <1>11, <1>12, <1>13, <1>14, <1>15 DEF Counts

-----------------------------------------------------------------------------
(* Steps of the process that leave its owner alone.                        *)

\* The types after such a step.
Apart == UNCHANGED <<parentVars, clientVars, stopSignal>>

\* The types hold after such a step if they do of what it changes.
LEMMA TypesApart ==
    ASSUME Types, Apart,
           commands' \in Seq(MessageType), ToSet(commands') \subseteq ToSet(commands),
           inputs' \in Nat, events' \in Seq(EventType),
           \A e \in ToSet(events') : e.kind \in Ends => e.request \in 1..request,
           outBuffer' \in Seq(1..MaxRequest), outPipe' \in Seq(1..MaxRequest),
           dropped' \in Nat, dropLock' \in BOOLEAN, child' \in ChildType,
           child'.pc \in Working \cup {"previewing"} => child'.request \in 1..request,
           child'.pc = "dropping" => child'.resume \in {"executing", "reporting"},
           child'.pc \notin {"closing", "exited", "killed"} => child'.outcome \in Ends,
           child'.pc = "closing" => child'.outcome \in Deaths
    PROVE  Types'
<1>1. /\ ready' = ready /\ busy' = busy /\ previewPending' = previewPending
      /\ request' = request /\ received' = received /\ completions' = completions
      /\ reportedDrops' = reportedDrops /\ pollPc' = pollPc /\ batch' = batch
      /\ closePc' = closePc /\ waitingInput' = waitingInput /\ stopSignal' = stopSignal
    BY DEF Apart, parentVars, clientVars
<1>2. TypeOK'
    BY <1>1 DEF Types, TypeOK, EventType, MessageType, ChildType
<1> QED
    BY <1>1, <1>2 DEF Types

\* Where no output is made, a request has at most the output that it had.
NoMoreSent ==
    \A r \in 1..MaxRequest :
      /\ Sent(r) \in Nat
      /\ SentOf(outBuffer', outPipe', received', r) \in Nat
      /\ SentOf(outBuffer', outPipe', received', r) <= Sent(r)
      /\ OutputIn(outBuffer, r) = 0 /\ OutputIn(outPipe, r) = 0 =>
            OutputIn(outBuffer', r) = 0 /\ OutputIn(outPipe', r) = 0

\* The feeder only gives output up; nothing more is sent.
LEMMA SentFalls ==
    ASSUME Types, outBuffer' = outBuffer \/ outBuffer' = <<>>,
           outPipe' = outPipe, received' = received
    PROVE  NoMoreSent
<1> SUFFICES ASSUME NEW r \in 1..MaxRequest
             PROVE  /\ Sent(r) \in Nat
                    /\ SentOf(outBuffer', outPipe', received', r) \in Nat
                    /\ SentOf(outBuffer', outPipe', received', r) <= Sent(r)
                    /\ OutputIn(outBuffer, r) = 0 /\ OutputIn(outPipe, r) = 0 =>
                          OutputIn(outBuffer', r) = 0 /\ OutputIn(outPipe', r) = 0
    BY DEF NoMoreSent
<1>1. /\ OutputIn(outBuffer, r) \in Nat /\ OutputIn(outPipe, r) \in Nat
      /\ OutputIn(<<>>, r) = 0
    BY Typed, OutputCounts
<1>2. received[r] \in Nat
    BY Typed
<1> QED
    BY <1>1, <1>2 DEF Sent, SentOf

\* The output stays counted after such a step.
LEMMA OutputApart ==
    ASSUME Types, OutputIsCounted, Apart, Types', NoMoreSent,
           ToSet(commands') \subseteq ToSet(commands),
           child'.pc \in Working => Sent(child'.request) <= child'.written,
           \A e \in ToSet(events') : e.kind \in Ends => Sent(e.request) <= e.written
    PROVE  OutputIsCounted'
<1>1. /\ request' = request /\ received' = received /\ completions' = completions
      /\ batch' = batch
    BY DEF Apart, parentVars, clientVars
<1>2. ASSUME NEW r \in 1..MaxRequest
      PROVE  /\ Sent(r) \in Nat
             /\ SentOf(outBuffer', outPipe', received', r) \in Nat
             /\ SentOf(outBuffer', outPipe', received', r) <= Sent(r)
    BY DEF NoMoreSent
<1>3. /\ request \in 0..MaxRequest /\ MaxRequest \in Nat
      /\ \A m \in ToSet(commands) : m.op \in {"load", "command", "complete"} => m.request \in 1..request
      /\ child'.pc \in Working => child'.request \in 1..request /\ child'.written \in Nat
      /\ \A e \in ToSet(events') : e.kind \in Ends => e.request \in 1..request
      /\ \A e \in ToSet(completions) : e.request \in 1..request
      /\ batch \in Seq(EventType) /\ events' \in Seq(EventType) /\ completions \in Seq(EventType)
  <2>1. /\ child'.pc \in Working => child'.request \in 1..request
        /\ \A e \in ToSet(events') : e.kind \in Ends => e.request \in 1..request
      BY <1>1 DEF Types
  <2>2. child' \in ChildType /\ events' \in Seq(EventType)
      BY DEF Types, TypeOK, ChildType, EventType
  <2>3. child'.written \in Nat
      BY <2>2 DEF ChildType
  <2> QED
      BY <2>1, <2>2, <2>3, Typed DEF Types
<1>4. /\ ToSet(events') \subseteq EventType /\ ToSet(completions) \subseteq EventType
      /\ ToSet(batch) \subseteq EventType
    BY <1>3, RangeIn
<1>5. \A r \in 1..MaxRequest : r > request' => Sent(r)' = 0
    BY <1>1, <1>2 DEF OutputIsCounted, Sent
<1>6. \A m \in ToSet(commands') : m.op \in Jobs => SentOf(outBuffer', outPipe', received', m.request) = 0
  <2> SUFFICES ASSUME NEW m \in ToSet(commands), m.op \in Jobs
               PROVE  SentOf(outBuffer', outPipe', received', m.request) = 0
      OBVIOUS
  <2>1. m.request \in 1..MaxRequest /\ Sent(m.request) = 0
      BY <1>3 DEF OutputIsCounted, Jobs
  <2> QED
      BY <1>2, <2>1
<1>7. child'.pc \in Working => SentOf(outBuffer', outPipe', received', child'.request) <= child'.written
  <2> SUFFICES ASSUME child'.pc \in Working
               PROVE  SentOf(outBuffer', outPipe', received', child'.request) <= child'.written
      OBVIOUS
  <2>1. child'.request \in 1..MaxRequest /\ Sent(child'.request) <= child'.written /\ child'.written \in Nat
      BY <1>3
  <2> QED
      BY <1>2, <2>1
<1>8. \A e \in ToSet(events') : e.kind \in Ends => SentOf(outBuffer', outPipe', received', e.request) <= e.written
  <2> SUFFICES ASSUME NEW e \in ToSet(events'), e.kind \in Ends
               PROVE  SentOf(outBuffer', outPipe', received', e.request) <= e.written
      OBVIOUS
  <2>1. e.request \in 1..MaxRequest /\ Sent(e.request) <= e.written
      BY <1>3
  <2>2. e.written \in Nat
      BY <1>4 DEF EventType
  <2> QED
      BY <1>2, <2>1, <2>2
<1>9. \A e \in ToSet(completions') : SentOf(outBuffer', outPipe', received', e.request) <= e.written
  <2> SUFFICES ASSUME NEW e \in ToSet(completions)
               PROVE  SentOf(outBuffer', outPipe', received', e.request) <= e.written
      BY <1>1
  <2>1. e.request \in 1..MaxRequest /\ Sent(e.request) <= e.written
      BY <1>3 DEF OutputIsCounted
  <2>2. e.written \in Nat
      BY <1>4 DEF EventType
  <2> QED
      BY <1>2, <2>1, <2>2
<1>10. \A e \in ToSet(batch') : e.kind \in Ends =>
          OutputIn(outBuffer', e.request) = 0 /\ OutputIn(outPipe', e.request) = 0
  <2> SUFFICES ASSUME NEW e \in ToSet(batch), e.kind \in Ends
               PROVE  OutputIn(outBuffer', e.request) = 0 /\ OutputIn(outPipe', e.request) = 0
      BY <1>1
  <2>1. OutputIn(outBuffer, e.request) = 0 /\ OutputIn(outPipe, e.request) = 0
      BY DEF OutputIsCounted
  <2>2. e.request \in 1..MaxRequest
      BY DEF Types
  <2> QED
      BY <2>1, <2>2 DEF NoMoreSent
<1> QED
    BY <1>5, <1>6, <1>7, <1>8, <1>9, <1>10 DEF OutputIsCounted, Sent

\* The process tells its owner of something, with everything it changes.
LEMMA TellsOfIt ==
    ASSUME WorkerInv, NEW e, Telling(e), Apart,
           outBuffer' = outBuffer \/ outBuffer' = <<>>,
           UNCHANGED <<outPipe, dropped, dropLock>>,
           child' \in ChildType, child'.written = child.written, child'.pc # "dropping",
           e.kind \in Ends => e.written = child.written,
           child'.pc # "exited" => child'.outcome \in Ends
    PROVE  WorkerInv'
<1>1. /\ e \in EventType /\ e.request = child.request /\ child'.request = child.request
      /\ events' = Append(events, e) /\ commands' = commands /\ inputs' = inputs
      /\ child'.pc \in Working => child.pc \in Working
      /\ child'.pc \notin {"previewing", "closing", "killed"}
      /\ e.kind \in Ends => child.pc \in Working
    BY DEF Telling, OwnerKeeps, Working, Ends, Deaths
<1>2. events' \in Seq(EventType) /\ ToSet(events') = ToSet(events) \cup {e}
  <2>1. events \in Seq(EventType)
      BY Typed DEF WorkerInv
  <2> QED
      BY <1>1, <2>1, EventAppended
<1>3. Types /\ Counts /\ OutputIsCounted
    BY DEF WorkerInv
<1>4. Counts'
    BY <1>3, Tells
<1>5. /\ child.pc \in Working => child.request \in 1..request
      /\ \A x \in ToSet(events) : x.kind \in Ends => x.request \in 1..request
    BY <1>3 DEF Types
<1>6. Types'
  <2>1. /\ commands \in Seq(MessageType) /\ inputs \in Nat /\ outPipe \in Seq(1..MaxRequest)
        /\ dropped \in Nat /\ dropLock \in BOOLEAN
        /\ outBuffer \in Seq(1..MaxRequest) /\ <<>> \in Seq(1..MaxRequest)
      BY <1>3, Typed, EmptySeq
  <2>2. \A x \in ToSet(events') : x.kind \in Ends => x.request \in 1..request
      BY <1>1, <1>2, <1>5
  <2>3. child'.pc \in Working \cup {"previewing"} => child'.request \in 1..request
      BY <1>1, <1>5
  <2> QED
      BY <1>1, <1>2, <1>3, <2>1, <2>2, <2>3, TypesApart
<1>7. OutputIsCounted'
  <2>1. child'.pc \in Working => Sent(child'.request) <= child'.written
      BY <1>1, <1>3 DEF OutputIsCounted
  <2>2. \A x \in ToSet(events') : x.kind \in Ends => Sent(x.request) <= x.written
      BY <1>1, <1>2, <1>3 DEF OutputIsCounted
  <2>3. NoMoreSent
      BY <1>3, SentFalls DEF Apart, parentVars
  <2> QED
      BY <1>1, <1>3, <1>6, <2>1, <2>2, <2>3, OutputApart
<1> QED
    BY <1>4, <1>6, <1>7 DEF WorkerInv

\* It writes, works on, or is gone, and tells nothing.
LEMMA TellsNothing ==
    ASSUME WorkerInv, Counts', Apart,
           UNCHANGED <<commands, events>>, inputs' \in Nat, NoMoreSent,
           outBuffer' \in Seq(1..MaxRequest), outPipe' \in Seq(1..MaxRequest),
           dropped' \in Nat, dropLock' \in BOOLEAN,
           child' \in ChildType, child'.request = child.request,
           child'.written = child.written,
           child'.pc \in Working => child.pc \in Working,
           child'.pc # "previewing",
           child'.pc = "dropping" => child'.resume \in {"executing", "reporting"},
           child'.pc \notin {"closing", "exited", "killed"} => child'.outcome \in Ends,
           child'.pc = "closing" => child'.outcome \in Deaths
    PROVE  WorkerInv'
<1>1. commands' = commands /\ events' = events
    OBVIOUS
<1>2. Types /\ OutputIsCounted
    BY DEF WorkerInv
<1>3. Types'
  <2>1. commands \in Seq(MessageType) /\ events \in Seq(EventType)
      BY <1>2, Typed
  <2>2. /\ \A x \in ToSet(events') : x.kind \in Ends => x.request \in 1..request
        /\ child'.pc \in Working \cup {"previewing"} => child'.request \in 1..request
      BY <1>1, <1>2 DEF Types
  <2> QED
      BY <1>1, <1>2, <2>1, <2>2, TypesApart
<1>4. OutputIsCounted'
  <2>1. child'.pc \in Working => Sent(child'.request) <= child'.written
      BY <1>2 DEF OutputIsCounted
  <2>2. \A x \in ToSet(events') : x.kind \in Ends => Sent(x.request) <= x.written
      BY <1>1, <1>2 DEF OutputIsCounted
  <2> QED
      BY <1>1, <1>2, <1>3, <2>1, <2>2, OutputApart
<1> QED
    BY <1>3, <1>4 DEF WorkerInv

\* What each step of the process leaves alone.
LEMMA LeftAlone ==
    ASSUME UNCHANGED <<parentVars, clientVars, commands, inputs, stopSignal>>
    PROVE  /\ Apart /\ OwnerKeeps
           /\ commands' = commands /\ inputs' = inputs
BY DEF Apart, OwnerKeeps, parentVars, clientVars

\* The session has started.
LEMMA Boots == ASSUME WorkerInv, Boot PROVE WorkerInv'
<1> DEFINE e == Event("ready", child.request, child.written)
<1>1. /\ child.pc = "boot" /\ child' = [child EXCEPT !.pc = "idle"]
      /\ events' = Append(events, e)
      /\ UNCHANGED <<parentVars, clientVars, commands, inputs, stopSignal>>
      /\ outBuffer' = outBuffer /\ UNCHANGED <<outPipe, dropped, dropLock>>
    BY DEF Boot, Emit, ChildGoes, outVars
<1>2. Types /\ child \in ChildType
    BY Typed DEF WorkerInv
<1>3. /\ child' \in ChildType /\ child'.pc = "idle" /\ child'.request = child.request
      /\ child'.written = child.written /\ child'.outcome = child.outcome
    BY <1>1, <1>2 DEF ChildType, ChildPcs
<1>4. e \in EventType /\ e.kind = "ready" /\ e.request = child.request
    BY <1>2, Emitted DEF Kinds
<1> HIDE DEF e
<1>5. Apart /\ OwnerKeeps
    BY <1>1, LeftAlone
<1>6. Telling(e)
    BY <1>1, <1>3, <1>4, <1>5 DEF Telling
<1>7. child.outcome \in Ends
    BY <1>1, <1>2 DEF Types
<1> QED
    BY <1>1, <1>3, <1>4, <1>5, <1>6, <1>7, TellsOfIt DEF Ends

\* The candidates of a completion are answered.
LEMMA AnswersPreview == ASSUME WorkerInv, Preview PROVE WorkerInv'
<1> DEFINE e == Event("completion", child.request, child.written)
<1>1. /\ child.pc = "previewing" /\ child' = [child EXCEPT !.pc = "idle"]
      /\ events' = Append(events, e)
      /\ UNCHANGED <<parentVars, clientVars, commands, inputs, stopSignal>>
      /\ outBuffer' = outBuffer /\ UNCHANGED <<outPipe, dropped, dropLock>>
    BY DEF Preview, Emit, ChildGoes, outVars
<1>2. Types /\ child \in ChildType
    BY Typed DEF WorkerInv
<1>3. /\ child' \in ChildType /\ child'.pc = "idle" /\ child'.request = child.request
      /\ child'.written = child.written /\ child'.outcome = child.outcome
    BY <1>1, <1>2 DEF ChildType, ChildPcs
<1>4. e \in EventType /\ e.kind = "completion" /\ e.request = child.request
    BY <1>2, Emitted DEF Kinds
<1> HIDE DEF e
<1>5. Apart /\ OwnerKeeps
    BY <1>1, LeftAlone
<1>6. Telling(e)
    BY <1>1, <1>3, <1>4, <1>5 DEF Telling
<1>7. child.outcome \in Ends
    BY <1>1, <1>2 DEF Types
<1> QED
    BY <1>1, <1>3, <1>4, <1>5, <1>6, <1>7, TellsOfIt DEF Ends

\* The submission is prepared, accepted, or refused.
LEMMA Prepares == ASSUME WorkerInv, Prepare PROVE WorkerInv'
<1> DEFINE e(kind) == Event(kind, child.request, child.written)
<1>1. /\ child.pc = "preparing"
      /\ UNCHANGED <<parentVars, clientVars, commands, inputs, stopSignal>>
      /\ outBuffer' = outBuffer /\ UNCHANGED <<outPipe, dropped, dropLock>>
      /\ \/ events' = Append(events, e("blocked")) /\ child' = [child EXCEPT !.pc = "reporting", !.outcome = "failed"]
         \/ events' = Append(events, e("prepared")) /\ child' = [child EXCEPT !.pc = "awaitCommit"]
         \/ events' = Append(events, e("accepted")) /\ child' = [child EXCEPT !.pc = "executing"]
         \/ events' = Append(events, e("accepted")) /\ child' = [child EXCEPT !.pc = "reporting"]
         \/ events' = events /\ child' = [child EXCEPT !.pc = "reporting", !.outcome = "failed"]
    BY DEF Prepare, Emit, ChildGoes, outVars
<1>2. Types /\ Counts /\ child \in ChildType /\ child.outcome \in Ends
  <2>1. Types /\ Counts /\ child \in ChildType
      BY Typed DEF WorkerInv
  <2> QED
      BY <1>1, <2>1 DEF Types
<1>3. ASSUME NEW kind \in Kinds
      PROVE  e(kind) \in EventType /\ e(kind).kind = kind /\ e(kind).request = child.request
    BY <1>2, Emitted
<1> HIDE DEF e
<1>4. \/ events' = Append(events, e("blocked")) /\ child'.pc = "reporting"
      \/ events' = Append(events, e("prepared")) /\ child'.pc = "awaitCommit"
      \/ events' = Append(events, e("accepted")) /\ child'.pc \in {"executing", "reporting"}
      \/ events' = events /\ child'.pc = "reporting"
    BY <1>1, <1>2 DEF ChildType
<1>5. /\ child' \in ChildType /\ child'.request = child.request
      /\ child'.written = child.written /\ child'.outcome \in Ends
    BY <1>1, <1>2 DEF ChildType, ChildPcs, Working, Ends
<1>6. Apart /\ OwnerKeeps /\ commands' = commands /\ inputs' = inputs /\ inputs \in Nat
      /\ dropped \in Nat /\ dropLock \in BOOLEAN
    BY <1>1, <1>2, LeftAlone, Typed
<1>7. ASSUME NEW kind \in {"blocked", "prepared", "accepted"}, events' = Append(events, e(kind)),
             IF kind = "prepared" THEN child'.pc = "awaitCommit"
                                  ELSE child'.pc \in {"executing", "reporting"}
      PROVE  WorkerInv'
  <2>1. e(kind) \in EventType /\ e(kind).kind = kind /\ e(kind).request = child.request
      BY <1>3 DEF Kinds
  <2>2. Telling(e(kind))
      BY <1>1, <1>5, <1>6, <1>7, <2>1 DEF Telling, Working
  <2>3. e(kind).kind \notin Ends /\ child'.pc \notin {"dropping", "exited"}
      BY <1>7, <2>1 DEF Ends
  <2> QED
      BY <1>1, <1>5, <1>6, <2>2, <2>3, TellsOfIt
<1>8. ASSUME events' = events, child'.pc = "reporting" PROVE WorkerInv'
  <2>1. Counts'
      BY <1>1, <1>2, <1>5, <1>6, <1>8, WorksOn DEF Working
  <2>2. NoMoreSent
      BY <1>1, <1>2, SentFalls DEF parentVars
  <2>3. outBuffer' \in Seq(1..MaxRequest) /\ outPipe' \in Seq(1..MaxRequest)
      BY <1>1, <1>2, Typed
  <2> QED
      BY <1>1, <1>2, <1>5, <1>6, <1>8, <2>1, <2>2, <2>3, TellsNothing DEF Working
<1> QED
    BY <1>4, <1>7, <1>8

\* The program asks for a line.
LEMMA Asks == ASSUME WorkerInv, AskInput PROVE WorkerInv'
<1> DEFINE e == Event("input", child.request, child.written)
<1>1. /\ child.pc = "executing"
      /\ child' = [child EXCEPT !.pc = "awaitInput", !.chunks = @ + 1]
      /\ events' = Append(events, e)
      /\ UNCHANGED <<parentVars, clientVars, commands, inputs, stopSignal>>
      /\ outBuffer' = outBuffer /\ UNCHANGED <<outPipe, dropped, dropLock>>
    BY DEF AskInput, Emit, outVars
<1>2. Types /\ child \in ChildType
    BY Typed DEF WorkerInv
<1>3. /\ child' \in ChildType /\ child'.pc = "awaitInput" /\ child'.request = child.request
      /\ child'.written = child.written /\ child'.outcome = child.outcome
  <2>1. child.chunks \in Nat /\ child.chunks + 1 \in Nat
      BY <1>2 DEF ChildType
  <2> QED
      BY <1>1, <1>2, <2>1 DEF ChildType, ChildPcs, Working
<1>4. e \in EventType /\ e.kind = "input" /\ e.request = child.request
    BY <1>2, Emitted DEF Kinds
<1> HIDE DEF e
<1>5. Apart /\ OwnerKeeps
    BY <1>1, LeftAlone
<1>6. Telling(e)
    BY <1>1, <1>3, <1>4, <1>5 DEF Telling
<1>7. child.outcome \in Ends
    BY <1>1, <1>2 DEF Types
<1> QED
    BY <1>1, <1>3, <1>4, <1>5, <1>6, <1>7, TellsOfIt DEF Ends

\* The submission has run, or has failed for good.
LEMMA Executes == ASSUME WorkerInv, ExecuteDone PROVE WorkerInv'
<1> DEFINE e(kind) == Event(kind, child.request, child.written)
<1>1. /\ child.pc = "executing"
      /\ UNCHANGED <<parentVars, clientVars, commands, inputs, stopSignal>>
      /\ outBuffer' = outBuffer /\ UNCHANGED <<outPipe, dropped, dropLock>>
      /\ \/ events' = Append(events, e("finished")) /\ child' = [child EXCEPT !.pc = "idle"]
         \/ events' = Append(events, e("cancelled")) /\ child' = [child EXCEPT !.pc = "idle"]
         \/ events' = Append(events, e("reset")) /\ child' = [child EXCEPT !.pc = "faulted", !.outcome = "failed"]
    BY DEF ExecuteDone, Emit, ChildGoes, outVars
<1>2. Types /\ child \in ChildType /\ child.outcome \in Ends
  <2>1. Types /\ child \in ChildType
      BY Typed DEF WorkerInv
  <2> QED
      BY <1>1, <2>1 DEF Types
<1>3. ASSUME NEW kind \in Kinds
      PROVE  /\ e(kind) \in EventType /\ e(kind).kind = kind /\ e(kind).request = child.request
             /\ e(kind).written = child.written
    BY <1>2, Emitted DEF Event
<1> HIDE DEF e
<1>4. PICK kind \in {"finished", "cancelled", "reset"} :
         /\ events' = Append(events, e(kind))
         /\ kind \in {"finished", "cancelled"} => child'.pc = "idle"
         /\ kind = "reset" => child'.pc = "faulted"
  <2>1. CASE events' = Append(events, e("finished")) /\ child' = [child EXCEPT !.pc = "idle"]
      BY <1>2, <2>1 DEF ChildType
  <2>2. CASE events' = Append(events, e("cancelled")) /\ child' = [child EXCEPT !.pc = "idle"]
      BY <1>2, <2>2 DEF ChildType
  <2>3. CASE /\ events' = Append(events, e("reset"))
             /\ child' = [child EXCEPT !.pc = "faulted", !.outcome = "failed"]
      BY <1>2, <2>3 DEF ChildType
  <2> QED
      BY <1>1, <2>1, <2>2, <2>3
<1>5. /\ child' \in ChildType /\ child'.request = child.request
      /\ child'.written = child.written /\ child'.outcome \in Ends
    BY <1>1, <1>2 DEF ChildType, ChildPcs, Working, Ends
<1>6. Apart /\ OwnerKeeps
    BY <1>1, LeftAlone
<1>7. /\ e(kind) \in EventType /\ e(kind).kind = kind /\ e(kind).request = child.request
      /\ e(kind).written = child.written
    BY <1>3 DEF Kinds
<1>8. Telling(e(kind)) /\ child'.pc \notin {"dropping", "exited"}
    BY <1>1, <1>4, <1>5, <1>6, <1>7 DEF Telling, Working, Ends, Ending
<1> QED
    BY <1>1, <1>5, <1>6, <1>7, <1>8, TellsOfIt

\* It has failed, or been refused.
LEMMA Reports == ASSUME WorkerInv, Report PROVE WorkerInv'
<1> DEFINE e == Event(child.outcome, child.request, child.written)
<1>1. /\ child.pc \in {"reporting", "faulted"} /\ child' = [child EXCEPT !.pc = "idle"]
      /\ events' = Append(events, e)
      /\ UNCHANGED <<parentVars, clientVars, commands, inputs, stopSignal>>
      /\ outBuffer' = outBuffer /\ UNCHANGED <<outPipe, dropped, dropLock>>
    BY DEF Report, Emit, ChildGoes, outVars
<1>2. Types /\ child \in ChildType
    BY Typed DEF WorkerInv
<1>3. /\ child' \in ChildType /\ child'.pc = "idle" /\ child'.request = child.request
      /\ child'.written = child.written /\ child'.outcome = child.outcome
    BY <1>1, <1>2 DEF ChildType, ChildPcs
<1>4. child.outcome \in Ends
    BY <1>1, <1>2 DEF Types
<1>5. child.outcome \in Kinds
    BY <1>4 DEF Ends, Kinds
<1>6. /\ e \in EventType /\ e.kind \in Ends /\ e.request = child.request
      /\ e.written = child.written
    BY <1>2, <1>4, <1>5, Emitted DEF Event
<1> HIDE DEF e
<1>7. Apart /\ OwnerKeeps
    BY <1>1, LeftAlone
<1>8. Telling(e) /\ child'.pc \notin {"dropping", "exited"}
    BY <1>1, <1>3, <1>6, <1>7 DEF Telling, Ends, Ending
<1> QED
    BY <1>1, <1>3, <1>4, <1>6, <1>7, <1>8, TellsOfIt

\* It leaves, and says why.
LEMMA Leaves == ASSUME WorkerInv, Leave PROVE WorkerInv'
<1> DEFINE e == Event(child.outcome, child.request, child.written)
<1>1. /\ child.pc = "closing" /\ child' = [child EXCEPT !.pc = "exited"]
      /\ events' = Append(events, e)
      /\ UNCHANGED <<parentVars, clientVars, commands, inputs, stopSignal>>
      /\ outBuffer' = <<>> /\ UNCHANGED <<outPipe, dropped, dropLock>>
    BY DEF Leave, Emit, ChildGoes, outVars
<1>2. Types /\ child \in ChildType
    BY Typed DEF WorkerInv
<1>3. /\ child' \in ChildType /\ child'.pc = "exited" /\ child'.request = child.request
      /\ child'.written = child.written
    BY <1>1, <1>2 DEF ChildType, ChildPcs
<1>4. child.outcome \in Kinds /\ child.outcome \in Deaths
    BY <1>1, <1>2 DEF Types, Deaths, Kinds
<1>5. /\ e \in EventType /\ e.kind \in Deaths /\ e.request = child.request
      /\ e.written = child.written
    BY <1>2, <1>4, Emitted DEF Event
<1> HIDE DEF e
<1>6. Apart /\ OwnerKeeps
    BY <1>1, LeftAlone
<1>7. Telling(e) /\ child'.pc # "dropping" /\ e.kind \notin Ends
    BY <1>1, <1>3, <1>5, <1>6 DEF Telling, Deaths, Ends
<1> QED
    BY <1>1, <1>3, <1>5, <1>6, <1>7, TellsOfIt

-----------------------------------------------------------------------------
(* Steps of the process that tell nothing.                                 *)

\* The count of dropped output is locked, and then moved on.
LEMMA Drops == ASSUME WorkerInv, DropChunk PROVE WorkerInv'
<1>1. /\ child.pc \in {"executing", "reporting"}
      /\ child' = [child EXCEPT !.pc = "dropping", !.resume = child.pc]
      /\ UNCHANGED <<parentVars, clientVars, commands, inputs, stopSignal>>
      /\ events' = events /\ outBuffer' = outBuffer /\ outPipe' = outPipe
      /\ dropLock' = TRUE /\ dropped' = dropped
    BY DEF DropChunk, CanWrite
<1>2. Types /\ Counts /\ child \in ChildType
    BY Typed DEF WorkerInv
<1>3. /\ child' \in ChildType /\ child'.pc = "dropping" /\ child'.request = child.request
      /\ child'.written = child.written /\ child'.outcome = child.outcome
      /\ child'.resume = child.pc
    BY <1>1, <1>2 DEF ChildType, ChildPcs, Working
<1>4. Apart /\ OwnerKeeps /\ commands' = commands /\ inputs' = inputs
    BY <1>1, LeftAlone
<1>5. /\ inputs \in Nat /\ dropped \in Nat /\ outBuffer' \in Seq(1..MaxRequest)
      /\ outPipe' \in Seq(1..MaxRequest) /\ child.outcome \in Ends
    BY <1>1, <1>2, Typed DEF Types
<1>6. NoMoreSent
    BY <1>1, <1>2, SentFalls DEF parentVars
<1>7. Counts'
    BY <1>1, <1>2, <1>3, <1>4, WorksOn DEF Working
<1> QED
    BY <1>1, <1>3, <1>4, <1>5, <1>6, <1>7, TellsNothing DEF Working

\* A dropped chunk is counted.
LEMMA CountsDrop == ASSUME WorkerInv, CountDrop PROVE WorkerInv'
<1>1. /\ child.pc = "dropping"
      /\ child' = [child EXCEPT !.pc = child.resume, !.chunks = @ + 1]
      /\ UNCHANGED <<parentVars, clientVars, commands, inputs, stopSignal>>
      /\ events' = events /\ outBuffer' = outBuffer /\ outPipe' = outPipe
      /\ dropLock' = FALSE /\ dropped' = dropped + 1
    BY DEF CountDrop
<1>2. Types /\ Counts /\ child \in ChildType /\ child.chunks + 1 \in Nat
      /\ child.resume \in {"executing", "reporting"}
  <2>1. Types /\ Counts /\ child \in ChildType
      BY Typed DEF WorkerInv
  <2>2. child.chunks \in Nat
      BY <2>1 DEF ChildType
  <2> QED
      BY <1>1, <2>1, <2>2 DEF Types
<1>3. /\ child' \in ChildType /\ child'.pc = child.resume /\ child'.request = child.request
      /\ child'.written = child.written /\ child'.outcome = child.outcome
    BY <1>1, <1>2 DEF ChildType, ChildPcs, Working
<1>4. Apart /\ OwnerKeeps /\ commands' = commands /\ inputs' = inputs
    BY <1>1, LeftAlone
<1>5. /\ inputs \in Nat /\ dropped' \in Nat /\ outBuffer' \in Seq(1..MaxRequest)
      /\ outPipe' \in Seq(1..MaxRequest) /\ child.outcome \in Ends
  <2>1. dropped \in Nat
      BY <1>2, Typed
  <2> QED
      BY <1>1, <1>2, <2>1, Typed DEF Types
<1>6. NoMoreSent
    BY <1>1, <1>2, SentFalls DEF parentVars
<1>7. Counts'
    BY <1>1, <1>2, <1>3, <1>4, WorksOn DEF Working
<1> QED
    BY <1>1, <1>2, <1>3, <1>4, <1>5, <1>6, <1>7, TellsNothing DEF Working

\* It is interrupted, or fails, outside the two waits; or is gone at once.
LEMMA Breaks == ASSUME WorkerInv, Interrupt \/ Crash PROVE WorkerInv'
<1>1. /\ child.pc \in {"previewing", "preparing", "executing", "reporting", "faulted", "dropping"}
      /\ \/ child' = [child EXCEPT !.pc = "closing", !.outcome = "interrupted"]
         \/ child' = [child EXCEPT !.pc = "closing", !.outcome = "closed"]
      /\ UNCHANGED <<parentVars, clientVars, commands, inputs, stopSignal>>
      /\ events' = events /\ outBuffer' = outBuffer /\ outPipe' = outPipe
      /\ dropLock' \in {dropLock, FALSE} /\ dropped' = dropped
    BY DEF Interrupt, Interruptible, Crash, outVars
<1>2. Types /\ Counts /\ child \in ChildType
    BY Typed DEF WorkerInv
<1>3. /\ child' \in ChildType /\ child'.pc = "closing" /\ child'.request = child.request
      /\ child'.written = child.written /\ child'.outcome \in Deaths
    BY <1>1, <1>2 DEF ChildType, ChildPcs, Deaths
<1>4. Apart /\ OwnerKeeps /\ commands' = commands /\ inputs' = inputs
    BY <1>1, LeftAlone
<1>5. /\ inputs \in Nat /\ dropped \in Nat /\ outBuffer' \in Seq(1..MaxRequest)
      /\ outPipe' \in Seq(1..MaxRequest) /\ dropLock' \in BOOLEAN
    BY <1>1, <1>2, Typed
<1>6. NoMoreSent
    BY <1>1, <1>2, SentFalls DEF parentVars
<1>7. Counts'
  <2>1. Alive
      BY <1>1 DEF Alive
  <2> QED
      BY <1>1, <1>2, <1>3, <1>4, <2>1, WorksNoMore
<1> QED
    BY <1>1, <1>3, <1>4, <1>5, <1>6, <1>7, TellsNothing DEF Working

\* The process is gone.
LEMMA Dies == ASSUME WorkerInv, Die PROVE WorkerInv'
<1>1. /\ Alive /\ child' = [child EXCEPT !.pc = "killed"]
      /\ UNCHANGED <<parentVars, clientVars, commands, inputs, stopSignal>>
      /\ events' = events /\ outBuffer' = <<>> /\ outPipe' = outPipe
      /\ dropLock' = dropLock /\ dropped' = dropped
    BY DEF Die, ChildGoes
<1>2. Types /\ Counts /\ child \in ChildType
    BY Typed DEF WorkerInv
<1>3. /\ child' \in ChildType /\ child'.pc = "killed" /\ child'.request = child.request
      /\ child'.written = child.written
    BY <1>1, <1>2 DEF ChildType, ChildPcs
<1>4. Apart /\ OwnerKeeps /\ commands' = commands /\ inputs' = inputs
    BY <1>1, LeftAlone
<1>5. /\ inputs \in Nat /\ dropped \in Nat /\ outBuffer' \in Seq(1..MaxRequest)
      /\ outPipe' \in Seq(1..MaxRequest) /\ dropLock' \in BOOLEAN
    BY <1>1, <1>2, Typed, EmptySeq
<1>6. NoMoreSent
    BY <1>1, <1>2, SentFalls DEF parentVars
<1>7. Counts'
    BY <1>1, <1>2, <1>3, <1>4, WorksNoMore
<1> QED
    BY <1>1, <1>3, <1>4, <1>5, <1>6, <1>7, TellsNothing DEF Working

\* The feeder passes output on.
LEMMA Feeds == ASSUME WorkerInv, Feed PROVE WorkerInv'
<1> DEFINE h == Head(outBuffer)
           t == Tail(outBuffer)
<1>1. /\ outBuffer # <<>> /\ outPipe' = Append(outPipe, h) /\ outBuffer' = t
      /\ UNCHANGED <<parentVars, clientVars, commands, inputs, stopSignal>>
      /\ events' = events /\ dropped' = dropped /\ dropLock' = dropLock /\ child' = child
    BY DEF Feed
<1>2. Types /\ Counts /\ child \in ChildType
    BY Typed DEF WorkerInv
<1>3. /\ outBuffer \in Seq(1..MaxRequest) /\ outPipe \in Seq(1..MaxRequest)
      /\ received \in [1..MaxRequest -> Nat]
      /\ inputs \in Nat /\ dropped \in Nat /\ dropLock \in BOOLEAN
    BY <1>2, Typed
<1>4. h \in 1..MaxRequest /\ t \in Seq(1..MaxRequest)
    BY <1>1, <1>3, Behead
<1>5. outBuffer' \in Seq(1..MaxRequest) /\ outPipe' \in Seq(1..MaxRequest)
    BY <1>1, <1>3, <1>4, AppendProperties
<1>6. NoMoreSent
  <2> SUFFICES ASSUME NEW r \in 1..MaxRequest
               PROVE  /\ Sent(r) \in Nat
                      /\ SentOf(outBuffer', outPipe', received', r) \in Nat
                      /\ SentOf(outBuffer', outPipe', received', r) <= Sent(r)
                      /\ OutputIn(outBuffer, r) = 0 /\ OutputIn(outPipe, r) = 0 =>
                            OutputIn(outBuffer', r) = 0 /\ OutputIn(outPipe', r) = 0
      BY DEF NoMoreSent
  <2>1. PICK n \in {0, 1} : OutputIn(outBuffer, r) = OutputIn(t, r) + n /\ (n = 1 <=> h = r)
      BY <1>1, <1>3, OutputCounts
  <2> HIDE DEF h, t
  <2>2. PICK m \in {0, 1} : OutputIn(Append(outPipe, h), r) = OutputIn(outPipe, r) + m /\ (m = 1 <=> h = r)
      BY <1>3, <1>4, OutputCounts
  <2>3. /\ OutputIn(outBuffer, r) \in Nat /\ OutputIn(outPipe, r) \in Nat
        /\ OutputIn(t, r) \in Nat /\ received[r] \in Nat
      BY <1>3, <1>4, OutputCounts
  <2>4. received' = received
      BY <1>1 DEF parentVars
  <2>5. m = n
      BY <2>1, <2>2
  <2>6. /\ OutputIn(outBuffer', r) = OutputIn(t, r)
        /\ OutputIn(outPipe', r) = OutputIn(outPipe, r) + n
        /\ OutputIn(outBuffer, r) = OutputIn(t, r) + n
      BY <1>1, <2>1, <2>2, <2>5
  <2>7. OutputIn(outBuffer', r) + OutputIn(outPipe', r) = OutputIn(outBuffer, r) + OutputIn(outPipe, r)
      BY <2>3, <2>6
  <2>8. /\ OutputIn(outBuffer', r) \in Nat /\ OutputIn(outPipe', r) \in Nat
        /\ OutputIn(outBuffer, r) = 0 => n = 0 /\ OutputIn(outBuffer', r) = 0
      BY <2>3, <2>6
  <2>9. n = 0 => OutputIn(outPipe', r) = OutputIn(outPipe, r)
      BY <2>3, <2>6
  <2>10. SentOf(outBuffer', outPipe', received', r) = Sent(r) /\ Sent(r) \in Nat
      BY <2>3, <2>4, <2>7, <2>8 DEF Sent, SentOf
  <2> QED
      BY <2>8, <2>9, <2>10
<1> HIDE DEF h, t
<1>7. Apart /\ OwnerKeeps /\ commands' = commands /\ inputs' = inputs
    BY <1>1, LeftAlone
<1>8. child' \in ChildType /\ child'.request = child.request /\ child'.pc = child.pc
    BY <1>1, <1>2
<1>9. Counts'
    BY <1>1, <1>2, <1>7, <1>8, WorksOn
<1> QED
  <2>1. Types'
    <3>1. /\ \A e \in ToSet(events') : e.kind \in Ends => e.request \in 1..request
          /\ child'.pc \in Working \cup {"previewing"} => child'.request \in 1..request
          /\ child'.pc = "dropping" => child'.resume \in {"executing", "reporting"}
          /\ child'.pc \notin {"closing", "exited", "killed"} => child'.outcome \in Ends
          /\ child'.pc = "closing" => child'.outcome \in Deaths
        BY <1>1, <1>2 DEF Types
    <3>2. commands \in Seq(MessageType) /\ events \in Seq(EventType)
        BY <1>2, Typed
    <3>3. /\ commands' \in Seq(MessageType) /\ ToSet(commands') \subseteq ToSet(commands)
          /\ inputs' \in Nat /\ events' \in Seq(EventType)
          /\ dropped' \in Nat /\ dropLock' \in BOOLEAN
        BY <1>1, <1>3, <1>7, <3>2
    <3> QED
        BY <1>1, <1>2, <1>3, <1>5, <1>7, <1>8, <3>1, <3>2, <3>3, TypesApart
  <2>2. OutputIsCounted'
    <3>1. OutputIsCounted
        BY DEF WorkerInv
    <3>2. /\ child'.pc \in Working => Sent(child'.request) <= child'.written
          /\ \A x \in ToSet(events') : x.kind \in Ends => Sent(x.request) <= x.written
        BY <1>1, <3>1 DEF OutputIsCounted
    <3> QED
        BY <1>1, <1>2, <1>6, <1>7, <2>1, <3>1, <3>2, OutputApart
  <2> QED
      BY <1>9, <2>1, <2>2 DEF WorkerInv

\* The program has its line.
LEMMA GetsInput == ASSUME WorkerInv, GetInput PROVE WorkerInv'
<1>1. /\ child.pc = "awaitInput" /\ inputs > 0 /\ inputs' = inputs - 1
      /\ child' = [child EXCEPT !.pc = "executing"]
      /\ UNCHANGED <<parentVars, clientVars, commands, events, stopSignal>>
      /\ outBuffer' = outBuffer /\ outPipe' = outPipe
      /\ dropLock' = dropLock /\ dropped' = dropped
    BY DEF GetInput, ChildGoes, outVars
<1>2. Types /\ Counts /\ child \in ChildType
    BY Typed DEF WorkerInv
<1>3. /\ child' \in ChildType /\ child'.pc = "executing" /\ child'.request = child.request
      /\ child'.written = child.written /\ child'.outcome = child.outcome
    BY <1>1, <1>2 DEF ChildType, ChildPcs, Working
<1>4. /\ commands' = commands /\ batch' = batch /\ events' = events
      /\ completions' = completions /\ busy' = busy /\ ready' = ready
      /\ previewPending' = previewPending /\ pollPc' = pollPc /\ closePc' = closePc
      /\ waitingInput' = waitingInput /\ Apart
    BY <1>1 DEF Apart, parentVars, clientVars
<1>5. /\ inputs \in Nat /\ inputs' \in Nat /\ dropped \in Nat
      /\ outBuffer' \in Seq(1..MaxRequest)
      /\ outPipe' \in Seq(1..MaxRequest) /\ dropLock \in BOOLEAN /\ child.outcome \in Ends
  <2>1. inputs \in Nat
      BY <1>2, Typed
  <2> QED
      BY <1>1, <1>2, <2>1, Typed DEF Types
<1>6. NoMoreSent
    BY <1>1, <1>2, SentFalls DEF parentVars
<1>7. Counts'
  <2>1. /\ child'.pc \in Working /\ child.pc \in Working
        /\ Serving' /\ Serving /\ Alive /\ Alive'
        /\ InProcess' = InProcess /\ Held' = Held /\ PreviewHeld' = PreviewHeld
        /\ PreviewInProcess' = PreviewInProcess /\ LineHeld' = LineHeld
      BY <1>1, <1>3, <1>4 DEF Working, Serving, Alive, InProcess, Held, PreviewHeld,
         PreviewInProcess, LineHeld
  <2>2. OneAtATime'
    <3>1. OneAtATime
        BY <1>2 DEF Counts
    <3> QED
        BY <1>1, <1>3, <1>4, <2>1, <3>1 DEF OneAtATime, Waits, Commits, GivenUp
  <2>3. Previews'
      BY <1>2, <1>4, <2>1 DEF Counts, Previews
  <2>4. Lines'
    <3>1. Asked <= 1
        BY <1>2 DEF Counts, Lines
    <3>2. /\ AsksIn(events) \in Nat /\ AsksIn(batch) \in Nat /\ LineHeld \in {0, 1}
        BY <1>2, Counted, Summed
    <3>3. AsksIn(events') = AsksIn(events) /\ AsksIn(batch') = AsksIn(batch)
        BY <1>4
    <3>4. Asked' = 0
        BY <1>1, <1>5, <2>1, <3>1, <3>2, <3>3 DEF Asked
    <3> QED
        BY <3>4 DEF Lines
  <2>5. DeathIsLast'
    <3>1. DeathIsLast
        BY <1>2 DEF Counts
    <3> QED
        BY <1>1, <1>4, <2>1, <3>1 DEF DeathIsLast, Alive
  <2>6. OwnCommit'
      BY <1>2, <1>3, <1>4 DEF Counts, OwnCommit
  <2> QED
      BY <2>2, <2>3, <2>4, <2>5, <2>6 DEF Counts
<1> QED
    BY <1>1, <1>3, <1>4, <1>5, <1>6, <1>7, TellsNothing DEF Working

\* While a submission is in the process it is the only one, and nothing of the
\* one before it is left.
LEMMA OnlyOne ==
    ASSUME Types, Counts, child.pc \in Working
    PROVE  /\ Waits = 0 /\ InProcess = 1 /\ Held = 1 /\ busy /\ Serving /\ Alive
           /\ JobsIn(commands) = 0 /\ \A m \in ToSet(commands) : m.op \notin Jobs
           /\ EndsIn(events) = 0 /\ ~Has(events, Ending)
           /\ completions = <<>> /\ ToSet(completions) = {}
           /\ EndsIn(batch) = 0 /\ ~Has(batch, Ending)
           /\ ShutdownsIn(commands) = 0 /\ PreviewsIn(commands) = 0
           /\ Commits <= 1
<1>1. /\ Waits \in Nat /\ Commits \in Nat /\ InProcess = 1 /\ Held \in {0, 1} /\ (Held = 1 <=> busy)
    BY Summed
<1>2. Serving /\ Alive
    BY DEF Serving, Alive, Working
<1>3. /\ Waits + InProcess <= 1 /\ Waits + InProcess = Held /\ Waits + Commits <= Held
      /\ EndsIn(batch) > 0 => ~busy
      /\ ShutdownsIn(commands) > 0 => ~busy
    BY <1>2 DEF Counts, OneAtATime, GivenUp
<1>4. Waits = 0 /\ Held = 1 /\ busy
    BY <1>1, <1>3
<1>5. /\ JobsIn(commands) \in Nat /\ EndsIn(events) \in Nat /\ Len(completions) \in Nat
      /\ EndsIn(batch) \in Nat /\ ShutdownsIn(commands) \in Nat /\ PreviewsIn(commands) \in Nat
    BY Counted
<1>6. JobsIn(commands) = 0 /\ EndsIn(events) = 0 /\ Len(completions) = 0
    BY <1>4, <1>5 DEF Waits
<1>7. EndsIn(batch) = 0 /\ ShutdownsIn(commands) = 0
    BY <1>3, <1>4, <1>5
<1>8. PreviewsIn(commands) = 0
    BY <1>4, <1>5, <1>6 DEF Counts, Previews
<1>9. completions = <<>>
    BY <1>6, Typed, EmptySeq
<1>10. /\ \A m \in ToSet(commands) : m.op \notin Jobs
       /\ ~Has(events, Ending) /\ ~Has(batch, Ending)
  <2>1. commands \in Seq(MessageType) /\ events \in Seq(EventType) /\ batch \in Seq(EventType)
      BY Typed
  <2> QED
      BY <1>6, <1>7, <2>1, MessageCounts, EventCounts
<1>11. Commits <= 1
    BY <1>1, <1>3, <1>4
<1> QED
    BY <1>1, <1>2, <1>4, <1>6, <1>7, <1>8, <1>9, <1>10, <1>11, NothingIn

\* Output is written.
LEMMA Writes == ASSUME WorkerInv, Write PROVE WorkerInv'
<1> DEFINE r0 == child.request
<1>1. /\ child.pc \in {"executing", "reporting"} /\ outBuffer' = Append(outBuffer, r0)
      /\ child' = [child EXCEPT !.chunks = @ + 1, !.written = @ + 1]
      /\ UNCHANGED <<parentVars, clientVars, commands, inputs, stopSignal>>
      /\ events' = events /\ outPipe' = outPipe /\ dropped' = dropped /\ dropLock' = dropLock
    BY DEF Write, CanWrite
<1>2. Types /\ Counts /\ OutputIsCounted /\ child \in ChildType /\ child.pc \in Working
    BY <1>1, Typed DEF WorkerInv, Working
<1>3. child' \in ChildType /\ child'.pc = child.pc /\ child'.request = r0
      /\ child'.written = child.written + 1 /\ child'.outcome = child.outcome
      /\ child.written \in Nat
  <2>1. /\ child.written \in Nat /\ child.written + 1 \in Nat /\ child.chunks \in Nat
        /\ child.chunks + 1 \in Nat
      BY <1>2 DEF ChildType
  <2> QED
      BY <1>1, <1>2, <2>1 DEF ChildType
<1>4. /\ outBuffer \in Seq(1..MaxRequest) /\ outPipe \in Seq(1..MaxRequest)
      /\ received \in [1..MaxRequest -> Nat] /\ request \in 0..MaxRequest /\ MaxRequest \in Nat
      /\ inputs \in Nat /\ dropped \in Nat /\ dropLock \in BOOLEAN
      /\ commands \in Seq(MessageType) /\ events \in Seq(EventType)
    BY <1>2, Typed
<1>5. r0 \in 1..MaxRequest /\ r0 \in 1..request
  <2>1. r0 \in 1..request
      BY <1>2 DEF Types
  <2> QED
      BY <1>4, <2>1
<1>6. outBuffer' \in Seq(1..MaxRequest)
    BY <1>1, <1>4, <1>5, OutputCounts
<1>7. Apart /\ OwnerKeeps /\ commands' = commands /\ inputs' = inputs
    BY <1>1, LeftAlone
<1>8. Counts'
    BY <1>1, <1>2, <1>3, <1>7, WorksOn
<1>9. Types'
  <2>1. /\ \A e \in ToSet(events') : e.kind \in Ends => e.request \in 1..request
        /\ child'.pc \in Working \cup {"previewing"} => child'.request \in 1..request
        /\ child'.pc = "dropping" => child'.resume \in {"executing", "reporting"}
        /\ child'.pc \notin {"closing", "exited", "killed"} => child'.outcome \in Ends
        /\ child'.pc = "closing" => child'.outcome \in Deaths
      BY <1>1, <1>2, <1>3, <1>5 DEF Types
  <2>2. /\ commands' \in Seq(MessageType) /\ ToSet(commands') \subseteq ToSet(commands)
        /\ inputs' \in Nat /\ events' \in Seq(EventType)
        /\ dropped' \in Nat /\ dropLock' \in BOOLEAN /\ outPipe' \in Seq(1..MaxRequest)
      BY <1>1, <1>4, <1>7
  <2> QED
      BY <1>2, <1>3, <1>6, <1>7, <2>1, <2>2, TypesApart
<1> HIDE DEF r0
<1>10. ASSUME NEW r \in 1..MaxRequest
       PROVE  /\ Sent(r) \in Nat
              /\ r # r0 => SentOf(outBuffer', outPipe', received', r) = Sent(r)
              /\ r = r0 => SentOf(outBuffer', outPipe', received', r) = Sent(r) + 1
  <2>1. PICK n \in {0, 1} : OutputIn(outBuffer', r) = OutputIn(outBuffer, r) + n /\ (n = 1 <=> r0 = r)
      BY <1>1, <1>4, <1>5, OutputCounts
  <2>2. OutputIn(outBuffer, r) \in Nat /\ OutputIn(outPipe, r) \in Nat /\ received[r] \in Nat
      BY <1>4, OutputCounts
  <2>3. received' = received /\ outPipe' = outPipe
      BY <1>1 DEF parentVars
  <2> QED
      BY <2>1, <2>2, <2>3 DEF Sent, SentOf
<1>11. OutputIsCounted'
  <2>1. /\ request' = request /\ completions' = completions /\ batch' = batch
      BY <1>1 DEF parentVars, clientVars
  <2>2. /\ \A m \in ToSet(commands') : m.op \notin Jobs
        /\ ~Has(events', Ending) /\ ToSet(completions') = {} /\ ~Has(batch', Ending)
      BY <1>1, <1>2, <1>7, <2>1, OnlyOne
  <2>3. \A r \in 1..MaxRequest : r > request' => Sent(r)' = 0
    <3> SUFFICES ASSUME NEW r \in 1..MaxRequest, r > request
                 PROVE  SentOf(outBuffer', outPipe', received', r) = 0
        BY <2>1 DEF Sent
    <3>1. r # r0 /\ Sent(r) = 0
        BY <1>2, <1>4, <1>5 DEF OutputIsCounted
    <3> QED
        BY <1>10, <3>1
  <2>4. SentOf(outBuffer', outPipe', received', r0) <= child'.written
    <3>1. Sent(r0) <= child.written
        BY <1>2 DEF OutputIsCounted, r0
    <3> QED
        BY <1>3, <1>5, <1>10, <3>1
  <2>5. ~Has(events', Ends) /\ ~Has(batch', Ends)
      BY <2>2 DEF Has, Ends, Ending
  <2> QED
      BY <1>3, <2>2, <2>3, <2>4, <2>5 DEF OutputIsCounted, Sent, Has
<1> QED
    BY <1>8, <1>9, <1>11 DEF WorkerInv

-----------------------------------------------------------------------------
(* Steps of the process that take a message.                               *)

\* Nothing is said about a commit when there is none.
LEMMA NoCommits ==
    ASSUME Types, Commits = 0
    PROVE  /\ CommitsIn(commands) = 0 /\ PreparedIn(events) = 0 /\ PreparedIn(batch) = 0
           /\ \A m \in ToSet(commands) : m.op # "commit"
           /\ \A e \in ToSet(events) : e.kind # "prepared"
           /\ \A e \in ToSet(batch) : e.kind # "prepared"
<1>1. commands \in Seq(MessageType) /\ events \in Seq(EventType) /\ batch \in Seq(EventType)
    BY Typed
<1>2. CommitsIn(commands) \in Nat /\ PreparedIn(events) \in Nat /\ PreparedIn(batch) \in Nat
    BY Counted
<1>3. CommitsIn(commands) = 0 /\ PreparedIn(events) = 0 /\ PreparedIn(batch) = 0
    BY <1>2 DEF Commits
<1>4. \A m \in ToSet(commands) : m.op # "commit"
    BY <1>1, <1>3, MessageCounts
<1>5. ~Has(events, {"prepared"}) /\ ~Has(batch, {"prepared"})
    BY <1>1, <1>3, EventCounts
<1> QED
    BY <1>3, <1>4, <1>5 DEF Has

\* What it says at the start of a submission is not counted.
LEMMA StartedIsNotCounted ==
    ASSUME Types, NEW e \in EventType, e.kind \notin Ending \cup {"prepared", "completion", "input"},
           events' = events \/ events' = Append(events, e)
    PROVE  /\ EndsIn(events') = EndsIn(events) /\ PreparedIn(events') = PreparedIn(events)
           /\ PreviewedIn(events') = PreviewedIn(events) /\ AsksIn(events') = AsksIn(events)
           /\ events' \in Seq(EventType)
           /\ \A x \in ToSet(events') : x \in ToSet(events) \/ x = e
<1>1. events \in Seq(EventType)
    BY Typed
<1>2. CASE events' = Append(events, e)
  <2>1. PICK ended \in {0, 1}, prepared \in {0, 1}, previewed \in {0, 1}, asked \in {0, 1} :
         /\ EndsIn(events') = EndsIn(events) + ended /\ (ended = 1 <=> e.kind \in Ending)
         /\ PreparedIn(events') = PreparedIn(events) + prepared /\ (prepared = 1 <=> e.kind = "prepared")
         /\ PreviewedIn(events') = PreviewedIn(events) + previewed /\ (previewed = 1 <=> e.kind = "completion")
         /\ AsksIn(events') = AsksIn(events) + asked /\ (asked = 1 <=> e.kind = "input")
      BY <1>1, <1>2, EventAppended
  <2>2. /\ EndsIn(events) \in Nat /\ PreparedIn(events) \in Nat
        /\ PreviewedIn(events) \in Nat /\ AsksIn(events) \in Nat
      BY Counted
  <2>3. ended = 0 /\ prepared = 0 /\ previewed = 0 /\ asked = 0
      BY <2>1
  <2>4. events' \in Seq(EventType) /\ ToSet(events') = ToSet(events) \cup {e}
      BY <1>1, <1>2, EventAppended
  <2> QED
      BY <2>1, <2>2, <2>3, <2>4
<1> QED
    BY <1>1, <1>2

\* Arithmetic on the counts.
LEMMA OneOff == ASSUME NEW a \in Nat, NEW b \in Nat, NEW n \in {0, 1}, a = b + n PROVE b <= a
OBVIOUS

\* The head of the loop takes a message.
Taking(pc) ==
    /\ child.pc = "idle" /\ commands # <<>> /\ commands' = Tail(commands)
    /\ child' \in ChildType /\ child'.pc = pc /\ child'.request = Head(commands).request
    /\ child'.written = 0
    /\ Apart /\ UNCHANGED <<inputs, outVars>>
    /\ \/ Head(commands).op \in Jobs /\ pc = "preparing" /\ child'.outcome \in Ends
       \/ Head(commands).op = "complete" /\ pc = "previewing" /\ child'.outcome \in Ends
       \/ Head(commands).op = "shutdown" /\ pc = "closing" /\ child'.outcome \in Deaths

\* The invariant after the head of the loop has taken a message.
LEMMA TakesFromQueue ==
    ASSUME WorkerInv, NEW pc, Taking(pc),
           NEW e \in EventType, e.kind = "started",
           events' = events \/ events' = Append(events, e)
    PROVE  WorkerInv'
<1> DEFINE h == Head(commands)
<1>1. /\ child.pc = "idle" /\ commands # <<>> /\ commands' = Tail(commands)
      /\ child' \in ChildType /\ child'.pc = pc /\ child'.request = h.request
      /\ child'.written = 0 /\ Apart
      /\ inputs' = inputs /\ outBuffer' = outBuffer /\ outPipe' = outPipe
      /\ dropped' = dropped /\ dropLock' = dropLock
      /\ \/ h.op \in Jobs /\ pc = "preparing" /\ child'.outcome \in Ends
         \/ h.op = "complete" /\ pc = "previewing" /\ child'.outcome \in Ends
         \/ h.op = "shutdown" /\ pc = "closing" /\ child'.outcome \in Deaths
    BY DEF Taking, outVars
<1>2. Types /\ Counts /\ OutputIsCounted /\ commands \in Seq(MessageType)
    BY Typed DEF WorkerInv
<1>3. PICK job \in {0, 1}, commit \in {0, 1}, preview \in {0, 1}, shutdown \in {0, 1} :
         /\ JobsIn(commands) = JobsIn(commands') + job /\ (job = 1 <=> h.op \in Jobs)
         /\ CommitsIn(commands) = CommitsIn(commands') + commit /\ (commit = 1 <=> h.op = "commit")
         /\ PreviewsIn(commands) = PreviewsIn(commands') + preview /\ (preview = 1 <=> h.op = "complete")
         /\ ShutdownsIn(commands) = ShutdownsIn(commands') + shutdown /\ (shutdown = 1 <=> h.op = "shutdown")
    BY <1>1, <1>2, MessageTaken
<1>4. /\ h \in MessageType /\ commands' \in Seq(MessageType)
      /\ ToSet(commands) = {h} \cup ToSet(commands')
    BY <1>1, <1>2, MessageTaken
<1> HIDE DEF h
<1>5. /\ EndsIn(events') = EndsIn(events) /\ PreparedIn(events') = PreparedIn(events)
      /\ PreviewedIn(events') = PreviewedIn(events) /\ AsksIn(events') = AsksIn(events)
      /\ events' \in Seq(EventType)
      /\ \A x \in ToSet(events') : x \in ToSet(events) \/ x = e
  <2>1. e.kind \notin Ending \cup {"prepared", "completion", "input"}
      BY DEF Ending
  <2> QED
      BY <1>2, <2>1, StartedIsNotCounted
<1>6. /\ JobsIn(commands') \in Nat /\ CommitsIn(commands') \in Nat /\ PreviewsIn(commands') \in Nat
      /\ ShutdownsIn(commands') \in Nat
    BY <1>4, MessageCounts
<1>7. /\ EndsIn(events) \in Nat /\ Len(completions) \in Nat
      /\ PreparedIn(events) \in Nat /\ PreparedIn(batch) \in Nat
      /\ EndsIn(batch) \in Nat /\ PreviewedIn(events) \in Nat
    BY <1>2, Counted
<1>8. /\ ready' = ready /\ busy' = busy /\ previewPending' = previewPending
      /\ request' = request /\ received' = received /\ completions' = completions
      /\ pollPc' = pollPc /\ batch' = batch
      /\ closePc' = closePc /\ waitingInput' = waitingInput
    BY <1>1 DEF Apart, parentVars, clientVars
<1>9. /\ InProcess = 0 /\ InProcess' = job /\ PreviewInProcess = 0 /\ PreviewInProcess' = preview
      /\ Held' = Held /\ Held \in {0, 1} /\ (Held = 1 <=> busy)
      /\ PreviewHeld' = PreviewHeld /\ PreviewHeld \in {0, 1} /\ LineHeld' = LineHeld
  <2>1. (pc = "preparing" <=> job = 1) /\ (pc = "previewing" <=> preview = 1)
        /\ pc \in {"preparing", "previewing", "closing"}
      BY <1>1, <1>3 DEF Jobs
  <2>2. InProcess = 0 /\ PreviewInProcess = 0
      BY <1>1 DEF InProcess, PreviewInProcess, Working
  <2>3. InProcess' = job
      BY <1>1, <2>1 DEF InProcess, Working
  <2>4. PreviewInProcess' = preview
      BY <1>1, <2>1 DEF PreviewInProcess
  <2> QED
      BY <1>2, <1>8, <2>2, <2>3, <2>4, Summed DEF Held, PreviewHeld, LineHeld
<1>10. /\ Serving /\ Alive /\ Alive' /\ ~GivenUp
       /\ child'.pc \notin {"awaitCommit", "awaitInput", "dropping", "exited"}
    BY <1>1 DEF Serving, Alive, GivenUp
<1>11. /\ Waits + InProcess <= 1
       /\ Waits + InProcess = Held
       /\ Waits + Commits <= Held
       /\ Commits = 0
       /\ Waits + Commits + EndsIn(batch) + ShutdownsIn(commands) <= 1
       /\ EndsIn(batch) > 0 => ~busy /\ pollPc # "idle"
       /\ ShutdownsIn(commands) > 0 => ~busy /\ closePc # "open"
    BY <1>1, <1>2, <1>10 DEF Counts, OneAtATime
<1>12. Waits \in Nat /\ Waits' \in Nat /\ Waits = Waits' + job
  <2>1. /\ JobsIn(commands) = JobsIn(commands') + job /\ job \in {0, 1}
        /\ EndsIn(events') = EndsIn(events) /\ Len(completions') = Len(completions)
      BY <1>3, <1>5, <1>8
  <2>2. PICK j \in Nat, p \in Nat, l \in Nat, d \in {0, 1} :
           /\ j = JobsIn(commands') /\ p = EndsIn(events) /\ l = Len(completions) /\ d = job
      BY <1>6, <1>7, <2>1
  <2>3. Waits' = j + p + l /\ Waits = (j + d) + p + l
      BY <2>1, <2>2 DEF Waits
  <2>4. (j + d) + p + l = (j + p + l) + d /\ j + p + l \in Nat /\ (j + d) + p + l \in Nat
      OBVIOUS
  <2> QED
      BY <2>2, <2>3, <2>4
<1>13. Commits' = 0
  <2>1. CommitsIn(commands) = 0 /\ PreparedIn(events) = 0 /\ PreparedIn(batch) = 0
      BY <1>2, <1>11, NoCommits
  <2>2. CommitsIn(commands') = 0
      BY <1>3, <1>6, <2>1
  <2> QED
      BY <1>5, <1>8, <2>1, <2>2 DEF Commits
<1>14. OneAtATime'
  <2>1. Waits' + InProcess' = Waits + InProcess
      BY <1>3, <1>9, <1>12
  <2>2. Waits' <= Waits
      BY <1>3, <1>12, OneOff
  <2>3. Waits' + Commits' <= Held
    <3>1. PICK a \in Nat, b \in Nat, n \in {0, 1}, c \in {0, 1} :
             a = Waits /\ b = Waits' /\ n = job /\ c = Held
        BY <1>3, <1>9, <1>12
    <3>2. a = b + n /\ a + 0 <= c
        BY <1>11, <1>12, <3>1
    <3>3. b + 0 <= c
        BY <3>2
    <3> QED
        BY <1>13, <3>1, <3>3
  <2>4. Waits' + Commits' + EndsIn(batch) + ShutdownsIn(commands') <= 1
    <3>1. ShutdownsIn(commands) = ShutdownsIn(commands') + shutdown /\ shutdown \in {0, 1}
        BY <1>3
    <3>2. /\ Waits' <= Waits /\ Waits \in Nat /\ Waits' \in Nat /\ Commits' = 0 /\ Commits = 0
          /\ ShutdownsIn(commands') \in Nat /\ EndsIn(batch) \in Nat
          /\ Waits + Commits + EndsIn(batch) + ShutdownsIn(commands) <= 1
        BY <1>6, <1>7, <1>11, <1>12, <1>13, <2>2
    <3> QED
        BY <3>1, <3>2
  <2>5. ShutdownsIn(commands') > 0 => ~busy /\ closePc # "open"
      BY <1>3, <1>6, <1>11
  <2> QED
      BY <1>8, <1>9, <1>11, <1>13, <2>1, <2>3, <2>4, <2>5 DEF OneAtATime
<1>15. Previews'
  <2>1. /\ PreviewsIn(commands) + PreviewInProcess + PreviewedIn(events) <= PreviewHeld
        /\ busy /\ PreviewsIn(commands) > 0 => JobsIn(commands) = 1 /\ h.op = "complete"
      BY <1>2 DEF Counts, Previews, h
  <2>2. PreviewsIn(commands') + PreviewInProcess' + PreviewedIn(events') <= PreviewHeld'
    <3>1. /\ PreviewsIn(commands) = PreviewsIn(commands') + preview /\ preview \in {0, 1}
          /\ PreviewInProcess' = preview /\ PreviewInProcess = 0 /\ PreviewHeld' = PreviewHeld
          /\ PreviewedIn(events') = PreviewedIn(events)
        BY <1>3, <1>5, <1>9
    <3> QED
        BY <1>6, <1>7, <2>1, <3>1
  <2>3. ~(busy /\ PreviewsIn(commands') > 0)
    <3> SUFFICES ASSUME busy, PreviewsIn(commands') > 0 PROVE FALSE
        OBVIOUS
    <3>1. PreviewsIn(commands) > 0
        BY <1>3, <1>6
    <3>2. preview = 1
        BY <1>3, <2>1, <3>1
    <3>3. /\ PreviewsIn(commands') + 1 + PreviewInProcess + PreviewedIn(events) <= PreviewHeld
          /\ PreviewInProcess = 0 /\ PreviewHeld \in {0, 1}
        BY <1>3, <1>9, <2>1, <3>2
    <3> QED
        BY <1>6, <1>7, <3>3
  <2> QED
      BY <1>8, <2>2, <2>3 DEF Previews
<1>16. Lines'
    BY <1>1, <1>2, <1>5, <1>8, <1>9, <1>10 DEF Counts, Lines, Asked
<1>17. DeathIsLast'
  <2>1. /\ ~Has(events, Deaths) /\ ~Has(batch, Deaths)
        /\ closePc \notin {"draining", "closed"} /\ (pollPc = "idle" => batch = <<>>)
      BY <1>1, <1>2, <1>10 DEF Counts, DeathIsLast
  <2>2. ~Has(events', Deaths)
      BY <1>5, <2>1 DEF Has, Deaths
  <2> QED
      BY <1>8, <2>1, <2>2 DEF DeathIsLast
<1>18. OwnCommit'
  <2>1. /\ \A m \in ToSet(commands) : m.op # "commit"
        /\ \A x \in ToSet(events) : x.kind # "prepared"
        /\ \A x \in ToSet(batch) : x.kind # "prepared"
      BY <1>2, <1>11, NoCommits
  <2> QED
      BY <1>4, <1>5, <1>8, <2>1 DEF OwnCommit
<1>19. Types'
  <2>1. \A x \in ToSet(events') : x.kind \in Ends => x.request \in 1..request
      BY <1>2, <1>5 DEF Types, Ends
  <2>2. child'.pc \in Working \cup {"previewing"} => child'.request \in 1..request
    <3>1. h \in ToSet(commands)
        BY <1>4
    <3>2. h.op \in {"load", "command", "complete"} => h.request \in 1..request
        BY <1>2, <3>1 DEF Types
    <3> QED
        BY <1>1, <3>2 DEF Working, Jobs
  <2>3. /\ child'.pc \notin {"closing", "exited", "killed"} => child'.outcome \in Ends
        /\ child'.pc = "closing" => child'.outcome \in Deaths
      BY <1>1
  <2>4. /\ ToSet(commands') \subseteq ToSet(commands) /\ inputs' \in Nat
        /\ outBuffer' \in Seq(1..MaxRequest) /\ outPipe' \in Seq(1..MaxRequest)
        /\ dropped' \in Nat /\ dropLock' \in BOOLEAN
      BY <1>1, <1>2, <1>4, Typed
  <2> QED
      BY <1>1, <1>2, <1>4, <1>5, <1>10, <2>1, <2>2, <2>3, <2>4, TypesApart
<1>20. OutputIsCounted'
  <2>1. NoMoreSent
      BY <1>1, <1>2, <1>8, SentFalls
  <2>2. child'.pc \in Working => Sent(child'.request) <= child'.written
    <3> SUFFICES ASSUME child'.pc \in Working PROVE Sent(child'.request) <= child'.written
        OBVIOUS
    <3>1. h \in ToSet(commands) /\ h.op \in Jobs
        BY <1>1, <1>4 DEF Working
    <3>2. Sent(h.request) = 0
        BY <1>2, <3>1 DEF OutputIsCounted
    <3> QED
        BY <1>1, <3>2
  <2>3. \A x \in ToSet(events') : x.kind \in Ends => Sent(x.request) <= x.written
      BY <1>2, <1>5 DEF OutputIsCounted, Ends
  <2>4. ToSet(commands') \subseteq ToSet(commands)
      BY <1>4
  <2> QED
      BY <1>1, <1>2, <1>19, <2>1, <2>2, <2>3, <2>4, OutputApart
<1> QED
    BY <1>14, <1>15, <1>16, <1>17, <1>18, <1>19, <1>20 DEF Counts, WorkerInv

\* What Get makes of the process.
LEMMA GotFromQueue ==
    ASSUME Types, NEW op, NEW pc \in ChildPcs, NEW outcome \in Ends \cup {"closed", "interrupted"},
           Get(op, pc, outcome), op \in {"load", "command", "complete", "shutdown"}
    PROVE  /\ child.pc = "idle" /\ commands # <<>> /\ commands' = Tail(commands)
           /\ Head(commands).op = op
           /\ child' \in ChildType /\ child'.pc = pc /\ child'.request = Head(commands).request
           /\ child'.written = 0 /\ child'.outcome = outcome
           /\ Apart /\ UNCHANGED <<inputs, outVars>>
<1>1. /\ child.pc = "idle" /\ commands # <<>> /\ commands' = Tail(commands)
      /\ Head(commands).op = op
      /\ child' = [pc |-> pc, op |-> op, request |-> Head(commands).request,
                   chunks |-> 0, written |-> 0, outcome |-> outcome, resume |-> "idle"]
      /\ Apart /\ UNCHANGED <<inputs, outVars>>
    BY DEF Get, Apart
<1>2. Head(commands) \in MessageType
    BY <1>1, Typed, MessageTaken
<1>3. Head(commands).request \in 0..MaxRequest
    BY <1>2 DEF MessageType
<1>4. child' \in ChildType
    BY <1>1, <1>3 DEF ChildType, ChildPcs
<1> QED
    BY <1>1, <1>4

\* The three kinds of message that the head of the loop takes.
LEMMA GetsFromQueue == ASSUME WorkerInv, GetShutdown \/ GetPreview \/ GetJob PROVE WorkerInv'
<1> DEFINE e == Event("started", Head(commands).request, 0)
<1>1. Types
    BY DEF WorkerInv
<1>2. ASSUME commands # <<>> PROVE e \in EventType /\ e.kind = "started"
  <2>1. Head(commands) \in MessageType
      BY <1>1, <1>2, Typed, MessageTaken
  <2>2. Head(commands).request \in 0..MaxRequest
      BY <2>1 DEF MessageType
  <2> QED
      BY <2>2 DEF Event, EventType, Kinds
<1>3. CASE GetShutdown
  <2>1. Get("shutdown", "closing", "closed") /\ events' = events
      BY <1>3 DEF GetShutdown
  <2>2. Taking("closing") /\ commands # <<>>
      BY <1>1, <2>1, GotFromQueue DEF Taking, ChildPcs, Deaths
  <2> QED
      BY <1>2, <2>1, <2>2, TakesFromQueue
<1>4. CASE GetPreview
  <2>1. Get("complete", "previewing", "finished") /\ events' = events
      BY <1>4 DEF GetPreview
  <2>2. Taking("previewing") /\ commands # <<>>
      BY <1>1, <2>1, GotFromQueue DEF Taking, ChildPcs, Ends
  <2> QED
      BY <1>2, <2>1, <2>2, TakesFromQueue
<1>5. CASE GetJob
  <2>1. PICK op \in {"load", "command"} : Get(op, "preparing", "finished")
      BY <1>5 DEF GetJob
  <2>2. events' = Append(events, e)
      BY <1>5 DEF GetJob
  <2>3. Taking("preparing") /\ commands # <<>>
      BY <1>1, <2>1, GotFromQueue DEF Taking, ChildPcs, Working, Ends, Jobs
  <2> HIDE DEF e
  <2> QED
      BY <1>2, <2>2, <2>3, TakesFromQueue
<1> QED
    BY <1>3, <1>4, <1>5

\* What waits for a commit finds it, and nothing else, in the queue.
LEMMA OnlyItsCommit ==
    ASSUME Types, Counts, child.pc = "awaitCommit", commands # <<>>
    PROVE  /\ Head(commands).op = "commit" /\ Head(commands).request = child.request
           /\ CommitsIn(commands) = 1 /\ PreparedIn(events) = 0 /\ PreparedIn(batch) = 0
           /\ Len(commands) = 1 /\ Tail(commands) = <<>>
<1>1. /\ commands \in Seq(MessageType) /\ child.pc \in Working
    BY Typed DEF Working
<1>2. /\ JobsIn(commands) = 0 /\ PreviewsIn(commands) = 0 /\ ShutdownsIn(commands) = 0
      /\ Commits <= 1
    BY <1>1, OnlyOne
<1>3. /\ CommitsIn(commands) \in Nat /\ PreparedIn(events) \in Nat /\ PreparedIn(batch) \in Nat
    BY Counted
<1>4. PICK job \in {0, 1}, commit \in {0, 1}, preview \in {0, 1}, shutdown \in {0, 1} :
         /\ JobsIn(commands) = JobsIn(Tail(commands)) + job /\ (job = 1 <=> Head(commands).op \in Jobs)
         /\ CommitsIn(commands) = CommitsIn(Tail(commands)) + commit /\ (commit = 1 <=> Head(commands).op = "commit")
         /\ PreviewsIn(commands) = PreviewsIn(Tail(commands)) + preview /\ (preview = 1 <=> Head(commands).op = "complete")
         /\ ShutdownsIn(commands) = ShutdownsIn(Tail(commands)) + shutdown /\ (shutdown = 1 <=> Head(commands).op = "shutdown")
    BY <1>1, MessageTaken
<1>5. /\ Head(commands) \in MessageType /\ Tail(commands) \in Seq(MessageType)
      /\ ToSet(commands) = {Head(commands)} \cup ToSet(Tail(commands))
    BY <1>1, MessageTaken
<1>6. /\ JobsIn(Tail(commands)) \in Nat /\ PreviewsIn(Tail(commands)) \in Nat
      /\ ShutdownsIn(Tail(commands)) \in Nat /\ CommitsIn(Tail(commands)) \in Nat
    BY <1>5, MessageCounts
<1>7. job = 0 /\ preview = 0 /\ shutdown = 0
    BY <1>2, <1>4, <1>6
<1>8. Head(commands).op = "commit" /\ commit = 1
    BY <1>4, <1>5, <1>7 DEF MessageType, Jobs
<1>9. CommitsIn(commands) = 1 /\ PreparedIn(events) = 0 /\ PreparedIn(batch) = 0
  <2>1. CommitsIn(commands) = CommitsIn(Tail(commands)) + 1
      BY <1>4, <1>8
  <2>2. CommitsIn(commands) + PreparedIn(events) + PreparedIn(batch) <= 1
      BY <1>2 DEF Commits
  <2>3. PICK n \in Nat : n = CommitsIn(Tail(commands))
      BY <1>6
  <2>4. CommitsIn(commands) = n + 1
      BY <2>1, <2>3
  <2> QED
      BY <1>3, <2>2, <2>4
<1>10. Head(commands).request = child.request
    BY <1>5, <1>8 DEF Counts, OwnCommit
<1>11. Len(commands) = 1
    BY <1>2, <1>9, Counted
<1>12. Tail(commands) = <<>>
  <2>1. Len(Tail(commands)) = 0
      BY <1>1, <1>11
  <2> QED
      BY <1>5, <2>1, EmptySeq
<1> QED
    BY <1>8, <1>9, <1>10, <1>11, <1>12

\* The process takes the answer that it waits for.
LEMMA GetsCommit == ASSUME WorkerInv, GetCommit PROVE WorkerInv'
<1> DEFINE e(kind) == Event(kind, child.request, child.written)
<1>1. /\ child.pc = "awaitCommit" /\ commands # <<>> /\ commands' = Tail(commands)
      /\ \/ child' = [child EXCEPT !.pc = "executing"] /\ events' = Append(events, e("loaded"))
         \/ child' = [child EXCEPT !.pc = "idle"] /\ events' = Append(events, e("cancelled"))
      /\ Apart /\ inputs' = inputs /\ outBuffer' = outBuffer /\ outPipe' = outPipe
      /\ dropped' = dropped /\ dropLock' = dropLock
    BY DEF GetCommit, Emit, ChildGoes, Apart, outVars
<1>2. /\ Types /\ Counts /\ OutputIsCounted /\ child \in ChildType /\ child.pc \in Working
      /\ events \in Seq(EventType) /\ child.outcome \in Ends
  <2>1. Types /\ Counts /\ OutputIsCounted /\ child \in ChildType /\ events \in Seq(EventType)
      BY Typed DEF WorkerInv
  <2> QED
      BY <1>1, <2>1 DEF Types, Working
<1>3. PICK kind \in {"loaded", "cancelled"} :
         /\ events' = Append(events, e(kind))
         /\ kind = "loaded" => child'.pc = "executing"
         /\ kind = "cancelled" => child'.pc = "idle"
  <2>1. CASE child' = [child EXCEPT !.pc = "executing"] /\ events' = Append(events, e("loaded"))
      BY <1>2, <2>1 DEF ChildType
  <2>2. CASE child' = [child EXCEPT !.pc = "idle"] /\ events' = Append(events, e("cancelled"))
      BY <1>2, <2>2 DEF ChildType
  <2> QED
      BY <1>1, <2>1, <2>2
<1>4. /\ child' \in ChildType /\ child'.request = child.request /\ child'.written = child.written
      /\ child'.outcome = child.outcome
    BY <1>1, <1>2 DEF ChildType, ChildPcs, Working
<1>5. e(kind) \in EventType /\ e(kind).kind = kind /\ e(kind).request = child.request
    BY <1>2, Emitted DEF Kinds
<1> HIDE DEF e
<1>6. /\ events' \in Seq(EventType) /\ ToSet(events') = ToSet(events) \cup {e(kind)}
    BY <1>2, <1>3, <1>5, EventAppended
<1>7. PICK ended \in {0, 1}, prepared \in {0, 1}, previewed \in {0, 1}, asked \in {0, 1} :
         /\ EndsIn(events') = EndsIn(events) + ended /\ (ended = 1 <=> e(kind).kind \in Ending)
         /\ PreparedIn(events') = PreparedIn(events) + prepared /\ (prepared = 1 <=> e(kind).kind = "prepared")
         /\ PreviewedIn(events') = PreviewedIn(events) + previewed /\ (previewed = 1 <=> e(kind).kind = "completion")
         /\ AsksIn(events') = AsksIn(events) + asked /\ (asked = 1 <=> e(kind).kind = "input")
    BY <1>2, <1>3, <1>5, EventAppended
<1>8. prepared = 0 /\ previewed = 0 /\ asked = 0 /\ (ended = 1 <=> kind = "cancelled")
    BY <1>5, <1>7 DEF Ending
<1>9. /\ Waits = 0 /\ InProcess = 1 /\ Held = 1 /\ busy /\ Serving /\ Alive
      /\ JobsIn(commands) = 0 /\ EndsIn(events) = 0 /\ completions = <<>> /\ EndsIn(batch) = 0
      /\ ShutdownsIn(commands) = 0 /\ PreviewsIn(commands) = 0
      /\ PreparedIn(events) = 0 /\ PreparedIn(batch) = 0 /\ commands' = <<>>
    BY <1>1, <1>2, OnlyOne, OnlyItsCommit
<1>10. /\ ready' = ready /\ busy' = busy /\ previewPending' = previewPending
       /\ request' = request /\ received' = received /\ completions' = completions
       /\ pollPc' = pollPc /\ batch' = batch
       /\ closePc' = closePc /\ waitingInput' = waitingInput
    BY <1>1 DEF Apart, parentVars, clientVars
<1>11. /\ JobsIn(commands') = 0 /\ CommitsIn(commands') = 0 /\ PreviewsIn(commands') = 0
       /\ ShutdownsIn(commands') = 0 /\ ToSet(commands') = {} /\ Len(completions') = 0
    BY <1>9, <1>10, NothingIn
<1>12. EndsIn(events') = ended /\ PreparedIn(events') = 0
    BY <1>7, <1>8, <1>9
<1>13. Waits' = ended /\ Commits' = 0 /\ InProcess' = 1 - ended
  <2>1. Waits' = ended
      BY <1>11, <1>12 DEF Waits
  <2>2. Commits' = 0
      BY <1>9, <1>10, <1>11, <1>12 DEF Commits
  <2>3. InProcess' = 1 - ended
      BY <1>3, <1>8 DEF InProcess, Working
  <2> QED
      BY <2>1, <2>2, <2>3
<1>14. /\ Held' = Held /\ PreviewHeld' = PreviewHeld /\ LineHeld' = LineHeld
       /\ PreviewInProcess' = 0 /\ PreviewInProcess = 0
       /\ child'.pc \notin {"previewing", "exited", "dropping", "closing", "killed", "awaitCommit"}
    BY <1>1, <1>3, <1>10 DEF Held, PreviewHeld, LineHeld, PreviewInProcess
<1>15. OneAtATime'
  <2>1. /\ Waits' + InProcess' = 1
        /\ Waits' + Commits' <= 1
        /\ Waits' + Commits' + EndsIn(batch') + ShutdownsIn(commands') <= 1
      BY <1>9, <1>10, <1>11, <1>13
  <2> QED
      BY <1>9, <1>10, <1>11, <1>13, <1>14, <2>1 DEF OneAtATime
<1>16. Previews'
  <2>1. PreviewedIn(events') = PreviewedIn(events) /\ PreviewedIn(events) \in Nat
      BY <1>2, <1>7, <1>8, Counted
  <2>2. 0 + 0 + PreviewedIn(events) <= PreviewHeld
      BY <1>2, <1>9, <1>14 DEF Counts, Previews
  <2> QED
      BY <1>11, <1>14, <2>1, <2>2 DEF Previews
<1>17. Lines'
  <2>1. AsksIn(events') = AsksIn(events) /\ AsksIn(events) \in Nat
      BY <1>2, <1>7, <1>8, Counted
  <2>2. Asked' = Asked
      BY <1>1, <1>10, <1>14, <2>1 DEF Asked
  <2>3. Asked = 0
      BY <1>1, <1>2, <1>9 DEF Counts, Lines
  <2> QED
      BY <2>2, <2>3 DEF Lines
<1>18. DeathIsLast'
  <2>1. ~Has(events, Deaths) /\ ~Has(batch, Deaths)
      BY <1>1, <1>2, <1>9 DEF Counts, DeathIsLast
  <2>2. ~Has(events', Deaths)
      BY <1>5, <1>6, <2>1 DEF Has, Deaths
  <2>3. closePc \notin {"draining", "closed"} /\ (pollPc = "idle" => batch = <<>>)
      BY <1>2, <1>9 DEF Counts, DeathIsLast
  <2> QED
      BY <1>10, <2>1, <2>2, <2>3 DEF DeathIsLast
<1>19. OwnCommit'
    BY <1>2, <1>4, <1>5, <1>6, <1>10, <1>11 DEF Counts, OwnCommit
<1>20. Types'
  <2>1. \A x \in ToSet(events') : x.kind \in Ends => x.request \in 1..request
      BY <1>2, <1>5, <1>6 DEF Types, Ends
  <2>2. /\ child'.pc \in Working \cup {"previewing"} => child'.request \in 1..request
        /\ child'.pc \notin {"closing", "exited", "killed"} => child'.outcome \in Ends
        /\ child'.pc = "closing" => child'.outcome \in Deaths
      BY <1>2, <1>4, <1>14 DEF Types
  <2>3. /\ commands' \in Seq(MessageType) /\ ToSet(commands') \subseteq ToSet(commands)
        /\ inputs' \in Nat /\ outBuffer' \in Seq(1..MaxRequest) /\ outPipe' \in Seq(1..MaxRequest)
        /\ dropped' \in Nat /\ dropLock' \in BOOLEAN
      BY <1>1, <1>2, <1>9, <1>11, Typed, EmptySeq
  <2> QED
      BY <1>1, <1>2, <1>4, <1>6, <1>14, <2>1, <2>2, <2>3, TypesApart
<1>21. OutputIsCounted'
  <2>1. NoMoreSent
      BY <1>1, <1>2, <1>10, SentFalls
  <2>2. child'.pc \in Working => Sent(child'.request) <= child'.written
      BY <1>2, <1>4 DEF OutputIsCounted
  <2>3. \A x \in ToSet(events') : x.kind \in Ends => Sent(x.request) <= x.written
      BY <1>2, <1>5, <1>6 DEF OutputIsCounted, Ends
  <2>4. ToSet(commands') \subseteq ToSet(commands)
      BY <1>11
  <2> QED
      BY <1>1, <1>2, <1>20, <2>1, <2>2, <2>3, <2>4, OutputApart
<1> QED
    BY <1>15, <1>16, <1>17, <1>18, <1>19, <1>20, <1>21 DEF Counts, WorkerInv

-----------------------------------------------------------------------------
(* Steps of the owner.                                                     *)

\* The types after a step of the owner, if they hold of what it changes: it takes
\* events and ends, and makes none.
LEMMA OwnerTypes ==
    ASSUME Types, child' = child, outBuffer' = outBuffer, dropped' = dropped,
           dropLock' = dropLock,
           request' \in 0..MaxRequest, request' >= request,
           commands' \in Seq(MessageType),
           \A m \in ToSet(commands') : m.op \in {"load", "command", "complete"} =>
              m \in ToSet(commands) \/ m.request \in 1..request',
           events' \in Seq(EventType), ToSet(events') \subseteq ToSet(events),
           completions' \in Seq(EventType),
           \A e \in ToSet(completions') :
              e \in ToSet(completions) \/ (e \in ToSet(events) /\ e.kind \in Ends),
           batch' \in Seq(EventType),
           \A e \in ToSet(batch') : e.kind \in Ends => e \in ToSet(batch) \cup ToSet(completions),
           received' \in [1..MaxRequest -> Nat], reportedDrops' \in Nat,
           ready' \in BOOLEAN, busy' \in BOOLEAN, previewPending' \in BOOLEAN,
           waitingInput' \in BOOLEAN, stopSignal' \in BOOLEAN, inputs' \in Nat,
           pollPc' \in {"idle", "events", "output", "report"},
           closePc' \in {"open", "joining", "draining", "closed"},
           outPipe' \in Seq(1..MaxRequest)
    PROVE  Types'
<1>1. request \in 0..MaxRequest /\ MaxRequest \in Nat
    BY Typed
<1>2. 1..request \subseteq 1..request' /\ 1..request \subseteq 1..MaxRequest
    BY <1>1
<1>3. TypeOK'
    BY DEF Types, TypeOK, EventType, MessageType, ChildType
<1>4. \A m \in ToSet(commands') : m.op \in {"load", "command", "complete"} => m.request \in 1..request'
    BY <1>2 DEF Types
<1>5. /\ child'.pc \in Working \cup {"previewing"} => child'.request \in 1..request'
      /\ child'.pc = "dropping" => child'.resume \in {"executing", "reporting"}
      /\ child'.pc \notin {"closing", "exited", "killed"} => child'.outcome \in Ends
      /\ child'.pc = "closing" => child'.outcome \in Deaths
    BY <1>2 DEF Types
<1>6. /\ \A e \in ToSet(events') : e.kind \in Ends => e.request \in 1..request'
      /\ \A e \in ToSet(completions') : e.kind \in Ends /\ e.request \in 1..request'
      /\ \A e \in ToSet(batch') : e.kind \in Ends => e.request \in 1..MaxRequest
    BY <1>2 DEF Types
<1> QED
    BY <1>3, <1>4, <1>5, <1>6 DEF Types

\* The output stays counted after a step of the owner.
LEMMA OwnerOutput ==
    ASSUME Types, OutputIsCounted, Types', NoMoreSent, child' = child, request' >= request,
           \A m \in ToSet(commands') : m.op \in Jobs =>
              m.request \in 1..MaxRequest /\ Sent(m.request) = 0,
           ToSet(events') \subseteq ToSet(events),
           \A e \in ToSet(completions') :
              e \in ToSet(completions) \/ (e \in ToSet(events) /\ e.kind \in Ends),
           \A e \in ToSet(batch') : e.kind \in Ends =>
              \/ e \in ToSet(batch)
              \/ /\ e.request \in 1..MaxRequest
                 /\ OutputIn(outBuffer, e.request) = 0 /\ OutputIn(outPipe, e.request) = 0
    PROVE  OutputIsCounted'
<1>1. ASSUME NEW r \in 1..MaxRequest
      PROVE  /\ Sent(r) \in Nat
             /\ SentOf(outBuffer', outPipe', received', r) \in Nat
             /\ SentOf(outBuffer', outPipe', received', r) <= Sent(r)
    BY DEF NoMoreSent
<1>2. /\ request \in 0..MaxRequest /\ MaxRequest \in Nat /\ child \in ChildType
      /\ events \in Seq(EventType) /\ completions \in Seq(EventType)
      /\ request' \in 0..MaxRequest
  <2>1. request' \in 0..MaxRequest
      BY DEF Types, TypeOK
  <2> QED
      BY <2>1, Typed
<1>3. 1..request \subseteq 1..MaxRequest
    BY <1>2
<1>4. ToSet(events) \subseteq EventType /\ ToSet(completions) \subseteq EventType
    BY <1>2, RangeIn
<1>5. \A r \in 1..MaxRequest : r > request' => SentOf(outBuffer', outPipe', received', r) = 0
  <2> SUFFICES ASSUME NEW r \in 1..MaxRequest, r > request'
               PROVE  SentOf(outBuffer', outPipe', received', r) = 0
      OBVIOUS
  <2>1. r > request
      BY <1>2
  <2>2. Sent(r) = 0
      BY <2>1 DEF OutputIsCounted
  <2> QED
      BY <1>1, <2>2
<1>6. \A m \in ToSet(commands') : m.op \in Jobs => SentOf(outBuffer', outPipe', received', m.request) = 0
    BY <1>1
<1>7. child'.pc \in Working => SentOf(outBuffer', outPipe', received', child'.request) <= child'.written
  <2> SUFFICES ASSUME child.pc \in Working
               PROVE  SentOf(outBuffer', outPipe', received', child.request) <= child.written
      OBVIOUS
  <2>1. child.request \in 1..MaxRequest /\ Sent(child.request) <= child.written /\ child.written \in Nat
      BY <1>2, <1>3 DEF Types, OutputIsCounted, ChildType
  <2> QED
      BY <1>1, <2>1
<1>8. ASSUME NEW e \in ToSet(events) \cup ToSet(completions), e.kind \in Ends
      PROVE  SentOf(outBuffer', outPipe', received', e.request) <= e.written
  <2>1. e.request \in 1..MaxRequest /\ Sent(e.request) <= e.written
      BY <1>3, <1>8 DEF Types, OutputIsCounted
  <2>2. e.written \in Nat
      BY <1>4 DEF EventType
  <2> QED
      BY <1>1, <2>1, <2>2
<1>9. \A e \in ToSet(completions) : e.kind \in Ends
    BY DEF Types
<1>10. \A e \in ToSet(batch') : e.kind \in Ends =>
          OutputIn(outBuffer', e.request) = 0 /\ OutputIn(outPipe', e.request) = 0
  <2> SUFFICES ASSUME NEW e \in ToSet(batch'), e.kind \in Ends
               PROVE  OutputIn(outBuffer', e.request) = 0 /\ OutputIn(outPipe', e.request) = 0
      OBVIOUS
  <2>1. /\ OutputIn(outBuffer, e.request) = 0 /\ OutputIn(outPipe, e.request) = 0
        /\ e.request \in 1..MaxRequest
      BY DEF OutputIsCounted, Types
  <2> QED
      BY <2>1 DEF NoMoreSent
<1>11. /\ \A e \in ToSet(events') : e.kind \in Ends => SentOf(outBuffer', outPipe', received', e.request) <= e.written
       /\ \A e \in ToSet(completions') : SentOf(outBuffer', outPipe', received', e.request) <= e.written
    BY <1>8, <1>9
<1> QED
    BY <1>5, <1>6, <1>7, <1>10, <1>11 DEF OutputIsCounted, Sent

\* Between two polls, while no Stop is under way and the session is free,
\* nothing of a submission is anywhere.
LEMMA NothingUnderWay ==
    ASSUME Types, Counts, pollPc = "idle", closePc = "open", ~busy, ready \/ Alive
    PROVE  /\ Waits = 0 /\ Commits = 0 /\ InProcess = 0 /\ batch = <<>>
           /\ JobsIn(commands) = 0 /\ CommitsIn(commands) = 0 /\ ShutdownsIn(commands) = 0
           /\ EndsIn(batch) = 0
<1>1. /\ Waits \in Nat /\ Commits \in Nat /\ InProcess \in {0, 1} /\ (InProcess = 1 <=> child.pc \in Working)
      /\ Held = 0
    BY Summed DEF Held
<1>2. /\ Serving => Waits + InProcess = Held
      /\ Waits + Commits <= Held
      /\ EndsIn(batch) > 0 => pollPc # "idle"
      /\ ShutdownsIn(commands) > 0 => closePc # "open"
      /\ batch = <<>>
    BY DEF Counts, OneAtATime, DeathIsLast, GivenUp
<1>3. Waits = 0 /\ Commits = 0
    BY <1>1, <1>2
<1>4. InProcess = 0
  <2>1. child.pc \in Working => Serving
      BY DEF Working, Serving
  <2> QED
      BY <1>1, <1>2, <1>3, <2>1
<1>5. /\ JobsIn(commands) \in Nat /\ CommitsIn(commands) \in Nat /\ EndsIn(events) \in Nat
      /\ Len(completions) \in Nat /\ PreparedIn(events) \in Nat /\ PreparedIn(batch) \in Nat
      /\ EndsIn(batch) \in Nat /\ ShutdownsIn(commands) \in Nat
    BY Counted
<1>6. JobsIn(commands) = 0
    BY <1>3, <1>5 DEF Waits
<1>7. CommitsIn(commands) = 0
    BY <1>3, <1>5 DEF Commits
<1>8. EndsIn(batch) = 0 /\ ShutdownsIn(commands) = 0
    BY <1>2, <1>5
<1> QED
    BY <1>2, <1>3, <1>4, <1>6, <1>7, <1>8

\* A submission.
LEMMA Submits ==
    ASSUME WorkerInv, NEW op \in Jobs, Submit(op), pollPc = "idle", closePc = "open"
    PROVE  WorkerInv'
<1> DEFINE m == Message(op, request + 1, TRUE)
<1>1. /\ ready /\ ~busy /\ request < MaxRequest /\ request' = request + 1
      /\ commands' = Append(commands, m) /\ busy' = TRUE
      /\ ready' = ready /\ previewPending' = previewPending /\ received' = received
      /\ completions' = completions /\ reportedDrops' = reportedDrops
      /\ pollPc' = pollPc /\ batch' = batch /\ closePc' = closePc /\ waitingInput' = waitingInput
      /\ inputs' = inputs /\ events' = events /\ outBuffer' = outBuffer /\ outPipe' = outPipe
      /\ dropped' = dropped /\ dropLock' = dropLock /\ stopSignal' = stopSignal /\ child' = child
    BY DEF Submit, MaySubmit, Put, clientVars, outVars
<1>2. Types /\ Counts /\ OutputIsCounted /\ commands \in Seq(MessageType)
      /\ request \in 0..MaxRequest /\ MaxRequest \in Nat
    BY Typed DEF WorkerInv
<1>3. request + 1 \in 1..MaxRequest /\ request + 1 \in 0..MaxRequest /\ request + 1 > request
    BY <1>1, <1>2
<1>4. m \in MessageType /\ m.op = op /\ m.request = request + 1
    BY <1>3 DEF Message, MessageType, Jobs
<1> HIDE DEF m
<1>5. PICK job \in {0, 1}, commit \in {0, 1}, preview \in {0, 1}, shutdown \in {0, 1} :
         /\ JobsIn(commands') = JobsIn(commands) + job /\ (job = 1 <=> m.op \in Jobs)
         /\ CommitsIn(commands') = CommitsIn(commands) + commit /\ (commit = 1 <=> m.op = "commit")
         /\ PreviewsIn(commands') = PreviewsIn(commands) + preview /\ (preview = 1 <=> m.op = "complete")
         /\ ShutdownsIn(commands') = ShutdownsIn(commands) + shutdown /\ (shutdown = 1 <=> m.op = "shutdown")
    BY <1>1, <1>2, <1>4, MessageAppended
<1>6. /\ commands' \in Seq(MessageType) /\ ToSet(commands') = ToSet(commands) \cup {m}
      /\ commands # <<>> => Head(commands') = Head(commands)
    BY <1>1, <1>2, <1>4, MessageAppended
<1>7. job = 1 /\ commit = 0 /\ preview = 0 /\ shutdown = 0
    BY <1>4, <1>5 DEF Jobs
<1>8. /\ Waits = 0 /\ Commits = 0 /\ InProcess = 0 /\ batch = <<>> /\ JobsIn(commands) = 0
      /\ CommitsIn(commands) = 0 /\ ShutdownsIn(commands) = 0 /\ EndsIn(batch) = 0
    BY <1>1, <1>2, NothingUnderWay
<1>9. /\ PreviewsIn(commands) \in Nat /\ EndsIn(events) \in Nat /\ Len(completions) \in Nat
      /\ PreparedIn(events) \in Nat /\ PreparedIn(batch) \in Nat
    BY <1>2, Counted
<1>10. /\ JobsIn(commands') = 1 /\ CommitsIn(commands') = 0 /\ ShutdownsIn(commands') = 0
       /\ PreviewsIn(commands') = PreviewsIn(commands)
    BY <1>5, <1>7, <1>8, <1>9
<1>11. /\ Held' = 1 /\ InProcess' = 0 /\ PreviewHeld' = PreviewHeld /\ LineHeld' = LineHeld
       /\ PreviewInProcess' = PreviewInProcess
    BY <1>1, <1>8 DEF Held, InProcess, PreviewHeld, LineHeld, PreviewInProcess
<1>12. Waits' = 1 /\ Commits' = 0
  <2>1. 0 + EndsIn(events) + Len(completions) = 0
      BY <1>8 DEF Waits
  <2>2. EndsIn(events) = 0 /\ Len(completions) = 0
      BY <1>9, <2>1
  <2>3. Waits' = 1
      BY <1>1, <1>10, <2>2 DEF Waits
  <2>4. 0 + PreparedIn(events) + PreparedIn(batch) = 0
      BY <1>8 DEF Commits
  <2>5. Commits' = 0
      BY <1>1, <1>9, <1>10, <2>4 DEF Commits
  <2> QED
      BY <2>3, <2>5
<1>13. OneAtATime'
    BY <1>1, <1>8, <1>10, <1>11, <1>12 DEF OneAtATime
<1>14. Previews'
  <2>1. PreviewsIn(commands) + PreviewInProcess + PreviewedIn(events) <= PreviewHeld
      BY <1>2 DEF Counts, Previews
  <2>2. ASSUME PreviewsIn(commands) > 0 PROVE Head(commands').op = "complete"
    <3>1. commands # <<>>
        BY <2>2, NothingIn
    <3>2. /\ Head(commands) \in MessageType /\ Head(commands) \in ToSet(commands)
        BY <1>2, <3>1, MessageTaken
    <3>3. Head(commands).op \notin Jobs /\ Head(commands).op # "commit"
        BY <1>2, <1>8, <3>2, MessageCounts
    <3>4. Head(commands).op # "shutdown"
      <4>1. Tail(commands) \in Seq(MessageType)
          BY <1>2, <3>1, MessageTaken
      <4>2. PICK n \in {0, 1} : /\ ShutdownsIn(commands) = ShutdownsIn(Tail(commands)) + n
                                /\ (n = 1 <=> Head(commands).op = "shutdown")
          BY <1>2, <3>1, MessageTaken
      <4>3. ShutdownsIn(Tail(commands)) \in Nat
          BY <4>1, MessageCounts
      <4>4. ShutdownsIn(Tail(commands)) + n = 0
          BY <1>8, <4>2
      <4>5. n = 0
          BY <4>3, <4>4
      <4> QED
          BY <4>2, <4>5
    <3> QED
        BY <1>6, <3>1, <3>2, <3>3, <3>4 DEF MessageType, Jobs
  <2> QED
      BY <1>1, <1>10, <1>11, <2>1, <2>2 DEF Previews
<1>15. Lines'
    BY <1>1, <1>2, <1>11 DEF Counts, Lines, Asked, Alive
<1>16. DeathIsLast'
    BY <1>1, <1>2 DEF Counts, DeathIsLast, Alive
<1>17. OwnCommit'
  <2>1. m.op # "commit"
      BY <1>4 DEF Jobs
  <2> QED
      BY <1>1, <1>2, <1>6, <2>1 DEF Counts, OwnCommit
<1>18. Types'
  <2>1. \A x \in ToSet(commands') : x \in ToSet(commands) \/ x.request \in 1..request'
    <3>1. m.request \in 1..request'
        BY <1>1, <1>2, <1>3, <1>4
    <3> QED
        BY <1>6, <3>1
  <2>2. \A e \in ToSet(completions) : e \in ToSet(completions)
      OBVIOUS
  <2>3. /\ request' \in 0..MaxRequest /\ request' >= request /\ busy' \in BOOLEAN
      BY <1>1, <1>2, <1>3
  <2> QED
      BY <1>1, <1>2, <1>6, <2>1, <2>2, <2>3, OwnerTypes, Typed
<1>19. OutputIsCounted'
  <2>1. NoMoreSent
      BY <1>1, <1>2, SentFalls
  <2>2. \A x \in ToSet(commands') : x.op \in Jobs => x.request \in 1..MaxRequest /\ Sent(x.request) = 0
    <3>1. Sent(request + 1) = 0
        BY <1>2, <1>3 DEF OutputIsCounted
    <3>2. \A x \in ToSet(commands) : x.op \notin Jobs
        BY <1>2, <1>8, MessageCounts
    <3> QED
        BY <1>3, <1>4, <1>6, <3>1, <3>2
  <2>3. request' >= request
      BY <1>1, <1>2
  <2> QED
      BY <1>1, <1>2, <1>18, <2>1, <2>2, <2>3, OwnerOutput
<1> QED
    BY <1>13, <1>14, <1>15, <1>16, <1>17, <1>18, <1>19 DEF Counts, WorkerInv

\* A preview is asked for.
LEMMA Completes ==
    ASSUME WorkerInv, Complete
    PROVE  WorkerInv'
<1> DEFINE m == Message("complete", request + 1, TRUE)
<1>1. /\ ready /\ ~busy /\ ~previewPending /\ request < MaxRequest /\ request' = request + 1
      /\ commands' = Append(commands, m) /\ previewPending' = TRUE
      /\ ready' = ready /\ busy' = busy /\ received' = received
      /\ completions' = completions /\ reportedDrops' = reportedDrops
      /\ pollPc' = pollPc /\ batch' = batch /\ closePc' = closePc /\ waitingInput' = waitingInput
      /\ inputs' = inputs /\ events' = events /\ outBuffer' = outBuffer /\ outPipe' = outPipe
      /\ dropped' = dropped /\ dropLock' = dropLock /\ stopSignal' = stopSignal /\ child' = child
    BY DEF Complete, MayComplete, Put, clientVars, outVars
<1>2. Types /\ Counts /\ OutputIsCounted /\ commands \in Seq(MessageType)
      /\ request \in 0..MaxRequest /\ MaxRequest \in Nat
    BY Typed DEF WorkerInv
<1>3. request + 1 \in 1..MaxRequest /\ request + 1 \in 0..MaxRequest /\ request + 1 > request
    BY <1>1, <1>2
<1>4. m \in MessageType /\ m.op = "complete" /\ m.request = request + 1
    BY <1>3 DEF Message, MessageType
<1> HIDE DEF m
<1>5. PICK job \in {0, 1}, commit \in {0, 1}, preview \in {0, 1}, shutdown \in {0, 1} :
         /\ JobsIn(commands') = JobsIn(commands) + job /\ (job = 1 <=> m.op \in Jobs)
         /\ CommitsIn(commands') = CommitsIn(commands) + commit /\ (commit = 1 <=> m.op = "commit")
         /\ PreviewsIn(commands') = PreviewsIn(commands) + preview /\ (preview = 1 <=> m.op = "complete")
         /\ ShutdownsIn(commands') = ShutdownsIn(commands) + shutdown /\ (shutdown = 1 <=> m.op = "shutdown")
    BY <1>1, <1>2, <1>4, MessageAppended
<1>6. /\ commands' \in Seq(MessageType) /\ ToSet(commands') = ToSet(commands) \cup {m}
    BY <1>1, <1>2, <1>4, MessageAppended
<1>7. job = 0 /\ commit = 0 /\ preview = 1 /\ shutdown = 0
    BY <1>4, <1>5 DEF Jobs
<1>8. /\ JobsIn(commands) \in Nat /\ CommitsIn(commands) \in Nat /\ ShutdownsIn(commands) \in Nat
      /\ PreviewsIn(commands) \in Nat /\ PreviewedIn(events) \in Nat
    BY <1>2, Counted
<1>9. /\ JobsIn(commands') = JobsIn(commands) /\ CommitsIn(commands') = CommitsIn(commands)
      /\ ShutdownsIn(commands') = ShutdownsIn(commands)
      /\ PreviewsIn(commands') = PreviewsIn(commands) + 1
    BY <1>5, <1>7, <1>8
<1>10. /\ Waits' = Waits /\ Commits' = Commits /\ Asked' = Asked
       /\ InProcess' = InProcess /\ Held' = Held
       /\ PreviewInProcess' = PreviewInProcess /\ PreviewInProcess \in {0, 1}
       /\ (Serving' <=> Serving) /\ (Alive' <=> Alive) /\ (GivenUp' <=> GivenUp)
       /\ PreviewHeld = 0 /\ PreviewHeld' = 1
  <2>1. Waits' = Waits /\ Commits' = Commits
      BY <1>1, <1>9 DEF Waits, Commits
  <2>2. Asked' = Asked /\ InProcess' = InProcess /\ Held' = Held /\ PreviewInProcess' = PreviewInProcess
      BY <1>1 DEF Asked, LineHeld, InProcess, Held, PreviewInProcess
  <2>3. (Serving' <=> Serving) /\ (Alive' <=> Alive) /\ (GivenUp' <=> GivenUp)
      BY <1>1 DEF Serving, Alive, GivenUp
  <2>4. PreviewHeld = 0 /\ PreviewHeld' = 1
      BY <1>1 DEF PreviewHeld
  <2> QED
      BY <1>2, <2>1, <2>2, <2>3, <2>4, Summed
<1>11. OneAtATime'
    BY <1>1, <1>2, <1>9, <1>10 DEF Counts, OneAtATime
<1>12. Previews'
  <2>1. PreviewsIn(commands) + PreviewInProcess + PreviewedIn(events) <= 0
      BY <1>2, <1>10 DEF Counts, Previews
  <2>2. PreviewsIn(commands) = 0 /\ PreviewInProcess = 0 /\ PreviewedIn(events) = 0
      BY <1>8, <1>10, <2>1
  <2>3. PreviewsIn(commands') + PreviewInProcess' + PreviewedIn(events') <= PreviewHeld'
      BY <1>1, <1>9, <1>10, <2>2
  <2> QED
      BY <1>1, <2>3 DEF Previews
<1>13. Lines'
    BY <1>1, <1>2, <1>10 DEF Counts, Lines
<1>14. DeathIsLast'
    BY <1>1, <1>2, <1>10 DEF Counts, DeathIsLast
<1>15. OwnCommit'
    BY <1>1, <1>2, <1>4, <1>6 DEF Counts, OwnCommit
<1>16. Types'
  <2>1. \A x \in ToSet(commands') : x \in ToSet(commands) \/ x.request \in 1..request'
    <3>1. m.request \in 1..request'
        BY <1>1, <1>2, <1>3, <1>4
    <3> QED
        BY <1>6, <3>1
  <2>2. \A e \in ToSet(completions) : e \in ToSet(completions)
      OBVIOUS
  <2>3. /\ request' \in 0..MaxRequest /\ request' >= request /\ previewPending' \in BOOLEAN
      BY <1>1, <1>2, <1>3
  <2> QED
      BY <1>1, <1>2, <1>6, <2>1, <2>2, <2>3, OwnerTypes, Typed
<1>17. OutputIsCounted'
  <2>1. NoMoreSent
      BY <1>1, <1>2, SentFalls
  <2>2. \A x \in ToSet(commands') : x.op \in Jobs => x.request \in 1..MaxRequest /\ Sent(x.request) = 0
    <3>1. \A x \in ToSet(commands) : x.op \in Jobs => x.request \in 1..MaxRequest /\ Sent(x.request) = 0
      <4>1. \A x \in ToSet(commands) : x.op \in Jobs => x.request \in 1..request
          BY <1>2 DEF Types, Jobs
      <4>2. 1..request \subseteq 1..MaxRequest
          BY <1>2
      <4> QED
          BY <1>2, <4>1, <4>2 DEF OutputIsCounted
    <3> QED
        BY <1>4, <1>6, <3>1 DEF Jobs
  <2>3. request' >= request
      BY <1>1, <1>2
  <2> QED
      BY <1>1, <1>2, <1>16, <2>1, <2>2, <2>3, OwnerOutput
<1> QED
    BY <1>11, <1>12, <1>13, <1>14, <1>15, <1>16, <1>17 DEF Counts, WorkerInv

\* The requests of the submissions in the queue have no output yet.
LEMMA QueuedIsUnsent ==
    ASSUME Types, OutputIsCounted
    PROVE  \A m \in ToSet(commands) : m.op \in Jobs => m.request \in 1..MaxRequest /\ Sent(m.request) = 0
<1>1. \A m \in ToSet(commands) : m.op \in Jobs => m.request \in 1..request
    BY DEF Types, Jobs
<1>2. 1..request \subseteq 1..MaxRequest
    BY Typed
<1> QED
    BY <1>1, <1>2 DEF OutputIsCounted

\* What a step of the owner that only moves its places leaves alone.
Elsewhere == UNCHANGED <<commands, events, completions, request, received, reportedDrops,
                         previewPending, outBuffer, outPipe, dropped, dropLock, child>>

\* The types and the count of the output after such a step.
LEMMA ElsewhereKept ==
    ASSUME Types, OutputIsCounted, Elsewhere,
           batch' \in Seq(EventType),
           \A e \in ToSet(batch') : e.kind \in Ends => e \in ToSet(batch),
           ready' \in BOOLEAN, busy' \in BOOLEAN, waitingInput' \in BOOLEAN,
           stopSignal' \in BOOLEAN, inputs' \in Nat,
           pollPc' \in {"idle", "events", "output", "report"},
           closePc' \in {"open", "joining", "draining", "closed"}
    PROVE  Types' /\ OutputIsCounted'
<1>1. /\ commands' = commands /\ events' = events /\ completions' = completions
      /\ request' = request /\ received' = received /\ reportedDrops' = reportedDrops
      /\ previewPending' = previewPending /\ outBuffer' = outBuffer /\ outPipe' = outPipe
      /\ dropped' = dropped /\ dropLock' = dropLock /\ child' = child
    BY DEF Elsewhere
<1>2. /\ request \in 0..MaxRequest /\ MaxRequest \in Nat /\ request' >= request
      /\ commands' \in Seq(MessageType) /\ events' \in Seq(EventType)
      /\ completions' \in Seq(EventType) /\ request' \in 0..MaxRequest
      /\ received' \in [1..MaxRequest -> Nat] /\ reportedDrops' \in Nat
      /\ previewPending' \in BOOLEAN /\ outPipe' \in Seq(1..MaxRequest)
    BY <1>1, Typed
<1>3. Types'
    BY <1>1, <1>2, OwnerTypes
<1>4. NoMoreSent
    BY <1>1, SentFalls
<1>5. \A m \in ToSet(commands') : m.op \in Jobs => m.request \in 1..MaxRequest /\ Sent(m.request) = 0
    BY <1>1, QueuedIsUnsent
<1>6. OutputIsCounted'
    BY <1>1, <1>2, <1>3, <1>4, <1>5, OwnerOutput
<1> QED
    BY <1>3, <1>6

\* The program is given its line.
LEMMA Provides == ASSUME WorkerInv, ProvideInput PROVE WorkerInv'
<1>1. /\ waitingInput /\ inputs' = inputs + 1 /\ waitingInput' = FALSE
      /\ Elsewhere /\ commands' = commands /\ events' = events /\ completions' = completions
      /\ previewPending' = previewPending /\ child' = child
      /\ ready' = ready /\ busy' = busy /\ pollPc' = pollPc /\ batch' = batch
      /\ closePc' = closePc /\ stopSignal' = stopSignal
    BY DEF ProvideInput, parentVars, outVars, Elsewhere
<1>2. Types /\ Counts /\ OutputIsCounted
    BY DEF WorkerInv
<1>3. /\ inputs \in Nat /\ inputs + 1 \in Nat /\ batch \in Seq(EventType)
      /\ ready \in BOOLEAN /\ busy \in BOOLEAN /\ stopSignal \in BOOLEAN
      /\ pollPc \in {"idle", "events", "output", "report"}
      /\ closePc \in {"open", "joining", "draining", "closed"}
    BY <1>2, Typed
<1>4. Types' /\ OutputIsCounted'
    BY <1>1, <1>2, <1>3, ElsewhereKept
<1>5. /\ InProcess' = InProcess /\ Held' = Held /\ PreviewInProcess' = PreviewInProcess
      /\ PreviewHeld' = PreviewHeld /\ LineHeld = 1 /\ LineHeld' = 0
      /\ Waits' = Waits /\ Commits' = Commits
      /\ (Serving' <=> Serving) /\ (Alive' <=> Alive) /\ (GivenUp' <=> GivenUp)
    BY <1>1 DEF InProcess, Held, PreviewInProcess, PreviewHeld, LineHeld, Waits, Commits,
       Serving, Alive, GivenUp
<1>6. OneAtATime' /\ Previews' /\ DeathIsLast' /\ OwnCommit'
    BY <1>1, <1>2, <1>5 DEF Counts, OneAtATime, Previews, DeathIsLast, OwnCommit
<1>7. Lines'
  <2>1. AsksIn(events) \in Nat /\ AsksIn(batch) \in Nat
      BY <1>2, Counted
  <2>2. Asked' = Asked
      BY <1>1, <1>3, <1>5, <2>1 DEF Asked
  <2> QED
      BY <1>1, <1>2, <1>5, <2>2 DEF Counts, Lines
<1> QED
    BY <1>4, <1>6, <1>7 DEF Counts, WorkerInv

\* A poll begins.
LEMMA PollStarts == ASSUME WorkerInv, PollStart PROVE WorkerInv'
<1>1. /\ pollPc = "idle" /\ pollPc' = "events" /\ batch' = <<>> /\ inputs' = inputs
      /\ Elsewhere /\ commands' = commands /\ events' = events /\ completions' = completions
      /\ previewPending' = previewPending /\ child' = child
      /\ ready' = ready /\ busy' = busy /\ waitingInput' = waitingInput
      /\ closePc' = closePc /\ stopSignal' = stopSignal
    BY DEF PollStart, parentVars, outVars, Elsewhere
<1>2. Types /\ Counts /\ OutputIsCounted
    BY DEF WorkerInv
<1>3. /\ inputs \in Nat /\ <<>> \in Seq(EventType) /\ waitingInput \in BOOLEAN
      /\ ready \in BOOLEAN /\ busy \in BOOLEAN /\ stopSignal \in BOOLEAN
      /\ closePc \in {"open", "joining", "draining", "closed"}
    BY <1>2, Typed, EmptySeq
<1>4. batch = <<>> /\ batch' = batch
    BY <1>1, <1>2 DEF Counts, DeathIsLast
<1>5. Types' /\ OutputIsCounted'
    BY <1>1, <1>2, <1>3, <1>4, ElsewhereKept
<1>6. /\ InProcess' = InProcess /\ Held' = Held /\ PreviewInProcess' = PreviewInProcess
      /\ PreviewHeld' = PreviewHeld /\ LineHeld' = LineHeld
      /\ Waits' = Waits /\ Commits' = Commits /\ Asked' = Asked
      /\ (Serving' <=> Serving) /\ (Alive' <=> Alive) /\ (GivenUp => GivenUp')
      /\ EndsIn(batch) = 0
    BY <1>1, <1>4, NothingIn DEF InProcess, Held, PreviewInProcess, PreviewHeld, LineHeld, Waits, Commits,
       Asked, Serving, Alive, GivenUp
<1>7. OneAtATime' /\ Previews' /\ Lines' /\ DeathIsLast' /\ OwnCommit'
    BY <1>1, <1>2, <1>4, <1>6 DEF Counts, OneAtATime, Previews, Lines, DeathIsLast, OwnCommit
<1> QED
    BY <1>5, <1>7 DEF Counts, WorkerInv

\* All events are read; a dead session is given up.
LEMMA PollEventsAreDone == ASSUME WorkerInv, PollEventsDone PROVE WorkerInv'
<1> DEFINE e == Event("closed", 0, 0)
<1>1. /\ pollPc = "events" /\ pollPc' = "output" /\ inputs' = inputs
      /\ Elsewhere /\ commands' = commands /\ events' = events /\ completions' = completions
      /\ previewPending' = previewPending /\ child' = child
      /\ waitingInput' = waitingInput /\ closePc' = closePc /\ stopSignal' = stopSignal
      /\ \/ Alive /\ batch' = batch /\ ready' = ready /\ busy' = busy
         \/ /\ ~Alive /\ batch' \in {batch, Append(batch, e)}
            /\ ready' = FALSE /\ busy' = FALSE
    BY DEF PollEventsDone, parentVars, outVars, Elsewhere
<1>2. Types /\ Counts /\ OutputIsCounted /\ MaxRequest \in Nat
    BY Typed DEF WorkerInv
<1>3. /\ inputs \in Nat /\ batch \in Seq(EventType) /\ waitingInput \in BOOLEAN
      /\ ready \in BOOLEAN /\ busy \in BOOLEAN /\ stopSignal \in BOOLEAN
      /\ closePc \in {"open", "joining", "draining", "closed"}
    BY <1>2, Typed
<1>4. e \in EventType /\ e.kind = "closed"
    BY <1>2 DEF Event, EventType, Kinds
<1> HIDE DEF e
<1>5. /\ batch' \in Seq(EventType) /\ ToSet(batch') \subseteq ToSet(batch) \cup {e}
      /\ EndsIn(batch') = EndsIn(batch) /\ PreparedIn(batch') = PreparedIn(batch)
      /\ AsksIn(batch') = AsksIn(batch)
  <2>1. CASE batch' = batch
      BY <1>3, <2>1
  <2>2. CASE batch' = Append(batch, e)
    <3>1. PICK ended \in {0, 1}, prepared \in {0, 1}, previewed \in {0, 1}, asked \in {0, 1} :
             /\ EndsIn(batch') = EndsIn(batch) + ended /\ (ended = 1 <=> e.kind \in Ending)
             /\ PreparedIn(batch') = PreparedIn(batch) + prepared /\ (prepared = 1 <=> e.kind = "prepared")
             /\ PreviewedIn(batch') = PreviewedIn(batch) + previewed /\ (previewed = 1 <=> e.kind = "completion")
             /\ AsksIn(batch') = AsksIn(batch) + asked /\ (asked = 1 <=> e.kind = "input")
        BY <1>3, <1>4, <2>2, EventAppended
    <3>2. ended = 0 /\ prepared = 0 /\ asked = 0
        BY <1>4, <3>1 DEF Ending
    <3>3. EndsIn(batch) \in Nat /\ PreparedIn(batch) \in Nat /\ AsksIn(batch) \in Nat
        BY <1>2, Counted
    <3> QED
        BY <1>3, <1>4, <2>2, <3>1, <3>2, <3>3, EventAppended
  <2> QED
      BY <1>1, <2>1, <2>2
<1>6. Types' /\ OutputIsCounted'
  <2>1. \A x \in ToSet(batch') : x.kind \in Ends => x \in ToSet(batch)
      BY <1>4, <1>5 DEF Ends
  <2>2. ready' \in BOOLEAN /\ busy' \in BOOLEAN
      BY <1>1, <1>3
  <2> QED
      BY <1>1, <1>2, <1>3, <1>5, <2>1, <2>2, ElsewhereKept
<1>7. /\ InProcess' = InProcess /\ PreviewInProcess' = PreviewInProcess
      /\ PreviewHeld' = PreviewHeld /\ LineHeld' = LineHeld
      /\ (Serving' <=> Serving) /\ (Alive' <=> Alive) /\ (Serving => Alive)
    BY <1>1 DEF InProcess, PreviewInProcess, PreviewHeld, LineHeld, Serving, Alive
<1>8. Waits' = Waits /\ Commits' = Commits /\ Asked' = Asked
    BY <1>1, <1>5, <1>7 DEF Waits, Commits, Asked
<1>9. OneAtATime'
  <2>1. OneAtATime
      BY <1>2 DEF Counts
  <2>2. CASE Alive
    <3>1. busy' = busy /\ Held' = Held /\ ~GivenUp
        BY <1>1, <2>2 DEF Held, GivenUp
    <3> QED
        BY <1>1, <1>5, <1>7, <1>8, <2>1, <2>2, <3>1 DEF OneAtATime
  <2>3. CASE ~Alive
    <3>1. busy' = FALSE /\ GivenUp' /\ ~Serving'
        BY <1>1, <1>7, <2>3 DEF GivenUp
    <3> QED
        BY <1>1, <1>5, <1>7, <1>8, <2>1, <2>3, <3>1 DEF OneAtATime
  <2> QED
      BY <2>2, <2>3
<1>10. Previews'
  <2>1. busy' => busy
      BY <1>1
  <2> QED
      BY <1>1, <1>2, <1>7, <2>1 DEF Counts, Previews
<1>11. Lines'
    BY <1>1, <1>2, <1>7, <1>8 DEF Counts, Lines
<1>12. DeathIsLast'
  <2>1. Has(batch', Deaths) => ~Alive
      BY <1>1, <1>2 DEF Counts, DeathIsLast
  <2> QED
      BY <1>1, <1>2, <1>7, <2>1 DEF Counts, DeathIsLast
<1>13. OwnCommit'
    BY <1>1, <1>2, <1>4, <1>5 DEF Counts, OwnCommit
<1> QED
    BY <1>6, <1>9, <1>10, <1>11, <1>12, <1>13 DEF Counts, WorkerInv

\* A Stop begins.
LEMMA CloseStarts == ASSUME WorkerInv, CloseStart PROVE WorkerInv'
<1> DEFINE m == Message("shutdown", 0, TRUE)
<1>1. /\ pollPc = "idle" /\ closePc = "open" /\ closePc' = "joining"
      /\ stopSignal' = (Alive /\ busy)
      /\ \/ Alive /\ ~busy /\ commands' = Append(commands, m)
         \/ commands' = commands
      /\ ready' = ready /\ busy' = busy /\ previewPending' = previewPending
      /\ request' = request /\ received' = received
      /\ completions' = completions /\ reportedDrops' = reportedDrops
      /\ pollPc' = pollPc /\ batch' = batch /\ waitingInput' = waitingInput
      /\ inputs' = inputs /\ events' = events /\ outBuffer' = outBuffer /\ outPipe' = outPipe
      /\ dropped' = dropped /\ dropLock' = dropLock /\ child' = child
    BY DEF CloseStart, UiFree, Put, parentVars, outVars
<1>2. /\ Types /\ Counts /\ OutputIsCounted /\ commands \in Seq(MessageType)
      /\ request \in 0..MaxRequest /\ MaxRequest \in Nat
    BY Typed DEF WorkerInv
<1>3. m \in MessageType /\ m.op = "shutdown"
    BY <1>2 DEF Message, MessageType
<1> HIDE DEF m
<1>4. /\ commands' \in Seq(MessageType) /\ ToSet(commands') \subseteq ToSet(commands) \cup {m}
      /\ commands # <<>> => Head(commands') = Head(commands)
      /\ JobsIn(commands') = JobsIn(commands) /\ CommitsIn(commands') = CommitsIn(commands)
      /\ PreviewsIn(commands') = PreviewsIn(commands)
      /\ commands' = commands \/ ShutdownsIn(commands') = ShutdownsIn(commands) + 1
  <2>1. CASE commands' = commands
      BY <1>2, <2>1
  <2>2. CASE commands' = Append(commands, m)
    <3>1. PICK job \in {0, 1}, commit \in {0, 1}, preview \in {0, 1}, shutdown \in {0, 1} :
         /\ JobsIn(commands') = JobsIn(commands) + job /\ (job = 1 <=> m.op \in Jobs)
         /\ CommitsIn(commands') = CommitsIn(commands) + commit /\ (commit = 1 <=> m.op = "commit")
         /\ PreviewsIn(commands') = PreviewsIn(commands) + preview /\ (preview = 1 <=> m.op = "complete")
         /\ ShutdownsIn(commands') = ShutdownsIn(commands) + shutdown /\ (shutdown = 1 <=> m.op = "shutdown")
        BY <1>2, <1>3, <2>2, MessageAppended
    <3>2. job = 0 /\ commit = 0 /\ preview = 0 /\ shutdown = 1
        BY <1>3, <3>1 DEF Jobs
    <3>3. /\ JobsIn(commands) \in Nat /\ CommitsIn(commands) \in Nat
          /\ PreviewsIn(commands) \in Nat /\ ShutdownsIn(commands) \in Nat
        BY <1>2, Counted
    <3> QED
        BY <1>2, <1>3, <2>2, <3>1, <3>2, <3>3, MessageAppended
  <2> QED
      BY <1>1, <2>1, <2>2
<1>5. /\ InProcess' = InProcess /\ Held' = Held /\ PreviewInProcess' = PreviewInProcess
      /\ PreviewHeld' = PreviewHeld /\ LineHeld' = LineHeld
      /\ Waits' = Waits /\ Commits' = Commits /\ Asked' = Asked
      /\ (Serving' <=> Serving) /\ (Alive' <=> Alive) /\ (GivenUp' <=> GivenUp)
  <2>1. /\ InProcess' = InProcess /\ Held' = Held /\ PreviewInProcess' = PreviewInProcess
        /\ PreviewHeld' = PreviewHeld /\ LineHeld' = LineHeld
        /\ (Serving' <=> Serving) /\ (Alive' <=> Alive) /\ (GivenUp' <=> GivenUp)
      BY <1>1 DEF InProcess, Held, PreviewInProcess, PreviewHeld, LineHeld, Serving, Alive, GivenUp
  <2> QED
      BY <1>1, <1>4, <2>1 DEF Waits, Commits, Asked
<1>6. OneAtATime'
  <2>1. OneAtATime
      BY <1>2 DEF Counts
  <2>2. CASE commands' = commands
      BY <1>1, <1>5, <2>1, <2>2 DEF OneAtATime
  <2>3. CASE commands' # commands
    <3>1. Alive /\ ~busy /\ ShutdownsIn(commands') = ShutdownsIn(commands) + 1
        BY <1>1, <1>4, <2>3
    <3>2. /\ Waits = 0 /\ Commits = 0 /\ EndsIn(batch) = 0 /\ ShutdownsIn(commands) = 0
        BY <1>1, <1>2, <3>1, NothingUnderWay
    <3>3. Waits' + Commits' + EndsIn(batch') + ShutdownsIn(commands') <= 1
        BY <1>1, <1>5, <3>1, <3>2
    <3> QED
        BY <1>1, <1>5, <2>1, <3>1, <3>2, <3>3 DEF OneAtATime
  <2> QED
      BY <2>2, <2>3
<1>7. Previews'
  <2>1. PreviewsIn(commands) > 0 => commands # <<>>
      BY NothingIn
  <2>2. Previews
      BY <1>2 DEF Counts
  <2> QED
      BY <1>1, <1>4, <1>5, <2>1, <2>2 DEF Previews
<1>8. Lines' /\ DeathIsLast'
    BY <1>1, <1>2, <1>5 DEF Counts, Lines, DeathIsLast
<1>9. OwnCommit'
    BY <1>1, <1>2, <1>3, <1>4 DEF Counts, OwnCommit
<1>10. Types'
  <2>1. \A x \in ToSet(commands') : x.op \in {"load", "command", "complete"} =>
           x \in ToSet(commands) \/ x.request \in 1..request'
      BY <1>3, <1>4
  <2>2. \A e \in ToSet(completions) : e \in ToSet(completions)
      OBVIOUS
  <2>3. stopSignal' \in BOOLEAN /\ request' >= request /\ closePc' \in {"open", "joining", "draining", "closed"}
      BY <1>1, <1>2
  <2> QED
      BY <1>1, <1>2, <1>4, <2>1, <2>2, <2>3, OwnerTypes, Typed
<1>11. OutputIsCounted'
  <2>1. NoMoreSent
      BY <1>1, <1>2, SentFalls
  <2>2. \A x \in ToSet(commands') : x.op \in Jobs => x.request \in 1..MaxRequest /\ Sent(x.request) = 0
    <3>1. m.op \notin Jobs
        BY <1>3 DEF Jobs
    <3> QED
        BY <1>2, <1>4, <3>1, QueuedIsUnsent
  <2>3. request' >= request
      BY <1>1, <1>2
  <2> QED
      BY <1>1, <1>2, <1>10, <2>1, <2>2, <2>3, OwnerOutput
<1> QED
    BY <1>6, <1>7, <1>8, <1>9, <1>10, <1>11 DEF Counts, WorkerInv

\* The process is gone, and what it left is read until nothing comes.
LEMMA CloseGoesOn == ASSUME WorkerInv, CloseJoined \/ CloseTake PROVE WorkerInv'
<1>1. /\ Elsewhere /\ commands' = commands /\ events' = events /\ completions' = completions
      /\ previewPending' = previewPending /\ child' = child /\ inputs' = inputs
      /\ waitingInput' = waitingInput /\ stopSignal' = stopSignal
      /\ ready' = ready /\ busy' = busy
      /\ \/ ~Alive /\ closePc' = "draining" /\ pollPc' = pollPc /\ batch' = batch
         \/ /\ closePc = "draining" /\ closePc' \in {"closed", "draining"}
            /\ pollPc = "report" /\ pollPc' = "idle" /\ batch' = <<>>
    BY DEF CloseJoined, CloseTake, parentVars, clientVars, outVars, Elsewhere
<1>2. Types /\ Counts /\ OutputIsCounted
    BY DEF WorkerInv
<1>3. /\ inputs \in Nat /\ batch \in Seq(EventType) /\ <<>> \in Seq(EventType)
      /\ waitingInput \in BOOLEAN /\ ready \in BOOLEAN /\ busy \in BOOLEAN
      /\ stopSignal \in BOOLEAN /\ pollPc \in {"idle", "events", "output", "report"}
    BY <1>2, Typed, EmptySeq
<1>4. /\ batch' \in Seq(EventType) /\ (batch' = batch \/ batch' = <<>>)
      /\ ToSet(batch') \subseteq ToSet(batch) /\ ~Alive
      /\ pollPc' \in {"idle", "events", "output", "report"}
      /\ closePc' \in {"open", "joining", "draining", "closed"}
    BY <1>1, <1>2, <1>3, NothingIn DEF Counts, DeathIsLast
<1>5. Types' /\ OutputIsCounted'
    BY <1>1, <1>2, <1>3, <1>4, ElsewhereKept
<1>6. /\ InProcess' = InProcess /\ Held' = Held /\ PreviewInProcess' = PreviewInProcess
      /\ PreviewHeld' = PreviewHeld /\ LineHeld' = LineHeld /\ Waits' = Waits
      /\ ~Serving' /\ ~Alive' /\ (GivenUp => GivenUp')
    BY <1>1, <1>4 DEF InProcess, Held, PreviewInProcess, PreviewHeld, LineHeld, Waits,
       Serving, Alive, GivenUp
<1>7. /\ EndsIn(batch) \in Nat /\ PreparedIn(batch) \in Nat /\ AsksIn(batch) \in Nat
      /\ CommitsIn(commands) \in Nat /\ PreparedIn(events) \in Nat
      /\ AsksIn(events) \in Nat /\ inputs \in Nat /\ LineHeld \in {0, 1}
      /\ Waits \in Nat /\ Commits \in Nat /\ Held \in {0, 1} /\ ShutdownsIn(commands) \in Nat
    BY <1>2, Counted, Summed
<1>8. /\ EndsIn(batch') \in Nat /\ EndsIn(batch') <= EndsIn(batch)
      /\ PreparedIn(batch') \in Nat /\ PreparedIn(batch') <= PreparedIn(batch)
      /\ AsksIn(batch') \in Nat /\ AsksIn(batch') <= AsksIn(batch)
  <2>1. CASE batch' = batch
      BY <1>7, <2>1
  <2>2. CASE batch' = <<>>
      BY <1>7, <2>2, NothingIn
  <2> QED
      BY <1>4, <2>1, <2>2
<1>9. Commits' \in Nat /\ Commits' <= Commits
  <2>1. PICK c \in Nat, p \in Nat, q \in Nat, r \in Nat :
           /\ c = CommitsIn(commands) /\ p = PreparedIn(events)
           /\ q = PreparedIn(batch) /\ r = PreparedIn(batch')
      BY <1>7, <1>8
  <2>2. Commits = c + p + q /\ Commits' = c + p + r
      BY <1>1, <2>1 DEF Commits
  <2>3. r <= q
      BY <1>8, <2>1
  <2>4. c + p + r \in Nat /\ c + p + r <= c + p + q
      BY <2>3
  <2> QED
      BY <2>2, <2>4
<1>10. Asked' <= Asked /\ Asked' \in Nat /\ Asked \in Nat
  <2>1. PICK a \in Nat, b \in Nat, c \in Nat, l \in Nat, n \in Nat :
           /\ a = AsksIn(events) /\ l = LineHeld /\ n = inputs
           /\ b = AsksIn(batch) /\ c = AsksIn(batch')
      BY <1>7, <1>8
  <2>2. Asked = a + b + l + n /\ Asked' = a + c + l + n
      BY <1>1, <1>6, <2>1 DEF Asked
  <2>3. c <= b
      BY <1>8, <2>1
  <2>4. a + c + l + n \in Nat /\ a + b + l + n \in Nat /\ a + c + l + n <= a + b + l + n
      BY <2>3
  <2> QED
      BY <2>2, <2>4
<1>11. OneAtATime'
  <2>1. OneAtATime
      BY <1>2 DEF Counts
  <2>2. GivenUp' \/ Waits' + Commits' <= Held'
    <3>1. CASE GivenUp
        BY <1>6, <3>1
    <3>2. CASE ~GivenUp
      <4>1. Waits + Commits <= Held
          BY <2>1, <3>2 DEF OneAtATime
      <4>2. PICK v \in Nat, c \in Nat, d \in Nat, h \in Nat :
               v = Waits /\ c = Commits /\ d = Commits' /\ h = Held
          BY <1>7, <1>9
      <4>3. v + c <= h /\ d <= c
          BY <1>9, <4>1, <4>2
      <4>4. v + d <= h
          BY <4>3
      <4> QED
          BY <1>6, <4>2, <4>4
    <3> QED
        BY <3>1, <3>2
  <2>3. Waits' + Commits' + EndsIn(batch') + ShutdownsIn(commands') <= 1
    <3>1. Waits + Commits + EndsIn(batch) + ShutdownsIn(commands) <= 1
        BY <2>1 DEF OneAtATime
    <3>2. PICK v \in Nat, c \in Nat, d \in Nat, b \in Nat, a \in Nat, s \in Nat :
             /\ v = Waits /\ c = Commits /\ d = Commits' /\ s = ShutdownsIn(commands)
             /\ b = EndsIn(batch) /\ a = EndsIn(batch')
        BY <1>7, <1>8, <1>9
    <3>3. v + c + b + s <= 1 /\ d <= c /\ a <= b
        BY <1>8, <1>9, <3>1, <3>2
    <3>4. v + d + a + s <= 1
        BY <3>3
    <3> QED
        BY <1>1, <1>6, <3>2, <3>4
  <2>4. EndsIn(batch') > 0 => ~busy' /\ pollPc' # "idle"
    <3>1. CASE batch' = <<>>
      <4>1. EndsIn(batch') = 0
          BY <3>1, NothingIn
      <4> QED
          BY <4>1
    <3>2. CASE batch' # <<>>
      <4>1. batch' = batch /\ pollPc' = pollPc /\ busy' = busy
          BY <1>1, <1>4, <3>2
      <4> QED
          BY <2>1, <4>1 DEF OneAtATime
    <3> QED
        BY <3>1, <3>2
  <2>5. ShutdownsIn(commands') > 0 => ~busy' /\ closePc' # "open"
      BY <1>1, <2>1 DEF OneAtATime
  <2>6. Waits' + InProcess' <= 1
      BY <1>6, <2>1 DEF OneAtATime
  <2> QED
      BY <1>6, <2>2, <2>3, <2>4, <2>5, <2>6 DEF OneAtATime
<1>12. Previews'
    BY <1>1, <1>2, <1>6 DEF Counts, Previews
<1>13. Lines'
  <2>1. Asked <= 1
      BY <1>2 DEF Counts, Lines
  <2> QED
      BY <1>6, <1>10, <2>1 DEF Lines
<1>14. DeathIsLast'
    BY <1>1, <1>2, <1>4, <1>6 DEF Counts, DeathIsLast
<1>15. OwnCommit'
    BY <1>1, <1>2, <1>4 DEF Counts, OwnCommit
<1> QED
    BY <1>5, <1>11, <1>12, <1>13, <1>14, <1>15 DEF Counts, WorkerInv

-----------------------------------------------------------------------------
(* Steps of the owner that take and pass on results.                       *)

\* An event is taken from the pipe.
PollsEvent(e) ==
    /\ pollPc = "events" /\ pollPc' = pollPc /\ events' = Tail(events)
    /\ request' = request /\ received' = received /\ reportedDrops' = reportedDrops
    /\ closePc' = closePc /\ waitingInput' = waitingInput /\ commands' = commands
    /\ inputs' = inputs /\ outBuffer' = outBuffer /\ outPipe' = outPipe
    /\ dropped' = dropped /\ dropLock' = dropLock /\ stopSignal' = stopSignal
    /\ child' = child
    /\ \/ /\ e.kind \in Ends /\ completions' = Append(completions, e)
          /\ batch' = batch /\ ready' = ready /\ busy' = busy
          /\ previewPending' = previewPending
       \/ /\ e.kind \notin Ends /\ completions' = completions
          /\ batch' = Append(batch, e)
          /\ previewPending' = (previewPending /\ e.kind # "completion")
          /\ ready' = (ready \/ e.kind = "ready")
          /\ busy' = (busy /\ e.kind \notin {"cancelled", "interrupted", "closed"})

\* This is what poll does with the first event.
LEMMA PollEventIs == ASSUME PollEvent PROVE events # <<>> /\ PollsEvent(Head(events))
BY DEF PollEvent, PollsEvent, Releases, outVars

\* What comes after the event, and what was there before it.
LEMMA PollsEventCounts ==
    ASSUME Types, Counts, events # <<>>, PollsEvent(Head(events))
    PROVE  /\ Head(events) \in EventType /\ events' \in Seq(EventType)
           /\ ToSet(events) = {Head(events)} \cup ToSet(events')
           /\ batch' \in Seq(EventType)
           /\ ToSet(batch') \subseteq ToSet(batch) \cup {Head(events)}
           /\ completions' \in Seq(EventType)
           /\ ToSet(completions') \subseteq ToSet(completions) \cup {Head(events)}
           /\ (Head(events) \in ToSet(completions') => Head(events).kind \in Ends \/ completions' = completions)
           /\ PreparedIn(events') + PreparedIn(batch') = PreparedIn(events) + PreparedIn(batch)
           /\ AsksIn(events') + AsksIn(batch') = AsksIn(events) + AsksIn(batch)
           /\ Head(events).kind \in Ends =>
                 /\ EndsIn(events) = EndsIn(events') + 1 /\ Len(completions') = Len(completions) + 1
                 /\ EndsIn(batch') = EndsIn(batch) /\ PreviewedIn(events') = PreviewedIn(events)
           /\ Head(events).kind = "cancelled" =>
                 /\ EndsIn(events) = EndsIn(events') + 1 /\ Len(completions') = Len(completions)
                 /\ EndsIn(batch') = EndsIn(batch) + 1 /\ PreviewedIn(events') = PreviewedIn(events)
           /\ Head(events).kind \notin Ending =>
                 /\ EndsIn(events) = EndsIn(events') /\ Len(completions') = Len(completions)
                 /\ EndsIn(batch') = EndsIn(batch)
           /\ Head(events).kind = "completion" => PreviewedIn(events) = PreviewedIn(events') + 1
           /\ Head(events).kind # "completion" => PreviewedIn(events') = PreviewedIn(events)
<1> DEFINE e == Head(events)
<1>1. /\ events \in Seq(EventType) /\ batch \in Seq(EventType) /\ completions \in Seq(EventType)
      /\ events' = Tail(events) /\ events # <<>>
    BY Typed DEF PollsEvent
<1>2. /\ e \in EventType /\ events' \in Seq(EventType) /\ ToSet(events) = {e} \cup ToSet(events')
    BY <1>1, EventTaken
<1>3. PICK ended \in {0, 1}, prepared \in {0, 1}, previewed \in {0, 1}, asked \in {0, 1} :
         /\ EndsIn(events) = EndsIn(events') + ended /\ (ended = 1 <=> e.kind \in Ending)
         /\ PreparedIn(events) = PreparedIn(events') + prepared /\ (prepared = 1 <=> e.kind = "prepared")
         /\ PreviewedIn(events) = PreviewedIn(events') + previewed /\ (previewed = 1 <=> e.kind = "completion")
         /\ AsksIn(events) = AsksIn(events') + asked /\ (asked = 1 <=> e.kind = "input")
    BY <1>1, EventTaken
<1>4. \/ e.kind \in Ends /\ completions' = Append(completions, e) /\ batch' = batch
      \/ e.kind \notin Ends /\ completions' = completions /\ batch' = Append(batch, e)
    BY DEF PollsEvent
<1> HIDE DEF e
<1>5. /\ EndsIn(events') \in Nat /\ PreparedIn(events') \in Nat /\ PreviewedIn(events') \in Nat
      /\ AsksIn(events') \in Nat
      /\ EndsIn(batch) \in Nat /\ PreparedIn(batch) \in Nat /\ AsksIn(batch) \in Nat
    BY <1>1, <1>2, EventCounts
<1>6. CASE e.kind \in Ends
  <2>1. completions' = Append(completions, e) /\ batch' = batch
      BY <1>4, <1>6
  <2>2. e.kind \in Ending /\ e.kind \notin {"prepared", "completion", "input", "cancelled"}
      BY <1>6 DEF Ends, Ending
  <2>3. ended = 1 /\ prepared = 0 /\ previewed = 0 /\ asked = 0
      BY <1>3, <2>2
  <2>4. /\ completions' \in Seq(EventType) /\ ToSet(completions') = ToSet(completions) \cup {e}
      BY <1>1, <1>2, <2>1, EventAppended
  <2>5. Len(completions') = Len(completions) + 1
      BY <1>1, <1>2, <2>1, AppendProperties
  <2>6. /\ PreparedIn(events') = PreparedIn(events) /\ AsksIn(events') = AsksIn(events)
        /\ PreviewedIn(events') = PreviewedIn(events) /\ EndsIn(events) = EndsIn(events') + 1
      BY <1>3, <1>5, <2>3
  <2> QED
      BY <1>1, <1>2, <1>6, <2>1, <2>2, <2>4, <2>5, <2>6 DEF e
<1>7. CASE e.kind \notin Ends
  <2>1. completions' = completions /\ batch' = Append(batch, e)
      BY <1>4, <1>7
  <2>2. PICK bended \in {0, 1}, bprepared \in {0, 1}, bpreviewed \in {0, 1}, basked \in {0, 1} :
           /\ EndsIn(batch') = EndsIn(batch) + bended /\ (bended = 1 <=> e.kind \in Ending)
           /\ PreparedIn(batch') = PreparedIn(batch) + bprepared /\ (bprepared = 1 <=> e.kind = "prepared")
           /\ PreviewedIn(batch') = PreviewedIn(batch) + bpreviewed /\ (bpreviewed = 1 <=> e.kind = "completion")
           /\ AsksIn(batch') = AsksIn(batch) + basked /\ (basked = 1 <=> e.kind = "input")
      BY <1>1, <1>2, <2>1, EventAppended
  <2>3. batch' \in Seq(EventType) /\ ToSet(batch') = ToSet(batch) \cup {e}
      BY <1>1, <1>2, <2>1, EventAppended
  <2>4. PreparedIn(events') + PreparedIn(batch') = PreparedIn(events) + PreparedIn(batch)
    <3>1. prepared = bprepared
        BY <1>3, <2>2
    <3>2. PICK p \in Nat, b \in Nat : p = PreparedIn(events') /\ b = PreparedIn(batch)
        BY <1>5
    <3>3. PreparedIn(events) = p + prepared /\ PreparedIn(batch') = b + prepared
        BY <1>3, <2>2, <3>1, <3>2
    <3>4. p + (b + prepared) = (p + prepared) + b
        OBVIOUS
    <3> QED
        BY <3>2, <3>3, <3>4
  <2>5. AsksIn(events') + AsksIn(batch') = AsksIn(events) + AsksIn(batch)
    <3>1. asked = basked
        BY <1>3, <2>2
    <3>2. PICK p \in Nat, b \in Nat : p = AsksIn(events') /\ b = AsksIn(batch)
        BY <1>5
    <3>3. AsksIn(events) = p + asked /\ AsksIn(batch') = b + asked
        BY <1>3, <2>2, <3>1, <3>2
    <3>4. p + (b + asked) = (p + asked) + b
        OBVIOUS
    <3> QED
        BY <3>2, <3>3, <3>4
  <2>6. e.kind = "cancelled" =>
           /\ EndsIn(events) = EndsIn(events') + 1 /\ EndsIn(batch') = EndsIn(batch) + 1
      BY <1>3, <2>2 DEF Ending
  <2>7. e.kind \notin Ending => EndsIn(events) = EndsIn(events') /\ EndsIn(batch') = EndsIn(batch)
    <3>1. SUFFICES ASSUME e.kind \notin Ending
                   PROVE  EndsIn(events) = EndsIn(events') /\ EndsIn(batch') = EndsIn(batch)
        OBVIOUS
    <3>2. ended = 0 /\ bended = 0
        BY <1>3, <2>2, <3>1
    <3>3. EndsIn(events) = EndsIn(events') + 0 /\ EndsIn(batch') = EndsIn(batch) + 0
        BY <1>3, <2>2, <3>2
    <3> QED
        BY <1>5, <3>3
  <2>8. /\ e.kind = "completion" => PreviewedIn(events) = PreviewedIn(events') + 1
        /\ e.kind # "completion" => PreviewedIn(events') = PreviewedIn(events)
    <3>1. CASE e.kind = "completion"
        BY <1>3, <3>1
    <3>2. CASE e.kind # "completion"
      <4>1. previewed = 0 /\ PreviewedIn(events) = PreviewedIn(events') + previewed
          BY <1>3, <3>2
      <4> QED
          BY <1>5, <3>2, <4>1
    <3> QED
        BY <3>1, <3>2
  <2>9. e.kind = "cancelled" => e.kind # "completion"
      OBVIOUS
  <2>10. /\ batch' \in Seq(EventType) /\ ToSet(batch') \subseteq ToSet(batch) \cup {e}
         /\ completions' \in Seq(EventType) /\ ToSet(completions') \subseteq ToSet(completions) \cup {e}
         /\ Len(completions') = Len(completions)
      BY <1>1, <2>1, <2>3
  <2> QED
      BY <1>1, <1>2, <1>7, <2>1, <2>4, <2>5, <2>6, <2>7, <2>8, <2>9, <2>10 DEF e
<1> QED
    BY <1>6, <1>7

\* The invariant of the session after it.
LEMMA PollsAnEvent == ASSUME WorkerInv, PollEvent PROVE WorkerInv'
<1> DEFINE e == Head(events)
<1>1. Types /\ Counts /\ OutputIsCounted /\ events # <<>> /\ PollsEvent(e)
    BY PollEventIs DEF WorkerInv
<1>2. /\ e \in EventType /\ events' \in Seq(EventType)
      /\ ToSet(events) = {e} \cup ToSet(events')
      /\ batch' \in Seq(EventType) /\ ToSet(batch') \subseteq ToSet(batch) \cup {e}
      /\ completions' \in Seq(EventType)
      /\ ToSet(completions') \subseteq ToSet(completions) \cup {e}
      /\ (e \in ToSet(completions') => e.kind \in Ends \/ completions' = completions)
    BY <1>1, PollsEventCounts
<1>3. /\ PreparedIn(events') + PreparedIn(batch') = PreparedIn(events) + PreparedIn(batch)
      /\ AsksIn(events') + AsksIn(batch') = AsksIn(events) + AsksIn(batch)
    BY <1>1, PollsEventCounts
<1>4. /\ e.kind \in Ends => /\ EndsIn(events) = EndsIn(events') + 1
                            /\ Len(completions') = Len(completions) + 1
                            /\ EndsIn(batch') = EndsIn(batch)
      /\ e.kind = "cancelled" => /\ EndsIn(events) = EndsIn(events') + 1
                                 /\ Len(completions') = Len(completions)
                                 /\ EndsIn(batch') = EndsIn(batch) + 1
      /\ e.kind \notin Ending => /\ EndsIn(events) = EndsIn(events')
                                 /\ Len(completions') = Len(completions)
                                 /\ EndsIn(batch') = EndsIn(batch)
    BY <1>1, PollsEventCounts
<1>5. /\ e.kind \in Ends \/ e.kind = "cancelled" => PreviewedIn(events') = PreviewedIn(events)
      /\ e.kind = "completion" => PreviewedIn(events) = PreviewedIn(events') + 1
      /\ e.kind # "completion" => PreviewedIn(events') = PreviewedIn(events)
    BY <1>1, PollsEventCounts
<1> HIDE DEF e
<1>6. /\ pollPc = "events" /\ pollPc' = pollPc
      /\ request' = request /\ received' = received /\ reportedDrops' = reportedDrops
      /\ closePc' = closePc /\ waitingInput' = waitingInput /\ commands' = commands
      /\ inputs' = inputs /\ outBuffer' = outBuffer /\ outPipe' = outPipe
      /\ dropped' = dropped /\ dropLock' = dropLock /\ stopSignal' = stopSignal
      /\ child' = child
    BY <1>1 DEF PollsEvent
<1>7. \/ /\ e.kind \in Ends /\ completions' = Append(completions, e)
         /\ batch' = batch /\ ready' = ready /\ busy' = busy
         /\ previewPending' = previewPending
      \/ /\ e.kind \notin Ends /\ completions' = completions
         /\ batch' = Append(batch, e)
         /\ previewPending' = (previewPending /\ e.kind # "completion")
         /\ ready' = (ready \/ e.kind = "ready")
         /\ busy' = (busy /\ e.kind \notin {"cancelled", "interrupted", "closed"})
    BY <1>1 DEF PollsEvent
<1>8. /\ JobsIn(commands) \in Nat /\ CommitsIn(commands) \in Nat /\ PreviewsIn(commands) \in Nat
      /\ ShutdownsIn(commands) \in Nat /\ EndsIn(events) \in Nat /\ PreparedIn(events) \in Nat
      /\ PreviewedIn(events) \in Nat /\ AsksIn(events) \in Nat
      /\ EndsIn(batch) \in Nat /\ PreparedIn(batch) \in Nat /\ AsksIn(batch) \in Nat
      /\ Len(completions) \in Nat /\ inputs \in Nat
    BY <1>1, Counted
<1>9. /\ EndsIn(events') \in Nat /\ PreparedIn(events') \in Nat /\ AsksIn(events') \in Nat
      /\ PreviewedIn(events') \in Nat
      /\ EndsIn(batch') \in Nat /\ PreparedIn(batch') \in Nat /\ AsksIn(batch') \in Nat
    BY <1>2, EventCounts
<1>10. /\ Waits \in Nat /\ Commits \in Nat /\ Held \in {0, 1} /\ (Held = 1 <=> busy)
       /\ InProcess \in {0, 1} /\ PreviewHeld \in {0, 1} /\ (PreviewHeld = 1 <=> previewPending)
       /\ PreviewInProcess \in {0, 1} /\ LineHeld \in {0, 1}
    BY <1>1, Summed
<1>11. /\ InProcess' = InProcess /\ PreviewInProcess' = PreviewInProcess /\ LineHeld' = LineHeld
       /\ (Serving' <=> Serving) /\ (Alive' <=> Alive) /\ (Serving => Alive)
       /\ (GivenUp <=> ~Alive) /\ (GivenUp' <=> ~Alive)
    BY <1>6 DEF InProcess, PreviewInProcess, LineHeld, Serving, Alive, GivenUp
<1>12. Commits' = Commits
  <2>1. PICK c \in Nat, p \in Nat, q \in Nat, r \in Nat, s \in Nat :
           /\ c = CommitsIn(commands) /\ p = PreparedIn(events) /\ q = PreparedIn(batch)
           /\ r = PreparedIn(events') /\ s = PreparedIn(batch')
      BY <1>8, <1>9
  <2>2. r + s = p + q
      BY <1>3, <2>1
  <2>3. c + r + s = c + p + q
      BY <2>2
  <2>4. Commits = c + p + q /\ Commits' = c + r + s
      BY <1>6, <2>1 DEF Commits
  <2> QED
      BY <2>3, <2>4
<1>13. Asked' = Asked
  <2>1. PICK p \in Nat, q \in Nat, r \in Nat, s \in Nat, l \in Nat, n \in Nat :
           /\ l = LineHeld /\ n = inputs /\ p = AsksIn(events) /\ q = AsksIn(batch)
           /\ r = AsksIn(events') /\ s = AsksIn(batch')
      BY <1>8, <1>9, <1>10
  <2>2. r + s = p + q
      BY <1>3, <2>1
  <2>3. r + s + l + n = p + q + l + n
      BY <2>2
  <2>4. Asked = p + q + l + n /\ Asked' = r + s + l + n
      BY <1>6, <1>11, <2>1 DEF Asked
  <2> QED
      BY <2>3, <2>4
<1>14. /\ Waits + InProcess <= 1
       /\ Serving => Waits + InProcess = Held
       /\ GivenUp \/ Waits + Commits <= Held
       /\ Alive /\ child.pc # "awaitCommit" => Commits = 0
       /\ Waits + Commits + EndsIn(batch) + ShutdownsIn(commands) <= 1
       /\ EndsIn(batch) > 0 => ~busy /\ pollPc # "idle"
       /\ ShutdownsIn(commands) > 0 => ~busy /\ closePc # "open"
    BY <1>1 DEF Counts, OneAtATime
<1>15. e.kind \in {"interrupted", "closed"} => ~Serving /\ ~Alive
  <2>1. e.kind \in Deaths => child.pc = "exited"
      BY <1>1, <1>2 DEF Counts, DeathIsLast, Has
  <2> QED
      BY <2>1 DEF Deaths, Serving, Alive
<1>16. /\ e.kind # "cancelled" => Waits' = Waits /\ EndsIn(batch') = EndsIn(batch)
       /\ e.kind = "cancelled" => Waits = Waits' + 1 /\ EndsIn(batch') = EndsIn(batch) + 1
       /\ Waits' \in Nat
  <2>1. PICK j \in Nat, p \in Nat, r \in Nat, l \in Nat :
           /\ j = JobsIn(commands) /\ p = EndsIn(events) /\ r = EndsIn(events')
           /\ l = Len(completions)
      BY <1>8, <1>9
  <2>2. Waits = j + p + l /\ Waits' = j + r + Len(completions')
      BY <1>6, <2>1 DEF Waits
  <2>3. CASE e.kind \in Ends
    <3>1. p = r + 1 /\ Len(completions') = l + 1 /\ e.kind # "cancelled"
        BY <1>4, <2>1, <2>3 DEF Ends
    <3>2. j + r + (l + 1) = j + (r + 1) + l /\ j + (r + 1) + l \in Nat
        OBVIOUS
    <3> QED
        BY <1>4, <2>2, <2>3, <3>1, <3>2
  <2>4. CASE e.kind = "cancelled"
    <3>1. p = r + 1 /\ Len(completions') = l
        BY <1>4, <2>1, <2>4
    <3>2. j + (r + 1) + l = (j + r + l) + 1 /\ j + r + l \in Nat
        OBVIOUS
    <3> QED
        BY <1>4, <2>2, <2>4, <3>1, <3>2
  <2>5. CASE e.kind \notin Ending
    <3>1. p = r /\ Len(completions') = l
        BY <1>4, <2>1, <2>5
    <3>2. j + r + l \in Nat /\ e.kind # "cancelled"
        BY <2>5 DEF Ending
    <3> QED
        BY <1>4, <2>2, <2>5, <3>1, <3>2
  <2> QED
      BY <2>3, <2>4, <2>5 DEF Ending, Ends
<1>17. OneAtATime'
  <2>1. CASE e.kind = "cancelled"
    <3>1. ~busy' /\ Held' = 0
        BY <1>7, <2>1 DEF Ends, Held
    <3>2. PICK v \in Nat, c \in Nat, b \in Nat, s \in Nat, i \in Nat :
             /\ v = Waits' /\ c = Commits /\ b = EndsIn(batch) /\ s = ShutdownsIn(commands)
             /\ i = InProcess
        BY <1>8, <1>10, <1>16
    <3>3. Waits = v + 1 /\ EndsIn(batch') = b + 1
        BY <1>16, <2>1, <3>2
    <3>4. v + 1 + i <= 1 /\ v + 1 + c + b + s <= 1
        BY <1>14, <3>2, <3>3
    <3>5. v = 0 /\ i = 0 /\ c = 0 /\ b = 0 /\ s = 0
        BY <3>4
    <3> QED
        BY <1>6, <1>11, <1>12, <3>1, <3>2, <3>3, <3>5 DEF OneAtATime
  <2>2. CASE e.kind \in {"interrupted", "closed"}
    <3>1. ~busy' /\ ~Serving' /\ GivenUp' /\ ~Alive'
        BY <1>7, <1>11, <1>15, <2>2 DEF Ends
    <3>2. Waits' = Waits /\ EndsIn(batch') = EndsIn(batch)
        BY <1>16, <2>2
    <3> QED
        BY <1>6, <1>11, <1>12, <1>14, <3>1, <3>2 DEF OneAtATime
  <2>3. CASE e.kind \notin {"cancelled", "interrupted", "closed"}
    <3>1. busy' = busy /\ Held' = Held
        BY <1>1, <1>7, <2>3, Typed DEF Held
    <3>2. Waits' = Waits /\ EndsIn(batch') = EndsIn(batch)
        BY <1>16, <2>3
    <3> QED
        BY <1>6, <1>11, <1>12, <1>14, <3>1, <3>2 DEF OneAtATime
  <2> QED
      BY <2>1, <2>2, <2>3
<1>18. Previews'
  <2>1. /\ PreviewsIn(commands) + PreviewInProcess + PreviewedIn(events) <= PreviewHeld
        /\ busy /\ PreviewsIn(commands) > 0 => JobsIn(commands) = 1 /\ Head(commands).op = "complete"
      BY <1>1 DEF Counts, Previews
  <2>2. busy' => busy
      BY <1>7
  <2>3. PreviewsIn(commands) + PreviewInProcess + PreviewedIn(events') <= PreviewHeld'
    <3>1. PICK a \in Nat, b \in Nat, c \in Nat, h \in {0, 1} :
             /\ a = PreviewsIn(commands) /\ b = PreviewInProcess /\ c = PreviewedIn(events')
             /\ h = PreviewHeld
        BY <1>8, <1>9, <1>10
    <3>2. CASE e.kind = "completion"
      <4>1. a + b + (c + 1) <= h
          BY <1>5, <2>1, <3>1, <3>2
      <4>2. a + b + c = 0
          BY <4>1
      <4>3. PreviewHeld' = 0
          BY <1>7, <3>2 DEF PreviewHeld, Ends
      <4> QED
          BY <3>1, <4>2, <4>3
    <3>3. CASE e.kind # "completion"
      <4>1. PreviewHeld' = PreviewHeld
          BY <1>1, <1>7, <3>3, Typed DEF PreviewHeld
      <4> QED
          BY <1>5, <2>1, <3>3, <4>1
    <3> QED
        BY <3>2, <3>3
  <2> QED
      BY <1>6, <1>11, <2>1, <2>2, <2>3 DEF Previews
<1>19. Lines'
    BY <1>1, <1>6, <1>11, <1>13 DEF Counts, Lines
<1>20. DeathIsLast'
  <2>1. DeathIsLast
      BY <1>1 DEF Counts
  <2>2. /\ Has(events', Deaths) => Has(events, Deaths)
        /\ Has(batch', Deaths) => Has(batch, Deaths) \/ e.kind \in Deaths
      BY <1>2 DEF Has
  <2> QED
      BY <1>6, <1>11, <1>15, <2>1, <2>2 DEF DeathIsLast, Deaths
<1>21. OwnCommit'
    BY <1>1, <1>2, <1>6 DEF Counts, OwnCommit
<1>22. \A x \in ToSet(completions') : x \in ToSet(completions) \/ (x \in ToSet(events) /\ x.kind \in Ends)
    BY <1>2
<1>23. \A x \in ToSet(batch') : x.kind \in Ends => x \in ToSet(batch)
    BY <1>2, <1>7
<1>24. Types'
  <2>1. \A x \in ToSet(commands) : x \in ToSet(commands)
      OBVIOUS
  <2>2. /\ ready' \in BOOLEAN /\ busy' \in BOOLEAN /\ previewPending' \in BOOLEAN
        /\ request \in 0..MaxRequest /\ request' >= request
    <3>1. /\ ready \in BOOLEAN /\ busy \in BOOLEAN /\ previewPending \in BOOLEAN
          /\ request \in 0..MaxRequest /\ MaxRequest \in Nat
        BY <1>1, Typed
    <3>2. request' >= request
        BY <1>6, <3>1
    <3> QED
        BY <1>7, <3>1, <3>2
  <2>3. ToSet(events') \subseteq ToSet(events)
      BY <1>2
  <2> QED
      BY <1>1, <1>2, <1>6, <1>22, <1>23, <2>1, <2>2, <2>3, OwnerTypes, Typed
<1>25. OutputIsCounted'
  <2>1. NoMoreSent
      BY <1>1, <1>6, SentFalls
  <2>2. \A x \in ToSet(commands') : x.op \in Jobs => x.request \in 1..MaxRequest /\ Sent(x.request) = 0
      BY <1>1, <1>6, QueuedIsUnsent
  <2>3. request' >= request /\ ToSet(events') \subseteq ToSet(events)
      BY <1>1, <1>2, <1>6, Typed
  <2> QED
      BY <1>1, <1>6, <1>22, <1>23, <1>24, <2>1, <2>2, <2>3, OwnerOutput
<1> QED
    BY <1>17, <1>18, <1>19, <1>20, <1>21, <1>24, <1>25 DEF Counts, WorkerInv

\* What an event of another kind changes in a batch.
LEMMA AppendedAside ==
    ASSUME NEW q \in Seq(EventType), NEW e \in EventType,
           e.kind \notin Ending \cup {"prepared", "input"}
    PROVE  /\ Append(q, e) \in Seq(EventType) /\ ToSet(Append(q, e)) = ToSet(q) \cup {e}
           /\ EndsIn(Append(q, e)) = EndsIn(q) /\ PreparedIn(Append(q, e)) = PreparedIn(q)
           /\ AsksIn(Append(q, e)) = AsksIn(q)
<1> DEFINE a == Append(q, e)
<1>1. PICK ended \in {0, 1}, prepared \in {0, 1}, previewed \in {0, 1}, asked \in {0, 1} :
         /\ EndsIn(a) = EndsIn(q) + ended /\ (ended = 1 <=> e.kind \in Ending)
         /\ PreparedIn(a) = PreparedIn(q) + prepared /\ (prepared = 1 <=> e.kind = "prepared")
         /\ PreviewedIn(a) = PreviewedIn(q) + previewed /\ (previewed = 1 <=> e.kind = "completion")
         /\ AsksIn(a) = AsksIn(q) + asked /\ (asked = 1 <=> e.kind = "input")
    BY EventAppended
<1>2. ended = 0 /\ prepared = 0 /\ asked = 0
    BY <1>1
<1>3. EndsIn(q) \in Nat /\ PreparedIn(q) \in Nat /\ AsksIn(q) \in Nat
    BY EventCounts
<1>4. a \in Seq(EventType) /\ ToSet(a) = ToSet(q) \cup {e}
    BY EventAppended
<1> HIDE DEF a
<1>5. EndsIn(a) = EndsIn(q) /\ PreparedIn(a) = PreparedIn(q) /\ AsksIn(a) = AsksIn(q)
    BY <1>1, <1>2, <1>3
<1> QED
    BY <1>4, <1>5 DEF a

\* A chunk of output is taken.
LEMMA PollsOutput == ASSUME WorkerInv, PollOutput PROVE WorkerInv'
<1> DEFINE o == Head(outPipe)
           e == Event("output", o, 0)
<1>1. /\ pollPc = "output" /\ outPipe # <<>> /\ outPipe' = Tail(outPipe)
      /\ received' = [received EXCEPT ![o] = received[o] + 1]
      /\ batch' = Append(batch, e)
      /\ ready' = ready /\ busy' = busy /\ previewPending' = previewPending
      /\ request' = request /\ completions' = completions /\ reportedDrops' = reportedDrops
      /\ pollPc' = pollPc /\ closePc' = closePc /\ waitingInput' = waitingInput
      /\ commands' = commands /\ inputs' = inputs /\ events' = events
      /\ outBuffer' = outBuffer /\ dropped' = dropped /\ dropLock' = dropLock
      /\ stopSignal' = stopSignal /\ child' = child
    BY DEF PollOutput
<1>2. /\ Types /\ Counts /\ OutputIsCounted
    BY DEF WorkerInv
<1>3. /\ commands \in Seq(MessageType) /\ events \in Seq(EventType)
      /\ completions \in Seq(EventType) /\ batch \in Seq(EventType)
      /\ outBuffer \in Seq(1..MaxRequest) /\ outPipe \in Seq(1..MaxRequest)
      /\ request \in 0..MaxRequest /\ MaxRequest \in Nat
      /\ received \in [1..MaxRequest -> Nat]
    BY <1>2, Typed
<1>4. o \in 1..MaxRequest /\ outPipe' \in Seq(1..MaxRequest)
    BY <1>1, <1>3, OutputCounts
<1>5. e \in EventType /\ e.kind = "output"
    BY <1>4 DEF Event, EventType, Kinds
<1> HIDE DEF e, o
<1>6. /\ batch' \in Seq(EventType) /\ ToSet(batch') = ToSet(batch) \cup {e}
      /\ EndsIn(batch') = EndsIn(batch) /\ PreparedIn(batch') = PreparedIn(batch)
      /\ AsksIn(batch') = AsksIn(batch)
  <2>1. e.kind \notin Ending \cup {"prepared", "input"}
      BY <1>5 DEF Ending
  <2> QED
      BY <1>1, <1>3, <1>5, <2>1, AppendedAside
<1>7. received[o] + 1 \in Nat /\ received' \in [1..MaxRequest -> Nat]
  <2>1. received[o] + 1 \in Nat
      BY <1>3, <1>4
  <2> QED
      BY <1>1, <1>3, <1>4, <2>1
<1>8. Types'
  <2>1. /\ ready \in BOOLEAN /\ busy \in BOOLEAN /\ previewPending \in BOOLEAN
        /\ waitingInput \in BOOLEAN /\ stopSignal \in BOOLEAN /\ inputs \in Nat
        /\ pollPc \in {"idle", "events", "output", "report"}
        /\ closePc \in {"open", "joining", "draining", "closed"} /\ reportedDrops \in Nat
        /\ request' >= request
      BY <1>1, <1>2, <1>3, Typed
  <2>2. \A x \in ToSet(batch') : x.kind \in Ends => x \in ToSet(batch) \cup ToSet(completions)
      BY <1>5, <1>6 DEF Ends
  <2> QED
      BY <1>1, <1>2, <1>3, <1>4, <1>6, <1>7, <2>1, <2>2, OwnerTypes
<1>9. NoMoreSent
  <2> SUFFICES ASSUME NEW r \in 1..MaxRequest
               PROVE  /\ Sent(r) \in Nat
                      /\ SentOf(outBuffer', outPipe', received', r) \in Nat
                      /\ SentOf(outBuffer', outPipe', received', r) <= Sent(r)
                      /\ OutputIn(outBuffer, r) = 0 /\ OutputIn(outPipe, r) = 0 =>
                            OutputIn(outBuffer', r) = 0 /\ OutputIn(outPipe', r) = 0
      BY DEF NoMoreSent
  <2>1. PICK n \in {0, 1} : OutputIn(outPipe, r) = OutputIn(outPipe', r) + n /\ (n = 1 <=> o = r)
    <3> DEFINE t == Tail(outPipe)
    <3>1. outPipe \in Seq(1..MaxRequest) /\ outPipe # <<>> /\ outPipe' = t
        BY <1>1, <1>3
    <3>2. \E n \in {0, 1} : OutputIn(outPipe, r) = OutputIn(t, r) + n /\ (n = 1 <=> o = r)
        BY <3>1, ChunkTaken DEF o
    <3> HIDE DEF t
    <3> QED
        BY <3>1, <3>2
  <2>2. PICK b \in Nat, p \in Nat, v \in Nat :
           b = OutputIn(outBuffer, r) /\ p = OutputIn(outPipe', r) /\ v = received[r]
      BY <1>3, <1>4, OutputCounts
  <2>3. received'[r] = v + n
    <3>1. CASE o = r
        BY <1>1, <1>3, <2>1, <2>2, <3>1
    <3>2. CASE o # r
        BY <1>1, <1>3, <2>1, <2>2, <3>2
    <3> QED
        BY <3>1, <3>2
  <2>4. b + p + (v + n) = b + (p + n) + v /\ b + (p + n) + v \in Nat
      OBVIOUS
  <2>5. Sent(r) = b + (p + n) + v /\ SentOf(outBuffer', outPipe', received', r) = b + p + (v + n)
      BY <1>1, <2>1, <2>2, <2>3 DEF Sent, SentOf
  <2>6. OutputIn(outPipe, r) = 0 => p = 0
      BY <2>1, <2>2
  <2>7. Sent(r) \in Nat /\ SentOf(outBuffer', outPipe', received', r) \in Nat
      BY <2>4, <2>5
  <2>8. SentOf(outBuffer', outPipe', received', r) <= Sent(r)
      BY <2>4, <2>5
  <2>9. OutputIn(outBuffer, r) = 0 /\ OutputIn(outPipe, r) = 0 =>
           OutputIn(outBuffer', r) = 0 /\ OutputIn(outPipe', r) = 0
      BY <1>1, <2>2, <2>6
  <2> QED
      BY <2>7, <2>8, <2>9
<1>10. OutputIsCounted'
  <2>1. \A m \in ToSet(commands') : m.op \in Jobs => m.request \in 1..MaxRequest /\ Sent(m.request) = 0
      BY <1>1, <1>2, QueuedIsUnsent
  <2>2. \A x \in ToSet(batch') : x.kind \in Ends => x \in ToSet(batch)
      BY <1>5, <1>6 DEF Ends
  <2>3. request' >= request
      BY <1>1, <1>3
  <2> QED
      BY <1>1, <1>2, <1>8, <1>9, <2>1, <2>2, <2>3, OwnerOutput
<1>11. /\ InProcess' = InProcess /\ PreviewInProcess' = PreviewInProcess /\ Held' = Held
       /\ PreviewHeld' = PreviewHeld /\ LineHeld' = LineHeld
       /\ (Serving' <=> Serving) /\ (Alive' <=> Alive) /\ (GivenUp' <=> GivenUp)
    BY <1>1 DEF InProcess, PreviewInProcess, Held, PreviewHeld, LineHeld, Serving, Alive, GivenUp
<1>12. Waits' = Waits /\ Commits' = Commits /\ Asked' = Asked
    BY <1>1, <1>6, <1>11 DEF Waits, Commits, Asked
<1>13. OneAtATime'
    BY <1>1, <1>2, <1>6, <1>11, <1>12 DEF Counts, OneAtATime
<1>14. Previews'
    BY <1>1, <1>2, <1>11 DEF Counts, Previews
<1>15. Lines'
    BY <1>1, <1>2, <1>11, <1>12 DEF Counts, Lines
<1>16. DeathIsLast'
  <2>1. Has(batch', Deaths) => Has(batch, Deaths)
      BY <1>5, <1>6 DEF Has, Deaths
  <2> QED
      BY <1>1, <1>2, <1>11, <2>1 DEF Counts, DeathIsLast
<1>17. OwnCommit'
    BY <1>1, <1>2, <1>5, <1>6 DEF Counts, OwnCommit
<1> QED
    BY <1>8, <1>10, <1>13, <1>14, <1>15, <1>16, <1>17 DEF Counts, WorkerInv

\* How a poll ends: the end that waits is told of, or goes on to wait; and
\* dropped output may be told of.
PollsEnd(c, mid) ==
    /\ pollPc = "output" /\ pollPc' = "report" /\ reportedDrops' = dropped
    /\ \/ batch' = mid
       \/ batch' = Append(mid, Event("truncated", 0, 0))
    /\ \/ /\ mid = batch /\ completions' = completions /\ busy' = busy
          /\ received' = received
       \/ /\ c \in ToSet(completions) /\ c.written <= received[c.request]
          /\ mid = Append(batch, c)
          /\ Len(completions) = 1 /\ completions' = <<>> /\ busy' = FALSE
          /\ received' = [r \in 1..MaxRequest |-> IF c.request = r THEN 0 ELSE received[r]]

\* A sequence of one element.
LEMMA OnlyElement ==
    ASSUME NEW X, NEW q \in Seq(X), Len(q) = 1
    PROVE  <<q[1]>> = q
<1>1. q[1] \in X
  <2>1. 1 \in 1..Len(q)
      OBVIOUS
  <2> QED
      BY <2>1, ElementOfSeq
<1>2. <<q[1]>> \in Seq(X) /\ Len(<<q[1]>>) = 1 /\ <<q[1]>>[1] = q[1]
    BY <1>1
<1>3. \A i \in 1..Len(q) : <<q[1]>>[i] = q[i]
    BY <1>2
<1> DEFINE s == <<q[1]>>
<1>4. s \in Seq(X) /\ Len(s) = Len(q) /\ \A i \in 1..Len(s) : s[i] = q[i]
    BY <1>2, <1>3
<1> HIDE DEF s
<1>5. s = q
    BY <1>4, SeqEqual
<1> QED
    BY <1>5 DEF s

\* The step is one of these.
LEMMA PollEndIs ==
    ASSUME Types, Len(completions) <= 1, PollEnd
    PROVE  \E c, mid : PollsEnd(c, mid)
<1> DEFINE done == Kept(completions, {e \in ToSet(completions) : AllIn(e)})
           left == Kept(completions, {e \in ToSet(completions) : ~AllIn(e)})
           c == completions[1]
           more == IF dropped > reportedDrops THEN <<Event("truncated", 0, 0)>> ELSE <<>>
<1>1. /\ pollPc = "output" /\ pollPc' = "report" /\ reportedDrops' = dropped
      /\ completions' = left /\ batch' = batch \o done \o more
      /\ received' = [r \in DOMAIN received |->
                        IF \E i \in 1..Len(done) : done[i].request = r THEN 0 ELSE received[r]]
      /\ busy' = (busy /\ done = <<>>)
    BY DEF PollEnd
<1>2. /\ completions \in Seq(EventType) /\ batch \in Seq(EventType) /\ MaxRequest \in Nat
      /\ received \in [1..MaxRequest -> Nat] /\ busy \in BOOLEAN
    BY Typed
<1>3. Len(completions) \in Nat
    BY <1>2, LenProperties
<1>4. \/ done = completions /\ ToSet(completions) \subseteq {e \in ToSet(completions) : AllIn(e)}
      \/ done = <<>> /\ ToSet(completions) \cap {e \in ToSet(completions) : AllIn(e)} = {}
    BY <1>2, KeptOfOne
<1>5. \/ left = completions /\ ToSet(completions) \subseteq {e \in ToSet(completions) : ~AllIn(e)}
      \/ left = <<>> /\ ToSet(completions) \cap {e \in ToSet(completions) : ~AllIn(e)} = {}
    BY <1>2, KeptOfOne
<1> HIDE DEF done, left
<1>6. Event("truncated", 0, 0) \in EventType
    BY <1>2 DEF Event, EventType, Kinds
<1>7. ASSUME NEW mid \in Seq(EventType), batch \o done = mid
      PROVE  batch' = mid \/ batch' = Append(mid, Event("truncated", 0, 0))
  <2>1. CASE dropped > reportedDrops
      BY <1>1, <1>6, <1>7, <2>1
  <2>2. CASE ~(dropped > reportedDrops)
      BY <1>1, <1>7, <2>2
  <2> QED
      BY <2>1, <2>2
<1>8. CASE Len(completions) = 1 /\ AllIn(c)
  <2>1. c \in ToSet(completions) /\ c \in EventType
    <3>1. DOMAIN completions = 1..1 /\ ToSet(completions) \subseteq EventType
        BY <1>2, <1>8, LenProperties, RangeIn
    <3> QED
        BY <3>1 DEF ToSet
  <2>2. done = completions /\ left = <<>>
      BY <1>4, <1>5, <1>8, <2>1
  <2>3. batch \o done = Append(batch, c) /\ Append(batch, c) \in Seq(EventType)
    <3>1. <<c>> = completions
        BY <1>2, <1>8, OnlyElement
    <3>2. Append(batch, c) = batch \o <<c>> /\ Append(batch, c) \in Seq(EventType)
        BY <1>2, <2>1, AppendIsConcat, AppendProperties
    <3> QED
        BY <2>2, <3>1, <3>2
  <2>4. done # <<>> /\ Len(done) = 1 /\ done[1] = c
    <3>1. Len(<<>>) = 0
        BY EmptySeq
    <3>2. Len(done) = 1 /\ done[1] = c
        BY <1>8, <2>2
    <3> QED
        BY <3>1, <3>2
  <2>5. received' = [r \in 1..MaxRequest |-> IF c.request = r THEN 0 ELSE received[r]]
    <3>1. \A r : (\E i \in 1..Len(done) : done[i].request = r) <=> c.request = r
        BY <2>4
    <3> QED
        BY <1>1, <1>2, <3>1
  <2>6. c.written <= received[c.request]
    <3>1. c.request \in 1..MaxRequest /\ c.written \in Nat
      <4>1. c.request \in 1..request /\ request \in 0..MaxRequest
          BY <2>1, Typed DEF Types
      <4> QED
          BY <1>2, <2>1, <4>1 DEF EventType
    <3> QED
        BY <1>2, <1>8, <3>1 DEF AllIn
  <2>7. PollsEnd(c, Append(batch, c))
      BY <1>1, <1>7, <1>8, <2>1, <2>2, <2>3, <2>4, <2>5, <2>6 DEF PollsEnd
  <2> QED
      BY <2>7
<1>9. CASE ~(Len(completions) = 1 /\ AllIn(c))
  <2>1. done = <<>> /\ left = completions
    <3>1. CASE completions = <<>>
        BY <1>4, <1>5, <3>1
    <3>2. CASE completions # <<>>
      <4>1. Len(completions) = 1 /\ ~AllIn(c)
        <5>1. Len(completions) # 0
            BY <1>2, <3>2, EmptySeq
        <5>2. PICK n \in Nat : n = Len(completions)
            BY <1>3
        <5>3. n <= 1 /\ n # 0
            BY <5>1, <5>2
        <5>4. n = 1
            BY <5>3
        <5>5. Len(completions) = 1
            BY <5>2, <5>4
        <5> QED
            BY <1>9, <5>5
      <4>2. c \in ToSet(completions)
          BY <1>2, <4>1, LenProperties DEF ToSet
      <4> QED
          BY <1>4, <1>5, <4>1, <4>2
    <3> QED
        BY <3>1, <3>2
  <2>2. batch \o done = batch
      BY <1>2, <2>1
  <2>3. received' = received
    <3>1. Len(done) = 0
        BY <2>1
    <3>2. ~\E i \in 1..Len(done) : TRUE
        BY <3>1
    <3> QED
        BY <1>1, <1>2, <3>2
  <2>4. busy' = busy
      BY <1>1, <1>2, <2>1
  <2>5. PollsEnd(c, batch)
      BY <1>1, <1>2, <1>7, <2>1, <2>2, <2>3, <2>4 DEF PollsEnd
  <2> QED
      BY <2>5
<1> QED
    BY <1>8, <1>9

\* Output is told of, then the ends whose output is all in.
LEMMA PollsAnEnd == ASSUME WorkerInv, PollEnd PROVE WorkerInv'
<1>1. /\ Types /\ Counts /\ OutputIsCounted
    BY DEF WorkerInv
<1>2. /\ events \in Seq(EventType) /\ commands \in Seq(MessageType)
      /\ completions \in Seq(EventType) /\ batch \in Seq(EventType)
      /\ request \in 0..MaxRequest /\ MaxRequest \in Nat /\ dropped \in Nat
      /\ received \in [1..MaxRequest -> Nat] /\ busy \in BOOLEAN
    BY <1>1, Typed
<1>3. /\ Waits \in Nat /\ Commits \in Nat /\ Held \in {0, 1} /\ InProcess \in {0, 1}
      /\ JobsIn(commands) \in Nat /\ EndsIn(events) \in Nat /\ Len(completions) \in Nat
      /\ PreparedIn(batch) \in Nat /\ AsksIn(batch) \in Nat /\ EndsIn(batch) \in Nat
      /\ ShutdownsIn(commands) \in Nat /\ CommitsIn(commands) \in Nat /\ PreparedIn(events) \in Nat
    BY <1>1, Summed, Counted
<1>4. Len(completions) <= 1
  <2>1. Waits + InProcess <= 1
      BY <1>1 DEF Counts, OneAtATime
  <2>2. PICK j \in Nat, p \in Nat, l \in Nat, i \in Nat :
           /\ j = JobsIn(commands) /\ p = EndsIn(events) /\ l = Len(completions) /\ i = InProcess
      BY <1>3
  <2>3. (j + p + l) + i <= 1
      BY <2>1, <2>2 DEF Waits
  <2>4. l <= 1
      BY <2>3
  <2> QED
      BY <2>2, <2>4
<1>5. PICK c, mid : PollsEnd(c, mid)
    BY <1>1, <1>4, PollEndIs
<1>6. /\ commands' = commands /\ events' = events /\ inputs' = inputs /\ ready' = ready
      /\ previewPending' = previewPending /\ request' = request /\ closePc' = closePc
      /\ waitingInput' = waitingInput /\ outBuffer' = outBuffer /\ outPipe' = outPipe
      /\ dropped' = dropped /\ dropLock' = dropLock /\ stopSignal' = stopSignal
      /\ child' = child
      /\ pollPc = "output" /\ pollPc' = "report" /\ reportedDrops' = dropped
    BY DEF PollEnd, outVars
<1> DEFINE t == Event("truncated", 0, 0)
<1>7. t \in EventType /\ t.kind = "truncated"
    BY <1>2 DEF Event, EventType, Kinds
<1>8. batch' = mid \/ batch' = Append(mid, t)
    BY <1>5 DEF PollsEnd
<1> HIDE DEF t
<1>9. \/ /\ mid = batch /\ completions' = completions /\ busy' = busy /\ received' = received
      \/ /\ c \in ToSet(completions) /\ c.written <= received[c.request]
         /\ mid = Append(batch, c) /\ Len(completions) = 1 /\ completions' = <<>> /\ busy' = FALSE
         /\ received' = [r \in 1..MaxRequest |-> IF c.request = r THEN 0 ELSE received[r]]
    BY <1>5 DEF PollsEnd
<1>10. c \in ToSet(completions) => c \in EventType /\ c.kind \in Ends /\ c.request \in 1..MaxRequest
  <2>1. ToSet(completions) \subseteq EventType
      BY <1>2, RangeIn
  <2>2. \A e \in ToSet(completions) : e.kind \in Ends /\ e.request \in 1..request
      BY <1>1 DEF Types
  <2> QED
      BY <1>2, <2>1, <2>2
<1>11. /\ mid \in Seq(EventType)
       /\ PreparedIn(mid) = PreparedIn(batch) /\ AsksIn(mid) = AsksIn(batch)
       /\ mid = batch => EndsIn(mid) = EndsIn(batch) /\ ToSet(mid) = ToSet(batch)
       /\ mid # batch => EndsIn(mid) = EndsIn(batch) + 1 /\ ToSet(mid) = ToSet(batch) \cup {c}
  <2>1. CASE mid = batch
      BY <1>2, <2>1
  <2>2. CASE mid # batch
    <3>1. mid = Append(batch, c) /\ c \in ToSet(completions)
        BY <1>9, <2>2
    <3>2. c \in EventType /\ c.kind \in Ending /\ c.kind \notin {"prepared", "input"}
        BY <1>10, <3>1 DEF Ends, Ending
    <3>3. PICK ended \in {0, 1}, prepared \in {0, 1}, previewed \in {0, 1}, asked \in {0, 1} :
             /\ EndsIn(mid) = EndsIn(batch) + ended /\ (ended = 1 <=> c.kind \in Ending)
             /\ PreparedIn(mid) = PreparedIn(batch) + prepared /\ (prepared = 1 <=> c.kind = "prepared")
             /\ PreviewedIn(mid) = PreviewedIn(batch) + previewed /\ (previewed = 1 <=> c.kind = "completion")
             /\ AsksIn(mid) = AsksIn(batch) + asked /\ (asked = 1 <=> c.kind = "input")
        BY <1>2, <3>1, <3>2, EventAppended
    <3>4. ended = 1 /\ prepared = 0 /\ asked = 0
        BY <3>2, <3>3
    <3>5. mid \in Seq(EventType) /\ ToSet(mid) = ToSet(batch) \cup {c}
        BY <1>2, <3>1, <3>2, EventAppended
    <3>6. /\ PreparedIn(mid) = PreparedIn(batch) /\ AsksIn(mid) = AsksIn(batch)
          /\ EndsIn(mid) = EndsIn(batch) + 1
        BY <1>3, <3>3, <3>4
    <3> QED
        BY <2>2, <3>5, <3>6
  <2> QED
      BY <2>1, <2>2
<1>12. /\ batch' \in Seq(EventType) /\ ToSet(batch') \subseteq ToSet(mid) \cup {t}
       /\ EndsIn(batch') = EndsIn(mid) /\ PreparedIn(batch') = PreparedIn(mid)
       /\ AsksIn(batch') = AsksIn(mid)
  <2>1. CASE batch' = mid
      BY <1>11, <2>1
  <2>2. CASE batch' = Append(mid, t)
    <3>1. t.kind \notin Ending \cup {"prepared", "input"}
        BY <1>7 DEF Ending
    <3> QED
        BY <1>7, <1>11, <2>2, <3>1, AppendedAside
  <2> QED
      BY <1>8, <2>1, <2>2
<1>13. completions' \in Seq(EventType) /\ ToSet(completions') \subseteq ToSet(completions)
  <2>1. CASE completions' = completions
      BY <1>2, <2>1
  <2>2. CASE completions' = <<>>
      BY <1>2, <2>2, RangeEmpty, EmptySeq
  <2> QED
      BY <1>9, <2>1, <2>2
<1>14. received' \in [1..MaxRequest -> Nat]
  <2>1. [r \in 1..MaxRequest |-> IF c.request = r THEN 0 ELSE received[r]] \in [1..MaxRequest -> Nat]
      BY <1>2
  <2> QED
      BY <1>2, <1>9, <2>1
<1>15. Types'
  <2>1. /\ ready \in BOOLEAN /\ previewPending \in BOOLEAN
        /\ waitingInput \in BOOLEAN /\ stopSignal \in BOOLEAN /\ inputs \in Nat
        /\ closePc \in {"open", "joining", "draining", "closed"}
        /\ outPipe \in Seq(1..MaxRequest)
      BY <1>1, Typed
  <2>2. request' >= request /\ busy' \in BOOLEAN
    <3>1. busy' = busy \/ busy' = FALSE
        BY <1>9
    <3>2. request' >= request
        BY <1>2, <1>6
    <3> QED
        BY <1>2, <3>1, <3>2
  <2>3. \A x \in ToSet(batch') : x.kind \in Ends => x \in ToSet(batch) \cup ToSet(completions)
    <3>1. t.kind \notin Ends
        BY <1>7 DEF Ends
    <3>2. ToSet(mid) \subseteq ToSet(batch) \cup ToSet(completions)
        BY <1>9, <1>11
    <3> QED
        BY <1>12, <3>1, <3>2
  <2> QED
      BY <1>1, <1>2, <1>6, <1>12, <1>13, <1>14, <2>1, <2>2, <2>3, OwnerTypes
<1>16. NoMoreSent
  <2> SUFFICES ASSUME NEW r \in 1..MaxRequest
               PROVE  /\ Sent(r) \in Nat
                      /\ SentOf(outBuffer', outPipe', received', r) \in Nat
                      /\ SentOf(outBuffer', outPipe', received', r) <= Sent(r)
                      /\ OutputIn(outBuffer, r) = 0 /\ OutputIn(outPipe, r) = 0 =>
                            OutputIn(outBuffer', r) = 0 /\ OutputIn(outPipe', r) = 0
      BY DEF NoMoreSent
  <2>1. outBuffer \in Seq(1..MaxRequest) /\ outPipe \in Seq(1..MaxRequest)
      BY <1>1, Typed
  <2>2. PICK b \in Nat, p \in Nat, v \in Nat, w \in Nat :
           /\ b = OutputIn(outBuffer, r) /\ p = OutputIn(outPipe, r) /\ v = received[r]
           /\ w = received'[r]
      BY <1>2, <1>14, <2>1, OutputCounts
  <2>3. w = v \/ w = 0
      BY <1>2, <1>9, <2>2
  <2>4. b + p + w <= b + p + v /\ b + p + w \in Nat /\ b + p + v \in Nat
      BY <2>3
  <2>5. Sent(r) = b + p + v /\ SentOf(outBuffer', outPipe', received', r) = b + p + w
      BY <1>6, <2>2 DEF Sent, SentOf
  <2> QED
      BY <1>6, <2>4, <2>5
<1>17. OutputIsCounted'
  <2>1. \A m \in ToSet(commands') : m.op \in Jobs => m.request \in 1..MaxRequest /\ Sent(m.request) = 0
      BY <1>1, <1>6, QueuedIsUnsent
  <2>2. request' >= request
      BY <1>2, <1>6
  <2>3. c \in ToSet(completions) /\ c.written <= received[c.request] =>
           OutputIn(outBuffer, c.request) = 0 /\ OutputIn(outPipe, c.request) = 0
    <3> SUFFICES ASSUME c \in ToSet(completions), c.written <= received[c.request]
                 PROVE  OutputIn(outBuffer, c.request) = 0 /\ OutputIn(outPipe, c.request) = 0
        OBVIOUS
    <3>1. c \in EventType /\ c.request \in 1..MaxRequest /\ Sent(c.request) <= c.written
        BY <1>1, <1>10 DEF OutputIsCounted
    <3>2. outBuffer \in Seq(1..MaxRequest) /\ outPipe \in Seq(1..MaxRequest)
        BY <1>1, Typed
    <3>3. c.written \in Nat
        BY <3>1 DEF EventType
    <3>4. PICK b \in Nat, p \in Nat, v \in Nat, w \in Nat :
             /\ b = OutputIn(outBuffer, c.request) /\ p = OutputIn(outPipe, c.request)
             /\ v = received[c.request] /\ w = c.written
        BY <1>2, <3>1, <3>2, <3>3, OutputCounts
    <3>5. b + p + v <= w /\ w <= v
        BY <3>1, <3>4 DEF Sent, SentOf
    <3>6. b = 0 /\ p = 0
        BY <3>5
    <3> QED
        BY <3>4, <3>6
  <2>4. \A x \in ToSet(batch') : x.kind \in Ends =>
           \/ x \in ToSet(batch)
           \/ /\ x.request \in 1..MaxRequest
              /\ OutputIn(outBuffer, x.request) = 0 /\ OutputIn(outPipe, x.request) = 0
    <3>1. t.kind \notin Ends
        BY <1>7 DEF Ends
    <3>2. \A x \in ToSet(mid) : x \in ToSet(batch) \/ (x = c /\ c \in ToSet(completions) /\ c.written <= received[c.request])
        BY <1>9, <1>11
    <3> QED
        BY <1>10, <1>12, <2>3, <3>1, <3>2
  <2>5. \A x \in ToSet(completions') : x \in ToSet(completions) \/ (x \in ToSet(events) /\ x.kind \in Ends)
      BY <1>13
  <2> QED
      BY <1>1, <1>6, <1>15, <1>16, <2>1, <2>2, <2>4, <2>5, OwnerOutput
<1>18. /\ InProcess' = InProcess /\ PreviewInProcess' = PreviewInProcess
       /\ PreviewHeld' = PreviewHeld /\ LineHeld' = LineHeld
       /\ (Serving' <=> Serving) /\ (Alive' <=> Alive) /\ (GivenUp' <=> GivenUp)
    BY <1>6 DEF InProcess, PreviewInProcess, PreviewHeld, LineHeld, Serving, Alive, GivenUp
<1>19. Commits' = Commits /\ Asked' = Asked
    BY <1>6, <1>11, <1>12, <1>18 DEF Commits, Asked
<1>20. /\ Waits + InProcess <= 1
       /\ Serving => Waits + InProcess = Held
       /\ GivenUp \/ Waits + Commits <= Held
       /\ Alive /\ child.pc # "awaitCommit" => Commits = 0
       /\ Waits + Commits + EndsIn(batch) + ShutdownsIn(commands) <= 1
       /\ EndsIn(batch) > 0 => ~busy /\ pollPc # "idle"
       /\ ShutdownsIn(commands) > 0 => ~busy /\ closePc # "open"
    BY <1>1 DEF Counts, OneAtATime
<1>21. OneAtATime'
  <2>1. CASE mid = batch /\ completions' = completions /\ busy' = busy
    <3>1. Waits' = Waits /\ Held' = Held /\ EndsIn(batch') = EndsIn(batch)
        BY <1>6, <1>11, <1>12, <2>1 DEF Waits, Held
    <3> QED
        BY <1>6, <1>18, <1>19, <1>20, <2>1, <3>1 DEF OneAtATime
  <2>2. CASE mid # batch /\ Len(completions) = 1 /\ completions' = <<>> /\ busy' = FALSE
    <3>1. PICK j \in Nat, p \in Nat, m \in Nat, b \in Nat, s \in Nat, i \in Nat :
             /\ j = JobsIn(commands) /\ p = EndsIn(events) /\ m = Commits /\ b = EndsIn(batch)
             /\ s = ShutdownsIn(commands) /\ i = InProcess
        BY <1>3
    <3>2. Len(completions') = 0
        BY <2>2, EmptySeq
    <3>3. Waits = j + p + 1 /\ Waits' = j + p + 0
        BY <1>6, <2>2, <3>1, <3>2 DEF Waits
    <3>4. (j + p + 1) + i <= 1 /\ (j + p + 1) + m + b + s <= 1
        BY <1>20, <3>1, <3>3
    <3>5. j = 0 /\ p = 0 /\ i = 0 /\ m = 0 /\ b = 0 /\ s = 0
        BY <3>4
    <3>6. Waits' = 0 /\ EndsIn(batch') = 1 /\ Held' = 0
        BY <1>11, <1>12, <2>2, <3>1, <3>3, <3>5 DEF Held
    <3> QED
        BY <1>6, <1>18, <1>19, <2>2, <3>1, <3>5, <3>6 DEF OneAtATime
  <2>3. Append(batch, c) # batch \/ c \notin ToSet(completions)
    <3>1. c \in ToSet(completions) => Len(Append(batch, c)) = Len(batch) + 1 /\ Len(batch) \in Nat
        BY <1>2, <1>10, AppendProperties, LenProperties
    <3> QED
        BY <3>1
  <2> QED
      BY <1>9, <2>1, <2>2, <2>3
<1>22. Previews'
  <2>1. busy' => busy
      BY <1>9
  <2> QED
      BY <1>1, <1>6, <1>18, <2>1 DEF Counts, Previews
<1>23. Lines'
    BY <1>1, <1>6, <1>18, <1>19 DEF Counts, Lines
<1>24. \A x \in ToSet(batch') : x \in ToSet(batch) \/ x.kind \in Ends \cup {"truncated"}
    BY <1>7, <1>9, <1>10, <1>11, <1>12
<1>25. DeathIsLast'
  <2>1. Has(batch', Deaths) => Has(batch, Deaths)
      BY <1>24 DEF Has, Deaths, Ends
  <2> QED
      BY <1>1, <1>6, <1>18, <2>1 DEF Counts, DeathIsLast
<1>26. OwnCommit'
  <2>1. \A x \in ToSet(batch') : x.kind = "prepared" => x \in ToSet(batch)
      BY <1>24 DEF Ends
  <2> QED
      BY <1>1, <1>6, <2>1 DEF Counts, OwnCommit
<1> QED
    BY <1>15, <1>17, <1>21, <1>22, <1>23, <1>25, <1>26 DEF Counts, WorkerInv

\* A batch that asks for input says so, and one that has a kind of event has it.
LEMMA InBatches ==
    ASSUME Types
    PROVE  /\ \A k : InBatch(k) <=> Has(batch, {k})
           /\ AsksIn(batch) = 0 => ~InBatch("input")
           /\ PreparedIn(batch) = 0 <=> ~InBatch("prepared")
           /\ EndsIn(batch) = 0 <=> ~Has(batch, Ending)
<1>1. batch \in Seq(EventType) /\ DOMAIN batch = 1..Len(batch)
    BY Typed, LenProperties
<1>2. ASSUME NEW k PROVE InBatch(k) <=> Has(batch, {k})
    BY <1>1 DEF InBatch, Has, ToSet
<1>3. AsksIn(batch) = 0 => ~Has(batch, {"input"})
  <2>1. AsksIn(batch) = 0 => ToSet(batch) \cap EventsOf({"input"}) = {}
      BY <1>1, NumberType DEF AsksIn
  <2>2. ToSet(batch) \subseteq EventType
      BY <1>1, RangeIn
  <2> QED
      BY <2>1, <2>2 DEF Has, EventsOf
<1> QED
    BY <1>1, <1>2, <1>3, EventCounts

\* The request of an event of a kind that the batch has.
LEMMA RequestIs ==
    ASSUME Types, NEW k, InBatch(k)
    PROVE  \E e \in ToSet(batch) : e.kind = k /\ RequestOf(k) = e.request
<1> DEFINE i == CHOOSE n \in 1..Len(batch) : batch[n].kind = k
<1>1. batch \in Seq(EventType) /\ DOMAIN batch = 1..Len(batch)
    BY Typed, LenProperties
<1>2. i \in 1..Len(batch) /\ batch[i].kind = k
    BY DEF InBatch
<1>3. RequestOf(k) = batch[i].request
    BY DEF RequestOf
<1> HIDE DEF i
<1>4. batch[i] \in ToSet(batch)
    BY <1>1, <1>2 DEF ToSet
<1> QED
    BY <1>2, <1>3, <1>4

\* A batch is handled; what was prepared is answered.
LEMMA TakesBatch ==
    ASSUME WorkerInv, NEW current \in BOOLEAN, TakeBatch(current),
           ready' \in BOOLEAN, ready' => ready
    PROVE  WorkerInv'
<1> DEFINE m == Message("commit", RequestOf("prepared"), current)
<1>1. /\ pollPc = "report" /\ closePc = "open" /\ pollPc' = "idle" /\ batch' = <<>>
      /\ waitingInput' = ( /\ waitingInput \/ InBatch("input")
                           /\ ~\E k \in Ends \cup {"cancelled"} : InBatch(k) )
      /\ \/ InBatch("prepared") /\ commands' = Append(commands, m)
         \/ ~InBatch("prepared") /\ commands' = commands
      /\ busy' = busy /\ previewPending' = previewPending /\ request' = request
      /\ received' = received /\ completions' = completions /\ reportedDrops' = reportedDrops
      /\ closePc' = closePc /\ inputs' = inputs /\ events' = events
      /\ outBuffer' = outBuffer /\ outPipe' = outPipe
      /\ dropped' = dropped /\ dropLock' = dropLock /\ stopSignal' = stopSignal /\ child' = child
    BY DEF TakeBatch, Put, outVars
<1>2. /\ Types /\ Counts /\ OutputIsCounted
      /\ commands \in Seq(MessageType) /\ events \in Seq(EventType)
      /\ request \in 0..MaxRequest /\ MaxRequest \in Nat /\ child \in ChildType
      /\ waitingInput \in BOOLEAN
    BY Typed DEF WorkerInv
<1>3. /\ Waits \in Nat /\ Commits \in Nat /\ InProcess \in {0, 1} /\ Held \in {0, 1}
      /\ LineHeld \in {0, 1} /\ (LineHeld = 1 <=> waitingInput)
      /\ CommitsIn(commands) \in Nat /\ PreparedIn(events) \in Nat /\ PreparedIn(batch) \in Nat
      /\ EndsIn(batch) \in Nat /\ ShutdownsIn(commands) \in Nat /\ JobsIn(commands) \in Nat
      /\ AsksIn(events) \in Nat /\ AsksIn(batch) \in Nat /\ inputs \in Nat
      /\ PreviewsIn(commands) \in Nat
    BY <1>2, Summed, Counted
<1>4. /\ InProcess' = InProcess /\ PreviewInProcess' = PreviewInProcess
      /\ PreviewHeld' = PreviewHeld /\ Held' = Held /\ Waits + 0 = Waits
      /\ (Serving' <=> Serving) /\ (Alive' <=> Alive) /\ (GivenUp => GivenUp')
    BY <1>1, <1>3 DEF InProcess, PreviewInProcess, PreviewHeld, Held, Serving, Alive, GivenUp
<1>5. /\ Waits + InProcess <= 1
      /\ Serving => Waits + InProcess = Held
      /\ GivenUp \/ Waits + Commits <= Held
      /\ Alive /\ child.pc # "awaitCommit" => Commits = 0
      /\ Waits + Commits + EndsIn(batch) + ShutdownsIn(commands) <= 1
      /\ ShutdownsIn(commands) > 0 => ~busy /\ closePc # "open"
    BY <1>2 DEF Counts, OneAtATime
<1>6. InBatch("prepared") => m \in MessageType /\ m.op = "commit" /\ m.request = child.request
  <2> SUFFICES ASSUME InBatch("prepared")
               PROVE  m \in MessageType /\ m.op = "commit" /\ m.request = child.request
      OBVIOUS
  <2>1. RequestOf("prepared") = child.request
      BY <1>2, RequestIs DEF Counts, OwnCommit
  <2>2. child.request \in 0..MaxRequest
      BY <1>2 DEF ChildType
  <2> QED
      BY <2>1, <2>2 DEF Message, MessageType
<1> HIDE DEF m
<1>7. /\ PreparedIn(batch') = 0 /\ EndsIn(batch') = 0 /\ AsksIn(batch') = 0 /\ ToSet(batch') = {}
      /\ batch' \in Seq(EventType)
    BY <1>1, NothingIn, EmptySeq
<1>8. /\ commands' \in Seq(MessageType)
      /\ \A x \in ToSet(commands') : x \in ToSet(commands) \/ (x.op = "commit" /\ x.request = child.request)
      /\ commands # <<>> => Head(commands') = Head(commands)
      /\ JobsIn(commands') = JobsIn(commands) /\ PreviewsIn(commands') = PreviewsIn(commands)
      /\ ShutdownsIn(commands') = ShutdownsIn(commands)
      /\ Commits' = Commits
  <2>1. CASE ~InBatch("prepared") /\ commands' = commands
    <3>1. PreparedIn(batch) = 0
        BY <1>2, <2>1, InBatches
    <3>2. Commits' = Commits
        BY <1>1, <1>3, <1>7, <2>1, <3>1 DEF Commits
    <3> QED
        BY <1>2, <2>1, <3>2
  <2>2. CASE InBatch("prepared") /\ commands' = Append(commands, m)
    <3>1. m \in MessageType /\ m.op = "commit" /\ m.request = child.request
        BY <1>6, <2>2
    <3>2. PICK job \in {0, 1}, commit \in {0, 1}, preview \in {0, 1}, shutdown \in {0, 1} :
             /\ JobsIn(commands') = JobsIn(commands) + job /\ (job = 1 <=> m.op \in Jobs)
             /\ CommitsIn(commands') = CommitsIn(commands) + commit /\ (commit = 1 <=> m.op = "commit")
             /\ PreviewsIn(commands') = PreviewsIn(commands) + preview /\ (preview = 1 <=> m.op = "complete")
             /\ ShutdownsIn(commands') = ShutdownsIn(commands) + shutdown /\ (shutdown = 1 <=> m.op = "shutdown")
        BY <1>2, <2>2, <3>1, MessageAppended
    <3>3. job = 0 /\ commit = 1 /\ preview = 0 /\ shutdown = 0
        BY <3>1, <3>2 DEF Jobs
    <3>4. /\ JobsIn(commands') = JobsIn(commands) /\ PreviewsIn(commands') = PreviewsIn(commands)
          /\ ShutdownsIn(commands') = ShutdownsIn(commands)
          /\ CommitsIn(commands') = CommitsIn(commands) + 1
        BY <1>3, <3>2, <3>3
    <3>5. PreparedIn(batch) # 0
        BY <1>2, <2>2, InBatches
    <3>6. Commits' = Commits
      <4>1. PICK v \in Nat, c \in Nat, p \in Nat, q \in Nat, b \in Nat, s \in Nat :
               /\ v = Waits /\ c = CommitsIn(commands) /\ p = PreparedIn(events)
               /\ q = PreparedIn(batch) /\ b = EndsIn(batch) /\ s = ShutdownsIn(commands)
          BY <1>3
      <4>2. Commits = c + p + q /\ Commits' = (c + 1) + p + 0
          BY <1>1, <1>7, <3>4, <4>1 DEF Commits
      <4>3. v + (c + p + q) + b + s <= 1 /\ q # 0
          BY <1>5, <3>5, <4>1, <4>2
      <4>4. c + p + q = (c + 1) + p + 0
          BY <4>3
      <4> QED
          BY <4>2, <4>4
    <3>7. /\ commands' \in Seq(MessageType) /\ ToSet(commands') = ToSet(commands) \cup {m}
          /\ commands # <<>> => Head(commands') = Head(commands)
        BY <1>2, <2>2, <3>1, MessageAppended
    <3> QED
        BY <3>1, <3>4, <3>6, <3>7
  <2> QED
      BY <1>1, <2>1, <2>2
<1>9. Waits' = Waits
    BY <1>1, <1>8 DEF Waits
<1>10. OneAtATime'
  <2>1. Waits + Commits + 0 + ShutdownsIn(commands) <= 1
    <3>1. PICK v \in Nat, c \in Nat, b \in Nat, s \in Nat :
             v = Waits /\ c = Commits /\ b = EndsIn(batch) /\ s = ShutdownsIn(commands)
        BY <1>3
    <3>2. v + c + b + s <= 1
        BY <1>5, <3>1
    <3>3. v + c + 0 + s <= 1
        BY <3>2
    <3> QED
        BY <3>1, <3>3
  <2> QED
      BY <1>1, <1>4, <1>5, <1>7, <1>8, <1>9, <2>1 DEF OneAtATime
<1>11. Previews'
  <2>1. /\ PreviewsIn(commands) + PreviewInProcess + PreviewedIn(events) <= PreviewHeld
        /\ busy /\ PreviewsIn(commands) > 0 => JobsIn(commands) = 1 /\ Head(commands).op = "complete"
      BY <1>2 DEF Counts, Previews
  <2>2. PreviewsIn(commands) > 0 => commands # <<>>
      BY NothingIn
  <2> QED
      BY <1>1, <1>4, <1>8, <2>1, <2>2 DEF Previews
<1>12. Lines'
  <2>1. Asked <= 1 /\ (Alive /\ child.pc # "awaitInput" => Asked = 0)
      BY <1>2 DEF Counts, Lines
  <2>2. LineHeld' \in {0, 1} /\ (LineHeld' = 1 => LineHeld = 1 \/ AsksIn(batch) # 0)
      BY <1>1, <1>2, <1>3, InBatches DEF LineHeld
  <2>3. PICK a \in Nat, b \in Nat, l \in {0, 1}, k \in {0, 1}, n \in Nat :
           /\ a = AsksIn(events) /\ b = AsksIn(batch) /\ l = LineHeld /\ k = LineHeld'
           /\ n = inputs
      BY <1>3, <2>2
  <2>4. Asked = a + b + l + n /\ Asked' = a + 0 + k + n
      BY <1>1, <1>7, <2>3 DEF Asked
  <2>5. k = 1 => l = 1 \/ b # 0
      BY <2>2, <2>3
  <2>6. /\ a + b + l + n <= 1 => a + 0 + k + n <= 1
        /\ a + b + l + n = 0 => a + 0 + k + n = 0
      BY <2>5
  <2> QED
      BY <1>1, <1>4, <2>1, <2>4, <2>6 DEF Lines
<1>13. DeathIsLast'
    BY <1>1, <1>2, <1>4, <1>7 DEF Counts, DeathIsLast, Has
<1>14. OwnCommit'
    BY <1>1, <1>2, <1>7, <1>8 DEF Counts, OwnCommit
<1>15. Types'
  <2>1. /\ busy \in BOOLEAN /\ previewPending \in BOOLEAN /\ stopSignal \in BOOLEAN
        /\ closePc \in {"open", "joining", "draining", "closed"}
        /\ outPipe \in Seq(1..MaxRequest) /\ received \in [1..MaxRequest -> Nat]
        /\ reportedDrops \in Nat /\ completions \in Seq(EventType)
      BY <1>2, Typed
  <2>2. request' >= request
      BY <1>1, <1>2
  <2>3. waitingInput' \in BOOLEAN
      BY <1>1
  <2>4. \A x \in ToSet(commands') : x.op \in {"load", "command", "complete"} =>
              x \in ToSet(commands) \/ x.request \in 1..request'
      BY <1>8
  <2> QED
      BY <1>1, <1>2, <1>3, <1>7, <1>8, <2>1, <2>2, <2>3, <2>4, OwnerTypes
<1>16. OutputIsCounted'
  <2>1. NoMoreSent
      BY <1>1, <1>2, SentFalls
  <2>2. \A x \in ToSet(commands') : x.op \in Jobs => x.request \in 1..MaxRequest /\ Sent(x.request) = 0
    <3>1. \A x \in ToSet(commands') : x.op \in Jobs => x \in ToSet(commands)
        BY <1>8 DEF Jobs
    <3> QED
        BY <1>2, <3>1, QueuedIsUnsent
  <2>3. request' >= request
      BY <1>1, <1>2
  <2> QED
      BY <1>1, <1>2, <1>7, <1>15, <2>1, <2>2, <2>3, OwnerOutput
<1> QED
    BY <1>10, <1>11, <1>12, <1>13, <1>14, <1>15, <1>16 DEF Counts, WorkerInv

\* A session that has not begun.
LEMMA StartsWell == Init => WorkerInv
<1> SUFFICES ASSUME Init PROVE WorkerInv
    OBVIOUS
<1>1. MaxRequest \in Nat
    BY SessionWorkerAssumption
<1>2. /\ commands = <<>> /\ events = <<>> /\ completions = <<>> /\ batch = <<>>
      /\ outBuffer = <<>> /\ outPipe = <<>> /\ inputs = 0 /\ request = 0
      /\ ready = FALSE /\ busy = FALSE /\ previewPending = FALSE /\ waitingInput = FALSE
      /\ received = [r \in 1..MaxRequest |-> 0] /\ closePc = "open" /\ pollPc = "idle"
      /\ stopSignal = FALSE /\ dropped = 0 /\ dropLock = FALSE /\ reportedDrops = 0
      /\ child = NewChild
    BY DEF Init
<1>3. child \in ChildType /\ child.pc = "boot" /\ child.outcome = "finished"
    BY <1>1, <1>2 DEF NewChild, ChildType, ChildPcs, Working, Ends
<1>4. /\ JobsIn(commands) = 0 /\ CommitsIn(commands) = 0 /\ PreviewsIn(commands) = 0
      /\ ShutdownsIn(commands) = 0 /\ EndsIn(events) = 0 /\ PreparedIn(events) = 0
      /\ PreviewedIn(events) = 0 /\ AsksIn(events) = 0
      /\ EndsIn(batch) = 0 /\ PreparedIn(batch) = 0 /\ AsksIn(batch) = 0
      /\ Len(completions) = 0
      /\ ToSet(commands) = {} /\ ToSet(events) = {} /\ ToSet(completions) = {} /\ ToSet(batch) = {}
    BY <1>2, NothingIn
<1>5. Types
  <2>1. /\ commands \in Seq(MessageType) /\ events \in Seq(EventType)
        /\ completions \in Seq(EventType) /\ batch \in Seq(EventType)
        /\ outBuffer \in Seq(1..MaxRequest) /\ outPipe \in Seq(1..MaxRequest)
      BY <1>2, EmptySeq
  <2>2. received \in [1..MaxRequest -> Nat] /\ request \in 0..MaxRequest
      BY <1>1, <1>2
  <2>3. TypeOK
      BY <1>2, <1>3, <2>1, <2>2 DEF TypeOK, EventType, MessageType, ChildType
  <2> QED
      BY <1>3, <1>4, <2>3 DEF Types, Working, Ends
<1>6. Held = 0 /\ InProcess = 0 /\ PreviewInProcess = 0 /\ LineHeld = 0 /\ PreviewHeld = 0
    BY <1>2, <1>3 DEF Held, InProcess, PreviewInProcess, LineHeld, PreviewHeld, Working
<1>7. Waits = 0 /\ Commits = 0 /\ Asked = 0
    BY <1>2, <1>4, <1>6 DEF Waits, Commits, Asked
<1>8. OneAtATime /\ Previews /\ Lines
    BY <1>2, <1>4, <1>6, <1>7 DEF OneAtATime, Previews, Lines
<1>9. DeathIsLast /\ OwnCommit
    BY <1>2, <1>4 DEF DeathIsLast, OwnCommit, Has
<1>10. OutputIsCounted
  <2>1. ASSUME NEW r \in 1..MaxRequest PROVE Sent(r) = 0
    <3>1. OutputIn(<<>>, r) = 0
        BY NumberEmpty DEF OutputIn
    <3> QED
        BY <1>2, <3>1 DEF Sent, SentOf
  <2> QED
      BY <1>3, <1>4, <2>1 DEF OutputIsCounted, Working
<1> QED
    BY <1>5, <1>8, <1>9, <1>10 DEF WorkerInv, Counts

\* A new session is one of these.
LEMMA RestartsWell == Restart => WorkerInv'
<1>1. Restart => Init'
    BY DEF Restart, Init, NewChild
<1> QED
    BY <1>1, StartsWell, PTL

\* Nothing happens to the session.
LEMMA NothingHappens == ASSUME WorkerInv, UNCHANGED vars PROVE WorkerInv'
<1>1. /\ ready' = ready /\ busy' = busy /\ previewPending' = previewPending
      /\ request' = request /\ received' = received /\ completions' = completions
      /\ reportedDrops' = reportedDrops /\ pollPc' = pollPc /\ batch' = batch
      /\ closePc' = closePc /\ waitingInput' = waitingInput /\ stopSignal' = stopSignal
      /\ commands' = commands /\ inputs' = inputs /\ events' = events
      /\ outBuffer' = outBuffer /\ outPipe' = outPipe /\ dropped' = dropped
      /\ dropLock' = dropLock /\ child' = child
    BY DEF vars, parentVars, clientVars, outVars
<1>2. Types'
    BY <1>1 DEF WorkerInv, Types, TypeOK
<1>3. /\ Waits' = Waits /\ InProcess' = InProcess /\ Commits' = Commits /\ Held' = Held
      /\ PreviewHeld' = PreviewHeld /\ PreviewInProcess' = PreviewInProcess
      /\ LineHeld' = LineHeld /\ Asked' = Asked
      /\ (Serving' <=> Serving) /\ (Alive' <=> Alive) /\ (GivenUp' <=> GivenUp)
    BY <1>1 DEF Waits, InProcess, Commits, Held, PreviewHeld, PreviewInProcess, LineHeld, Asked,
       Serving, Alive, GivenUp
<1>4. Counts'
    BY <1>1, <1>3 DEF WorkerInv, Counts, OneAtATime, Previews, Lines, DeathIsLast, OwnCommit
<1>5. OutputIsCounted'
    BY <1>1 DEF WorkerInv, OutputIsCounted, Sent, SentOf
<1> QED
    BY <1>2, <1>4, <1>5 DEF WorkerInv

-----------------------------------------------------------------------------
(* The steps of the editor.                                                *)

\* The coroutine of a run that is under way while its session is closed has
\* been told that the session is another.
RunIsTold == closePc # "open" => run.pc = "none" \/ run.replaced

\* The process and the polls keep the invariant of the session.
LEMMA ProcessKeepsWorker == ASSUME WorkerInv, Process PROVE WorkerInv'
<1>1. CASE Serve
  <2>1. CASE Boot
      BY <2>1, Boots
  <2>2. CASE GetShutdown \/ GetPreview \/ GetJob
      BY <2>2, GetsFromQueue
  <2>3. CASE Preview
      BY <2>3, AnswersPreview
  <2>4. CASE Prepare
      BY <2>4, Prepares
  <2>5. CASE GetCommit
      BY <2>5, GetsCommit
  <2>6. CASE Write
      BY <2>6, Writes
  <2>7. CASE DropChunk
      BY <2>7, Drops
  <2>8. CASE CountDrop
      BY <2>8, CountsDrop
  <2>9. CASE AskInput
      BY <2>9, Asks
  <2>10. CASE GetInput
      BY <2>10, GetsInput
  <2>11. CASE ExecuteDone
      BY <2>11, Executes
  <2>12. CASE Report
      BY <2>12, Reports
  <2>13. CASE Leave
      BY <2>13, Leaves
  <2> QED
      BY <1>1, <2>1, <2>2, <2>3, <2>4, <2>5, <2>6, <2>7, <2>8, <2>9, <2>10, <2>11, <2>12, <2>13
         DEF Serve
<1>2. CASE Feed
    BY <1>2, Feeds
<1>3. CASE Interrupt \/ Crash
    BY <1>3, Breaks
<1>4. CASE Killed \/ Terminate
    BY <1>4, Dies DEF Killed, Terminate
<1>5. CASE PollStart
    BY <1>5, PollStarts
<1>6. CASE PollEvent
    BY <1>6, PollsAnEvent
<1>7. CASE PollEventsDone
    BY <1>7, PollEventsAreDone
<1>8. CASE PollOutput
    BY <1>8, PollsOutput
<1>9. CASE PollEnd
    BY <1>9, PollsAnEnd
<1>10. CASE CloseJoined
    BY <1>10, CloseGoesOn
<1> QED
    BY <1>1, <1>2, <1>3, <1>4, <1>5, <1>6, <1>7, <1>8, <1>9, <1>10 DEF Process

\* Every step of the editor does, stuttering included.
LEMMA EditorKeepsWorker ==
    ASSUME WorkerInv, RunIsTold, EditorNext \/ UNCHANGED allVars PROVE WorkerInv'
<1>1. CASE Process
    BY <1>1, ProcessKeepsWorker
<1>2. CASE Edit \/ RunFile \/ Captured \/ RunGivesUp \/ AskStop
           \/ (\E kind \in StopKinds : StopWhileClosing(kind)) \/ UNCHANGED allVars
  <2>1. UNCHANGED vars
      BY <1>2 DEF Edit, RunFile, Captured, RunGivesUp, AskStop, StopWhileClosing, allVars
  <2> QED
      BY <2>1, NothingHappens
<1>3. CASE RunSubmits
  <2>1. pollPc = "idle" /\ closePc = "open" /\ Submit("load") /\ "load" \in Jobs
      BY <1>3 DEF RunSubmits, RunStillWanted, RunIsTold, Jobs
  <2> QED
      BY <2>1, Submits
<1>4. CASE SubmitCommand
  <2>1. pollPc = "idle" /\ closePc = "open" /\ Submit("command") /\ "command" \in Jobs
      BY <1>4 DEF SubmitCommand, UiFree, Jobs
  <2> QED
      BY <2>1, Submits
<1>5. CASE AnswerInput
    BY <1>5, Provides DEF AnswerInput
<1>6. CASE AskPreview
    BY <1>6, Completes DEF AskPreview
<1>7. CASE Handle
  <2>1. PICK current \in BOOLEAN : current = StillCurrent
      BY DEF StillCurrent
  <2>2. TakeBatch(current)
      BY <1>7, <2>1 DEF Handle
  <2>3. ready' \in BOOLEAN /\ (ready' => ready)
    <3>1. ready \in BOOLEAN
        BY Typed DEF WorkerInv
    <3> QED
        BY <1>7, <3>1 DEF Handle
  <2> QED
      BY <2>2, <2>3, TakesBatch
<1>8. CASE \E kind \in StopKinds : StopBegins(kind)
    BY <1>8, CloseStarts DEF StopBegins
<1>9. CASE StopDrains
    BY <1>9, CloseGoesOn DEF StopDrains
<1>10. CASE StopReplaces
    BY <1>10, RestartsWell DEF StopReplaces
<1>11. CASE Quit
    BY <1>11, CloseStarts, NothingHappens DEF Quit
<1> QED
    BY <1>1, <1>2, <1>3, <1>4, <1>5, <1>6, <1>7, <1>8, <1>9, <1>10, <1>11
       DEF EditorNext, Coroutines, StopSome

-----------------------------------------------------------------------------
(* What the invariant says of the session.                                 *)

\* The counts of the properties are those of the invariant.
LEMMA OutstandingIs ==
    ASSUME Types
    PROVE  Outstanding = Waits + InProcess
<1>1. /\ commands \in Seq(MessageType) /\ events \in Seq(EventType)
    BY Typed
<1>2. Count(commands, {"load", "command"}, OpOf) = JobsIn(commands)
  <2>1. \A i \in 1..Len(commands) : commands[i] \in MessageType
      BY <1>1, ElementOfSeq
  <2>2. {i \in 1..Len(commands) : commands[i].op \in Jobs}
           = {i \in 1..Len(commands) : commands[i] \in MessagesOf(Jobs)}
      BY <2>1 DEF MessagesOf
  <2> QED
      BY <2>2 DEF Count, OpOf, JobsIn, Number, Jobs
<1>3. Count(events, Ends \cup {"cancelled"}, Kind) = EndsIn(events)
  <2>1. \A i \in 1..Len(events) : events[i] \in EventType
      BY <1>1, ElementOfSeq
  <2>2. {i \in 1..Len(events) : events[i].kind \in Ending}
           = {i \in 1..Len(events) : events[i] \in EventsOf(Ending)}
      BY <2>1 DEF EventsOf
  <2>3. Ends \cup {"cancelled"} = Ending
      BY DEF Ends, Ending
  <2> QED
      BY <2>2, <2>3 DEF Count, Kind, EndsIn, Number
<1>4. PICK j \in Nat, e \in Nat, l \in Nat, n \in Nat :
         j = JobsIn(commands) /\ e = EndsIn(events) /\ l = Len(completions) /\ n = InProcess
    BY Counted, Summed
<1>5. Outstanding = j + n + e + l /\ Waits = j + e + l
    BY <1>2, <1>3, <1>4 DEF Outstanding, Waits, InProcess
<1>6. j + n + e + l = (j + e + l) + n
    OBVIOUS
<1> QED
    BY <1>4, <1>5, <1>6

\* The queues are never full, `busy` is the one submission, and no reader gets
\* the message of the other.
LEMMA WorkerInvProtocol == ASSUME WorkerInv PROVE ProtocolHolds
<1>1. Types /\ Counts /\ TypeOK
    BY DEF WorkerInv, Types
<1>2. /\ JobsIn(commands) \in Nat /\ CommitsIn(commands) \in Nat /\ PreviewsIn(commands) \in Nat
      /\ ShutdownsIn(commands) \in Nat /\ EndsIn(events) \in Nat /\ PreparedIn(events) \in Nat
      /\ PreviewedIn(events) \in Nat /\ AsksIn(events) \in Nat
      /\ EndsIn(batch) \in Nat /\ PreparedIn(batch) \in Nat /\ AsksIn(batch) \in Nat
      /\ Len(completions) \in Nat /\ inputs \in Nat
      /\ Len(commands) = JobsIn(commands) + CommitsIn(commands) + PreviewsIn(commands)
                           + ShutdownsIn(commands)
      /\ commands \in Seq(MessageType)
    BY <1>1, Counted, Typed
<1>3. /\ PreviewInProcess \in {0, 1} /\ PreviewHeld \in {0, 1} /\ LineHeld \in {0, 1}
    BY <1>1, Summed
<1>4. QueuesNeverFull
  <2>1. PICK j \in Nat, c \in Nat, p \in Nat, s \in Nat, e \in Nat, f \in Nat, b \in Nat, l \in Nat, k \in Nat :
           /\ j = JobsIn(commands) /\ c = CommitsIn(commands) /\ p = PreviewsIn(commands)
           /\ s = ShutdownsIn(commands) /\ e = EndsIn(events) /\ f = PreparedIn(events)
           /\ b = EndsIn(batch) /\ l = Len(completions) /\ k = PreparedIn(batch)
      BY <1>2
  <2>2. (j + e + l) + (c + f + k) + b + s <= 1
      BY <1>1, <2>1 DEF Counts, OneAtATime, Waits, Commits
  <2>3. p <= 1
    <3>1. PICK n \in {0, 1}, g \in Nat, h \in {0, 1} :
             n = PreviewInProcess /\ g = PreviewedIn(events) /\ h = PreviewHeld
        BY <1>2, <1>3
    <3>2. p + n + g <= h
        BY <1>1, <2>1, <3>1 DEF Counts, Previews
    <3> QED
        BY <3>2
  <2>4. j + c + p + s <= 2
      BY <2>2, <2>3
  <2>5. Len(commands) = j + c + p + s
      BY <1>2, <2>1
  <2>6. Len(commands) <= CommandLimit
    <3>1. PICK n \in Nat : n = CommandLimit /\ n >= 2
        BY SessionWorkerAssumption
    <3>2. j + c + p + s <= n
        BY <2>4, <3>1
    <3> QED
        BY <2>5, <3>1, <3>2
  <2>7. inputs <= 1
    <3>1. PICK x \in Nat, y \in Nat, z \in {0, 1}, n \in Nat :
             x = AsksIn(events) /\ y = AsksIn(batch) /\ z = LineHeld /\ n = inputs
        BY <1>2, <1>3
    <3>2. x + y + z + n <= 1
        BY <1>1, <3>1 DEF Counts, Lines, Asked
    <3>3. n <= 1
        BY <3>2
    <3> QED
        BY <3>1, <3>3
  <2> QED
      BY <2>6, <2>7 DEF QueuesNeverFull
<1>5. OneSubmission
    BY <1>1, OutstandingIs DEF OneSubmission, Counts, OneAtATime, Held
<1>6. MessagesFit
  <2> SUFFICES ASSUME commands # <<>>
               PROVE  /\ child.pc = "idle" => Head(commands).op # "commit"
                      /\ child.pc = "awaitCommit" =>
                            Head(commands).op = "commit" /\ Head(commands).request = child.request
      BY DEF MessagesFit
  <2>1. Head(commands) \in ToSet(commands)
      BY <1>2, MessageTaken
  <2>2. ASSUME child.pc = "idle" PROVE Head(commands).op # "commit"
    <3>1. Alive /\ Commits = 0
        BY <1>1, <2>2 DEF Alive, Counts, OneAtATime
    <3>2. PICK c \in Nat, f \in Nat, k \in Nat :
             c = CommitsIn(commands) /\ f = PreparedIn(events) /\ k = PreparedIn(batch)
        BY <1>2
    <3>3. c + f + k = 0
        BY <3>1, <3>2 DEF Commits
    <3>4. CommitsIn(commands) = 0
        BY <3>2, <3>3
    <3> QED
        BY <1>2, <2>1, <3>4, MessageCounts
  <2>3. ASSUME child.pc = "awaitCommit"
        PROVE  Head(commands).op = "commit" /\ Head(commands).request = child.request
    <3>1. Head(commands).op = "commit"
        BY <1>1, <2>3, OnlyItsCommit
    <3> QED
        BY <1>1, <2>1, <3>1 DEF Counts, OwnCommit
  <2> QED
      BY <2>2, <2>3
<1> QED
    BY <1>1, <1>4, <1>5, <1>6 DEF ProtocolHolds

\* What has ended has no output left on the way.
LEMMA WorkerInvOutput == ASSUME WorkerInv PROVE OutputBeforeEnd
<1>1. Types /\ OutputIsCounted /\ batch \in Seq(EventType)
      /\ outBuffer \in Seq(1..MaxRequest) /\ outPipe \in Seq(1..MaxRequest)
    BY Typed DEF WorkerInv
<1> SUFFICES ASSUME NEW i \in 1..Len(batch), batch[i].kind \in Ends,
                    NEW j \in 1..Len(outBuffer \o outPipe)
             PROVE  (outBuffer \o outPipe)[j] # batch[i].request
    BY DEF OutputBeforeEnd
<1>2. batch[i] \in ToSet(batch)
    BY <1>1, LenProperties DEF ToSet
<1>3. OutputIn(outBuffer, batch[i].request) = 0 /\ OutputIn(outPipe, batch[i].request) = 0
    BY <1>1, <1>2 DEF OutputIsCounted
<1>4. batch[i].request \notin ToSet(outBuffer) /\ batch[i].request \notin ToSet(outPipe)
    BY <1>1, <1>3, OutputCounts
<1>5. (outBuffer \o outPipe)[j] \in ToSet(outBuffer \o outPipe)
  <2>1. outBuffer \o outPipe \in Seq(1..MaxRequest)
      BY <1>1, ConcatProperties
  <2> QED
      BY <2>1, LenProperties DEF ToSet
<1>6. ToSet(outBuffer \o outPipe) = ToSet(outBuffer) \cup ToSet(outPipe)
    BY <1>1, RangeConcat
<1> QED
    BY <1>4, <1>5, <1>6

-----------------------------------------------------------------------------
(* What a session tells of what it has loaded, and when.                   *)

\* Events of kinds K come before those of kinds L.
Before(q, K, L) ==
    \A i, j \in 1..Len(q) : q[i].kind \in K /\ q[j].kind \in L => i <= j

\* The submission under way has not come to be executed.
Fresh == JobsIn(commands) > 0 \/ child.pc \in {"preparing", "awaitCommit"}

\* A change of what is loaded is told before the end of the submission that made
\* it, and a load before the fault that undoes it; and nothing of that is left
\* when the next submission begins.
MarksInOrder ==
    /\ Before(events, Marks, Ending) /\ Before(events, {"loaded"}, {"reset"})
    /\ Has(events, Marks) => completions = <<>> /\ ~Has(batch, Ending)
    /\ Has(batch, {"reset"}) => ~Has(events, {"loaded"})
    /\ Serving /\ Fresh => ~Has(events, Marks) /\ ~Has(batch, Marks)
    /\ Serving /\ Has(events, Marks) => busy

\* Something is under way about a commit.
CommitUnderWay ==
    \/ \E m \in ToSet(commands) : m.op = "commit"
    \/ Has(events, {"prepared"}) \/ Has(batch, {"prepared"})

\* What the process works on is what the editor has pending.
LoadsArePending ==
    /\ closePc = "open" =>
         /\ \A m \in ToSet(commands) : m.op = "load" =>
               pending = submitted[m.request] /\ pending # Nothing
         /\ child.pc \in Working /\ child.op = "load" =>
               pending = submitted[child.request] /\ pending # Nothing
         /\ CommitUnderWay => pending = submitted[child.request]
    /\ child.pc = "awaitCommit" => child.op = "load"

\* What the editor will show, when it has been told everything.
Within(K) == Has(events, K) \/ Has(batch, K)
Shown == IF Within({"reset"}) THEN Nothing
         ELSE IF Within({"loaded"}) THEN pending ELSE loaded
ShowsWhatIsLoaded ==
    /\ child.pc = "faulted" => serviceLoaded = Nothing
    /\ closePc = "open" =>
         /\ Within({"loaded"}) => pending # Nothing
         /\ Serving => serviceLoaded = Shown

\* The run under way has captured a text.
RunHasText == run.pc # "none" => run.captured # Nothing

EditorInv ==
    /\ WorkerInv /\ EditorTypeOK /\ RunIsTold /\ RunHasText
    /\ MarksInOrder /\ LoadsArePending /\ ShowsWhatIsLoaded

\* An event of the first kinds is told last only when none of the second is there.
LEMMA BeforeAppended ==
    ASSUME NEW q \in Seq(EventType), NEW e \in EventType, NEW K, NEW L,
           Before(q, K, L), e.kind \in K => ~Has(q, L)
    PROVE  Before(Append(q, e), K, L)
<1> DEFINE a == Append(q, e)
           n == Len(q)
<1>1. /\ n \in Nat /\ Len(a) = n + 1 /\ a[n + 1] = e /\ \A i \in 1..n : a[i] = q[i] /\ a[i] \in ToSet(q)
  <2>1. DOMAIN q = 1..n
      BY LenProperties
  <2>2. \A i \in 1..n : q[i] \in ToSet(q)
      BY <2>1 DEF ToSet
  <2> QED
      BY <2>2, AppendProperties, LenProperties
<1> HIDE DEF a, n
<1> SUFFICES ASSUME NEW i \in 1..Len(a), NEW j \in 1..Len(a),
                    a[i].kind \in K, a[j].kind \in L
             PROVE  i <= j
    BY DEF Before, a
<1>3. CASE j = n + 1
    BY <1>1, <1>3
<1>4. CASE i \in 1..n /\ j \in 1..n
    BY <1>1, <1>4 DEF Before, n
<1>5. CASE i = n + 1 /\ j \in 1..n
    BY <1>1, <1>5 DEF Before, Has
<1> QED
    BY <1>1, <1>3, <1>4, <1>5

\* The rest stays in order, and nothing of the first kinds follows one of the second.
LEMMA BeforeTaken ==
    ASSUME NEW q \in Seq(EventType), q # <<>>, NEW K, NEW L, K \cap L = {}, Before(q, K, L)
    PROVE  /\ Before(Tail(q), K, L)
           /\ Head(q).kind \in L => ~Has(Tail(q), K)
<1> DEFINE t == Tail(q)
           n == Len(q)
<1>1. /\ n \in Nat \ {0} /\ Len(t) = n - 1 /\ \A i \in 1..(n - 1) : t[i] = q[i + 1]
      /\ t \in Seq(EventType) /\ Head(q) = q[1]
    BY EmptySeq, HeadTailProperties
<1>2. DOMAIN t = 1..(n - 1)
    BY <1>1, LenProperties
<1> HIDE DEF t
<1>3. Before(t, K, L)
  <2> SUFFICES ASSUME NEW i \in 1..Len(t), NEW j \in 1..Len(t), t[i].kind \in K, t[j].kind \in L
               PROVE  i <= j
      BY DEF Before
  <2>1. i + 1 \in 1..n /\ j + 1 \in 1..n /\ t[i] = q[i + 1] /\ t[j] = q[j + 1]
      BY <1>1
  <2>2. i + 1 <= j + 1
      BY <2>1 DEF Before
  <2> QED
      BY <1>1, <2>2
<1>4. ASSUME Head(q).kind \in L, Has(t, K) PROVE FALSE
  <2>1. PICK i \in 1..(n - 1) : t[i].kind \in K
      BY <1>2, <1>4 DEF Has, ToSet
  <2>2. i + 1 \in 1..n /\ 1 \in 1..n /\ q[i + 1].kind \in K /\ q[1].kind \in L
      BY <1>1, <1>4, <2>1
  <2>3. i + 1 <= 1
      BY <2>2 DEF Before
  <2> QED
      BY <1>1, <2>1, <2>3
<1> QED
    BY <1>3, <1>4 DEF t

NoCommit == Types /\ Commits = 0

\* There is something about a commit only if the counts say so.
LEMMA CommitsCount == NoCommit => ~CommitUnderWay
<1> SUFFICES ASSUME Types, Commits = 0 PROVE ~CommitUnderWay
    BY DEF NoCommit
<1>1. /\ commands \in Seq(MessageType) /\ events \in Seq(EventType) /\ batch \in Seq(EventType)
    BY Typed
<1>2. PICK c \in Nat, p \in Nat, q \in Nat :
         c = CommitsIn(commands) /\ p = PreparedIn(events) /\ q = PreparedIn(batch)
    BY Counted
<1>3. c + p + q = 0
    BY <1>2 DEF Commits
<1>4. c = 0 /\ p = 0 /\ q = 0
    BY <1>3
<1>5. CommitsIn(commands) = 0 /\ PreparedIn(events) = 0 /\ PreparedIn(batch) = 0
    BY <1>2, <1>4
<1> QED
    BY <1>1, <1>5, MessageCounts, EventCounts DEF CommitUnderWay

\* The same, of the state after a step.
LEMMA CommitsCountNext == Types' /\ Commits' = 0 => ~CommitUnderWay'
<1>1. NoCommit' => ~CommitUnderWay'
    BY CommitsCount, PTL
<1> QED
    BY <1>1 DEF NoCommit

-----------------------------------------------------------------------------
(* What a step of the process does to what is loaded and told.             *)

\* The process goes on with what it has, takes no submission, or takes one.
GoesOn ==
    /\ child'.request = child.request /\ child'.op = child.op
    /\ child'.pc \in Working => child.pc \in Working
    /\ child'.pc = "awaitCommit" => child.op = "load" /\ child.pc = "preparing"
    /\ child'.pc # "preparing"
    /\ Serving' => Serving
TakesNoJob == Serving /\ child'.pc \in {"closing", "previewing"} /\ child.pc = "idle"
TakesAJob ==
    /\ child.pc = "idle" /\ child'.pc = "preparing"
    /\ \E m \in ToSet(commands) : m.op \in Jobs /\ m.op = child'.op /\ m.request = child'.request

\* It changes nothing that is loaded, loads, or resets.
ChangesNothing ==
    /\ child'.pc = "faulted" => child.pc = "faulted"
    /\ ~(child.pc = "awaitCommit" /\ child'.pc = "executing")
    /\ \/ events' = events
       \/ \E e \in EventType : e.kind \notin Marks /\ events' = Append(events, e)
LoadsIt ==
    /\ child.pc = "awaitCommit" /\ child'.pc = "executing"
    /\ child'.request = child.request /\ child'.op = child.op
    /\ \E e \in EventType : e.kind = "loaded" /\ events' = Append(events, e)
ResetsIt ==
    /\ child.pc = "executing" /\ child'.pc = "faulted"
    /\ child'.request = child.request /\ child'.op = child.op
    /\ \E e \in EventType : e.kind = "reset" /\ events' = Append(events, e)

\* A prepared load is told of while the process waits for the commit.
TellsOfCommit ==
    \A e \in ToSet(events') : e.kind = "prepared" => e \in ToSet(events) \/ child'.pc = "awaitCommit"

ChildStep ==
    /\ batch' = batch /\ completions' = completions /\ busy' = busy /\ closePc' = closePc
    /\ ToSet(commands') \subseteq ToSet(commands)
    /\ GoesOn \/ TakesNoJob \/ TakesAJob \/ (child' = child /\ events' = events)
    /\ ChangesNothing \/ LoadsIt \/ ResetsIt
    /\ TellsOfCommit

\* An event is told of by the process, and no load that is prepared.
LEMMA ToldOf ==
    ASSUME Types, NEW k \in Kinds, child.request \in 0..MaxRequest, child.written \in Nat,
           events' = Append(events, Event(k, child.request, child.written))
    PROVE  /\ \E e \in EventType : e.kind = k /\ events' = Append(events, e)
           /\ k # "prepared" => TellsOfCommit
<1> DEFINE e == Event(k, child.request, child.written)
<1>1. e \in EventType /\ e.kind = k
    BY DEF Event, EventType
<1> HIDE DEF e
<1>2. ToSet(events') = ToSet(events) \cup {e}
    BY <1>1, Typed, EventAppended DEF e
<1> QED
    BY <1>1, <1>2 DEF TellsOfCommit, e

\* Every step of the process is such a step.
LEMMA ServeIs ==
    ASSUME WorkerInv, Serve \/ Feed \/ Interrupt \/ Crash \/ Die
    PROVE  ChildStep
<1>1. /\ Types /\ MaxRequest \in Nat /\ commands \in Seq(MessageType) /\ events \in Seq(EventType)
      /\ child \in ChildType /\ child.request \in 0..MaxRequest /\ child.written \in Nat
      /\ child.outcome \in Ends \cup {"closed", "interrupted"}
  <2>1. child \in ChildType /\ Types
      BY Typed DEF WorkerInv
  <2> QED
      BY <2>1, Typed DEF ChildType
<1>2. Kinds = {"ready", "started", "completion", "blocked", "prepared", "accepted",
               "loaded", "cancelled", "input", "reset", "finished", "failed",
               "interrupted", "closed", "output", "truncated"}
    BY DEF Kinds
<1> DEFINE Told(k) == events' = Append(events, Event(k, child.request, child.written))
<1>3. ASSUME NEW k \in Kinds, Told(k)
      PROVE  /\ \E e \in EventType : e.kind = k /\ events' = Append(events, e)
             /\ k # "prepared" => TellsOfCommit
    BY <1>1, <1>3, ToldOf
<1>4. ASSUME events' = events PROVE TellsOfCommit
    BY <1>4 DEF TellsOfCommit
<1>5. ASSUME child'.pc = "awaitCommit" PROVE TellsOfCommit
    BY <1>5 DEF TellsOfCommit
<1>6. ASSUME UNCHANGED <<parentVars, clientVars, commands>>
      PROVE  /\ batch' = batch /\ completions' = completions /\ busy' = busy /\ closePc' = closePc
             /\ ToSet(commands') \subseteq ToSet(commands)
    BY <1>6 DEF parentVars, clientVars
<1>7. ASSUME NEW k \in Kinds \ Marks, Told(k),
             child'.pc = "faulted" => child.pc = "faulted",
             ~(child.pc = "awaitCommit" /\ child'.pc = "executing")
      PROVE  ChangesNothing
  <2>1. \E e \in EventType : e.kind = k /\ events' = Append(events, e)
      BY <1>3, <1>7
  <2> QED
      BY <1>7, <2>1 DEF ChangesNothing
<1>8. CASE Boot
  <2>1. /\ UNCHANGED <<parentVars, clientVars, commands>> /\ Told("ready")
        /\ child.pc = "boot" /\ child' = [child EXCEPT !.pc = "idle"]
      BY <1>8 DEF Boot, Emit, ChildGoes
  <2>2. child'.pc = "idle" /\ child'.request = child.request /\ child'.op = child.op
      BY <1>1, <2>1 DEF ChildType
  <2>3. "ready" \in Kinds \ Marks
      BY <1>2 DEF Marks
  <2>4. ChangesNothing /\ TellsOfCommit
      BY <1>3, <1>7, <2>1, <2>2, <2>3
  <2>5. GoesOn
      BY <2>1, <2>2 DEF GoesOn, Serving, Working
  <2> QED
      BY <1>6, <2>1, <2>4, <2>5 DEF ChildStep
<1>9. CASE GetShutdown \/ GetPreview \/ GetJob
  <2>1. /\ UNCHANGED <<parentVars, clientVars>> /\ child.pc = "idle" /\ commands # <<>>
        /\ commands' = Tail(commands)
      BY <1>9 DEF GetShutdown, GetPreview, GetJob, Get
  <2>2. /\ batch' = batch /\ completions' = completions /\ busy' = busy /\ closePc' = closePc
        /\ ToSet(commands') \subseteq ToSet(commands) /\ Head(commands) \in ToSet(commands)
        /\ Head(commands).request \in 0..MaxRequest
    <3>1. ToSet(commands) = {Head(commands)} \cup ToSet(Tail(commands)) /\ Head(commands) \in MessageType
        BY <1>1, <2>1, MessageTaken
    <3> QED
        BY <2>1, <3>1 DEF parentVars, clientVars, MessageType
  <2>3. CASE GetShutdown \/ GetPreview
    <3>1. child'.pc \in {"closing", "previewing"} /\ events' = events
        BY <2>3 DEF GetShutdown, GetPreview, Get
    <3>2. TakesNoJob
        BY <2>1, <3>1 DEF TakesNoJob, Serving
    <3>3. ChangesNothing /\ TellsOfCommit
        BY <1>4, <2>1, <3>1 DEF ChangesNothing
    <3> QED
        BY <2>2, <3>2, <3>3 DEF ChildStep
  <2>4. CASE GetJob
    <3>1. PICK op \in {"load", "command"} : Get(op, "preparing", "finished")
        BY <2>4 DEF GetJob
    <3>2. /\ Head(commands).op = op /\ child'.pc = "preparing" /\ child'.op = op
          /\ child'.request = Head(commands).request
        BY <3>1 DEF Get
    <3>3. events' = Append(events, Event("started", Head(commands).request, 0))
        BY <2>4 DEF GetJob
    <3>4. TakesAJob
        BY <2>1, <2>2, <3>2 DEF TakesAJob, Jobs
    <3> DEFINE e == Event("started", Head(commands).request, 0)
    <3>5. e \in EventType /\ e.kind = "started"
        BY <2>2, <1>2 DEF Event, EventType
    <3> HIDE DEF e
    <3>6. ToSet(events') = ToSet(events) \cup {e} /\ events' = Append(events, e)
        BY <1>1, <3>3, <3>5, EventAppended DEF e
    <3>7. ChangesNothing /\ TellsOfCommit
        BY <2>1, <3>2, <3>5, <3>6 DEF ChangesNothing, TellsOfCommit, Marks
    <3> QED
        BY <2>2, <3>4, <3>7 DEF ChildStep
  <2> QED
      BY <1>9, <2>3, <2>4
<1>10. CASE Preview
  <2>1. /\ UNCHANGED <<parentVars, clientVars, commands>> /\ Told("completion")
        /\ child.pc = "previewing" /\ child' = [child EXCEPT !.pc = "idle"]
      BY <1>10 DEF Preview, Emit, ChildGoes
  <2>2. child'.pc = "idle" /\ child'.request = child.request /\ child'.op = child.op
      BY <1>1, <2>1 DEF ChildType
  <2>3. "completion" \in Kinds \ Marks
      BY <1>2 DEF Marks
  <2>4. ChangesNothing /\ TellsOfCommit
      BY <1>3, <1>7, <2>1, <2>2, <2>3
  <2>5. GoesOn
      BY <2>1, <2>2 DEF GoesOn, Serving, Working
  <2> QED
      BY <1>6, <2>1, <2>4, <2>5 DEF ChildStep
<1>11. CASE Prepare
  <2>1. /\ UNCHANGED <<parentVars, clientVars, commands>> /\ child.pc = "preparing"
      BY <1>11 DEF Prepare
  <2>2. /\ child'.request = child.request /\ child'.op = child.op
        /\ child'.pc \in {"reporting", "awaitCommit", "executing"}
        /\ \/ events' = events /\ child'.pc # "awaitCommit"
           \/ Told("blocked") /\ child'.pc # "awaitCommit"
           \/ Told("accepted") /\ child'.pc # "awaitCommit"
           \/ Told("prepared") /\ child'.pc = "awaitCommit" /\ child.op = "load"
      BY <1>1, <1>11 DEF Prepare, Emit, ChildGoes, ChildType
  <2>3. {"blocked", "accepted", "prepared"} \subseteq Kinds \ Marks
      BY <1>2 DEF Marks
  <2>4. ChangesNothing
    <3>1. CASE events' = events
        BY <2>1, <2>2, <3>1 DEF ChangesNothing
    <3> QED
        BY <1>7, <2>1, <2>2, <2>3, <3>1
  <2>5. TellsOfCommit
      BY <1>3, <1>4, <1>5, <2>2, <2>3
  <2>6. GoesOn
      BY <2>1, <2>2 DEF GoesOn, Serving, Working
  <2> QED
      BY <1>6, <2>1, <2>4, <2>5, <2>6 DEF ChildStep
<1>12. CASE GetCommit
  <2>1. /\ UNCHANGED <<parentVars, clientVars>> /\ child.pc = "awaitCommit" /\ commands # <<>>
        /\ commands' = Tail(commands)
        /\ \/ child' = [child EXCEPT !.pc = "executing"] /\ Told("loaded")
           \/ child' = [child EXCEPT !.pc = "idle"] /\ Told("cancelled")
      BY <1>12 DEF GetCommit, ChildGoes, Emit
  <2>2. /\ batch' = batch /\ completions' = completions /\ busy' = busy /\ closePc' = closePc
        /\ ToSet(commands') \subseteq ToSet(commands)
    <3>1. ToSet(commands) = {Head(commands)} \cup ToSet(Tail(commands))
        BY <1>1, <2>1, MessageTaken
    <3> QED
        BY <2>1, <3>1 DEF parentVars, clientVars
  <2>3. /\ child'.request = child.request /\ child'.op = child.op
        /\ \/ child'.pc = "executing" /\ Told("loaded")
           \/ child'.pc = "idle" /\ Told("cancelled")
      BY <1>1, <2>1 DEF ChildType
  <2>4. "loaded" \in Kinds /\ "cancelled" \in Kinds \ Marks
      BY <1>2 DEF Marks
  <2>5. TellsOfCommit
      BY <1>3, <2>3, <2>4
  <2>6. GoesOn
      BY <2>1, <2>3 DEF GoesOn, Serving, Working
  <2>7. CASE child'.pc = "executing" /\ Told("loaded")
    <3>1. LoadsIt
        BY <1>3, <2>1, <2>3, <2>4, <2>7 DEF LoadsIt
    <3> QED
        BY <2>2, <2>5, <2>6, <3>1 DEF ChildStep
  <2>8. CASE child'.pc = "idle" /\ Told("cancelled")
    <3>1. ChangesNothing
        BY <1>7, <2>4, <2>8
    <3> QED
        BY <2>2, <2>5, <2>6, <3>1 DEF ChildStep
  <2> QED
      BY <2>3, <2>7, <2>8
<1>13. CASE Write \/ DropChunk \/ CountDrop \/ GetInput \/ Interrupt \/ Crash
  <2>1. /\ UNCHANGED <<parentVars, clientVars, commands>> /\ events' = events
        /\ child'.request = child.request /\ child'.op = child.op
        /\ \/ child'.pc = child.pc /\ child.pc \in {"executing", "reporting"}
           \/ child.pc \in {"executing", "reporting"} /\ child'.pc = "dropping"
           \/ child.pc = "dropping" /\ child'.pc = child.resume
           \/ child.pc = "awaitInput" /\ child'.pc = "executing"
           \/ child'.pc = "closing" /\ child.pc # "awaitCommit"
      BY <1>1, <1>13 DEF Write, CanWrite, DropChunk, CountDrop, GetInput, ChildGoes, Interrupt,
         Interruptible, Crash, ChildType, outVars
  <2>2. child.pc = "dropping" => child.resume \in {"executing", "reporting"}
      BY <1>1 DEF Types
  <2>3. GoesOn /\ ChangesNothing
      BY <2>1, <2>2 DEF GoesOn, ChangesNothing, Working, Serving
  <2> QED
      BY <1>4, <1>6, <2>1, <2>3 DEF ChildStep
<1>14. CASE AskInput
  <2>1. /\ UNCHANGED <<parentVars, clientVars, commands>> /\ Told("input")
        /\ child.pc = "executing" /\ child' = [child EXCEPT !.pc = "awaitInput", !.chunks = @ + 1]
      BY <1>14 DEF AskInput, Emit
  <2>2. child'.pc = "awaitInput" /\ child'.request = child.request /\ child'.op = child.op
      BY <1>1, <2>1 DEF ChildType
  <2>3. "input" \in Kinds \ Marks
      BY <1>2 DEF Marks
  <2>4. ChangesNothing /\ TellsOfCommit
      BY <1>3, <1>7, <2>1, <2>2, <2>3
  <2>5. GoesOn
      BY <2>1, <2>2 DEF GoesOn, Serving, Working
  <2> QED
      BY <1>6, <2>1, <2>4, <2>5 DEF ChildStep
<1>15. CASE ExecuteDone
  <2>1. /\ UNCHANGED <<parentVars, clientVars, commands>> /\ child.pc = "executing"
        /\ child'.request = child.request /\ child'.op = child.op
        /\ \/ child'.pc = "idle" /\ Told("finished")
           \/ child'.pc = "idle" /\ Told("cancelled")
           \/ child'.pc = "faulted" /\ Told("reset")
      BY <1>1, <1>15 DEF ExecuteDone, Emit, ChildGoes, ChildType
  <2>2. "reset" \in Kinds /\ {"finished", "cancelled"} \subseteq Kinds \ Marks
      BY <1>2 DEF Marks
  <2>3. TellsOfCommit
      BY <1>3, <2>1, <2>2
  <2>4. GoesOn
      BY <2>1 DEF GoesOn, Serving, Working
  <2>5. ChangesNothing \/ ResetsIt
    <3>1. CASE child'.pc = "idle" /\ Told("finished")
        BY <1>7, <2>2, <3>1
    <3>2. CASE child'.pc = "idle" /\ Told("cancelled")
        BY <1>7, <2>2, <3>2
    <3>3. CASE child'.pc = "faulted" /\ Told("reset")
        BY <1>3, <2>1, <2>2, <3>3 DEF ResetsIt
    <3> QED
        BY <2>1, <3>1, <3>2, <3>3
  <2> QED
      BY <1>6, <2>1, <2>3, <2>4, <2>5 DEF ChildStep
<1>16. CASE Report \/ Leave
  <2>1. /\ UNCHANGED <<parentVars, clientVars, commands>> /\ Told(child.outcome)
        /\ child.pc \in {"reporting", "faulted", "closing"}
        /\ child'.request = child.request /\ child'.op = child.op
        /\ child'.pc \in {"idle", "exited"} /\ (child.pc = "closing" => child'.pc = "exited")
      BY <1>1, <1>16 DEF Report, Leave, Emit, ChildGoes, ChildType
  <2>2. child.outcome \in Kinds \ Marks /\ child.outcome # "prepared"
      BY <1>1, <1>2 DEF Marks, Ends
  <2>3. ChangesNothing /\ TellsOfCommit
      BY <1>3, <1>7, <2>1, <2>2
  <2>4. GoesOn
      BY <2>1 DEF GoesOn, Serving, Working
  <2> QED
      BY <1>6, <2>1, <2>3, <2>4 DEF ChildStep
<1>17. CASE Die
  <2>1. /\ UNCHANGED <<parentVars, clientVars, commands>> /\ events' = events
        /\ child'.request = child.request /\ child'.op = child.op /\ child'.pc = "killed"
      BY <1>1, <1>17 DEF Die, ChildGoes, ChildType
  <2>2. GoesOn /\ ChangesNothing
      BY <2>1 DEF GoesOn, ChangesNothing, Serving, Working
  <2> QED
      BY <1>4, <1>6, <2>1, <2>2 DEF ChildStep
<1>18. CASE Feed
  <2>1. UNCHANGED <<parentVars, clientVars, commands>> /\ events' = events /\ child' = child
      BY <1>18 DEF Feed
  <2>2. ChangesNothing
      BY <2>1 DEF ChangesNothing
  <2> QED
      BY <1>4, <1>6, <2>1, <2>2 DEF ChildStep
<1> QED
    BY <1>8, <1>9, <1>10, <1>11, <1>12, <1>13, <1>14, <1>15, <1>16, <1>17, <1>18 DEF Serve

\* It keeps what is told in order ...
LEMMA ChildKeepsOrder ==
    ASSUME WorkerInv, WorkerInv', MarksInOrder, ChildStep
    PROVE  MarksInOrder'
<1>1. /\ Types /\ Counts /\ events \in Seq(EventType) /\ commands \in Seq(MessageType)
      /\ commands' \in Seq(MessageType)
  <2>1. Types'
      BY DEF WorkerInv
  <2>2. commands' \in Seq(MessageType)
      BY <2>1 DEF Types, TypeOK, MessageType
  <2> QED
      BY <2>2, Typed DEF WorkerInv
<1>2. /\ batch' = batch /\ completions' = completions /\ busy' = busy
      /\ ToSet(commands') \subseteq ToSet(commands)
    BY DEF ChildStep
<1>3. JobsIn(commands') > 0 => JobsIn(commands) > 0
  <2>1. JobsIn(commands) = 0 => JobsIn(commands') = 0
      BY <1>1, <1>2, MessageCounts
  <2>2. JobsIn(commands) \in Nat /\ JobsIn(commands') \in Nat
      BY <1>1, MessageCounts
  <2> QED
      BY <2>1, <2>2
<1>4. (Serving' => Serving) /\ (Serving' /\ Fresh' => Fresh)
  <2>1. CASE GoesOn \/ (child' = child /\ events' = events)
      BY <1>3, <2>1 DEF GoesOn, Fresh, Serving
  <2>2. CASE TakesNoJob
      BY <1>3, <2>2 DEF TakesNoJob, Fresh
  <2>3. CASE TakesAJob
    <3>1. JobsIn(commands) # 0 /\ JobsIn(commands) \in Nat
        BY <1>1, <2>3, MessageCounts DEF TakesAJob
    <3>2. JobsIn(commands) > 0
        BY <3>1
    <3> QED
        BY <2>3, <3>2 DEF TakesAJob, Fresh, Serving
  <2> QED
      BY <2>1, <2>2, <2>3 DEF ChildStep
<1>5. /\ Before(events, Marks, Ending) /\ Before(events, {"loaded"}, {"reset"})
      /\ Has(events, Marks) => completions = <<>> /\ ~Has(batch, Ending)
      /\ Has(batch, {"reset"}) => ~Has(events, {"loaded"})
      /\ Serving /\ Fresh => ~Has(events, Marks) /\ ~Has(batch, Marks)
      /\ Serving /\ Has(events, Marks) => busy
    BY DEF MarksInOrder
<1>6. CASE ChangesNothing
  <2>1. /\ Before(events', Marks, Ending) /\ Before(events', {"loaded"}, {"reset"})
        /\ Has(events', Marks) => Has(events, Marks)
        /\ Has(events', {"loaded"}) => Has(events, {"loaded"})
    <3>1. CASE events' = events
        BY <1>5, <3>1
    <3>2. CASE \E e \in EventType : e.kind \notin Marks /\ events' = Append(events, e)
      <4>1. PICK e \in EventType : e.kind \notin Marks /\ events' = Append(events, e)
          BY <3>2
      <4>2. ToSet(events') = ToSet(events) \cup {e}
          BY <1>1, <4>1, EventAppended
      <4>3. Before(events', Marks, Ending)
          BY <1>1, <1>5, <4>1, BeforeAppended
      <4>4. e.kind \notin {"loaded"}
          BY <4>1 DEF Marks
      <4>5. Before(events', {"loaded"}, {"reset"})
          BY <1>1, <1>5, <4>1, <4>4, BeforeAppended
      <4> QED
          BY <4>1, <4>2, <4>3, <4>4, <4>5 DEF Has
    <3> QED
        BY <1>6, <3>1, <3>2 DEF ChangesNothing
  <2> QED
      BY <1>2, <1>4, <1>5, <2>1 DEF MarksInOrder
<1>7. ASSUME child.pc \in Working
      PROVE  /\ ~Has(events, Ending) /\ completions = <<>> /\ ~Has(batch, Ending) /\ busy
             /\ JobsIn(commands) = 0
    BY <1>1, <1>7, OnlyOne
<1>8. CASE LoadsIt
  <2>1. PICK e \in EventType : e.kind = "loaded" /\ events' = Append(events, e)
      BY <1>8 DEF LoadsIt
  <2>2. child.pc = "awaitCommit" /\ child'.pc = "executing" /\ child.pc \in Working /\ Serving /\ Fresh
      BY <1>8 DEF LoadsIt, Working, Serving, Fresh
  <2>3. ToSet(events') = ToSet(events) \cup {e}
      BY <1>1, <2>1, EventAppended
  <2>4. ~Has(events, Ending) /\ ~Has(events, {"reset"}) /\ ~Has(batch, {"reset"})
      BY <1>5, <1>7, <2>2 DEF Has, Marks
  <2>5. Before(events', Marks, Ending)
      BY <1>1, <1>5, <2>1, <2>4, BeforeAppended
  <2>6. Before(events', {"loaded"}, {"reset"})
      BY <1>1, <1>5, <2>1, <2>4, BeforeAppended
  <2>7. ~Fresh'
    <3>1. ~(JobsIn(commands') > 0)
        BY <1>3, <1>7, <2>2
    <3> QED
        BY <2>2, <3>1 DEF Fresh
  <2> QED
      BY <1>2, <1>7, <2>2, <2>4, <2>5, <2>6, <2>7 DEF MarksInOrder
<1>9. CASE ResetsIt
  <2>1. PICK e \in EventType : e.kind = "reset" /\ events' = Append(events, e)
      BY <1>9 DEF ResetsIt
  <2>2. child.pc = "executing" /\ child'.pc = "faulted" /\ child.pc \in Working
      BY <1>9 DEF ResetsIt, Working
  <2>3. ToSet(events') = ToSet(events) \cup {e}
      BY <1>1, <2>1, EventAppended
  <2>4. Before(events', Marks, Ending)
      BY <1>1, <1>5, <1>7, <2>1, <2>2, BeforeAppended
  <2>5. Before(events', {"loaded"}, {"reset"})
      BY <1>1, <1>5, <2>1, BeforeAppended
  <2>6. Has(events', {"loaded"}) => Has(events, {"loaded"})
      BY <2>1, <2>3 DEF Has
  <2>7. ~Fresh'
    <3>1. ~(JobsIn(commands') > 0)
        BY <1>3, <1>7, <2>2
    <3> QED
        BY <2>2, <3>1 DEF Fresh
  <2> QED
      BY <1>2, <1>5, <1>7, <2>2, <2>4, <2>5, <2>6, <2>7 DEF MarksInOrder
<1> QED
    BY <1>6, <1>8, <1>9 DEF ChildStep

\* ... works on what is pending ...
LEMMA ChildKeepsLoads ==
    ASSUME WorkerInv, WorkerInv', LoadsArePending, ChildStep,
           pending' = pending, submitted' = submitted
    PROVE  LoadsArePending'
<1>1. /\ batch' = batch /\ closePc' = closePc
      /\ ToSet(commands') \subseteq ToSet(commands)
    BY DEF ChildStep
<1>2. child'.pc = "awaitCommit" => child'.op = "load"
    BY DEF ChildStep, GoesOn, TakesNoJob, TakesAJob, LoadsArePending
<1> SUFFICES ASSUME closePc = "open"
             PROVE  /\ \A m \in ToSet(commands') : m.op = "load" =>
                          pending = submitted[m.request] /\ pending # Nothing
                    /\ child'.pc \in Working /\ child'.op = "load" =>
                          pending = submitted[child'.request] /\ pending # Nothing
                    /\ CommitUnderWay' => pending = submitted[child'.request]
    BY <1>1, <1>2 DEF LoadsArePending
<1>3. /\ \A m \in ToSet(commands) : m.op = "load" =>
            pending = submitted[m.request] /\ pending # Nothing
      /\ child.pc \in Working /\ child.op = "load" =>
            pending = submitted[child.request] /\ pending # Nothing
      /\ CommitUnderWay => pending = submitted[child.request]
    BY DEF LoadsArePending
<1>4. child'.pc \in Working /\ child'.op = "load" =>
         pending = submitted[child'.request] /\ pending # Nothing
  <2>1. CASE GoesOn \/ (child' = child /\ events' = events)
      BY <1>3, <2>1 DEF GoesOn
  <2>2. CASE TakesNoJob
      BY <2>2 DEF TakesNoJob, Working
  <2>3. CASE TakesAJob
      BY <1>3, <2>3 DEF TakesAJob
  <2> QED
      BY <2>1, <2>2, <2>3 DEF ChildStep
<1>5. CommitUnderWay' => pending = submitted[child'.request]
  <2>1. CASE child'.pc = "awaitCommit"
      BY <1>2, <1>4, <2>1 DEF Working
  <2>2. CASE Alive' /\ child'.pc # "awaitCommit"
    <3>1. Types' /\ Commits' = 0
        BY <2>2 DEF WorkerInv, Counts, OneAtATime
    <3> QED
        BY <3>1, CommitsCountNext
  <2>3. CASE ~Alive'
    <3>1. child'.request = child.request
        BY <2>3 DEF ChildStep, GoesOn, TakesNoJob, TakesAJob, Alive
    <3>2. CommitUnderWay' => CommitUnderWay
      <4>1. \A e \in ToSet(events') : e.kind = "prepared" => e \in ToSet(events)
          BY <2>3 DEF ChildStep, TellsOfCommit, Alive
      <4> QED
          BY <1>1, <4>1 DEF CommitUnderWay, Has
    <3> QED
        BY <1>3, <3>1, <3>2
  <2> QED
      BY <2>1, <2>2, <2>3
<1> QED
    BY <1>1, <1>3, <1>4, <1>5

\* ... and tells what it loads and resets.
LEMMA ChildKeepsShown ==
    ASSUME WorkerInv, WorkerInv', MarksInOrder, LoadsArePending, ShowsWhatIsLoaded, ChildStep,
           pending' = pending, loaded' = loaded, serviceLoaded' = ServiceLoaded
    PROVE  ShowsWhatIsLoaded'
<1>1. batch' = batch /\ closePc' = closePc /\ events \in Seq(EventType)
    BY Typed DEF ChildStep, WorkerInv
<1>2. /\ child.pc = "faulted" => serviceLoaded = Nothing
      /\ closePc = "open" => /\ Within({"loaded"}) => pending # Nothing
                             /\ Serving => serviceLoaded = Shown
    BY DEF ShowsWhatIsLoaded
<1>3. Serving' => Serving
    BY DEF ChildStep, GoesOn, TakesNoJob, TakesAJob, Serving
<1>4. CASE ChangesNothing
  <2>1. serviceLoaded' = serviceLoaded
      BY <1>2, <1>4 DEF ServiceLoaded, ChangesNothing
  <2>2. child'.pc = "faulted" => child.pc = "faulted"
      BY <1>4 DEF ChangesNothing
  <2>3. /\ Within({"loaded"})' <=> Within({"loaded"})
        /\ Within({"reset"})' <=> Within({"reset"})
    <3>1. CASE events' = events
        BY <1>1, <3>1 DEF Within
    <3>2. CASE \E e \in EventType : e.kind \notin Marks /\ events' = Append(events, e)
      <4>1. PICK e \in EventType : e.kind \notin Marks /\ events' = Append(events, e)
          BY <3>2
      <4>2. ToSet(events') = ToSet(events) \cup {e}
          BY <1>1, <4>1, EventAppended
      <4> QED
          BY <1>1, <4>1, <4>2 DEF Within, Has, Marks
    <3> QED
        BY <1>4, <3>1, <3>2 DEF ChangesNothing
  <2>4. Shown' = Shown
      BY <2>3 DEF Shown
  <2> QED
      BY <1>1, <1>2, <1>3, <2>1, <2>2, <2>3, <2>4 DEF ShowsWhatIsLoaded
<1>5. CASE LoadsIt
  <2>1. PICK e \in EventType : e.kind = "loaded" /\ events' = Append(events, e)
      BY <1>5 DEF LoadsIt
  <2>2. /\ child.pc = "awaitCommit" /\ child'.pc = "executing"
        /\ child.pc \in Working /\ Serving /\ Fresh
      BY <1>5 DEF LoadsIt, Working, Serving, Fresh
  <2>3. ToSet(events') = ToSet(events) \cup {e}
      BY <1>1, <2>1, EventAppended
  <2>4. serviceLoaded' = submitted[child.request]
      BY <2>2 DEF ServiceLoaded
  <2>5. closePc = "open" => pending = submitted[child.request] /\ pending # Nothing
      BY <2>2 DEF LoadsArePending
  <2>6. ~Within({"reset"})'
      BY <1>1, <2>1, <2>2, <2>3 DEF MarksInOrder, Within, Has, Marks
  <2>7. Within({"loaded"})'
      BY <2>1, <2>3 DEF Within, Has
  <2>8. Shown' = pending
      BY <2>6, <2>7 DEF Shown
  <2> QED
      BY <1>1, <2>2, <2>4, <2>5, <2>8 DEF ShowsWhatIsLoaded
<1>6. CASE ResetsIt
  <2>1. PICK e \in EventType : e.kind = "reset" /\ events' = Append(events, e)
      BY <1>6 DEF ResetsIt
  <2>2. ToSet(events') = ToSet(events) \cup {e}
      BY <1>1, <2>1, EventAppended
  <2>3. serviceLoaded' = Nothing
      BY <1>6 DEF ServiceLoaded, ResetsIt
  <2>4. Within({"reset"})' /\ (Within({"loaded"})' => Within({"loaded"}))
      BY <1>1, <2>1, <2>2 DEF Within, Has
  <2>5. Shown' = Nothing
      BY <2>4 DEF Shown
  <2> QED
      BY <1>1, <1>2, <2>3, <2>4, <2>5 DEF ShowsWhatIsLoaded
<1> QED
    BY <1>4, <1>5, <1>6 DEF ChildStep

-----------------------------------------------------------------------------
(* What the calls of the owner do to it.                                   *)

\* Nothing that is told is taken, and nothing of importance is put.
PassesOn ==
    /\ child' = child /\ events' = events
    /\ \A m \in ToSet(commands') : m \in ToSet(commands) \/ m.op \notin Jobs \cup {"commit"}
    /\ \A x \in ToSet(batch') : x \in ToSet(batch) \/ x.kind \notin Marks \cup {"prepared"}
    /\ closePc' = "open" => closePc = "open" /\ ToSet(batch) \subseteq ToSet(batch')
    /\ completions = <<>> =>
         /\ completions' = <<>>
         /\ \A x \in ToSet(batch') : x.kind \in Ending => x \in ToSet(batch)
         /\ Serving => busy' = busy

\* Such a step keeps the order, and what is under way is pending as before ...
LEMMA PassingKeeps ==
    ASSUME WorkerInv, WorkerInv', PassesOn, MarksInOrder, LoadsArePending,
           pending' = pending, submitted' = submitted
    PROVE  MarksInOrder' /\ LoadsArePending'
<1>1. /\ Types /\ commands \in Seq(MessageType) /\ commands' \in Seq(MessageType)
  <2>1. Types'
      BY DEF WorkerInv
  <2> QED
      BY <2>1, Typed DEF WorkerInv, Types, TypeOK, MessageType
<1>2. /\ child' = child /\ events' = events
      /\ \A m \in ToSet(commands') : m \in ToSet(commands) \/ m.op \notin Jobs \cup {"commit"}
      /\ \A x \in ToSet(batch') : x \in ToSet(batch) \/ x.kind \notin Marks \cup {"prepared"}
      /\ closePc' = "open" => closePc = "open" /\ ToSet(batch) \subseteq ToSet(batch')
      /\ completions = <<>> =>
           /\ completions' = <<>>
           /\ \A x \in ToSet(batch') : x.kind \in Ending => x \in ToSet(batch)
           /\ Serving => busy' = busy
    BY DEF PassesOn
<1>3. JobsIn(commands') > 0 => JobsIn(commands) > 0
  <2>1. JobsIn(commands) = 0 => JobsIn(commands') = 0
      BY <1>1, <1>2, MessageCounts
  <2>2. JobsIn(commands) \in Nat /\ JobsIn(commands') \in Nat
      BY <1>1, MessageCounts
  <2> QED
      BY <2>1, <2>2
<1>4. (Serving' <=> Serving) /\ (Fresh' => Fresh)
    BY <1>2, <1>3 DEF Serving, Fresh
<1>5. MarksInOrder'
  <2>1. /\ Before(events, Marks, Ending) /\ Before(events, {"loaded"}, {"reset"})
        /\ Has(events, Marks) => completions = <<>> /\ ~Has(batch, Ending)
        /\ Has(batch, {"reset"}) => ~Has(events, {"loaded"})
        /\ Serving /\ Fresh => ~Has(events, Marks) /\ ~Has(batch, Marks)
        /\ Serving /\ Has(events, Marks) => busy
      BY DEF MarksInOrder
  <2>2. /\ Has(batch', Marks) => Has(batch, Marks)
        /\ Has(batch', {"reset"}) => Has(batch, {"reset"})
      BY <1>2 DEF Has, Marks
  <2>3. Has(events, Marks) => /\ completions' = <<>> /\ ~Has(batch', Ending)
                              /\ (Serving => busy' = busy)
      BY <1>2, <2>1 DEF Has
  <2> QED
      BY <1>2, <1>4, <2>1, <2>2, <2>3 DEF MarksInOrder
<1>6. LoadsArePending'
  <2>1. \A m \in ToSet(commands') : m.op \in {"load", "commit"} => m \in ToSet(commands)
      BY <1>2 DEF Jobs
  <2>2. CommitUnderWay' => CommitUnderWay
      BY <1>2, <2>1 DEF CommitUnderWay, Has
  <2> QED
      BY <1>2, <2>1, <2>2 DEF LoadsArePending
<1> QED
    BY <1>5, <1>6

\* ... and the editor will show what it would have shown.
LEMMA PassingKeepsShown ==
    ASSUME PassesOn, ShowsWhatIsLoaded,
           pending' = pending, loaded' = loaded, serviceLoaded' = serviceLoaded
    PROVE  ShowsWhatIsLoaded'
<1>1. /\ child' = child /\ events' = events /\ (Serving' <=> Serving)
      /\ closePc' = "open" => closePc = "open" /\ ToSet(batch) \subseteq ToSet(batch')
      /\ \A x \in ToSet(batch') : x \in ToSet(batch) \/ x.kind \notin Marks
    BY DEF PassesOn, Serving
<1>2. ASSUME closePc' = "open"
      PROVE  /\ Within({"loaded"})' <=> Within({"loaded"})
             /\ Within({"reset"})' <=> Within({"reset"})
    BY <1>1, <1>2 DEF Within, Has, Marks
<1>3. closePc' = "open" => Shown' = Shown
    BY <1>2 DEF Shown
<1> QED
    BY <1>1, <1>2, <1>3 DEF ShowsWhatIsLoaded

\* These steps are such steps.
LEMMA PassesOnIs ==
    ASSUME WorkerInv,
           \/ PollStart \/ PollEventsDone \/ PollOutput \/ PollEnd \/ CloseJoined \/ CloseTake
           \/ Complete \/ ProvideInput \/ CloseStart \/ UNCHANGED vars
    PROVE  PassesOn
<1>1. /\ Types /\ commands \in Seq(MessageType) /\ batch \in Seq(EventType)
      /\ completions \in Seq(EventType)
      /\ request \in 0..MaxRequest /\ MaxRequest \in Nat
    BY Typed DEF WorkerInv
<1>2. CASE PollStart \/ ProvideInput \/ CloseJoined \/ UNCHANGED vars
  <2>1. /\ child' = child /\ events' = events /\ commands' = commands
        /\ completions' = completions /\ busy' = busy
        /\ closePc' = "open" => closePc' = closePc
        /\ ToSet(batch') = ToSet(batch)
    <3>1. PollStart => batch' = batch
        BY DEF PollStart, WorkerInv, Counts, DeathIsLast
    <3> QED
        BY <1>2, <3>1 DEF PollStart, ProvideInput, CloseJoined, vars, parentVars, clientVars
  <2> QED
      BY <2>1 DEF PassesOn
<1>3. CASE PollEventsDone
  <2>1. /\ child' = child /\ events' = events /\ commands' = commands
        /\ completions' = completions /\ closePc' = closePc
        /\ \/ batch' = batch
           \/ batch' = Append(batch, Event("closed", 0, 0))
        /\ Alive => busy' = busy
      BY <1>3 DEF PollEventsDone
  <2> DEFINE e == Event("closed", 0, 0)
  <2>2. e \in EventType /\ e.kind = "closed"
      BY <1>1 DEF Event, EventType, Kinds
  <2> HIDE DEF e
  <2>3. ToSet(batch') = ToSet(batch) \/ ToSet(batch') = ToSet(batch) \cup {e}
      BY <1>1, <2>1, <2>2, EventAppended DEF e
  <2>4. Serving => Alive
      BY DEF Serving, Alive
  <2> QED
      BY <2>1, <2>2, <2>3, <2>4 DEF PassesOn, Marks, Ending
<1>4. CASE PollOutput
  <2> DEFINE e == Event("output", Head(outPipe), 0)
  <2>1. /\ child' = child /\ events' = events /\ commands' = commands
        /\ completions' = completions /\ closePc' = closePc /\ busy' = busy
        /\ batch' = Append(batch, e) /\ outPipe # <<>>
      BY <1>4 DEF PollOutput
  <2>2. Head(outPipe) \in 1..MaxRequest
    <3>1. outPipe \in Seq(1..MaxRequest)
        BY <1>1, Typed
    <3> QED
        BY <2>1, <3>1, OutputCounts
  <2>3. e \in EventType /\ e.kind = "output"
      BY <1>1, <2>2 DEF Event, EventType, Kinds
  <2> HIDE DEF e
  <2>4. ToSet(batch') = ToSet(batch) \cup {e}
      BY <1>1, <2>1, <2>3, EventAppended
  <2> QED
      BY <2>1, <2>3, <2>4 DEF PassesOn, Marks, Ending
<1>5. CASE PollEnd
  <2>1. Len(completions) <= 1
    <3>1. Waits + InProcess <= 1
        BY DEF WorkerInv, Counts, OneAtATime
    <3>2. PICK j \in Nat, p \in Nat, l \in Nat, i \in Nat :
             /\ j = JobsIn(commands) /\ p = EndsIn(events) /\ l = Len(completions) /\ i = InProcess
        BY <1>1, Counted, Summed
    <3>3. (j + p + l) + i <= 1
        BY <3>1, <3>2 DEF Waits
    <3>4. l <= 1
        BY <3>3
    <3> QED
        BY <3>2, <3>4
  <2>2. PICK c, mid : PollsEnd(c, mid)
      BY <1>1, <1>5, <2>1, PollEndIs
  <2>3. /\ child' = child /\ events' = events /\ commands' = commands /\ closePc' = closePc
      BY <1>5 DEF PollEnd
  <2> DEFINE t == Event("truncated", 0, 0)
  <2>4. t \in EventType /\ t.kind = "truncated"
      BY <1>1 DEF Event, EventType, Kinds
  <2>5. batch' = mid \/ batch' = Append(mid, t)
      BY <2>2 DEF PollsEnd
  <2> HIDE DEF t
  <2>6. \/ mid = batch /\ completions' = completions /\ busy' = busy
        \/ c \in ToSet(completions) /\ mid = Append(batch, c) /\ Len(completions) = 1
      BY <2>2 DEF PollsEnd
  <2>7. c \in ToSet(completions) => c \in EventType /\ c.kind \in Ends
    <3>1. ToSet(completions) \subseteq EventType
        BY <1>1, RangeIn
    <3> QED
        BY <1>1, <3>1 DEF Types
  <2>8. /\ mid \in Seq(EventType)
        /\ \/ mid = batch /\ completions' = completions /\ busy' = busy
           \/ ToSet(mid) = ToSet(batch) \cup {c} /\ c.kind \in Ends /\ completions # <<>>
    <3>1. CASE mid = batch /\ completions' = completions /\ busy' = busy
        BY <1>1, <3>1
    <3>2. CASE c \in ToSet(completions) /\ mid = Append(batch, c) /\ Len(completions) = 1
      <4>1. completions # <<>>
          BY <3>2, NothingIn
      <4> QED
          BY <1>1, <2>7, <3>2, <4>1, EventAppended
    <3> QED
        BY <2>6, <3>1, <3>2
  <2>9. ToSet(batch') = ToSet(mid) \/ ToSet(batch') = ToSet(mid) \cup {t}
      BY <2>4, <2>5, <2>8, EventAppended
  <2>10. t.kind \notin Marks \cup {"prepared"} \cup Ending
      BY <2>4 DEF Marks, Ending
  <2>11. c.kind \in Ends => c.kind \notin Marks \cup {"prepared"}
      BY DEF Marks, Ends
  <2> QED
      BY <2>3, <2>8, <2>9, <2>10, <2>11 DEF PassesOn
<1>6. CASE CloseTake
  <2>1. /\ child' = child /\ events' = events /\ commands' = commands
        /\ completions' = completions /\ busy' = busy /\ closePc' # "open" /\ batch' = <<>>
      BY <1>6 DEF CloseTake, parentVars
  <2>2. ToSet(batch') = {}
      BY <2>1, NothingIn
  <2> QED
      BY <2>1, <2>2 DEF PassesOn
<1>7. CASE Complete \/ CloseStart
  <2>1. /\ child' = child /\ events' = events /\ batch' = batch
        /\ completions' = completions /\ busy' = busy
        /\ closePc' = "open" => closePc' = closePc
        /\ \/ commands' = commands
           \/ commands' = Append(commands, Message("shutdown", 0, TRUE))
           \/ /\ commands' = Append(commands, Message("complete", request + 1, TRUE))
              /\ request < MaxRequest
      BY <1>7 DEF Complete, CloseStart, Put, parentVars, clientVars
  <2>2. ASSUME NEW m \in MessageType, m.op \notin Jobs \cup {"commit"}, commands' = Append(commands, m)
        PROVE  PassesOn
    <3>1. ToSet(commands') = ToSet(commands) \cup {m}
        BY <1>1, <2>2, MessageAppended
    <3> QED
        BY <2>1, <2>2, <3>1 DEF PassesOn
  <2>3. CASE commands' = commands
      BY <2>1, <2>3 DEF PassesOn
  <2>4. /\ Message("shutdown", 0, TRUE) \in MessageType
        /\ Message("shutdown", 0, TRUE).op \notin Jobs \cup {"commit"}
      BY <1>1 DEF Message, MessageType, Jobs
  <2>5. request < MaxRequest =>
          /\ Message("complete", request + 1, TRUE) \in MessageType
          /\ Message("complete", request + 1, TRUE).op \notin Jobs \cup {"commit"}
      BY <1>1 DEF Message, MessageType, Jobs
  <2> QED
      BY <2>1, <2>2, <2>3, <2>4, <2>5
<1> QED
    BY <1>2, <1>3, <1>4, <1>5, <1>6, <1>7

-----------------------------------------------------------------------------
(* An event is taken from the pipe.                                        *)

\* What the step does, by the kind of event.
LEMMA TakesEvent ==
    ASSUME WorkerInv, PollEvent
    PROVE  \E e \in EventType :
             /\ e = Head(events) /\ events # <<>> /\ events' = Tail(events)
             /\ events \in Seq(EventType) /\ ToSet(events) = {e} \cup ToSet(events')
             /\ child' = child /\ closePc' = closePc /\ commands' = commands
             /\ e.kind \in Deaths => ~Serving
             /\ \/ e.kind \in Ends /\ batch' = batch /\ busy' = busy
                \/ /\ e.kind \notin Ends /\ completions' = completions
                   /\ ToSet(batch') = ToSet(batch) \cup {e}
                   /\ busy' = (busy /\ e.kind \notin {"cancelled", "interrupted", "closed"})
<1> DEFINE e == Head(events)
<1>1. Types /\ Counts /\ events # <<>> /\ PollsEvent(e) /\ batch \in Seq(EventType)
      /\ events \in Seq(EventType)
    BY PollEventIs, Typed DEF WorkerInv
<1>2. e \in EventType /\ ToSet(events) = {e} \cup ToSet(events')
    BY <1>1, PollsEventCounts
<1>3. /\ events' = Tail(events) /\ child' = child /\ closePc' = closePc /\ commands' = commands
      /\ \/ e.kind \in Ends /\ batch' = batch /\ busy' = busy
         \/ /\ e.kind \notin Ends /\ completions' = completions /\ batch' = Append(batch, e)
            /\ busy' = (busy /\ e.kind \notin {"cancelled", "interrupted", "closed"})
    BY <1>1 DEF PollsEvent
<1>4. e.kind \in Deaths => ~Serving
  <2>1. e \in ToSet(events)
      BY <1>2
  <2>2. e.kind \in Deaths => child.pc = "exited"
      BY <1>1, <2>1 DEF Counts, DeathIsLast, Has
  <2> QED
      BY <2>2 DEF Serving
<1>5. batch' = Append(batch, e) => ToSet(batch') = ToSet(batch) \cup {e}
    BY <1>1, <1>2, EventAppended
<1> HIDE DEF e
<1>6. /\ e = Head(events) /\ e \in EventType
    BY <1>2 DEF e
<1> QED
    BY <1>1, <1>2, <1>3, <1>4, <1>5, <1>6

\* The order stays: after an end nothing is told of the submission that ended.
LEMMA PollEventKeepsOrder ==
    ASSUME WorkerInv, MarksInOrder, PollEvent
    PROVE  MarksInOrder'
<1>1. PICK e \in EventType :
         /\ e = Head(events) /\ events # <<>> /\ events' = Tail(events)
         /\ events \in Seq(EventType) /\ ToSet(events) = {e} \cup ToSet(events')
         /\ child' = child /\ closePc' = closePc /\ commands' = commands
         /\ e.kind \in Deaths => ~Serving
         /\ \/ e.kind \in Ends /\ batch' = batch /\ busy' = busy
            \/ /\ e.kind \notin Ends /\ completions' = completions
               /\ ToSet(batch') = ToSet(batch) \cup {e}
               /\ busy' = (busy /\ e.kind \notin {"cancelled", "interrupted", "closed"})
    BY TakesEvent
<1>2. /\ Before(events, Marks, Ending) /\ Before(events, {"loaded"}, {"reset"})
      /\ Has(events, Marks) => completions = <<>> /\ ~Has(batch, Ending)
      /\ Has(batch, {"reset"}) => ~Has(events, {"loaded"})
      /\ Serving /\ Fresh => ~Has(events, Marks) /\ ~Has(batch, Marks)
      /\ Serving /\ Has(events, Marks) => busy
    BY DEF MarksInOrder
<1>3. Marks \cap Ending = {} /\ {"loaded"} \cap {"reset"} = {}
    BY DEF Marks, Ending
<1>4. /\ Before(events', Marks, Ending) /\ (e.kind \in Ending => ~Has(events', Marks))
      /\ Before(events', {"loaded"}, {"reset"}) /\ (e.kind \in {"reset"} => ~Has(events', {"loaded"}))
  <2>1. Before(Tail(events), Marks, Ending) /\ (Head(events).kind \in Ending => ~Has(Tail(events), Marks))
      BY <1>1, <1>2, <1>3, BeforeTaken
  <2>2. /\ Before(Tail(events), {"loaded"}, {"reset"})
        /\ Head(events).kind \in {"reset"} => ~Has(Tail(events), {"loaded"})
      BY <1>1, <1>2, <1>3, BeforeTaken
  <2> QED
      BY <1>1, <2>1, <2>2
<1>5. \A K : Has(events, K) <=> e.kind \in K \/ Has(events', K)
    BY <1>1 DEF Has
<1>6. \A K : e.kind \notin Ends => (Has(batch', K) <=> e.kind \in K \/ Has(batch, K))
    BY <1>1 DEF Has
<1>7. (Serving' <=> Serving) /\ (Fresh' <=> Fresh)
    BY <1>1 DEF Serving, Fresh
<1>8. CASE e.kind \in Ends
  <2>1. ~Has(events', Marks) /\ batch' = batch /\ busy' = busy
    <3>1. e.kind \in Ending
        BY <1>8 DEF Ends, Ending
    <3> QED
        BY <1>1, <1>4, <1>8, <3>1
  <2>2. ~Has(events', {"loaded"})
      BY <2>1 DEF Has, Marks
  <2> QED
      BY <1>2, <1>4, <1>7, <2>1, <2>2 DEF MarksInOrder
<1>9. CASE e.kind \notin Ends
  <2>1. completions' = completions /\ busy' = (busy /\ e.kind \notin {"cancelled", "interrupted", "closed"})
      BY <1>1, <1>9
  <2>2. Has(events', Marks) => completions' = <<>> /\ ~Has(batch', Ending)
      BY <1>2, <1>4, <1>5, <1>6, <1>9, <2>1
  <2>3. Has(batch', {"reset"}) => ~Has(events', {"loaded"})
      BY <1>2, <1>4, <1>5, <1>6, <1>9
  <2>4. Serving /\ Fresh => ~Has(events', Marks) /\ ~Has(batch', Marks)
      BY <1>2, <1>5, <1>6, <1>9
  <2>5. Serving /\ Has(events', Marks) => busy'
    <3>1. Serving /\ Has(events', Marks) => e.kind \notin Ending /\ e.kind \notin Deaths /\ busy
        BY <1>1, <1>2, <1>4, <1>5
    <3> QED
        BY <2>1, <3>1 DEF Ending, Deaths
  <2> QED
      BY <1>4, <1>7, <2>2, <2>3, <2>4, <2>5 DEF MarksInOrder
<1> QED
    BY <1>8, <1>9

\* Whatever is not an end is still between the session and the editor.
LEMMA PollEventKeepsWithin ==
    ASSUME WorkerInv, PollEvent
    PROVE  /\ child' = child /\ closePc' = closePc /\ commands' = commands
           /\ \A K : K \cap Ends = {} => (Within(K)' <=> Within(K))
<1>1. PICK e \in EventType :
         /\ ToSet(events) = {e} \cup ToSet(events')
         /\ child' = child /\ closePc' = closePc /\ commands' = commands
         /\ \/ e.kind \in Ends /\ batch' = batch
            \/ e.kind \notin Ends /\ ToSet(batch') = ToSet(batch) \cup {e}
    BY TakesEvent
<1>2. ASSUME NEW K, K \cap Ends = {} PROVE Within(K)' <=> Within(K)
    BY <1>1, <1>2 DEF Within, Has
<1> QED
    BY <1>1, <1>2

\* What the editor has to know of it does not change.
LEMMA PollEventKeeps ==
    ASSUME WorkerInv, LoadsArePending, ShowsWhatIsLoaded, PollEvent,
           pending' = pending, submitted' = submitted, loaded' = loaded,
           serviceLoaded' = serviceLoaded
    PROVE  LoadsArePending' /\ ShowsWhatIsLoaded'
<1>1. /\ child' = child /\ closePc' = closePc /\ commands' = commands
      /\ Within({"prepared"})' <=> Within({"prepared"})
      /\ Within({"loaded"})' <=> Within({"loaded"})
      /\ Within({"reset"})' <=> Within({"reset"})
  <2>1. /\ {"prepared"} \cap Ends = {} /\ {"loaded"} \cap Ends = {} /\ {"reset"} \cap Ends = {}
      BY DEF Ends
  <2> QED
      BY <2>1, PollEventKeepsWithin
<1>2. CommitUnderWay' <=> CommitUnderWay
    BY <1>1 DEF CommitUnderWay, Within
<1>3. LoadsArePending'
    BY <1>1, <1>2 DEF LoadsArePending
<1>4. (Serving' <=> Serving) /\ Shown' = Shown
    BY <1>1 DEF Serving, Shown
<1>5. ShowsWhatIsLoaded'
    BY <1>1, <1>4 DEF ShowsWhatIsLoaded
<1> QED
    BY <1>3, <1>5

-----------------------------------------------------------------------------
(* A submission, and a batch that is handled.                              *)

\* A load is submitted with its text pending; a command leaves that alone.
LEMMA SubmitKeeps ==
    ASSUME WorkerInv, MarksInOrder, LoadsArePending, ShowsWhatIsLoaded,
           NEW op \in Jobs, NEW text, Submit(op), pollPc = "idle", closePc = "open",
           submitted \in [1..MaxRequest -> 0..MaxText \cup {Nothing}],
           submitted' = [submitted EXCEPT ![request'] = text],
           pending' = IF op = "load" THEN text ELSE pending, op = "load" => text # Nothing,
           loaded' = loaded, serviceLoaded' = serviceLoaded
    PROVE  MarksInOrder' /\ LoadsArePending' /\ ShowsWhatIsLoaded'
<1> DEFINE m == Message(op, request + 1, TRUE)
<1>1. /\ ready /\ ~busy /\ request < MaxRequest /\ request' = request + 1
      /\ commands' = Append(commands, m) /\ busy' = TRUE
      /\ completions' = completions /\ batch' = batch /\ closePc' = closePc
      /\ events' = events /\ child' = child
    BY DEF Submit, MaySubmit, Put, clientVars, outVars
<1>2. Types /\ Counts /\ commands \in Seq(MessageType) /\ request \in 0..MaxRequest /\ MaxRequest \in Nat
    BY Typed DEF WorkerInv
<1>3. request' \in 1..MaxRequest /\ request + 1 \in 0..MaxRequest
    BY <1>1, <1>2
<1>4. m \in MessageType /\ m.op = op /\ m.request = request'
    BY <1>1, <1>3 DEF Message, MessageType, Jobs
<1> HIDE DEF m
<1>5. ToSet(commands') = ToSet(commands) \cup {m}
    BY <1>1, <1>2, <1>4, MessageAppended
<1>6. Commits = 0 /\ InProcess = 0 /\ batch = <<>> /\ JobsIn(commands) = 0
    BY <1>1, <1>2, NothingUnderWay
<1>7. /\ child.pc \notin Working
      /\ \A x \in ToSet(commands) : x.op \notin Jobs
      /\ ToSet(batch) = {} /\ ~CommitUnderWay
  <2>1. child.pc \notin Working
      BY <1>6 DEF InProcess
  <2>2. ~CommitUnderWay
      BY <1>2, <1>6, CommitsCount DEF NoCommit
  <2> QED
      BY <1>2, <1>6, <2>1, <2>2, MessageCounts, NothingIn
<1>8. Serving' <=> Serving
    BY <1>1 DEF Serving
<1>9. Serving => ~Has(events, Marks)
    BY <1>1 DEF MarksInOrder
<1>10. MarksInOrder'
  <2>1. ~Has(batch, Marks)
      BY <1>7 DEF Has
  <2> QED
      BY <1>1, <1>8, <1>9, <2>1 DEF MarksInOrder
<1>11. LoadsArePending'
  <2>1. m.op = "load" => pending' = submitted'[m.request] /\ pending' # Nothing
      BY <1>3, <1>4
  <2>2. \A x \in ToSet(commands') : x.op = "load" => x = m
      BY <1>5, <1>7 DEF Jobs
  <2>3. ~CommitUnderWay'
      BY <1>1, <1>4, <1>5, <1>7 DEF CommitUnderWay, Jobs
  <2>4. child'.pc \notin Working /\ child'.pc # "awaitCommit"
      BY <1>1, <1>7 DEF Working
  <2> QED
      BY <2>1, <2>2, <2>3, <2>4 DEF LoadsArePending
<1>12. ShowsWhatIsLoaded'
  <2>1. /\ Within({"loaded"})' <=> Within({"loaded"})
        /\ Within({"reset"})' <=> Within({"reset"})
      BY <1>1 DEF Within
  <2>2. Serving => ~Within({"loaded"}) /\ ~Within({"reset"})
      BY <1>7, <1>9 DEF Within, Has, Marks
  <2>3. Within({"loaded"}) => pending' # Nothing
      BY DEF ShowsWhatIsLoaded
  <2>4. Serving => serviceLoaded' = Shown'
      BY <2>1, <2>2 DEF Shown, ShowsWhatIsLoaded
  <2> QED
      BY <1>1, <1>8, <2>1, <2>3, <2>4 DEF ShowsWhatIsLoaded
<1> QED
    BY <1>10, <1>11, <1>12

\* A batch is handled.  An end makes the editor forget what it has pending, and
\* then no load and no commit is left that is about it.
LEMMA HandleKeeps ==
    ASSUME WorkerInv, WorkerInv', MarksInOrder, LoadsArePending, ShowsWhatIsLoaded, Handle
    PROVE  MarksInOrder' /\ LoadsArePending' /\ ShowsWhatIsLoaded'
<1> DEFINE m == Message("commit", RequestOf("prepared"), StillCurrent)
<1>1. /\ closePc = "open" /\ batch' = <<>>
      /\ \/ InBatch("prepared") /\ commands' = Append(commands, m)
         \/ ~InBatch("prepared") /\ commands' = commands
      /\ busy' = busy /\ completions' = completions /\ closePc' = closePc
      /\ events' = events /\ child' = child
    BY DEF Handle, TakeBatch, Put, outVars
<1>2. /\ loaded' = IF Forgets THEN Nothing ELSE IF InBatch("loaded") THEN pending ELSE loaded
      /\ pending' = IF Ended THEN Nothing ELSE pending
      /\ submitted' = submitted /\ serviceLoaded' = serviceLoaded
    BY DEF Handle, ForgetsPending
<1>3. /\ Types /\ Counts /\ commands \in Seq(MessageType) /\ commands' \in Seq(MessageType)
  <2>1. Types'
      BY DEF WorkerInv
  <2> QED
      BY <2>1, Typed DEF WorkerInv, Types, TypeOK, MessageType
<1>4. InBatch("prepared") => m \in MessageType /\ m.op = "commit"
  <2> SUFFICES ASSUME InBatch("prepared") PROVE m \in MessageType /\ m.op = "commit"
      OBVIOUS
  <2>1. \E e \in ToSet(batch) : RequestOf("prepared") = e.request
      BY <1>3, RequestIs
  <2>2. ToSet(batch) \subseteq EventType
      BY <1>3, Typed, EventCounts
  <2>3. RequestOf("prepared") \in 0..MaxRequest
      BY <2>1, <2>2 DEF EventType
  <2>4. StillCurrent \in BOOLEAN
      BY DEF StillCurrent
  <2> QED
      BY <2>3, <2>4 DEF Message, MessageType
<1> HIDE DEF m
<1>5. \A x \in ToSet(commands') : x \in ToSet(commands) \/ (x.op = "commit" /\ InBatch("prepared"))
  <2>1. CASE InBatch("prepared") /\ commands' = Append(commands, m)
    <3>1. ToSet(commands') = ToSet(commands) \cup {m}
        BY <1>3, <1>4, <2>1, MessageAppended
    <3> QED
        BY <1>4, <2>1, <3>1
  <2> QED
      BY <1>1, <2>1
<1>6. /\ \A k : InBatch(k) <=> Has(batch, {k})
      /\ Ended <=> Has(batch, Ending)
  <2>1. \A k : InBatch(k) <=> Has(batch, {k})
      BY <1>3, InBatches
  <2> QED
      BY <2>1 DEF Ended, Has, Ends, Ending
<1>7. ToSet(batch') = {}
    BY <1>1, NothingIn
<1>8. Serving' <=> Serving
    BY <1>1 DEF Serving
<1>9. /\ Before(events, Marks, Ending) /\ Before(events, {"loaded"}, {"reset"})
      /\ Has(events, Marks) => completions = <<>> /\ ~Has(batch, Ending)
      /\ Has(batch, {"reset"}) => ~Has(events, {"loaded"})
      /\ Serving /\ Fresh => ~Has(events, Marks) /\ ~Has(batch, Marks)
      /\ Serving /\ Has(events, Marks) => busy
    BY DEF MarksInOrder
<1>10. MarksInOrder'
  <2>1. JobsIn(commands') > 0 => JobsIn(commands) > 0
    <3>1. JobsIn(commands) = 0 => JobsIn(commands') = 0
        BY <1>3, <1>5, MessageCounts DEF Jobs
    <3>2. JobsIn(commands) \in Nat /\ JobsIn(commands') \in Nat
        BY <1>3, MessageCounts
    <3> QED
        BY <3>1, <3>2
  <2>2. Fresh' => Fresh
      BY <1>1, <2>1 DEF Fresh
  <2>3. \A K : ~Has(batch', K)
      BY <1>7 DEF Has
  <2> QED
      BY <1>1, <1>8, <1>9, <2>2, <2>3 DEF MarksInOrder
<1>11. Ended => /\ \A x \in ToSet(commands) : x.op \notin Jobs
                /\ child.pc \notin Working /\ ~CommitUnderWay
  <2> SUFFICES ASSUME Ended PROVE /\ \A x \in ToSet(commands) : x.op \notin Jobs
                                  /\ child.pc \notin Working /\ ~CommitUnderWay
      OBVIOUS
  <2>1. EndsIn(batch) # 0
      BY <1>3, <1>6, InBatches
  <2>2. PICK w \in Nat, c \in Nat, b \in Nat, s \in Nat, i \in Nat :
           w = Waits /\ c = Commits /\ b = EndsIn(batch) /\ s = ShutdownsIn(commands) /\ i = InProcess
      BY <1>3, Summed, Counted
  <2>3. w + c + b + s <= 1 /\ b # 0
      BY <1>3, <2>1, <2>2 DEF Counts, OneAtATime
  <2>4. w = 0 /\ c = 0 /\ b > 0
      BY <2>3
  <2>5. Waits = 0 /\ Commits = 0 /\ Held = 0
      BY <1>3, <2>2, <2>4 DEF Counts, OneAtATime, Held
  <2>6. Serving => w + i = 0
      BY <1>3, <2>2, <2>5 DEF Counts, OneAtATime
  <2>7. Serving => i = 0
      BY <2>6
  <2>8. child.pc \notin Working
    <3>1. child.pc \in Working => Serving
        BY DEF Working, Serving
    <3> QED
        BY <2>2, <2>7, <3>1 DEF InProcess
  <2>9. JobsIn(commands) = 0
    <3>1. PICK j \in Nat, e \in Nat, l \in Nat :
             j = JobsIn(commands) /\ e = EndsIn(events) /\ l = Len(completions)
        BY <1>3, Counted
    <3>2. j + e + l = 0
        BY <2>5, <3>1 DEF Waits
    <3>3. j = 0
        BY <3>2
    <3> QED
        BY <3>1, <3>3
  <2>10. ~CommitUnderWay
      BY <1>3, <2>5, CommitsCount DEF NoCommit
  <2> QED
      BY <1>3, <2>8, <2>9, <2>10, MessageCounts
<1>12. CommitUnderWay' => CommitUnderWay
    BY <1>1, <1>5, <1>6, <1>7 DEF CommitUnderWay, Has
<1>13. LoadsArePending'
  <2>1. \A x \in ToSet(commands') : x.op = "load" => x \in ToSet(commands)
      BY <1>5
  <2>2. CASE Ended
      BY <1>1, <1>2, <1>11, <1>12, <2>1, <2>2 DEF LoadsArePending, Jobs
  <2>3. CASE ~Ended
      BY <1>1, <1>2, <1>12, <2>1, <2>3 DEF LoadsArePending
  <2> QED
      BY <2>2, <2>3
<1>14. ShowsWhatIsLoaded'
  <2>1. \A K : Within(K)' <=> Has(events, K)
      BY <1>1, <1>7 DEF Within, Has
  <2>2. \A k : k \in Marks /\ Has(events, {k}) => ~Ended
      BY <1>6, <1>9 DEF Has
  <2>3. /\ child.pc = "faulted" => serviceLoaded = Nothing
        /\ Within({"loaded"}) => pending # Nothing
        /\ Serving => serviceLoaded = Shown
      BY <1>1 DEF ShowsWhatIsLoaded
  <2>4. Within({"loaded"})' => pending' # Nothing
      BY <1>2, <2>1, <2>2, <2>3 DEF Within, Marks
  <2>5. Serving => (Forgets <=> Has(batch, {"reset"}))
    <3>1. Serving => ~Has(batch, Deaths)
        BY <1>3 DEF Counts, DeathIsLast, Serving, Alive
    <3> QED
        BY <1>6, <3>1 DEF Forgets, SessionEnded, Has, Deaths
  <2>6. Serving => serviceLoaded' = Shown'
    <3> SUFFICES ASSUME Serving PROVE serviceLoaded = Shown'
        BY <1>2
    <3>1. serviceLoaded = IF Has(events, {"reset"}) \/ Has(batch, {"reset"}) THEN Nothing
                          ELSE IF Has(events, {"loaded"}) \/ Has(batch, {"loaded"}) THEN pending
                          ELSE loaded
        BY <2>3 DEF Shown, Within
    <3>2. Shown' = IF Has(events, {"reset"}) THEN Nothing
                   ELSE IF Has(events, {"loaded"}) THEN pending' ELSE loaded'
        BY <2>1 DEF Shown
    <3>3. loaded' = IF Has(batch, {"reset"}) THEN Nothing
                    ELSE IF Has(batch, {"loaded"}) THEN pending ELSE loaded
        BY <1>2, <1>6, <2>5
    <3>4. Has(events, {"loaded"}) => pending' = pending
        BY <1>2, <2>2 DEF Marks
    <3> QED
        BY <1>9, <3>1, <3>2, <3>3, <3>4
  <2> QED
      BY <1>1, <1>2, <1>8, <2>3, <2>4, <2>6 DEF ShowsWhatIsLoaded
<1> QED
    BY <1>10, <1>13, <1>14

-----------------------------------------------------------------------------
(* A session that has not begun, and what the editor knows of it.          *)

Blank == Init /\ pending = Nothing /\ loaded = Nothing /\ serviceLoaded = Nothing

\* Nothing is told, nothing is under way, nothing is loaded.
LEMMA BlankIsWell == Blank => MarksInOrder /\ LoadsArePending /\ ShowsWhatIsLoaded
<1> SUFFICES ASSUME Blank PROVE MarksInOrder /\ LoadsArePending /\ ShowsWhatIsLoaded
    OBVIOUS
<1>1. /\ commands = <<>> /\ events = <<>> /\ completions = <<>> /\ batch = <<>>
      /\ child.pc = "boot" /\ pending = Nothing /\ loaded = Nothing /\ serviceLoaded = Nothing
    BY DEF Blank, Init, NewChild
<1>2. ToSet(commands) = {} /\ ToSet(events) = {} /\ ToSet(batch) = {} /\ Len(events) = 0
    BY <1>1, NothingIn
<1>3. \A K : ~Has(events, K) /\ ~Has(batch, K)
    BY <1>2 DEF Has
<1>4. \A K, L : Before(events, K, L)
    BY <1>2 DEF Before
<1>5. MarksInOrder
    BY <1>1, <1>3, <1>4 DEF MarksInOrder
<1>6. LoadsArePending
    BY <1>1, <1>2, <1>3 DEF LoadsArePending, CommitUnderWay, Working
<1>7. ShowsWhatIsLoaded
    BY <1>1, <1>3 DEF ShowsWhatIsLoaded, Within, Shown
<1> QED
    BY <1>5, <1>6, <1>7

\* The same, of a session that has just been put in the place of another.
LEMMA ReplacedIsWell == StopReplaces => (MarksInOrder /\ LoadsArePending /\ ShowsWhatIsLoaded)'
<1>1. StopReplaces => Blank'
    BY DEF StopReplaces, Restart, Blank, Init, NewChild
<1> QED
    BY <1>1, BlankIsWell, PTL

-----------------------------------------------------------------------------
(* What the editor keeps for itself.                                       *)

\* The types of it.
LEMMA EditorTypes ==
    ASSUME WorkerInv, EditorTypeOK, EditorNext \/ UNCHANGED allVars
    PROVE  EditorTypeOK'
<1> DEFINE Texts == 0..MaxText \cup {Nothing}
           Runs == [pc : {"none", "capturing", "waiting"}, replaced : BOOLEAN, captured : Texts]
<1>1. /\ revision \in 0..MaxText /\ run \in Runs /\ (run.pc = "none" => run = NoRun)
      /\ pending \in Texts /\ loaded \in Texts
      /\ exiting \in BOOLEAN /\ faulted \in BOOLEAN /\ stops \subseteq StopKinds
      /\ submitted \in [1..MaxRequest -> Texts] /\ serviceLoaded \in Texts
    BY DEF EditorTypeOK
<1>2. Nothing \in Texts /\ revision \in Texts /\ MaxText \in Nat /\ Nothing \notin 0..MaxText
    BY <1>1, EditorRuntimeAssumption
<1>3. NoRun \in Runs /\ NoRun.pc = "none" /\ [r \in 1..MaxRequest |-> Nothing] \in [1..MaxRequest -> Texts]
    BY <1>2 DEF NoRun
<1>4. /\ Replaced \in Runs /\ (Replaced.pc = "none" => Replaced = NoRun)
  <2>1. run.replaced \in BOOLEAN /\ run.captured \in Texts /\ run.pc \in {"none", "capturing", "waiting"}
      BY <1>1
  <2>2. Replaced = [pc |-> run.pc, captured |-> run.captured, replaced |-> run.pc # "none"]
      BY <1>1 DEF Replaced, Preparing
  <2>3. run.pc = "none" => run.captured = Nothing
      BY <1>1 DEF NoRun
  <2> QED
      BY <2>1, <2>2, <2>3 DEF NoRun
<1>5. run.captured \in Texts
    BY <1>1
<1> HIDE DEF Texts
<1>6. CASE Process
  <2>1. serviceLoaded' \in Texts
    <3>1. Types /\ request \in 0..MaxRequest /\ MaxRequest \in Nat
        BY Typed DEF WorkerInv
    <3>2. child.pc = "awaitCommit" => child.request \in 1..request
        BY <3>1 DEF Types, Working
    <3>3. child.pc = "awaitCommit" => child.request \in 1..MaxRequest
        BY <3>1, <3>2
    <3>4. serviceLoaded' = ServiceLoaded
        BY <1>6 DEF Process, Follows
    <3> QED
        BY <1>1, <1>2, <3>3, <3>4 DEF ServiceLoaded
  <2>2. UNCHANGED <<revision, run, pending, exiting, faulted, stops, loaded, submitted>>
      BY <1>6 DEF Process, Follows
  <2> QED
      BY <1>1, <2>1, <2>2 DEF EditorTypeOK, Texts
<1>7. CASE Edit
  <2>1. revision' \in 0..MaxText
      BY <1>1, <1>2, <1>7 DEF Edit
  <2> QED
      BY <1>1, <1>7, <2>1 DEF EditorTypeOK, Edit, Texts
<1>8. CASE RunFile
  <2>1. run' \in Runs /\ run'.pc # "none"
      BY <1>2, <1>8 DEF RunFile
  <2> QED
      BY <1>1, <1>8, <2>1 DEF EditorTypeOK, RunFile, Texts
<1>9. CASE Captured \/ RunGivesUp
  <2>1. run' \in Runs /\ (run'.pc = "none" => run' = NoRun)
      BY <1>1, <1>3, <1>9 DEF Captured, RunGivesUp
  <2>2. UNCHANGED <<revision, pending, exiting, faulted, stops, loaded, submitted, serviceLoaded>>
      BY <1>9 DEF Captured, RunGivesUp
  <2> QED
      BY <1>1, <2>1, <2>2 DEF EditorTypeOK, Texts
<1>10. CASE RunSubmits \/ SubmitCommand
  <2>1. PICK text \in Texts : submitted' = [submitted EXCEPT ![request'] = text]
      BY <1>2, <1>5, <1>10 DEF RunSubmits, SubmitCommand
  <2>2. submitted' \in [1..MaxRequest -> Texts]
      BY <1>1, <2>1
  <2>3. pending' \in Texts /\ run' \in {run, NoRun}
      BY <1>1, <1>5, <1>10 DEF RunSubmits, SubmitCommand
  <2>4. run' \in Runs /\ (run'.pc = "none" => run' = NoRun)
      BY <1>1, <1>3, <2>3
  <2>5. UNCHANGED <<revision, exiting, faulted, stops, loaded, serviceLoaded>>
      BY <1>10 DEF RunSubmits, SubmitCommand
  <2> QED
      BY <1>1, <2>2, <2>3, <2>4, <2>5 DEF EditorTypeOK, Texts
<1>11. CASE AnswerInput \/ AskPreview \/ StopDrains \/ UNCHANGED allVars
  <2>1. UNCHANGED editorVars
      BY <1>11 DEF AnswerInput, AskPreview, StopDrains, allVars
  <2> QED
      BY <1>1, <2>1 DEF EditorTypeOK, editorVars, Texts
<1>12. CASE Handle
  <2>1. /\ loaded' \in Texts /\ pending' \in Texts /\ faulted' \in BOOLEAN
        /\ stops' \subseteq StopKinds
        /\ UNCHANGED <<revision, run, exiting, submitted, serviceLoaded>>
      BY <1>1, <1>2, <1>12 DEF Handle, StopKinds
  <2> QED
      BY <1>1, <2>1 DEF EditorTypeOK, Texts
<1>13. CASE AskStop
  <2>1. /\ stops' \subseteq StopKinds
        /\ UNCHANGED <<revision, run, pending, exiting, faulted, loaded, submitted, serviceLoaded>>
      BY <1>1, <1>13 DEF AskStop, StopKinds
  <2> QED
      BY <1>1, <2>1 DEF EditorTypeOK, Texts
<1>14. CASE StopSome
  <2>1. PICK kind \in StopKinds : StopBegins(kind) \/ StopWhileClosing(kind)
      BY <1>14 DEF StopSome
  <2>2. /\ stops' \subseteq StopKinds /\ run' \in {run, Replaced}
        /\ UNCHANGED <<revision, pending, exiting, faulted, loaded, submitted, serviceLoaded>>
      BY <1>1, <2>1 DEF StopBegins, StopWhileClosing
  <2>3. run' \in Runs /\ (run'.pc = "none" => run' = NoRun)
      BY <1>1, <1>4, <2>2
  <2> QED
      BY <1>1, <2>2, <2>3 DEF EditorTypeOK, Texts
<1>15. CASE StopReplaces
  <2>1. /\ pending' = Nothing /\ loaded' = Nothing /\ faulted' = FALSE
        /\ submitted' = [r \in 1..MaxRequest |-> Nothing] /\ serviceLoaded' = Nothing
        /\ UNCHANGED <<revision, run, exiting, stops>>
      BY <1>15 DEF StopReplaces
  <2> QED
      BY <1>1, <1>2, <1>3, <2>1 DEF EditorTypeOK, Texts
<1>16. CASE Quit
  <2>1. /\ run' = Replaced /\ exiting' = TRUE
        /\ UNCHANGED <<revision, pending, faulted, stops, loaded, submitted, serviceLoaded>>
      BY <1>16 DEF Quit
  <2> QED
      BY <1>1, <1>4, <2>1 DEF EditorTypeOK, Texts
<1> QED
    BY <1>6, <1>7, <1>8, <1>9, <1>10, <1>11, <1>12, <1>13, <1>14, <1>15, <1>16
       DEF EditorNext, Coroutines

\* The coroutine of a run is told of a session that is closed, and has a text.
LEMMA RunIsKept ==
    ASSUME WorkerInv, EditorTypeOK, RunIsTold, RunHasText, EditorNext \/ UNCHANGED allVars
    PROVE  RunIsTold' /\ RunHasText'
<1>1. /\ run \in [pc : {"none", "capturing", "waiting"}, replaced : BOOLEAN,
                  captured : 0..MaxText \cup {Nothing}]
      /\ revision \in 0..MaxText /\ Nothing \notin 0..MaxText /\ NoRun.pc = "none"
    BY EditorRuntimeAssumption DEF EditorTypeOK, NoRun
<1>2. /\ closePc # "open" => run.pc = "none" \/ run.replaced
      /\ run.pc # "none" => run.captured # Nothing
    BY DEF RunIsTold, RunHasText
<1>3. /\ Replaced.pc = run.pc /\ Replaced.captured = run.captured
      /\ Replaced.pc = "none" \/ Replaced.replaced
    BY <1>1 DEF Replaced, Preparing
<1>4. ASSUME run' = run, closePc' # "open" => closePc # "open" PROVE RunIsTold' /\ RunHasText'
    BY <1>2, <1>4 DEF RunIsTold, RunHasText
<1>5. ASSUME run' = Replaced PROVE RunIsTold' /\ RunHasText'
    BY <1>2, <1>3, <1>5 DEF RunIsTold, RunHasText
<1>6. ASSUME run' = NoRun PROVE RunIsTold' /\ RunHasText'
    BY <1>1, <1>6 DEF RunIsTold, RunHasText
<1>7. CASE Process
  <2>1. run' = run
      BY <1>7 DEF Process, Follows
  <2>2. closePc' # "open" => closePc # "open"
    <3>1. CASE Serve \/ Feed \/ Interrupt \/ Crash \/ Killed \/ Terminate
      <4>1. ChildStep
          BY <3>1, ServeIs DEF Killed, Terminate
      <4> QED
          BY <4>1 DEF ChildStep
    <3>2. CASE PollStart \/ PollEvent \/ PollEventsDone \/ PollOutput \/ PollEnd \/ CloseJoined
        BY <3>2 DEF PollStart, PollEvent, PollEventsDone, PollOutput, PollEnd, CloseJoined
    <3> QED
        BY <1>7, <3>1, <3>2 DEF Process, Follows
  <2> QED
      BY <1>4, <2>1, <2>2
<1>8. CASE Edit \/ AskStop \/ (\E kind \in StopKinds : StopWhileClosing(kind)) \/ UNCHANGED allVars
  <2>1. run' = run /\ UNCHANGED vars
      BY <1>8 DEF Edit, AskStop, StopWhileClosing, allVars, editorVars
  <2> QED
      BY <1>4, <2>1 DEF vars, clientVars
<1>9. CASE RunFile
  <2>1. closePc = "open" /\ UNCHANGED vars
        /\ run' = [pc |-> "capturing", captured |-> revision, replaced |-> FALSE]
      BY <1>9 DEF RunFile, UiFree
  <2>2. closePc' = "open"
      BY <2>1 DEF vars, clientVars
  <2> QED
      BY <1>1, <2>1, <2>2 DEF RunIsTold, RunHasText
<1>10. CASE Captured
  <2>1. UNCHANGED vars /\ run.pc = "capturing" /\ (run' = [run EXCEPT !.pc = "waiting"] \/ run' = NoRun)
      BY <1>10 DEF Captured
  <2>2. CASE run' = NoRun
      BY <1>6, <2>2
  <2>3. CASE run' = [run EXCEPT !.pc = "waiting"]
    <3>1. run'.replaced = run.replaced /\ run'.captured = run.captured /\ closePc' = closePc
        BY <1>1, <2>1, <2>3 DEF vars, clientVars
    <3> QED
        BY <1>2, <2>1, <3>1 DEF RunIsTold, RunHasText
  <2> QED
      BY <2>1, <2>2, <2>3
<1>11. CASE RunGivesUp \/ RunSubmits
    BY <1>6, <1>11 DEF RunGivesUp, RunSubmits
<1>12. CASE SubmitCommand \/ AnswerInput \/ AskPreview \/ Handle \/ StopDrains \/ StopReplaces
  <2>1. run' = run
      BY <1>12 DEF SubmitCommand, AnswerInput, AskPreview, Handle, StopDrains, StopReplaces, editorVars
  <2>2. closePc' # "open" => closePc # "open"
      BY <1>12 DEF SubmitCommand, AnswerInput, AskPreview, Handle, StopDrains, StopReplaces,
         Submit, ProvideInput, Complete, TakeBatch, CloseTake, Restart, clientVars
  <2> QED
      BY <1>4, <2>1, <2>2
<1>13. CASE (\E kind \in StopKinds : StopBegins(kind)) \/ Quit
    BY <1>5, <1>13 DEF StopBegins, Quit
<1> QED
    BY <1>7, <1>8, <1>9, <1>10, <1>11, <1>12, <1>13 DEF EditorNext, Coroutines, StopSome

-----------------------------------------------------------------------------
(* Every step keeps the invariant.                                         *)

\* A step of the process, of the polls or of the close thread.
LEMMA ProcessKeepsEditor ==
    ASSUME EditorInv, WorkerInv', Process
    PROVE  MarksInOrder' /\ LoadsArePending' /\ ShowsWhatIsLoaded'
<1>1. /\ WorkerInv /\ MarksInOrder /\ LoadsArePending /\ ShowsWhatIsLoaded
      /\ pending' = pending /\ loaded' = loaded /\ submitted' = submitted
      /\ serviceLoaded' = ServiceLoaded
    BY DEF EditorInv, Process, Follows
<1>2. CASE Serve \/ Feed \/ Interrupt \/ Crash \/ Killed \/ Terminate
  <2>1. ChildStep
      BY <1>1, <1>2, ServeIs DEF Killed, Terminate
  <2>2. MarksInOrder'
      BY <1>1, <2>1, ChildKeepsOrder
  <2>3. LoadsArePending'
      BY <1>1, <2>1, ChildKeepsLoads
  <2>4. ShowsWhatIsLoaded'
      BY <1>1, <2>1, ChildKeepsShown
  <2> QED
      BY <2>2, <2>3, <2>4
<1>3. child' = child => serviceLoaded' = serviceLoaded
    BY <1>1 DEF ServiceLoaded, ShowsWhatIsLoaded
<1>4. CASE PollEvent
  <2>1. serviceLoaded' = serviceLoaded
      BY <1>3, <1>4 DEF PollEvent
  <2> QED
      BY <1>1, <1>4, <2>1, PollEventKeepsOrder, PollEventKeeps
<1>5. CASE PollStart \/ PollEventsDone \/ PollOutput \/ PollEnd \/ CloseJoined
  <2>1. PassesOn
      BY <1>1, <1>5, PassesOnIs
  <2>2. serviceLoaded' = serviceLoaded
      BY <1>3, <2>1 DEF PassesOn
  <2> QED
      BY <1>1, <2>1, <2>2, PassingKeeps, PassingKeepsShown
<1> QED
    BY <1>2, <1>4, <1>5 DEF Process, Follows

\* Every step of the editor keeps the invariant, stuttering included.
LEMMA EditorKeepsInv ==
    ASSUME EditorInv, EditorNext \/ UNCHANGED allVars PROVE EditorInv'
<1>1. /\ WorkerInv /\ EditorTypeOK /\ RunIsTold /\ RunHasText
      /\ MarksInOrder /\ LoadsArePending /\ ShowsWhatIsLoaded
    BY DEF EditorInv
<1>2. WorkerInv'
    BY <1>1, EditorKeepsWorker
<1>3. EditorTypeOK'
    BY <1>1, EditorTypes
<1>4. RunIsTold' /\ RunHasText'
    BY <1>1, RunIsKept
<1> SUFFICES MarksInOrder' /\ LoadsArePending' /\ ShowsWhatIsLoaded'
    BY <1>2, <1>3, <1>4 DEF EditorInv
<1>5. CASE Process
    BY <1>2, <1>5, ProcessKeepsEditor
<1>6. ASSUME UNCHANGED <<pending, loaded, submitted, serviceLoaded>>,
             Complete \/ ProvideInput \/ CloseStart \/ CloseTake \/ UNCHANGED vars
      PROVE  MarksInOrder' /\ LoadsArePending' /\ ShowsWhatIsLoaded'
  <2>1. PassesOn
      BY <1>1, <1>6, PassesOnIs
  <2> QED
      BY <1>1, <1>2, <1>6, <2>1, PassingKeeps, PassingKeepsShown
<1>7. CASE \/ Edit \/ RunFile \/ Captured \/ RunGivesUp \/ AskStop
           \/ (\E kind \in StopKinds : StopWhileClosing(kind)) \/ UNCHANGED allVars
  <2>1. UNCHANGED vars /\ UNCHANGED <<pending, loaded, submitted, serviceLoaded>>
      BY <1>7 DEF Edit, RunFile, Captured, RunGivesUp, AskStop, StopWhileClosing, allVars, editorVars
  <2> QED
      BY <1>6, <2>1
<1>8. CASE RunSubmits
  <2>1. /\ pollPc = "idle" /\ closePc = "open" /\ Submit("load") /\ run.captured # Nothing
      BY <1>1, <1>8 DEF RunSubmits, RunStillWanted, RunIsTold, RunHasText
  <2>2. /\ submitted' = [submitted EXCEPT ![request'] = run.captured]
        /\ pending' = run.captured /\ loaded' = loaded /\ serviceLoaded' = serviceLoaded
        /\ submitted \in [1..MaxRequest -> 0..MaxText \cup {Nothing}]
      BY <1>1, <1>8 DEF RunSubmits, EditorTypeOK
  <2>3. "load" \in Jobs
      BY DEF Jobs
  <2> QED
      BY <1>1, <2>1, <2>2, <2>3, SubmitKeeps
<1>9. CASE SubmitCommand
  <2>1. pollPc = "idle" /\ closePc = "open" /\ Submit("command")
      BY <1>9 DEF SubmitCommand, UiFree
  <2>2. /\ submitted' = [submitted EXCEPT ![request'] = Nothing]
        /\ pending' = pending /\ loaded' = loaded /\ serviceLoaded' = serviceLoaded
        /\ submitted \in [1..MaxRequest -> 0..MaxText \cup {Nothing}]
      BY <1>1, <1>9 DEF SubmitCommand, EditorTypeOK
  <2>3. "command" \in Jobs
      BY DEF Jobs
  <2> QED
      BY <1>1, <2>1, <2>2, <2>3, SubmitKeeps
<1>10. CASE AnswerInput \/ AskPreview \/ StopDrains
  <2>1. /\ UNCHANGED <<pending, loaded, submitted, serviceLoaded>>
        /\ Complete \/ ProvideInput \/ CloseTake
      BY <1>10 DEF AnswerInput, AskPreview, StopDrains, editorVars
  <2> QED
      BY <1>6, <2>1
<1>11. CASE Handle
    BY <1>1, <1>2, <1>11, HandleKeeps
<1>12. CASE (\E kind \in StopKinds : StopBegins(kind)) \/ Quit
  <2>1. /\ UNCHANGED <<pending, loaded, submitted, serviceLoaded>>
        /\ CloseStart \/ UNCHANGED vars
      BY <1>12 DEF StopBegins, Quit
  <2> QED
      BY <1>6, <2>1
<1>13. CASE StopReplaces
    BY <1>13, ReplacedIsWell
<1> QED
    BY <1>5, <1>7, <1>8, <1>9, <1>10, <1>11, <1>12, <1>13 DEF EditorNext, Coroutines, StopSome

\* It holds in the beginning.
LEMMA EditorStarts == EditorInit => EditorInv
<1> SUFFICES ASSUME EditorInit PROVE EditorInv
    OBVIOUS
<1>1. /\ Init /\ revision = 0 /\ run = NoRun /\ pending = Nothing
      /\ exiting = FALSE /\ faulted = FALSE /\ stops = {}
      /\ loaded = Nothing /\ submitted = [r \in 1..MaxRequest |-> Nothing]
      /\ serviceLoaded = Nothing
    BY DEF EditorInit
<1>2. WorkerInv
    BY <1>1, StartsWell
<1>3. MarksInOrder /\ LoadsArePending /\ ShowsWhatIsLoaded
    BY <1>1, BlankIsWell DEF Blank
<1>4. NoRun.pc = "none" /\ RunIsTold /\ RunHasText
    BY <1>1 DEF NoRun, RunIsTold, RunHasText
<1>5. EditorTypeOK
  <2>1. MaxText \in Nat /\ 0 \in 0..MaxText
      BY EditorRuntimeAssumption
  <2>2. NoRun \in [pc : {"none", "capturing", "waiting"}, replaced : BOOLEAN,
                   captured : 0..MaxText \cup {Nothing}]
      BY DEF NoRun
  <2>3. submitted \in [1..MaxRequest -> 0..MaxText \cup {Nothing}]
      BY <1>1
  <2> QED
      BY <1>1, <2>1, <2>2, <2>3 DEF EditorTypeOK
<1> QED
    BY <1>2, <1>3, <1>4, <1>5 DEF EditorInv

-----------------------------------------------------------------------------
(* What it says of the editor.                                             *)

\* Commits are decided about the text that the process has prepared, and a load
\* that is told finds the text it is about.
LEMMA EditorInvPending == EditorInv => PendingIsKnown
<1> SUFFICES ASSUME EditorInv PROVE PendingIsKnown
    OBVIOUS
<1>1. /\ Types /\ Counts /\ EditorTypeOK /\ LoadsArePending /\ ShowsWhatIsLoaded
      /\ \A k : InBatch(k) <=> Has(batch, {k})
    BY InBatches DEF EditorInv, WorkerInv
<1>2. PendingIsPrepared
  <2>1. ASSUME closePc = "open", InBatch("prepared") PROVE pending = submitted[RequestOf("prepared")]
    <3>1. RequestOf("prepared") = child.request
        BY <1>1, <2>1, RequestIs DEF Counts, OwnCommit
    <3>2. CommitUnderWay
        BY <1>1, <2>1 DEF CommitUnderWay
    <3> QED
        BY <1>1, <2>1, <3>1, <3>2 DEF LoadsArePending
  <2>2. ASSUME closePc = "open", child.pc = "awaitCommit" PROVE pending = submitted[child.request]
      BY <1>1, <2>2 DEF LoadsArePending, Working
  <2> QED
      BY <2>1, <2>2 DEF PendingIsPrepared
<1>3. LoadedIsKnown
    BY <1>1 DEF LoadedIsKnown, ShowsWhatIsLoaded, Within
<1> QED
    BY <1>1, <1>2, <1>3 DEF PendingIsKnown

\* With nothing on the way, the editor shows what the process has loaded.
LEMMA EditorInvShown == EditorInv => ShownIsLoaded
<1> SUFFICES ASSUME EditorInv, Quiet PROVE loaded = serviceLoaded
    BY DEF ShownIsLoaded
<1>1. events = <<>> /\ batch = <<>> /\ closePc = "open" /\ Serving
    BY DEF Quiet, Serving
<1>2. ToSet(<<>>) = {}
    BY NothingIn
<1>3. \A K : ~Within(K)
    BY <1>1, <1>2 DEF Within, Has
<1> QED
    BY <1>1, <1>3 DEF EditorInv, ShowsWhatIsLoaded, Shown

\* The invariant holds always: of the session, however its process, its polls and
\* its replacements interleave, and of what the editor knows of it.
THEOREM EditorInvariant == EditorSpec => []EditorInv
<1>1. EditorInit => EditorInv
    BY EditorStarts
<1>2. EditorInv /\ [EditorNext]_allVars => EditorInv'
    BY EditorKeepsInv
<1> QED
    BY <1>1, <1>2, PTL DEF EditorSpec

\* No put_nowait of the owner finds a full queue; at most one submission is under
\* way, and `busy` says so; the loop never reads a commit, and what waits for a
\* commit reads nothing but its own (sessions/worker.py, SessionWorker and _serve).
THEOREM EditorProtocol == EditorSpec => []ProtocolHolds
<1>1. EditorInv => ProtocolHolds
    BY WorkerInvProtocol DEF EditorInv
<1> QED
    BY <1>1, EditorInvariant, PTL

\* An end that poll returns comes after all output of its submission that was not
\* dropped (sessions/worker.py, poll).
THEOREM EditorOutput == EditorSpec => []OutputBeforeEnd
<1>1. EditorInv => OutputBeforeEnd
    BY WorkerInvOutput DEF EditorInv
<1> QED
    BY <1>1, EditorInvariant, PTL

\* A commit compares the workspace with the snapshot that the process has
\* prepared, and "loaded" always finds its snapshot, whatever was stopped,
\* replaced or given up (terminal_editor/runtime.py, handle of "prepared" and "loaded").
THEOREM EditorPending == EditorSpec => []PendingIsKnown
BY EditorInvPending, EditorInvariant, PTL

\* When nothing is under way, what the editor shows as loaded is what the session
\* has loaded (terminal_editor/runtime.py, state.loaded_source).
THEOREM EditorShown == EditorSpec => []ShownIsLoaded
BY EditorInvShown, EditorInvariant, PTL
=============================================================================
