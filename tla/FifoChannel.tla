---------------------------- MODULE FifoChannel ----------------------------
(***************************************************************************)
(* What a channel promises to the tasks that share it: one line of values  *)
(* that leave in the order in which they were offered, whatever part of    *)
(* the line is buffered and whatever part is still with blocked senders;   *)
(* a taker waits only while the line is empty.                             *)
(* (docs/language.md, 25.9 to 25.11.)                                      *)
(***************************************************************************)
EXTENDS Sequences, Naturals, Queues

CONSTANTS
    Value,      \* the values, each offered at most once
    Taker,      \* the receive operations
    NoValue

VARIABLES
    line,       \* values offered and not yet taken, oldest first
    takers,     \* receives waiting, oldest first
    given,      \* the value each receive was given
    shut,       \* no further value is accepted
    gone        \* nobody can reach the channel any more

fvars == <<line, takers, given, shut, gone>>

Without(s, W) == Kept(s, (Value \cup Taker) \ W)

FInit ==
    /\ line = <<>> /\ takers = <<>> /\ shut = FALSE /\ gone = FALSE
    /\ given = [r \in Taker |-> NoValue]

Offer(v) ==
    /\ ~shut
    /\ IF takers = <<>>
       THEN line' = Append(line, v) /\ UNCHANGED <<takers, given>>
       ELSE /\ given' = [given EXCEPT ![Head(takers)] = v]
            /\ takers' = Tail(takers)
            /\ UNCHANGED line
    /\ UNCHANGED shut

Take(r) ==
    /\ IF line = <<>>
       THEN ~shut /\ takers' = Append(takers, r) /\ UNCHANGED <<line, given>>
       ELSE /\ given' = [given EXCEPT ![r] = Head(line)]
            /\ line' = Tail(line)
            /\ UNCHANGED takers
    /\ UNCHANGED shut

\* Blocked sends and receives are withdrawn; everyone else keeps their place.
Withdraw ==
    /\ \E W \in SUBSET (Value \cup Taker) :
          line' = Without(line, W) /\ takers' = Without(takers, W)
    /\ UNCHANGED <<given, shut>>

\* Closing refuses the values at the end of the line and dismisses takers.
Shut ==
    /\ ~shut /\ shut' = TRUE
    /\ \E n \in 0..Len(line) : line' = SubSeq(line, 1, n)
    /\ takers' = <<>>
    /\ UNCHANGED given

\* The last handle is gone: what is left of the line is dropped, for good.
Discard ==
    /\ gone' = TRUE
    /\ line' = <<>> /\ takers' = <<>>
    /\ UNCHANGED <<given, shut>>

InUse ==
    \/ \E v \in Value : Offer(v)
    \/ \E r \in Taker : Take(r)
    \/ Withdraw
    \/ Shut

FNext == ~gone /\ (Discard \/ (InUse /\ UNCHANGED gone))

FSpec == FInit /\ [][FNext]_fvars
=============================================================================
