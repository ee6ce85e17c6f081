------------------------------- MODULE Queues -------------------------------
(***************************************************************************)
(* What is left of a queue when some of its elements are taken out.        *)
(***************************************************************************)
EXTENDS Naturals, Sequences

\* The elements of q that are in S, in the order of q: SelectSeq for a set,
\* as a recursive function, which is what can be proved about.
Kept(q, S) ==
    LET kept[n \in 0..Len(q)] ==
            IF n = 0 THEN <<>>
            ELSE IF q[n] \in S THEN Append(kept[n - 1], q[n]) ELSE kept[n - 1]
    IN  kept[Len(q)]

\* The numbers of S up to n, the smallest first.
Ascending(n, S) == Kept([i \in 1..n |-> i], S)
=============================================================================
