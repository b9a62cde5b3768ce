------------------------------ MODULE JobQueue ------------------------------
(***************************************************************************)
(* What the queue of the search indexer promises: jobs are added behind    *)
(* the ones that wait, and leave from the front into the hands of one      *)
(* client.  Only a failure of the storage may lose what waits, all at      *)
(* once, and such a loss is counted.                                       *)
(***************************************************************************)
EXTENDS Naturals, Sequences

CONSTANTS Client, Job

VARIABLES
  queue,    \* the jobs that wait, oldest first
  hand,     \* per client, what it was given last
  losses    \* how often the storage lost what waited

vars == <<queue, hand, losses>>

Init ==
  /\ queue = <<>>
  /\ hand = [c \in Client |-> <<>>]
  /\ losses = 0

\* The first n jobs, and the others.
Upto(n, q) == SubSeq(q, 1, IF n < Len(q) THEN n ELSE Len(q))
After(n, q)  == SubSeq(q, n + 1, Len(q))

\* Jobs are added behind those that wait.
Put ==
  /\ queue' = queue \o After(Len(queue), queue')
  /\ UNCHANGED <<hand, losses>>

Take(c, n) ==
  /\ hand' = [hand EXCEPT ![c] = Upto(n, queue)]
  /\ queue' = After(n, queue)
  /\ UNCHANGED losses

\* What waited is gone; c may have put other jobs, or have been given none.
Lose(c) ==
  /\ queue' \in Seq(Job)
  /\ hand' \in {hand, [hand EXCEPT ![c] = <<>>]}
  /\ losses' = losses + 1

Next ==
  \/ Put
  \/ \E c \in Client : Lose(c) \/ \E n \in 0..Len(queue) : Take(c, n)

Spec == Init /\ [][Next]_vars
=============================================================================
