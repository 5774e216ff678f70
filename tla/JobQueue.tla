------------------------------ MODULE JobQueue ------------------------------
(***************************************************************************)
(* What include/jobcache.h promises its callers: a bounded FIFO queue of   *)
(* jobs.  A caller offers one job and is done when the job is in the       *)
(* queue, or asks for one and is done when it has the oldest job, or when  *)
(* it is told that there is none.  No ring, no lock, no waiting.           *)
(***************************************************************************)
EXTENDS Naturals, Sequences

CONSTANTS Threads, Jobs, Capacity, NoJob

VARIABLES queue,     \* the jobs accepted and not yet handed out, oldest first
          request,   \* request[t]: "idle", "offer" or "ask"
          hand       \* hand[t]: the job t offers, or the job t was given last

qvars == <<queue, request, hand>>

QInit == /\ queue = <<>>
         /\ request = [t \in Threads |-> "idle"]
         /\ hand = [t \in Threads |-> NoJob]

Offer(t, j) == /\ request[t] = "idle"
               /\ request' = [request EXCEPT ![t] = "offer"]
               /\ hand' = [hand EXCEPT ![t] = j]
               /\ UNCHANGED queue

Accept(t) == /\ request[t] = "offer"
             /\ Len(queue) < Capacity
             /\ queue' = Append(queue, hand[t])
             /\ request' = [request EXCEPT ![t] = "idle"]
             /\ UNCHANGED hand

Ask(t) == /\ request[t] = "idle"
          /\ request' = [request EXCEPT ![t] = "ask"]
          /\ UNCHANGED <<queue, hand>>

Give(t) == /\ request[t] = "ask"
           /\ queue /= <<>>
           /\ hand' = [hand EXCEPT ![t] = Head(queue)]
           /\ queue' = Tail(queue)
           /\ request' = [request EXCEPT ![t] = "idle"]

Refuse(t) == /\ request[t] = "ask"
             /\ hand' = [hand EXCEPT ![t] = NoJob]
             /\ request' = [request EXCEPT ![t] = "idle"]
             /\ UNCHANGED queue

QNext == \E t \in Threads : \/ \E j \in Jobs : Offer(t, j)
                            \/ Accept(t)
                            \/ Ask(t)
                            \/ Give(t)
                            \/ Refuse(t)

QSpec == QInit /\ [][QNext]_qvars
=============================================================================
