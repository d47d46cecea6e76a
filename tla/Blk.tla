-------------------------------- MODULE Blk --------------------------------
(***************************************************************************)
(* The block layer's request queues (core/blk.c) under the scheduler that  *)
(* blk_init selects, mq-deadline; kyber and bfq delegate to it.  A queue   *)
(* is a linked list through the requests, here a sequence of them.  A      *)
(* request may be submitted again once it has been dispatched.             *)
(***************************************************************************)
EXTENDS Integers, Sequences

CONSTANTS
  Request,
  Reads,        \* the requests with read = 1
  deadline,     \* request -> its deadline
  MaxSubmits    \* bound on calls of blk_submit_request

ASSUME BlkConstants ==
  /\ Reads \subseteq Request
  /\ deadline \in [Request -> Nat]
  /\ MaxSubmits \in Nat

VARIABLES
  read_queue,
  write_queue,
  submits,      \* calls so far
  stamp         \* request -> the call that submitted it last, 0 for none

blkVars == <<read_queue, write_queue, submits, stamp>>

Elements(q) == {q[i] : i \in 1 .. Len(q)}
Queued      == Elements(read_queue) \cup Elements(write_queue)

(* Mutant: the walk stops before a request with the same deadline.         *)
StopsAt_early(q, req, place) ==
  /\ place \in 0 .. Len(q)
  /\ \A i \in 1 .. place : deadline[q[i]] < deadline[req]
  /\ place < Len(q) => deadline[req] <= deadline[q[place + 1]]

(* A place is where the walk stops: at the end, or before the first        *)
(* request with a later deadline.                                          *)
StopsAt(q, req, place) ==
  /\ place \in 0 .. Len(q)
  /\ \A i \in 1 .. place : deadline[q[i]] <= deadline[req]
  /\ place < Len(q) => deadline[req] < deadline[q[place + 1]]

Linked(q, req, place) ==
  [i \in 1 .. Len(q) + 1 |->
     IF i <= place THEN q[i] ELSE IF i = place + 1 THEN req ELSE q[i - 1]]

(* Mutant: the test of req->read is negated.                               *)
mq_deadline_add_swapped(req) ==
  \/ /\ req \notin Reads
     /\ \E place \in 0 .. Len(read_queue) :
          /\ StopsAt(read_queue, req, place)
          /\ read_queue' = Linked(read_queue, req, place)
     /\ UNCHANGED write_queue
  \/ /\ req \in Reads
     /\ \E place \in 0 .. Len(write_queue) :
          /\ StopsAt(write_queue, req, place)
          /\ write_queue' = Linked(write_queue, req, place)
     /\ UNCHANGED read_queue

mq_deadline_add(req) ==
  \/ /\ req \in Reads
     /\ \E place \in 0 .. Len(read_queue) :
          /\ StopsAt(read_queue, req, place)
          /\ read_queue' = Linked(read_queue, req, place)
     /\ UNCHANGED write_queue
  \/ /\ req \notin Reads
     /\ \E place \in 0 .. Len(write_queue) :
          /\ StopsAt(write_queue, req, place)
          /\ write_queue' = Linked(write_queue, req, place)
     /\ UNCHANGED read_queue

(* A request that is still linked must not be submitted again: the list    *)
(* would become a cycle.                                                   *)
blk_submit_request(req) ==
  /\ req \notin Queued
  /\ submits < MaxSubmits
  /\ mq_deadline_add(req)
  /\ submits' = submits + 1
  /\ stamp' = [stamp EXCEPT ![req] = submits + 1]

(* Mutant: the newest end of the list is taken.                            *)
blk_dispatch_last ==
  /\ \/ /\ read_queue # <<>>
        /\ read_queue' = SubSeq(read_queue, 1, Len(read_queue) - 1)
        /\ UNCHANGED write_queue
     \/ /\ read_queue = <<>> /\ write_queue # <<>>
        /\ write_queue' = Tail(write_queue)
        /\ UNCHANGED read_queue
  /\ UNCHANGED <<submits, stamp>>

(* mq_deadline_get_next: reads first.  With both queues empty it returns   *)
(* NULL and changes nothing.                                               *)
blk_dispatch ==
  /\ \/ /\ read_queue # <<>>
        /\ read_queue' = Tail(read_queue)
        /\ UNCHANGED write_queue
     \/ /\ read_queue = <<>> /\ write_queue # <<>>
        /\ write_queue' = Tail(write_queue)
        /\ UNCHANGED read_queue
  /\ UNCHANGED <<submits, stamp>>

BlkInit ==
  /\ read_queue = <<>> /\ write_queue = <<>>
  /\ submits = 0
  /\ stamp = [req \in Request |-> 0]

BlkNext == (\E req \in Request : blk_submit_request(req)) \/ blk_dispatch

BlkSpec == BlkInit /\ [][BlkNext]_blkVars

-----------------------------------------------------------------------------
(* Properties                                                              *)

(* The queues of mq-deadline hold requests, and each has its submission.   *)
BlkTypeOK ==
  /\ read_queue \in Seq(Request) /\ write_queue \in Seq(Request)
  /\ submits \in Nat
  /\ stamp \in [Request -> Nat]

(* Reads and writes are kept apart, and no request is linked twice: no     *)
(* list ever becomes a cycle.                                              *)
LinkedOnce ==
  /\ Elements(read_queue) \subseteq Reads
  /\ Elements(write_queue) \cap Reads = {}
  /\ \A i, j \in 1 .. Len(read_queue) : read_queue[i] = read_queue[j] => i = j
  /\ \A i, j \in 1 .. Len(write_queue) : write_queue[i] = write_queue[j] => i = j

Before(a, b) ==
  \/ deadline[a] < deadline[b]
  \/ deadline[a] = deadline[b] /\ stamp[a] < stamp[b]

(* Each queue is ordered by deadline, and requests with the same deadline  *)
(* by their submission, whatever was dispatched and submitted in between.  *)
DeadlineOrder ==
  /\ \A i, j \in 1 .. Len(read_queue) : i < j => Before(read_queue[i], read_queue[j])
  /\ \A i, j \in 1 .. Len(write_queue) : i < j => Before(write_queue[i], write_queue[j])

(* A step that takes a request out takes the one that is due first among   *)
(* those of its kind.                                                      *)
EarliestFirst ==
  [][\A a, b \in Queued : a \notin Queued' /\ (a \in Reads <=> b \in Reads) /\ a # b
                            => Before(a, b)]_blkVars
=============================================================================
