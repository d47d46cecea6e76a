----------------------------- MODULE StorageProofs --------------------------
(***************************************************************************)
(* Theorems about the two layers below the file systems, which share       *)
(* nothing in the code as it stands.                                       *)
(* The block layer: its queues stay ordered, for any set of requests and   *)
(* deadlines.  DeadlineOrder is inductive only together with the fact that *)
(* no stamp is ahead of the submission counter: a new request is later     *)
(* than all.                                                               *)
(* The AHCI driver, for every number of slots, polls and sectors and       *)
(* whatever the controller and the drive do: it never reuses a slot under  *)
(* the controller, and it implements Disk.                                 *)
(***************************************************************************)
EXTENDS Blk, Ahci, WellFoundedInduction, TLAPS


StampsPast == \A request \in Request : stamp[request] <= submits

QueueInv == BlkTypeOK /\ LinkedOnce /\ StampsPast /\ DeadlineOrder

(* One queue: its elements distinct, and ordered by given stamps.          *)
Distinct(q) == \A i, j \in 1 .. Len(q) : q[i] = q[j] => i = j

Earlier(st, a, b) ==
  \/ deadline[a] < deadline[b]
  \/ deadline[a] = deadline[b] /\ st[a] < st[b]

Ordered(q, st) == \A i, j \in 1 .. Len(q) : i < j => Earlier(st, q[i], q[j])

-----------------------------------------------------------------------------
(* Linking a request in adds it and keeps every other one.                 *)
LEMMA LinkedType ==
  ASSUME NEW q \in Seq(Request), NEW request \in Request, NEW place \in 0 .. Len(q)
  PROVE  /\ Linked(q, request, place) \in Seq(Request)
         /\ Len(Linked(q, request, place)) = Len(q) + 1
         /\ Elements(Linked(q, request, place)) = Elements(q) \cup {request}
<1> DEFINE l == Linked(q, request, place)
<1>1. l \in [1 .. Len(q) + 1 -> Request]
  BY DEF Linked
<1>2. l \in Seq(Request) /\ Len(l) = Len(q) + 1
  BY <1>1
<1>3. ASSUME NEW i \in 1 .. Len(q) + 1
      PROVE  l[i] \in Elements(q) \cup {request}
  <2>1. CASE i <= place
    BY <2>1 DEF Linked, Elements
  <2>2. CASE i = place + 1
    BY <2>2 DEF Linked
  <2>3. CASE i > place + 1
    <3>1. i - 1 \in 1 .. Len(q) /\ l[i] = q[i - 1]
      BY <2>3 DEF Linked
    <3> QED BY <3>1 DEF Elements
  <2> QED BY <2>1, <2>2, <2>3
<1>4. ASSUME NEW i \in 1 .. Len(q)
      PROVE  q[i] \in Elements(l)
  <2>1. CASE i <= place
    <3>1. i \in 1 .. Len(l) /\ l[i] = q[i]
      BY <2>1, <1>2 DEF Linked
    <3> QED BY <3>1 DEF Elements
  <2>2. CASE ~(i <= place)
    <3>1. i + 1 \in 1 .. Len(l) /\ l[i + 1] = q[i]
      BY <2>2, <1>2 DEF Linked
    <3> QED BY <3>1 DEF Elements
  <2> QED BY <2>1, <2>2
<1>5. request \in Elements(l)
  <2>1. place + 1 \in 1 .. Len(l) /\ l[place + 1] = request
    BY <1>2 DEF Linked
  <2> QED BY <2>1 DEF Elements
<1> QED BY <1>2, <1>3, <1>4, <1>5 DEF Elements

(* Linking keeps the elements distinct if the request was not linked.      *)
LEMMA LinkedDistinct ==
  ASSUME NEW q \in Seq(Request), NEW request \in Request, NEW place \in 0 .. Len(q),
         Distinct(q), request \notin Elements(q)
  PROVE  Distinct(Linked(q, request, place))
<1> DEFINE l == Linked(q, request, place)
<1>1. Len(l) = Len(q) + 1
  BY LinkedType
<1>2. \A i \in 1 .. Len(q) : q[i] # request
  BY DEF Elements
<1>3. \A i \in 1 .. Len(q) + 1 :
        l[i] = IF i <= place THEN q[i] ELSE IF i = place + 1 THEN request ELSE q[i - 1]
  BY DEF Linked
<1> HIDE DEF l
<1>4. ASSUME NEW i \in 1 .. Len(q) + 1, NEW j \in 1 .. Len(q) + 1, i < j
      PROVE  l[i] # l[j]
  <2>1. CASE j <= place
    <3>1. i \in 1 .. Len(q) /\ j \in 1 .. Len(q) /\ l[i] = q[i] /\ l[j] = q[j]
      BY <1>3, <1>4, <2>1
    <3> QED  BY <1>4, <3>1 DEF Distinct
  <2>2. CASE j = place + 1
    <3>1. i \in 1 .. Len(q) /\ l[i] = q[i] /\ l[j] = request
      BY <1>3, <1>4, <2>2
    <3> QED  BY <1>2, <3>1
  <2>3. CASE j > place + 1
    <3>1. j - 1 \in 1 .. Len(q) /\ l[j] = q[j - 1]
      BY <1>3, <2>3
    <3>2. CASE i <= place
      <4>1. i \in 1 .. Len(q) /\ l[i] = q[i] /\ i # j - 1
        BY <1>3, <2>3, <3>2
      <4> QED  BY <3>1, <4>1 DEF Distinct
    <3>3. CASE i = place + 1
      <4>1. l[i] = request
        BY <1>3, <3>3
      <4> QED  BY <1>2, <3>1, <4>1
    <3>4. CASE i > place + 1
      <4>1. i - 1 \in 1 .. Len(q) /\ l[i] = q[i - 1] /\ i - 1 # j - 1
        BY <1>3, <1>4, <3>4
      <4> QED  BY <3>1, <4>1 DEF Distinct
    <3> QED  BY <3>2, <3>3, <3>4
  <2> QED  BY <2>1, <2>2, <2>3
<1>5. ASSUME NEW i \in 1 .. Len(q) + 1, NEW j \in 1 .. Len(q) + 1, l[i] = l[j]
      PROVE  i = j
  <2>1. i < j \/ j < i \/ i = j
    OBVIOUS
  <2> QED  BY <1>4, <1>5, <2>1
<1>6. \A i, j \in 1 .. Len(l) : l[i] = l[j] => i = j
  BY <1>1, <1>5
<1> QED  BY <1>6 DEF Distinct, l

(* Linking at the place where the walk stops keeps a queue ordered, when   *)
(* the request's new stamp is above all others.                            *)
LEMMA LinkedOrdered ==
  ASSUME NEW q \in Seq(Request), NEW request \in Request, NEW place \in 0 .. Len(q),
         NEW st \in [Request -> Nat], NEW n \in Nat,
         StopsAt(q, request, place), Ordered(q, st), request \notin Elements(q),
         \A r \in Request : st[r] < n
  PROVE  Ordered(Linked(q, request, place), [st EXCEPT ![request] = n])
<1> DEFINE l == Linked(q, request, place)
           new == [st EXCEPT ![request] = n]
<1>1. Len(l) = Len(q) + 1
  BY LinkedType
<1>2. \A i \in 1 .. Len(q) : q[i] # request /\ q[i] \in Request
  BY DEF Elements
<1>3. \A i \in 1 .. Len(q) + 1 :
        /\ i <= place => l[i] = q[i]
        /\ i = place + 1 => l[i] = request
        /\ i > place + 1 => l[i] = q[i - 1]
  <2> SUFFICES ASSUME NEW i \in 1 .. Len(q) + 1
               PROVE  /\ i <= place => l[i] = q[i]
                      /\ i = place + 1 => l[i] = request
                      /\ i > place + 1 => l[i] = q[i - 1]
    OBVIOUS
  <2>1. l[i] = IF i <= place THEN q[i] ELSE IF i = place + 1 THEN request ELSE q[i - 1]
    BY DEF Linked
  <2>2. i = place + 1 => ~ (i <= place)
    OBVIOUS
  <2>3. i > place + 1 => i # place + 1 /\ ~ (i <= place)
    OBVIOUS
  <2> HIDE DEF l
  <2> QED  BY <2>1, <2>2, <2>3
<1>4. \A i \in 1 .. Len(q) : new[q[i]] = st[q[i]] /\ st[q[i]] < n
  BY <1>2
<1>5. new[request] = n
  OBVIOUS
<1>6. \A r \in Request : deadline[r] \in Nat
  BY BlkConstants, Zenon
<1>7. \A i, j \in 1 .. Len(q) : i < j => Earlier(new, q[i], q[j])
  BY <1>4 DEF Ordered, Earlier
<1>8. \A i \in 1 .. place : Earlier(new, q[i], request)
  BY <1>4, <1>5, <1>6, <1>2 DEF StopsAt, Earlier
<1>9. \A i \in place + 1 .. Len(q) : Earlier(new, request, q[i])
  <2>1. SUFFICES ASSUME NEW i \in place + 1 .. Len(q)
                 PROVE  deadline[request] < deadline[q[i]]
    BY DEF Earlier
  <2>2. deadline[request] < deadline[q[place + 1]]
    BY DEF StopsAt
  <2>3. place + 1 \in 1 .. Len(q) /\ i \in 1 .. Len(q) /\ place + 1 <= i
    OBVIOUS
  <2>4. q[i] \in Request /\ q[place + 1] \in Request
    BY <2>3, <1>2
  <2> DEFINE d(r) == deadline[r]
  <2>5. d(q[i]) \in Nat /\ d(q[place + 1]) \in Nat /\ d(request) \in Nat
    BY <2>4, <1>6
  <2>6. CASE i = place + 1
    BY <2>2, <2>6
  <2>7. CASE place + 1 < i
    <3>1. Earlier(st, q[place + 1], q[i])
      BY <2>3, <2>7 DEF Ordered
    <3>2. d(q[place + 1]) < d(q[i]) \/ d(q[place + 1]) = d(q[i])
      BY <3>1 DEF Earlier
    <3>3. d(request) < d(q[place + 1])
      BY <2>2
    <3> HIDE DEF d
    <3>4. d(request) < d(q[i])
      BY <2>5, <3>2, <3>3
    <3> QED BY <3>4 DEF d
  <2> QED BY <2>3, <2>6, <2>7
<1> SUFFICES ASSUME NEW i \in 1 .. Len(q) + 1, NEW j \in 1 .. Len(q) + 1, i < j
             PROVE  Earlier(new, l[i], l[j])
  BY <1>1 DEF Ordered
<1> HIDE DEF l, new
<1>10. CASE j <= place
  <2>1. l[i] = q[i] /\ l[j] = q[j]
    <3>1. i <= place
      BY <1>10
    <3> QED  BY <1>10, <1>3, <3>1
  <2>2. i \in 1 .. Len(q) /\ j \in 1 .. Len(q)
    BY <1>10
  <2> QED BY <2>1, <2>2, <1>7
<1>11. CASE j = place + 1
  <2>1. i \in 1 .. place /\ l[j] = request
    BY <1>11, <1>3
  <2>2. l[i] = q[i]
    BY <1>3, <2>1
  <2> QED  BY <1>8, <2>1, <2>2
<1>12. CASE j > place + 1
  <2>1. CASE i <= place
    <3>1. l[i] = q[i] /\ l[j] = q[j - 1]
      BY <2>1, <1>12, <1>3
    <3>2. i \in 1 .. Len(q) /\ j - 1 \in 1 .. Len(q) /\ i < j - 1
      BY <2>1, <1>12
    <3> QED BY <3>1, <3>2, <1>7
  <2>2. CASE i = place + 1
    <3>1. l[i] = request /\ l[j] = q[j - 1]
      BY <2>2, <1>12, <1>3
    <3>2. j - 1 \in place + 1 .. Len(q)
      BY <2>2, <1>12
    <3> QED BY <3>1, <3>2, <1>9
  <2>3. CASE i > place + 1
    <3>1. l[i] = q[i - 1] /\ l[j] = q[j - 1]
      BY <2>3, <1>12, <1>3
    <3>2. i - 1 \in 1 .. Len(q) /\ j - 1 \in 1 .. Len(q) /\ i - 1 < j - 1
      BY <2>3, <1>12
    <3> QED BY <3>1, <3>2, <1>7
  <2> QED BY <2>1, <2>2, <2>3
<1> QED BY <1>10, <1>11, <1>12

(* Dropping the head of a queue keeps what was said of the queue.          *)
LEMMA TailKeeps ==
  ASSUME NEW q \in Seq(Request), q # <<>>, NEW st
  PROVE  /\ Tail(q) \in Seq(Request)
         /\ Elements(Tail(q)) \subseteq Elements(q)
         /\ Distinct(q) => Distinct(Tail(q))
         /\ Ordered(q, st) => Ordered(Tail(q), st)
<1>1. Tail(q) \in Seq(Request) /\ Len(Tail(q)) = Len(q) - 1
  OBVIOUS
<1>2. \A i \in 1 .. Len(Tail(q)) : i + 1 \in 1 .. Len(q) /\ Tail(q)[i] = q[i + 1]
  OBVIOUS
<1>3. Elements(Tail(q)) \subseteq Elements(q)
  BY <1>2 DEF Elements
<1>4. Distinct(q) => Distinct(Tail(q))
  BY <1>2 DEF Distinct
<1>5. Ordered(q, st) => Ordered(Tail(q), st)
  BY <1>2 DEF Ordered
<1> QED BY <1>1, <1>3, <1>4, <1>5

-----------------------------------------------------------------------------
(* The order of the model is Ordered with the model's own stamps.          *)
LEMMA OrderSplits ==
  /\ DeadlineOrder <=> Ordered(read_queue, stamp) /\ Ordered(write_queue, stamp)
  /\ LinkedOnce <=> /\ Elements(read_queue) \subseteq Reads
                    /\ Elements(write_queue) \cap Reads = {}
                    /\ Distinct(read_queue) /\ Distinct(write_queue)
  BY DEF DeadlineOrder, LinkedOnce, Ordered, Distinct, Earlier, Before

(* The same for the next state.                                            *)
LEMMA OrderSplitsNext ==
  /\ DeadlineOrder' <=> Ordered(read_queue', stamp') /\ Ordered(write_queue', stamp')
  /\ LinkedOnce' <=> /\ Elements(read_queue') \subseteq Reads
                     /\ Elements(write_queue') \cap Reads = {}
                     /\ Distinct(read_queue') /\ Distinct(write_queue')
  BY DEF DeadlineOrder, LinkedOnce, Ordered, Distinct, Earlier, Before, Elements

(* A queue without the request does not notice its new stamp.              *)
LEMMA OrderedFrame ==
  ASSUME NEW q \in Seq(Request), NEW request \in Request, NEW st \in [Request -> Nat],
         NEW n \in Nat, Ordered(q, st), request \notin Elements(q)
  PROVE  Ordered(q, [st EXCEPT ![request] = n])
<1>1. \A i \in 1 .. Len(q) : q[i] # request /\ q[i] \in Request
  BY DEF Elements
<1>2. \A i \in 1 .. Len(q) : [st EXCEPT ![request] = n][q[i]] = st[q[i]]
  BY <1>1
<1> QED BY <1>2 DEF Ordered, Earlier

(* The empty queues of blk_init satisfy the invariant.                     *)
LEMMA QueueInit == BlkInit => QueueInv
<1> SUFFICES ASSUME BlkInit PROVE QueueInv
  OBVIOUS
<1>1. BlkTypeOK
  BY DEF BlkInit, BlkTypeOK
<1>2. LinkedOnce
  BY DEF BlkInit, LinkedOnce, Elements
<1>3. StampsPast /\ DeadlineOrder
  BY DEF BlkInit, StampsPast, DeadlineOrder
<1> QED BY <1>1, <1>2, <1>3 DEF QueueInv

(* Submitting: into one queue by the lemmas on Linked, and the other one   *)
(* is framed.                                                              *)
LEMMA SubmitStep ==
  ASSUME QueueInv, NEW request \in Request, blk_submit_request(request)
  PROVE  QueueInv'
<1> USE DEF QueueInv
<1>1. /\ read_queue \in Seq(Request) /\ write_queue \in Seq(Request)
      /\ submits \in Nat /\ stamp \in [Request -> Nat]
  BY DEF BlkTypeOK
<1>2. /\ submits' = submits + 1
      /\ stamp' = [stamp EXCEPT ![request] = submits + 1]
      /\ request \notin Elements(read_queue) /\ request \notin Elements(write_queue)
  BY DEF blk_submit_request, Queued
<1>3. \A r \in Request : stamp[r] < submits + 1
  BY <1>1 DEF StampsPast
<1>4. StampsPast'
  BY <1>1, <1>2, <1>3 DEF StampsPast
<1>5. submits + 1 \in Nat /\ stamp' \in [Request -> Nat]
  BY <1>1, <1>2
<1>6. /\ Ordered(read_queue, stamp) /\ Ordered(write_queue, stamp)
      /\ Elements(read_queue) \subseteq Reads /\ Elements(write_queue) \cap Reads = {}
      /\ Distinct(read_queue) /\ Distinct(write_queue)
  BY OrderSplits
<1>7. CASE request \in Reads
  <2>1. PICK place \in 0 .. Len(read_queue) :
          StopsAt(read_queue, request, place) /\ read_queue' = Linked(read_queue, request, place)
    BY <1>7 DEF blk_submit_request, mq_deadline_add
  <2>2. write_queue' = write_queue
    BY <1>7 DEF blk_submit_request, mq_deadline_add
  <2>3. BlkTypeOK'
    BY <1>1, <1>2, <1>5, <2>1, <2>2, LinkedType DEF BlkTypeOK
  <2>4. Ordered(read_queue', stamp') /\ Ordered(write_queue', stamp')
    BY <1>1, <1>2, <1>3, <1>5, <1>6, <2>1, <2>2, LinkedOrdered, OrderedFrame
  <2>5. /\ Elements(read_queue') \subseteq Reads
        /\ Elements(write_queue') \cap Reads = {}
    BY <1>1, <1>6, <1>7, <2>1, <2>2, LinkedType
  <2>6. Distinct(read_queue') /\ Distinct(write_queue')
    BY <1>1, <1>2, <1>6, <2>1, <2>2, LinkedDistinct
  <2> QED BY <1>4, <2>3, <2>4, <2>5, <2>6, OrderSplitsNext
<1>8. CASE request \notin Reads
  <2>1. PICK place \in 0 .. Len(write_queue) :
          StopsAt(write_queue, request, place) /\ write_queue' = Linked(write_queue, request, place)
    BY <1>8 DEF blk_submit_request, mq_deadline_add
  <2>2. read_queue' = read_queue
    BY <1>8 DEF blk_submit_request, mq_deadline_add
  <2>3. BlkTypeOK'
    BY <1>1, <1>2, <1>5, <2>1, <2>2, LinkedType DEF BlkTypeOK
  <2>4. Ordered(read_queue', stamp') /\ Ordered(write_queue', stamp')
    BY <1>1, <1>2, <1>3, <1>5, <1>6, <2>1, <2>2, LinkedOrdered, OrderedFrame
  <2>5. /\ Elements(read_queue') \subseteq Reads
        /\ Elements(write_queue') \cap Reads = {}
    BY <1>1, <1>6, <1>8, <2>1, <2>2, LinkedType
  <2>6. Distinct(read_queue') /\ Distinct(write_queue')
    BY <1>1, <1>2, <1>6, <2>1, <2>2, LinkedDistinct
  <2> QED BY <1>4, <2>3, <2>4, <2>5, <2>6, OrderSplitsNext
<1> QED BY <1>7, <1>8

(* Dispatching drops the head of one queue.                                *)
LEMMA DispatchStep ==
  ASSUME QueueInv, blk_dispatch
  PROVE  QueueInv'
<1> USE DEF QueueInv
<1>1. /\ read_queue \in Seq(Request) /\ write_queue \in Seq(Request)
      /\ stamp' = stamp /\ submits' = submits
  BY DEF BlkTypeOK, blk_dispatch
<1>2. StampsPast'
  BY <1>1 DEF StampsPast
<1>3. /\ Ordered(read_queue, stamp) /\ Ordered(write_queue, stamp)
      /\ Elements(read_queue) \subseteq Reads /\ Elements(write_queue) \cap Reads = {}
      /\ Distinct(read_queue) /\ Distinct(write_queue)
  BY OrderSplits
<1>4. \/ /\ read_queue # <<>> /\ read_queue' = Tail(read_queue)
         /\ write_queue' = write_queue
      \/ /\ write_queue # <<>> /\ write_queue' = Tail(write_queue)
         /\ read_queue' = read_queue
  BY DEF blk_dispatch
<1>5. BlkTypeOK'
  BY <1>1, <1>4, TailKeeps DEF BlkTypeOK
<1>6. /\ Ordered(read_queue', stamp') /\ Ordered(write_queue', stamp')
      /\ Distinct(read_queue') /\ Distinct(write_queue')
  <2>1. \A q \in Seq(Request) : q # <<>> /\ Ordered(q, stamp) => Ordered(Tail(q), stamp)
    BY TailKeeps
  <2>2. \A q \in Seq(Request) : q # <<>> /\ Distinct(q) => Distinct(Tail(q))
    BY TailKeeps
  <2> QED BY <2>1, <2>2, <1>1, <1>3, <1>4
<1>7. /\ Elements(read_queue') \subseteq Reads
      /\ Elements(write_queue') \cap Reads = {}
  BY <1>1, <1>3, <1>4, TailKeeps
<1> QED BY <1>2, <1>5, <1>6, <1>7, OrderSplitsNext

(* The invariant holds in every state.                                     *)
LEMMA QueueInvariance == BlkSpec => []QueueInv
<1>1. QueueInv /\ [BlkNext]_blkVars => QueueInv'
  <2> SUFFICES ASSUME QueueInv, [BlkNext]_blkVars PROVE QueueInv'
    OBVIOUS
  <2>1. CASE \E request \in Request : blk_submit_request(request)
    BY <2>1, SubmitStep
  <2>2. CASE blk_dispatch
    BY <2>2, DispatchStep
  <2>3. CASE UNCHANGED blkVars
    <3>1. /\ read_queue' = read_queue /\ write_queue' = write_queue
          /\ submits' = submits /\ stamp' = stamp
      BY <2>3 DEF blkVars
    <3> QED BY <3>1 DEF QueueInv, BlkTypeOK, LinkedOnce, StampsPast, DeadlineOrder, Before,
                        Elements
  <2> QED BY <2>1, <2>2, <2>3 DEF BlkNext
<1> QED BY <1>1, QueueInit, PTL DEF BlkSpec

-----------------------------------------------------------------------------
(* Neither queue ever links a request twice or one of the other kind.      *)
THEOREM NoCycle == BlkSpec => []LinkedOnce
<1>1. QueueInv => LinkedOnce
  BY DEF QueueInv
<1> QED BY <1>1, QueueInvariance, PTL

(* Both queues are ordered by deadline, and by submission among equals,    *)
(* after any sequence of blk_submit_request and blk_dispatch.              *)
THEOREM QueuesOrdered == BlkSpec => []DeadlineOrder
<1>1. QueueInv => DeadlineOrder
  BY DEF QueueInv
<1> QED BY <1>1, QueueInvariance, PTL

(* What leaves a queue when its head is dropped is its first element, and  *)
(* that one is due before every other.                                     *)
LEMMA HeadIsFirst ==
  ASSUME NEW q \in Seq(Request), NEW st, Ordered(q, st), q # <<>>,
         NEW a \in Elements(q), NEW b \in Elements(q),
         a \notin Elements(Tail(q)), a # b
  PROVE  Earlier(st, a, b)
<1>1. PICK i \in 1 .. Len(q), j \in 1 .. Len(q) : a = q[i] /\ b = q[j]
  BY DEF Elements
<1>2. i = 1
  <2>1. SUFFICES ASSUME i > 1 PROVE FALSE
    OBVIOUS
  <2>2. i - 1 \in 1 .. Len(Tail(q)) /\ Tail(q)[i - 1] = q[i]
    BY <2>1
  <2> QED BY <2>2, <1>1 DEF Elements
<1>3. i < j
  BY <1>1, <1>2
<1> QED BY <1>1, <1>3 DEF Ordered

(* blk_dispatch hands out the request that is due first among those of its *)
(* kind, and nothing else takes a request out.                             *)
THEOREM DispatchIsEarliest == BlkSpec => EarliestFirst
<1>1. ASSUME QueueInv, [BlkNext]_blkVars, NEW a \in Queued, NEW b \in Queued,
             a \notin Queued', a \in Reads <=> b \in Reads, a # b
      PROVE  Before(a, b)
  <2>1. /\ read_queue \in Seq(Request) /\ write_queue \in Seq(Request)
        /\ Ordered(read_queue, stamp) /\ Ordered(write_queue, stamp)
        /\ Elements(read_queue) \subseteq Reads
        /\ Elements(write_queue) \cap Reads = {}
    BY <1>1, OrderSplits DEF QueueInv, BlkTypeOK
  <2>2. /\ Queued = Elements(read_queue) \cup Elements(write_queue)
        /\ Queued' = Elements(read_queue') \cup Elements(write_queue')
    BY DEF Queued, Elements
  <2>3. Earlier(stamp, a, b) => Before(a, b)
    BY DEF Earlier, Before
  <2>4. CASE \E request \in Request : blk_submit_request(request)
    <3>1. PICK request \in Request : blk_submit_request(request)
      BY <2>4
    <3>2. /\ Elements(read_queue) \subseteq Elements(read_queue')
          /\ Elements(write_queue) \subseteq Elements(write_queue')
      BY <3>1, <2>1, LinkedType DEF blk_submit_request, mq_deadline_add
    <3> QED BY <3>2, <2>2, <1>1
  <2>5. CASE blk_dispatch
    <3>1. CASE read_queue # <<>> /\ read_queue' = Tail(read_queue)
               /\ write_queue' = write_queue
      <4>1. a \in Elements(read_queue) /\ b \in Elements(read_queue)
        BY <3>1, <2>1, <2>2, <1>1
      <4>2. a \notin Elements(Tail(read_queue))
        BY <3>1, <2>2, <1>1
      <4> QED BY <4>1, <4>2, <3>1, <2>1, <2>3, <1>1, HeadIsFirst
    <3>2. CASE write_queue # <<>> /\ write_queue' = Tail(write_queue)
               /\ read_queue' = read_queue
      <4>1. a \in Elements(write_queue) /\ b \in Elements(write_queue)
        BY <3>2, <2>1, <2>2, <1>1
      <4>2. a \notin Elements(Tail(write_queue))
        BY <3>2, <2>2, <1>1
      <4> QED BY <4>1, <4>2, <3>2, <2>1, <2>3, <1>1, HeadIsFirst
    <3> QED BY <3>1, <3>2, <2>5 DEF blk_dispatch
  <2>6. CASE UNCHANGED blkVars
    <3>1. read_queue' = read_queue /\ write_queue' = write_queue
      BY <2>6 DEF blkVars
    <3> QED BY <3>1, <2>2, <1>1
  <2> QED BY <2>4, <2>5, <2>6, <1>1 DEF BlkNext
<1>2. QueueInv /\ [BlkNext]_blkVars =>
        [\A a, b \in Queued : a \notin Queued' /\ (a \in Reads <=> b \in Reads) /\ a # b
                                => Before(a, b)]_blkVars
  BY <1>1
<1> QED BY <1>2, QueueInvariance, PTL DEF BlkSpec, EarliestFirst

-----------------------------------------------------------------------------
(* The AHCI driver.                                                        *)

(* The loops' bounds and the number of slots are positive.                 *)
LEMMA Positive ==
  /\ SLOTS \in Nat /\ SLOTS > 0
  /\ READY_POLLS \in Nat /\ READY_POLLS > 0
  /\ POLLS \in Nat /\ POLLS > 0
BY AhciConstants

(* The first of some slots is one of them and comes before the others.     *)
LEMMA MinOfSlots ==
  ASSUME NEW S \in SUBSET Slot, S # {}
  PROVE  Min(S) \in S /\ \A s \in S : Min(S) <= s
<1>1. S \subseteq Nat
  BY AhciConstants DEF Slot
<1> DEFINE less == {p \in Nat \X Nat : p[1] < p[2]}
<1>0. IsWellFoundedOn(less, Nat)
  BY NatLessThanWellFounded DEF OpToRel
<1> HIDE DEF less
<1>2. PICK x \in S : \A y \in S : ~ (<<y, x>> \in less)
  BY <1>0, <1>1, WFMin
<1>3. ASSUME NEW y \in S PROVE x <= y
  <2>1. <<y, x>> \in Nat \X Nat /\ <<y, x>>[1] = y /\ <<y, x>>[2] = x
    BY <1>1
  <2>2. ~ (y < x)
    BY <1>2, <2>1 DEF less
  <2>3. QED
    BY <1>1, <2>2
<1>4. QED
  BY <1>2, <1>3 DEF Min

(* find_cmdslot finds nothing or a slot whose bit in PxCI is clear, the    *)
(* first one when all are.                                                 *)
LEMMA FindCmdslot ==
  /\ find_cmdslot # NO_SLOT => find_cmdslot \in Slot \ ci
  /\ ci = {} => find_cmdslot = 0
<1>1. 0 \in Slot /\ NO_SLOT \notin Slot /\ Slot \subseteq Nat
  BY AhciConstants DEF Slot, NO_SLOT
<1>2. CASE Slot \ ci = {}
  BY <1>1, <1>2 DEF find_cmdslot
<1>3. CASE Slot \ ci # {}
  <2> DEFINE free == Slot \ ci
  <2>1. find_cmdslot \in free /\ \A s \in free : find_cmdslot <= s
    BY <1>3, MinOfSlots DEF find_cmdslot
  <2>2. ci = {} => find_cmdslot = 0
    BY <1>1, <2>1
  <2>3. QED
    BY <2>1, <2>2
<1>4. QED
  BY <1>2, <1>3

-----------------------------------------------------------------------------
(* The inductive invariant: types, who owns a slot, and how a request      *)
(* stands while no request has outlived its polls.                         *)

Types ==
  /\ TypeOK
  /\ pc \in {"idle", "ready", "issue", "poll", "check"}
  /\ expired \in BOOLEAN /\ stopped \in BOOLEAN /\ tfes \in BOOLEAN
  /\ running \in [slot : Slot, cmd : D!Request] \cup {Idle}
  /\ table \in [{"cmd_table", "zero"} -> D!Request \cup {Idle}]

(* The controller works on an issued slot, whose table was written, and    *)
(* not after an error.                                                     *)
SlotsOwned ==
  /\ running # Idle => running.slot \in ci /\ ~stopped
  /\ \A s \in ci : table[ctba(s)] # Idle
  /\ pc \in {"ready", "issue"} => table[ctba(slot)] # Idle
  /\ tfes => stopped

(* Before the first error there is never more than one command, that of    *)
(* the request under way, in slot 0; a wait that saw PxCI clear ended      *)
(* after the data had moved.                                               *)
OneAtATime ==
  ~expired =>
    /\ ~stopped =>
         /\ ci \subseteq {slot} /\ (ci # {} => pc = "poll")
         /\ pc # "idle" => slot = 0 /\ table["cmd_table"] = req
    /\ pc \in {"poll", "check"} /\ slot \notin ci => D!Done(req)
    /\ pc = "check" => slot \notin ci

Inv == Types /\ SlotsPrivate /\ SlotsOwned /\ OneAtATime

(* When all of a request has moved, buffer and disk agree on it.           *)
LEMMA WholeTransfer ==
  ASSUME NEW r \in D!Request,
         disk' = D!DiskAfter(r, 0 .. r.count - 1),
         mem' = D!MemAfter(r, 0 .. r.count - 1)
  PROVE  D!Done(r)'
<1> SUFFICES ASSUME NEW k \in 0 .. r.count - 1
             PROVE  mem'[r.buf][k] = disk'[r.lba + k]
  BY DEF D!Done
<1>1. /\ r.op \in {"read", "write"} /\ r.buf \in Buffer
      /\ r.lba \in Sector /\ r.count \in 1 .. 2
      /\ r.lba + r.count - 1 \in Sector
  BY DEF D!Request
<1>2. r.lba \in Nat /\ k \in D!Place /\ r.lba + k \in Sector /\ (r.lba + k) - r.lba = k
  <2>0. Sector \subseteq Nat
    BY AhciConstants
  <2>1. r.lba \in Nat /\ k \in {0, 1} /\ (k = 1 => r.count = 2)
    <3>1. r.count = 1 \/ r.count = 2
      BY <1>1
    <3>2. r.lba \in Nat
      BY <1>1, <2>0
    <3>3. k \in {0, 1}
      BY <3>1
    <3>4. k = 1 => r.count = 2
      BY <3>1
    <3>5. QED
      BY <3>2, <3>3, <3>4
  <2>2. r.lba + 0 = r.lba /\ r.lba + 2 - 1 = r.lba + 1 /\ (r.lba + k) - r.lba = k
    BY <2>1
  <2>3. QED
    BY <1>1, <2>1, <2>2 DEF D!Place
<1>3. mem'[r.buf][k] = IF r.op = "read" THEN disk[r.lba + k] ELSE mem[r.buf][k]
  BY <1>1, <1>2 DEF D!MemAfter
<1>4. disk'[r.lba + k] = IF r.op = "write" THEN mem[r.buf][k] ELSE disk[r.lba + k]
  BY <1>1, <1>2 DEF D!DiskAfter
<1>5. QED
  BY <1>1, <1>3, <1>4

(* At the start nothing is issued.                                         *)
LEMMA InitInv == Init => Inv
<1> SUFFICES ASSUME Init PROVE Inv
  OBVIOUS
<1>1. Types
  <2>1. slot \in Slot /\ ci \subseteq Slot
    BY Positive DEF Init, Slot
  <2>2. timeout \in -1 .. POLLS \cup -1 .. READY_POLLS
    BY Positive DEF Init
  <2>4. table \in [{"cmd_table", "zero"} -> D!Request \cup {Idle}]
    BY DEF Init
  <2>5. QED
    BY <2>1, <2>2, <2>4 DEF Init, Types, TypeOK
<1>2. SlotsPrivate /\ SlotsOwned /\ OneAtATime
  BY DEF Init, SlotsPrivate, SlotsOwned, OneAtATime
<1>3. QED
  BY <1>1, <1>2 DEF Inv

(* A request takes a free slot, and the slot of a request before it stays  *)
(* with the controller that still holds it.                                *)
LEMMA RequestStep ==
  ASSUME Inv, NEW r \in D!Request, ahci_request(r)
  PROVE  Inv'
<1> USE DEF Inv
<1>1. CASE Fails /\ UNCHANGED <<slot, timeout, table>>
  <2>1. UNCHANGED <<running, ci, expired, stopped>> /\ tfes' \in {tfes, FALSE}
    BY DEF ahci_request
  <2>2. Types'
    BY <1>1, <2>1 DEF Types, TypeOK, Fails
  <2>3. SlotsPrivate'
    BY <1>1, <2>1 DEF SlotsPrivate, Fails
  <2>4. SlotsOwned'
    BY <1>1, <2>1, <2>2 DEF SlotsOwned, Fails, Types
  <2>5. OneAtATime'
    BY <1>1, <2>1, IdleIsNothing, ahci_request(r)
    DEF OneAtATime, Fails, Types, TypeOK, ahci_request
  <2>6. QED
    BY <2>2, <2>3, <2>4, <2>5
<1>2. CASE ~ (Fails /\ UNCHANGED <<slot, timeout, table>>)
  <2> DEFINE s == find_cmdslot
  <2>1. /\ s # NO_SLOT /\ slot' = s /\ timeout' = READY_POLLS
        /\ pc = "idle" /\ pc' = "ready" /\ req' = r /\ tfes' = FALSE
        /\ table' = [table EXCEPT ![ctba(s)] = r]
        /\ UNCHANGED <<ret, running, ci, expired, stopped>>
    BY <1>2 DEF ahci_request
  <2>2. s \in Slot \ ci /\ (ci = {} => s = 0)
    BY <2>1, FindCmdslot
  <2> HIDE DEF s
  <2>3. Types'
    <3>1. timeout' \in -1 .. POLLS \cup -1 .. READY_POLLS
      BY <2>1, Positive
    <3>2. slot' \in Slot /\ ci' \subseteq Slot /\ ret' \in {0, -1}
      BY <2>1, <2>2 DEF Types, TypeOK
    <3>3. r # Idle
      BY IdleIsNothing
    <3>4. table' \in [{"cmd_table", "zero"} -> D!Request \cup {Idle}]
      BY <2>1 DEF Types
    <3>5. QED
      BY <2>1, <3>1, <3>2, <3>3, <3>4 DEF Types, TypeOK
  <2>4. ctba(s) \in {"cmd_table", "zero"} /\ table'[ctba(s)] = r /\ r # Idle
    BY <2>1, IdleIsNothing DEF ctba, Types
  <2>5. SlotsPrivate'
    BY <2>1, <2>2, <2>4 DEF SlotsPrivate, ctba, Types
  <2>6. SlotsOwned'
    <3>1. \A c \in ci : table'[ctba(c)] # Idle
      BY <2>1, <2>4 DEF SlotsOwned, ctba, Types
    <3>2. QED
      BY <2>1, <2>4, <3>1 DEF SlotsOwned
  <2>7. OneAtATime'
    BY <2>1, <2>2, <2>4 DEF OneAtATime, ctba
  <2>8. QED
    BY <2>3, <2>5, <2>6, <2>7
<1>3. QED
  BY <1>1, <1>2

(* wait_ready, issue, poll and check_result move the request along.        *)
LEMMA DriverStep == Inv /\ Driver => Inv'
<1> SUFFICES ASSUME Inv, Driver PROVE Inv'
  OBVIOUS
<1> USE DEF Inv
<1>0. timeout \in Int /\ timeout >= -1
  BY Positive DEF Types, TypeOK
<1>1. CASE wait_ready
  <2>1. timeout' \in -1 .. POLLS \cup -1 .. READY_POLLS
    <3>1. \/ timeout' = timeout
          \/ timeout > 0 /\ timeout' = timeout - 1
          \/ timeout' = -1
      BY <1>1 DEF wait_ready
    <3>2. QED
      BY <1>0, <3>1, Positive DEF Types, TypeOK
  <2>2. /\ pc = "ready"
        /\ \/ pc' \in {"ready", "issue"} /\ UNCHANGED <<req, ret>>
           \/ Fails
        /\ UNCHANGED <<slot, expired, table, ci, tfes, running, stopped>>
    BY <1>1 DEF wait_ready, port
  <2>3. Types'
    BY <2>1, <2>2 DEF Types, TypeOK, Fails
  <2>4. SlotsPrivate' /\ SlotsOwned'
    BY <2>2 DEF SlotsPrivate, SlotsOwned, Fails
  <2>5. OneAtATime'
    BY <2>2 DEF OneAtATime, Fails
  <2>6. QED
    BY <2>3, <2>4, <2>5
<1>2. CASE issue
  <2>1. /\ pc = "issue" /\ pc' = "poll" /\ ci' = ci \cup {slot} /\ timeout' = POLLS
        /\ UNCHANGED <<req, slot, ret, expired, table, tfes, running, stopped>>
    BY <1>2 DEF issue
  <2>2. timeout' \in -1 .. POLLS \cup -1 .. READY_POLLS
    BY <2>1, Positive
  <2>3. Types'
    BY <2>1, <2>2 DEF Types, TypeOK
  <2>4. SlotsPrivate'
    BY <2>1 DEF SlotsPrivate, SlotsOwned
  <2>5. SlotsOwned'
    BY <2>1 DEF SlotsOwned
  <2>6. OneAtATime'
    BY <2>1 DEF OneAtATime
  <2>7. QED
    BY <2>3, <2>4, <2>5, <2>6
<1>3. CASE poll
  <2>1. timeout' \in -1 .. POLLS \cup -1 .. READY_POLLS
    <3>1. (timeout = 0 \/ timeout > 0) /\ timeout' = timeout - 1
      BY <1>3 DEF poll
    <3>2. QED
      BY <1>0, <3>1, Positive DEF Types, TypeOK
  <2>2. /\ pc = "poll"
        /\ UNCHANGED <<slot, table, ci, tfes, running, stopped, disk, mem>>
        /\ \/ pc' = "check" /\ expired' = TRUE /\ UNCHANGED <<req, ret>>
           \/ slot \notin ci /\ pc' = "check" /\ UNCHANGED <<req, ret, expired>>
           \/ tfes /\ Fails /\ UNCHANGED expired
           \/ pc' = "poll" /\ UNCHANGED <<req, ret, expired>>
    BY <1>3 DEF poll, port, data
  <2>3. Types'
    BY <2>1, <2>2 DEF Types, TypeOK, Fails
  <2>4. SlotsPrivate'
    BY <2>2 DEF SlotsPrivate, Fails
  <2>5. SlotsOwned'
    BY <2>2 DEF SlotsOwned, Fails
  <2>6. OneAtATime'
    BY <2>2 DEF OneAtATime, Fails, SlotsOwned, D!Done
  <2>7. QED
    BY <2>3, <2>4, <2>5, <2>6
<1>4. CASE check_result
  <2>1. /\ pc = "check" /\ pc' = "idle" /\ req' = Idle /\ ret' \in {0, -1}
        /\ UNCHANGED <<slot, timeout, expired, table, ci, tfes, running, stopped>>
    BY <1>4 DEF check_result, port, Result
  <2>2. Types'
    BY <2>1 DEF Types, TypeOK
  <2>3. SlotsPrivate' /\ SlotsOwned'
    BY <2>1 DEF SlotsPrivate, SlotsOwned
  <2>4. OneAtATime'
    BY <2>1 DEF OneAtATime
  <2>5. QED
    BY <2>2, <2>3, <2>4
<1>5. QED
  BY <1>1, <1>2, <1>3, <1>4 DEF Driver

(* The controller and the drive at work.                                   *)
LEMMA StartStep ==
  ASSUME Inv, NEW s \in Slot, hba_start(s)
  PROVE  Inv'
<1> USE DEF Inv
<1> DEFINE started == [slot |-> s, cmd |-> table[ctba(s)]]
<1>1. /\ s \in ci /\ ~stopped /\ running' = started
      /\ UNCHANGED <<pc, req, slot, timeout, ret, expired, table, ci, tfes, stopped,
                     disk, mem>>
  BY DEF hba_start, driver, local, data
<1>2. table[ctba(s)] \in D!Request
  BY <1>1 DEF Types, SlotsOwned, ctba
<1>3. started \in [slot : Slot, cmd : D!Request]
  BY <1>2
<1>4. Types'
  BY <1>1, <1>3 DEF Types, TypeOK
<1>5. SlotsPrivate'
  BY <1>1 DEF SlotsPrivate, ctba
<1>6. SlotsOwned'
  BY <1>1 DEF SlotsOwned
<1>7. OneAtATime'
  BY <1>1 DEF OneAtATime, D!Done
<1>8. QED
  BY <1>4, <1>5, <1>6, <1>7

(* Until a request outlives its polls the controller works on it alone.    *)
LEMMA WorksOnRequest ==
  ASSUME Inv, ~expired, running # Idle
  PROVE  /\ pc = "poll" /\ ci = {slot} /\ running.slot = slot
         /\ running.cmd = req /\ req \in D!Request
<1>1. running.slot \in ci /\ ~stopped
  BY DEF Inv, SlotsOwned
<1>2. pc = "poll" /\ ci = {slot} /\ slot = 0 /\ table["cmd_table"] = req
  BY <1>1 DEF Inv, OneAtATime
<1>3. running.cmd = req
  BY <1>1, <1>2 DEF Inv, SlotsPrivate
<1>4. QED
  BY <1>1, <1>2, <1>3 DEF Inv, Types, TypeOK

(* The controller finishes its command, or stops at an error and keeps the *)
(* slot.                                                                   *)
LEMMA FinishStep ==
  ASSUME Inv, NEW K \in SUBSET D!Place, NEW fails \in BOOLEAN, hba_finish(K, fails)
  PROVE  Inv'
<1> USE DEF Inv
<1>1. /\ running # Idle /\ running' = Idle /\ stopped' = fails
      /\ ci' = IF fails THEN ci ELSE ci \ {running.slot}
      /\ tfes' = (tfes \/ fails)
      /\ UNCHANGED <<pc, req, slot, timeout, ret, expired, table>>
  BY DEF hba_finish, driver, local
<1>2. Types'
  BY <1>1 DEF Types, TypeOK
<1>3. SlotsPrivate'
  BY <1>1 DEF SlotsPrivate
<1>4. SlotsOwned'
  BY <1>1 DEF SlotsOwned
<1>5. OneAtATime'
  <2> SUFFICES ASSUME ~expired PROVE OneAtATime'
    BY <1>1 DEF OneAtATime
  <2>1. pc = "poll" /\ ci = {slot} /\ running.slot = slot /\ running.cmd = req
    BY <1>1, WorksOnRequest
  <2>2. CASE fails
    BY <1>1, <2>1, <2>2 DEF OneAtATime
  <2>3. CASE ~fails
    <3>1. D!Done(req)'
      <4>1. K = 0 .. req.count - 1 /\ req \in D!Request
        BY <1>1, <2>1, <2>3, WorksOnRequest DEF hba_finish
      <4>2. disk' = D!DiskAfter(req, K) /\ mem' = D!MemAfter(req, K)
        BY <2>1 DEF hba_finish
      <4>3. QED
        BY <1>1, <4>1, <4>2, WholeTransfer DEF D!Done
    <3>2. QED
      BY <1>1, <2>1, <2>3, <3>1 DEF OneAtATime, SlotsOwned
  <2>4. QED
    BY <2>2, <2>3
<1>6. QED
  BY <1>2, <1>3, <1>4, <1>5

(* Each action keeps the invariant.                                        *)
LEMMA InvStep == Inv /\ [Next]_vars => Inv'
<1> SUFFICES ASSUME Inv, [Next]_vars PROVE Inv'
  OBVIOUS
<1> USE DEF Inv
<1>1. CASE UNCHANGED <<local, table, port, data>>
  <2>1. Types'
    BY <1>1 DEF local, port, Types, TypeOK
  <2>2. SlotsPrivate' /\ SlotsOwned'
    BY <1>1 DEF local, port, SlotsPrivate, SlotsOwned
  <2>3. OneAtATime'
    BY <1>1 DEF local, port, data, OneAtATime, D!Done
  <2>4. QED
    BY <2>1, <2>2, <2>3
<1>2. ASSUME NEW controller \in BOOLEAN, NEW kind \in [Port -> PortKind],
             NEW frames \in 0 .. 3, ahci_init(controller, kind, frames)
      PROVE  Inv'
  BY <1>1, <1>2 DEF ahci_init
<1>3. ASSUME NEW r \in D!Request, ahci_request(r) PROVE Inv'
  BY <1>3, RequestStep
<1>4. CASE Driver
  BY <1>4, DriverStep
<1>5. ASSUME NEW b \in Buffer, NEW k \in D!Place, NEW v \in Value, caller_fills(b, k, v)
      PROVE  Inv'
  <2>1. pc = "idle" /\ UNCHANGED <<local, table, port>>
    BY <1>5 DEF caller_fills
  <2>2. Types'
    BY <2>1 DEF local, port, Types, TypeOK
  <2>3. SlotsPrivate' /\ SlotsOwned'
    BY <2>1 DEF local, port, SlotsPrivate, SlotsOwned
  <2>4. OneAtATime'
    BY <2>1 DEF local, port, OneAtATime
  <2>5. QED
    BY <2>2, <2>3, <2>4
<1>6. ASSUME NEW s \in Slot, hba_start(s) PROVE Inv'
  BY <1>6, StartStep
<1>7. ASSUME NEW K \in SUBSET D!Place, NEW fails \in BOOLEAN, hba_finish(K, fails)
      PROVE  Inv'
  BY <1>7, FinishStep
<1>8. CASE drive_ready
  <2>1. UNCHANGED <<local, table, ci, tfes, running, stopped, data>>
    BY <1>8 DEF drive_ready
  <2>2. Types'
    BY <2>1 DEF local, Types, TypeOK
  <2>3. SlotsPrivate' /\ SlotsOwned'
    BY <2>1 DEF local, SlotsPrivate, SlotsOwned
  <2>4. OneAtATime'
    BY <2>1 DEF local, data, OneAtATime, D!Done
  <2>5. QED
    BY <2>2, <2>3, <2>4
<1>9. CASE UNCHANGED vars
  BY <1>1, <1>9 DEF vars
<1>10. QED
  BY <1>2, <1>3, <1>4, <1>5, <1>6, <1>7, <1>8, <1>9 DEF Next

-----------------------------------------------------------------------------
(* Theorems                                                                *)

(* The invariant holds in every reachable state, however long the          *)
(* controller takes and whichever request fails.                           *)
THEOREM Invariance == Spec => []Inv
<1>1. Init => Inv
  BY InitInv
<1>2. Inv /\ [Next]_vars => Inv'
  BY InvStep
<1>3. QED
  BY <1>1, <1>2, PTL DEF Spec

(* The counters of the two polling loops end at -1 at worst, and a command *)
(* is only ever put into one of the slots there are: the type invariant.   *)
THEOREM TypeCorrect == Spec => []TypeOK
<1>1. Inv => TypeOK
  BY DEF Inv, Types
<1>2. QED
  BY <1>1, Invariance, PTL

(* port_read and port_write never put a command into a slot the controller *)
(* still owns, nor rewrite the table of the command it executes, however   *)
(* many earlier requests timed out or failed.                              *)
THEOREM SlotsStayPrivate == Spec => []SlotsPrivate
<1>1. Inv => SlotsPrivate
  BY DEF Inv
<1>2. QED
  BY <1>1, Invariance, PTL

-----------------------------------------------------------------------------
(* The refinement.  D!vars are Disk's variables under the mapping.         *)

(* The driver starts as Disk does.                                         *)
LEMMA InitRefines == Init => D!Init
BY DEF Init, D!Init

(* Every step of the driver, the controller or the drive is one of Disk,   *)
(* or leaves what Disk sees alone.                                         *)
LEMMA StepRefines == Inv /\ [Next]_vars => [D!Next]_D!vars
<1> SUFFICES ASSUME Inv, [Next]_vars PROVE [D!Next]_D!vars
  OBVIOUS
<1> USE DEF D!vars
<1>1. ASSUME NEW r \in D!Request, ahci_request(r) PROVE [D!Next]_D!vars
  <2>1. CASE Fails
    BY <1>1, <2>1 DEF ahci_request, Fails, data, D!Next, D!Return
  <2>2. CASE ~Fails
    <3>1. D!Submit(r)
      BY <1>1, <2>2 DEF ahci_request, data, D!Submit, Inv, Types, TypeOK
    <3>2. QED
      BY <3>1 DEF D!Next
  <2>3. QED
    BY <2>1, <2>2
<1>2. CASE wait_ready
  BY <1>2 DEF wait_ready, Fails, data, D!Next, D!Return
<1>3. CASE issue
  BY <1>3 DEF issue, data
<1>4. CASE poll
  <2>1. req # Idle /\ UNCHANGED <<disk, mem>>
    BY <1>4 DEF poll, data, Inv, Types, TypeOK
  <2>2. CASE expired' = TRUE /\ UNCHANGED <<req, ret>>
    BY <2>1, <2>2 DEF D!Next, D!Expire
  <2>3. CASE Fails /\ UNCHANGED expired
    BY <2>1, <2>3 DEF Fails, D!Next, D!Return
  <2>4. CASE UNCHANGED <<req, ret, expired>>
    BY <2>1, <2>4
  <2>5. QED
    BY <1>4, <2>2, <2>3, <2>4 DEF poll
<1>5. CASE check_result
  <2>1. /\ pc = "check" /\ req # Idle
        /\ req' = Idle /\ ret' = Result
        /\ UNCHANGED <<expired, disk, mem>>
    BY <1>5 DEF check_result, data, Inv, Types, TypeOK
  <2>2. CASE expired
    BY <2>1, <2>2 DEF D!Next
  <2>3. CASE ~expired
    <3>1. D!Done(req)
      BY <2>1, <2>3 DEF Inv, OneAtATime
    <3>2. D!Return(Result) /\ Result \in {0, -1}
      BY <2>1, <3>1 DEF D!Return, Result
    <3>3. QED
      BY <3>2 DEF D!Next
  <2>4. QED
    BY <2>2, <2>3 DEF Inv, Types
<1>6. ASSUME NEW b \in Buffer, NEW k \in D!Place, NEW v \in Value, caller_fills(b, k, v)
      PROVE  [D!Next]_D!vars
  <2>1. D!Fill(b, k, v)
    BY <1>6 DEF caller_fills, local, D!Fill, Inv, Types, TypeOK
  <2>2. QED
    BY <2>1 DEF D!Next
<1>7. ASSUME NEW K \in SUBSET D!Place, NEW fails \in BOOLEAN, hba_finish(K, fails)
      PROVE  [D!Next]_D!vars
  <2>1. /\ running # Idle
        /\ K \subseteq 0 .. running.cmd.count - 1
        /\ disk' = D!DiskAfter(running.cmd, K)
        /\ mem' = D!MemAfter(running.cmd, K)
        /\ UNCHANGED <<req, ret, expired>>
    BY <1>7 DEF hba_finish, local
  <2>2. CASE expired
    BY <2>1, <2>2 DEF D!Next
  <2>3. CASE ~expired
    <3>1. running.cmd = req /\ req # Idle
      BY <2>1, <2>3, WorksOnRequest, IdleIsNothing
    <3>2. D!Transfer(K)
      BY <2>1, <3>1 DEF D!Transfer
    <3>3. QED
      BY <3>2 DEF D!Next
  <2>4. QED
    BY <2>2, <2>3 DEF Inv, Types
<1>8. ASSUME NEW s \in Slot, hba_start(s) PROVE [D!Next]_D!vars
  BY <1>8 DEF hba_start, local, data
<1>9. ASSUME NEW controller \in BOOLEAN, NEW kind \in [Port -> PortKind],
             NEW frames \in 0 .. 3, ahci_init(controller, kind, frames)
      PROVE  [D!Next]_D!vars
  BY <1>9 DEF ahci_init, local, data
<1>10. CASE drive_ready
  BY <1>10 DEF drive_ready, local, data
<1>11. CASE UNCHANGED vars
  BY <1>11 DEF vars, local, data
<1>12. QED
  BY <1>1, <1>2, <1>3, <1>4, <1>5, <1>6, <1>7, <1>8, <1>9, <1>10, <1>11 DEF Next, Driver

(* port_read and port_write are a synchronous disk as long as no request   *)
(* outlives its polls: 0 is returned only for data that has moved, and     *)
(* nothing moves outside a request.                                        *)
THEOREM DriverIsSynchronousDisk == Spec => SynchronousDisk
<1>1. Init => D!Init
  BY InitRefines
<1>2. Inv /\ [Next]_vars => [D!Next]_D!vars
  BY StepRefines
<1>3. Spec => D!Spec
  BY <1>1, <1>2, Invariance, PTL DEF Spec, D!Spec
<1>4. QED
  BY <1>3 DEF SynchronousDisk
=============================================================================
