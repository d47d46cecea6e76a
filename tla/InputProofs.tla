---------------------------- MODULE InputProofs -----------------------------
(* Theorems about what reaches the reader of the keyboard: the ring of     *)
(* drivers/ps2.c, and the xHCI controller of drivers/usb/xhci.c with its   *)
(* event ring and the reports of its keyboards, for rings of every size,   *)
(* every set of keys and every number of ports.                            *)
EXTENDS Keyboard, Xhci, SequenceTheorems, FiniteSetTheorems, TLAPS

-----------------------------------------------------------------------------
(* The keyboard's ring                                                     *)

RingSlot == 0 .. RING - 1
Val      == Char \cup {None}

(* How far b is ahead of a, and the slot of the i-th character after a.    *)
Gap(a, b)  == (b - a + RING) % RING
Spot(a, i) == (a + i - 1) % RING

(* The characters that have left the ring, then those that are in it.      *)
Line == consumed \o Unread

RingShapes ==
  /\ in_syscall \in BOOLEAN
  /\ in_head \in RingSlot /\ in_tail \in RingSlot /\ next \in RingSlot
  /\ in_buf \in [RingSlot -> Val]
  /\ keys \subseteq Modifier \cup Lock \cup {"extended"}
  /\ g_mode \in {"shell", "graphics"} /\ back \in {"usb", "polled"}
  /\ data \in Scancode /\ sc \in Scancode /\ usb \in Reports \cup {None}
  /\ todo \in Seq(Char) /\ accepted \in Seq(Char) /\ consumed \in Seq(Val)

(* The reader is about to add a character and found room, and no interrupt *)
(* has added one since.                                                    *)
BeingAdded == /\ Adding /\ next # in_tail
           /\ Gap(in_tail, next) = Gap(in_tail, in_head) + 1

ReaderPlace ==
  /\ reader = "take" => in_head # in_tail
  /\ Adding => todo # <<>>
  /\ reader = "head" => next # in_tail
  /\ reader = "head" /\ BeingAdded => in_buf[in_head] = Head(todo)
  /\ Adding /\ next # in_tail => Gap(in_tail, next) <= Gap(in_tail, in_head) + 1

(* The character that is being added comes after all that are in the ring; *)
(* one that an interrupt overtook is already counted among those accepted. *)
InOrder ==
  /\ SubsequenceOf(Line, accepted)
  /\ BeingAdded => SubsequenceOf(Append(Line, Head(todo)), accepted)

(* In a system call no interrupt comes in between.                         *)
NoneLost ==
  in_syscall =>
    /\ ~BeingAdded => Line = accepted
    /\ BeingAdded => Append(Line, Head(todo)) = accepted
    /\ Adding /\ next # in_tail => BeingAdded

KbdInv == RingShapes /\ ReaderPlace /\ InOrder /\ NoneLost

LEMMA RemainderIs ==
  ASSUME NEW x \in Nat, x < RING + RING
  PROVE  x % RING = IF x < RING THEN x ELSE x - RING
<1>1. RING \in Nat /\ RING > 1
  BY KeyboardConstants
<1>2. CASE x < RING
  BY <1>1, <1>2
<1>3. CASE x >= RING
  BY <1>1, <1>3
<1> QED  BY <1>1, <1>2, <1>3

(* One slot on.                                                            *)
LEMMA SuccIs ==
  ASSUME NEW a \in RingSlot
  PROVE  /\ Succ(a) \in RingSlot
         /\ Succ(a) = IF a = RING - 1 THEN 0 ELSE a + 1
<1>1. RING \in Nat /\ RING > 1 /\ a + 1 \in Nat /\ a + 1 < RING + RING
  BY KeyboardConstants DEF RingSlot
<1>2. Succ(a) = IF a + 1 < RING THEN a + 1 ELSE (a + 1) - RING
  BY <1>1, RemainderIs DEF Succ
<1> QED  BY <1>1, <1>2 DEF RingSlot

LEMMA GapIs ==
  ASSUME NEW a \in RingSlot, NEW b \in RingSlot
  PROVE  /\ Gap(a, b) \in 0 .. RING - 1
         /\ Gap(a, b) = IF a <= b THEN b - a ELSE (b - a) + RING
<1>1. RING \in Nat /\ RING > 1 /\ a \in Int /\ b \in Int
  BY KeyboardConstants DEF RingSlot
<1> DEFINE x == (b - a) + RING
<1>2. x \in Nat /\ x < RING + RING
  BY <1>1 DEF RingSlot
<1>3. Gap(a, b) = x % RING
  BY <1>1 DEF Gap
<1> HIDE DEF x
<1>4. Gap(a, b) = IF x < RING THEN x ELSE x - RING
  BY <1>2, <1>3, RemainderIs
<1> QED  BY <1>1, <1>4 DEF x, RingSlot

LEMMA SpotIs ==
  ASSUME NEW a \in RingSlot, NEW i \in 1 .. RING
  PROVE  /\ Spot(a, i) \in RingSlot
         /\ Spot(a, i) = IF a + i <= RING THEN (a + i) - 1 ELSE (a + i) - (RING + 1)
<1>1. RING \in Nat /\ RING > 1 /\ a \in Int /\ i \in Int
  BY KeyboardConstants DEF RingSlot
<1> DEFINE x == (a + i) - 1
<1>2. x \in Nat /\ x < RING + RING
  BY <1>1 DEF RingSlot
<1>3. Spot(a, i) = x % RING
  BY <1>1 DEF Spot
<1> HIDE DEF x
<1>4. Spot(a, i) = IF x < RING THEN x ELSE x - RING
  BY <1>2, <1>3, RemainderIs
<1> QED  BY <1>1, <1>4 DEF x, RingSlot

(* The head moves away from the tail until the ring is full.               *)
LEMMA GapGrows ==
  ASSUME NEW a \in RingSlot, NEW b \in RingSlot, Succ(b) # a
  PROVE  Gap(a, Succ(b)) = Gap(a, b) + 1
<1>1. RING \in Nat /\ RING > 1
  BY KeyboardConstants
<1>2. PICK c : c = Succ(b)
  OBVIOUS
<1>3. c \in RingSlot /\ c # a /\ c = IF b = RING - 1 THEN 0 ELSE b + 1
  BY <1>2, SuccIs
<1>4. Gap(a, b) = IF a <= b THEN b - a ELSE (b - a) + RING
  BY GapIs
<1>5. Gap(a, c) = IF a <= c THEN c - a ELSE (c - a) + RING
  BY <1>3, GapIs
<1>6. Gap(a, c) = Gap(a, b) + 1
  BY <1>1, <1>3, <1>4, <1>5 DEF RingSlot
<1> QED  BY <1>2, <1>6

(* The slots from the tail on, as many as there are characters.            *)
LEMMA SpotsAre ==
  ASSUME NEW a \in RingSlot, NEW b \in RingSlot
  PROVE  /\ \A i \in 1 .. Gap(a, b) : Spot(a, i) \in RingSlot /\ Spot(a, i) # b
         /\ Spot(a, Gap(a, b) + 1) = b
<1>1. RING \in Nat /\ RING > 1 /\ Gap(a, b) \in 0 .. RING - 1
      /\ Gap(a, b) = IF a <= b THEN b - a ELSE (b - a) + RING
  BY KeyboardConstants, GapIs
<1>2. ASSUME NEW i \in 1 .. Gap(a, b)
      PROVE  Spot(a, i) \in RingSlot /\ Spot(a, i) # b
  <2>1. i \in 1 .. RING
    BY <1>1
  <2>2. Spot(a, i) \in RingSlot
        /\ Spot(a, i) = IF a + i <= RING THEN (a + i) - 1 ELSE (a + i) - (RING + 1)
    BY <2>1, SpotIs
  <2> QED  BY <1>1, <2>2 DEF RingSlot
<1>3. Spot(a, Gap(a, b) + 1) = b
  <2> DEFINE k == Gap(a, b) + 1
  <2>1. k \in 1 .. RING
    BY <1>1
  <2> HIDE DEF k
  <2>2. Spot(a, k) = IF a + k <= RING THEN (a + k) - 1 ELSE (a + k) - (RING + 1)
    BY <2>1, SpotIs
  <2>3. Spot(a, k) = b
    BY <1>1, <2>1, <2>2 DEF RingSlot, k
  <2> QED  BY <2>3 DEF k
<1> QED  BY <1>2, <1>3

LEMMA TailMoves ==
  ASSUME NEW a \in RingSlot, NEW b \in RingSlot, a # b
  PROVE  /\ Gap(a, b) = Gap(Succ(a), b) + 1
         /\ Spot(a, 1) = a
         /\ \A i \in 1 .. Gap(Succ(a), b) : Spot(Succ(a), i) = Spot(a, i + 1)
<1>1. RING \in Nat /\ RING > 1 /\ a \in Int /\ b \in Int
  BY KeyboardConstants DEF RingSlot
<1>2. PICK c : c = Succ(a)
  OBVIOUS
<1>3. c \in RingSlot /\ c = IF a = RING - 1 THEN 0 ELSE a + 1
  BY <1>2, SuccIs
<1>4. Gap(a, b) = Gap(c, b) + 1 /\ Gap(c, b) \in 0 .. RING - 1 /\ Gap(a, b) \in 0 .. RING - 1
  <2>1. Gap(a, b) = IF a <= b THEN b - a ELSE (b - a) + RING
    BY GapIs
  <2>2. Gap(c, b) = IF c <= b THEN b - c ELSE (b - c) + RING
    BY <1>3, GapIs
  <2>3. Gap(c, b) \in 0 .. RING - 1 /\ Gap(a, b) \in 0 .. RING - 1
    BY <1>3, GapIs
  <2> QED  BY <1>1, <1>3, <2>1, <2>2, <2>3 DEF RingSlot
<1>5. Spot(a, 1) = a
  <2>1. Spot(a, 1) = IF a + 1 <= RING THEN (a + 1) - 1 ELSE (a + 1) - (RING + 1)
    BY <1>1, SpotIs
  <2> QED  BY <1>1, <2>1 DEF RingSlot
<1>6. ASSUME NEW i \in 1 .. Gap(c, b) PROVE Spot(c, i) = Spot(a, i + 1)
  <2>1. i \in 1 .. RING /\ i + 1 \in 1 .. RING
    BY <1>1, <1>4
  <2>2. Spot(c, i) = IF c + i <= RING THEN (c + i) - 1 ELSE (c + i) - (RING + 1)
    BY <1>3, <2>1, SpotIs
  <2>3. PICK j \in 1 .. RING : j = i + 1
    BY <2>1
  <2>4. Spot(a, j) = IF a + j <= RING THEN (a + j) - 1 ELSE (a + j) - (RING + 1)
    BY SpotIs
  <2>5. Spot(c, i) = Spot(a, j)
    BY <1>1, <1>3, <2>1, <2>2, <2>3, <2>4 DEF RingSlot
  <2> QED  BY <2>3, <2>5
<1> QED  BY <1>2, <1>4, <1>5, <1>6

-----------------------------------------------------------------------------
(* Subsequences                                                            *)

LEMMA SubsequenceAppends ==
  ASSUME NEW S, NEW s \in Seq(S), NEW t \in Seq(S), NEW x \in S, SubsequenceOf(s, t)
  PROVE  SubsequenceOf(Append(s, x), Append(t, x))
<1> DEFINE m == Len(s)
           n == Len(t)
           sx == Append(s, x)
           tx == Append(t, x)
<1>1. /\ m \in Nat /\ n \in Nat
      /\ DOMAIN s = 1 .. m /\ DOMAIN t = 1 .. n
      /\ DOMAIN sx = 1 .. m + 1 /\ DOMAIN tx = 1 .. n + 1
      /\ sx[m + 1] = x /\ tx[n + 1] = x
      /\ \A i \in 1 .. m : sx[i] = s[i]
      /\ \A i \in 1 .. n : tx[i] = t[i]
  OBVIOUS
<1>2. PICK at \in [DOMAIN s -> DOMAIN t] :
        /\ \A i, j \in DOMAIN s : i < j => at[i] < at[j]
        /\ \A i \in DOMAIN s : s[i] = t[at[i]]
  BY DEF SubsequenceOf
<1> HIDE DEF m, n, sx, tx
<1>3. /\ at \in [1 .. m -> 1 .. n]
      /\ \A i, j \in 1 .. m : i < j => at[i] < at[j]
      /\ \A i \in 1 .. m : s[i] = t[at[i]]
  BY <1>1, <1>2
<1> DEFINE to == [i \in 1 .. m + 1 |-> IF i = m + 1 THEN n + 1 ELSE at[i]]
<1>4. to[m + 1] = n + 1 /\ \A i \in 1 .. m : to[i] = at[i] /\ to[i] \in 1 .. n
  BY <1>1, <1>3
<1>5. to \in [1 .. m + 1 -> 1 .. n + 1]
  BY <1>1, <1>3
<1>6. \A i \in 1 .. m + 1 : i = m + 1 \/ i \in 1 .. m
  BY <1>1
<1> HIDE DEF to
<1>7. ASSUME NEW i \in 1 .. m + 1, NEW j \in 1 .. m + 1, i < j PROVE to[i] < to[j]
  <2>1. i \in 1 .. m
    BY <1>1, <1>7
  <2>2. CASE j = m + 1
    BY <1>1, <1>4, <2>1, <2>2
  <2>3. CASE j \in 1 .. m
    BY <1>3, <1>4, <1>7, <2>1, <2>3
  <2> QED  BY <1>6, <2>2, <2>3
<1>8. ASSUME NEW i \in 1 .. m + 1 PROVE sx[i] = tx[to[i]]
  <2>1. CASE i = m + 1
    BY <1>1, <1>4, <2>1
  <2>2. CASE i \in 1 .. m
    <3>1. to[i] = at[i] /\ at[i] \in 1 .. n /\ s[i] = t[at[i]]
      BY <1>3, <1>4, <2>2
    <3>2. sx[i] = s[i] /\ tx[at[i]] = t[at[i]]
      BY <1>1, <2>2, <3>1
    <3> QED  BY <3>1, <3>2
  <2> QED  BY <1>6, <2>1, <2>2
<1>9. SubsequenceOf(sx, tx)
  BY <1>1, <1>5, <1>7, <1>8 DEF SubsequenceOf
<1> QED  BY <1>9 DEF sx, tx

LEMMA SubsequenceSkips ==
  ASSUME NEW S, NEW s \in Seq(S), NEW t \in Seq(S), NEW x \in S, SubsequenceOf(s, t)
  PROVE  SubsequenceOf(s, Append(t, x))
<1> DEFINE n == Len(t)
           tx == Append(t, x)
<1>1. /\ n \in Nat /\ DOMAIN t = 1 .. n /\ DOMAIN tx = 1 .. n + 1
      /\ \A i \in 1 .. n : tx[i] = t[i]
  OBVIOUS
<1>2. PICK at \in [DOMAIN s -> DOMAIN t] :
        /\ \A i, j \in DOMAIN s : i < j => at[i] < at[j]
        /\ \A i \in DOMAIN s : s[i] = t[at[i]]
  BY DEF SubsequenceOf
<1> HIDE DEF n, tx
<1>3. at \in [DOMAIN s -> DOMAIN tx]
  BY <1>1, <1>2
<1>4. \A i \in DOMAIN s : s[i] = tx[at[i]]
  BY <1>1, <1>2
<1>5. SubsequenceOf(s, tx)
  BY <1>2, <1>3, <1>4 DEF SubsequenceOf
<1> QED  BY <1>5 DEF tx

(* A part of the beginning.                                                *)
Begins(r, s) == Len(r) <= Len(s) /\ \A i \in 1 .. Len(r) : r[i] = s[i]

LEMMA SubsequenceBegins ==
  ASSUME NEW S, NEW r \in Seq(S), NEW s \in Seq(S), NEW t \in Seq(S),
         Begins(r, s), SubsequenceOf(s, t)
  PROVE  SubsequenceOf(r, t)
<1> DEFINE k == Len(r)
           m == Len(s)
<1>1. /\ k \in Nat /\ m \in Nat /\ DOMAIN r = 1 .. k /\ DOMAIN s = 1 .. m
      /\ k <= m /\ \A i \in 1 .. k : r[i] = s[i]
  BY DEF Begins
<1>2. PICK at \in [DOMAIN s -> DOMAIN t] :
        /\ \A i, j \in DOMAIN s : i < j => at[i] < at[j]
        /\ \A i \in DOMAIN s : s[i] = t[at[i]]
  BY DEF SubsequenceOf
<1> HIDE DEF k, m
<1>3. \A i \in 1 .. k : i \in 1 .. m
  BY <1>1
<1> DEFINE to == [i \in 1 .. k |-> at[i]]
<1>4. to \in [DOMAIN r -> DOMAIN t] /\ \A i \in DOMAIN r : to[i] = at[i] /\ i \in DOMAIN s
  BY <1>1, <1>2, <1>3
<1> HIDE DEF to
<1>5. \A i, j \in DOMAIN r : i < j => to[i] < to[j]
  BY <1>2, <1>4
<1>6. \A i \in DOMAIN r : r[i] = t[to[i]]
  BY <1>1, <1>2, <1>3, <1>4
<1> QED  BY <1>4, <1>5, <1>6 DEF SubsequenceOf

-----------------------------------------------------------------------------
(* The line of characters                                                  *)

LineIs ==
  /\ Len(consumed) \in Nat /\ Gap(in_tail, in_head) \in 0 .. RING - 1
  /\ Line \in Seq(Val)
  /\ Len(Line) = Len(consumed) + Gap(in_tail, in_head)
  /\ \A i \in 1 .. Len(consumed) : Line[i] = consumed[i]
  /\ \A i \in 1 .. Gap(in_tail, in_head) : Line[Len(consumed) + i] = in_buf[Spot(in_tail, i)]

LEMMA LineAre == RingShapes => LineIs
<1> SUFFICES ASSUME RingShapes PROVE LineIs
  OBVIOUS
<1> DEFINE k == Gap(in_tail, in_head)
           rest == [i \in 1 .. k |-> in_buf[Spot(in_tail, i)]]
<1>1. in_tail \in RingSlot /\ in_head \in RingSlot /\ in_buf \in [RingSlot -> Val]
      /\ consumed \in Seq(Val)
  BY DEF RingShapes
<1>2. k \in 0 .. RING - 1 /\ k \in Nat /\ Len(consumed) \in Nat
  BY <1>1, GapIs, KeyboardConstants
<1>3. \A i \in 1 .. k : Spot(in_tail, i) \in RingSlot
  BY <1>1, SpotsAre
<1>4. Unread = rest
  BY DEF Unread, Gap, Spot
<1> HIDE DEF k
<1>5. rest \in Seq(Val) /\ Len(rest) = k /\ \A i \in 1 .. k : rest[i] = in_buf[Spot(in_tail, i)]
  BY <1>1, <1>2, <1>3
<1>6. PICK s, u : s = consumed /\ u = rest
  OBVIOUS
<1> HIDE DEF rest
<1>7. s \in Seq(Val) /\ u \in Seq(Val) /\ Line = s \o u
  BY <1>1, <1>4, <1>5, <1>6 DEF Line
<1>8. /\ s \o u \in Seq(Val) /\ Len(s \o u) = Len(s) + Len(u)
      /\ \A i \in 1 .. Len(s) + Len(u) : (s \o u)[i] = IF i <= Len(s) THEN s[i] ELSE u[i - Len(s)]
  BY <1>7, ConcatProperties
<1>9. Len(s) = Len(consumed) /\ Len(u) = k
  BY <1>5, <1>6
<1>10. Line \in Seq(Val) /\ Len(Line) = Len(consumed) + k
  BY <1>7, <1>8, <1>9
<1>11. ASSUME NEW i \in 1 .. Len(consumed) PROVE Line[i] = consumed[i]
  <2>1. i \in 1 .. Len(s) + Len(u) /\ i <= Len(s)
    BY <1>2, <1>9
  <2> QED  BY <1>6, <1>7, <1>8, <2>1
<1>12. ASSUME NEW i \in 1 .. k PROVE Line[Len(consumed) + i] = in_buf[Spot(in_tail, i)]
  <2>1. /\ Len(s) + i \in 1 .. Len(s) + Len(u) /\ ~ (Len(s) + i <= Len(s))
        /\ (Len(s) + i) - Len(s) = i
    BY <1>2, <1>9
  <2>2. Line[Len(s) + i] = u[i]
    BY <1>7, <1>8, <2>1
  <2> QED  BY <1>5, <1>6, <1>9, <2>2
<1> QED  BY <1>2, <1>10, <1>11, <1>12 DEF LineIs, k

(* Lines of one length that agree everywhere are the same.                 *)
LEMMA SameSequence ==
  ASSUME NEW S, NEW s \in Seq(S), NEW t \in Seq(S), Len(s) = Len(t),
         \A i \in 1 .. Len(s) : s[i] = t[i]
  PROVE  s = t
OBVIOUS

(* Each place of the line is in one part or the other.                     *)
LEMMA LinePlace ==
  ASSUME NEW a \in Nat, NEW k \in Nat, NEW i \in 1 .. a + k
  PROVE  i \in 1 .. a \/ \E j \in 1 .. k : i = a + j
<1>1. CASE i <= a
  BY <1>1
<1>2. CASE i > a
  <2>1. i - a \in 1 .. k /\ i = a + (i - a)
    BY <1>2
  <2> QED  BY <2>1
<1> QED  BY <1>1, <1>2

(* What is stored where the head is cannot be read yet, and a head that    *)
(* goes back or stays only shortens the line.                              *)
LEMMA LineCut ==
  ASSUME RingShapes, RingShapes', in_tail' = in_tail, consumed' = consumed,
         \A i \in RingSlot : i # in_head => in_buf'[i] = in_buf[i],
         Gap(in_tail, in_head') <= Gap(in_tail, in_head)
  PROVE  Begins(Line', Line)
<1>1. LineIs /\ LineIs'
  <2>1. RingShapes' => LineIs'
    BY LineAre, PTL
  <2> QED  BY <2>1, LineAre
<1> DEFINE a == Len(consumed)
           k == Gap(in_tail, in_head)
           h == Gap(in_tail, in_head')
<1>2. a \in Nat /\ k \in Nat /\ h \in Nat /\ h <= k
  BY <1>1, KeyboardConstants DEF LineIs, Gap
<1>3. /\ Len(Line) = a + k
      /\ \A i \in 1 .. a : Line[i] = consumed[i]
      /\ \A i \in 1 .. k : Line[a + i] = in_buf[Spot(in_tail, i)]
  BY <1>1 DEF LineIs
<1>4. /\ Len(Line') = a + h
      /\ \A i \in 1 .. a : Line'[i] = consumed[i]
      /\ \A i \in 1 .. h : Line'[a + i] = in_buf'[Spot(in_tail, i)]
  BY <1>1 DEF LineIs, Gap, Spot
<1>5. \A i \in 1 .. k : Spot(in_tail, i) \in RingSlot /\ Spot(in_tail, i) # in_head
  BY SpotsAre DEF RingShapes
<1> HIDE DEF a, k, h
<1>6. ASSUME NEW i \in 1 .. a + h PROVE Line'[i] = Line[i]
  <2>1. CASE i \in 1 .. a
    BY <1>3, <1>4, <2>1
  <2>2. ASSUME NEW j \in 1 .. h, i = a + j PROVE Line'[i] = Line[i]
    <3>1. j \in 1 .. k
      BY <1>2
    <3> QED  BY <1>3, <1>4, <1>5, <2>2, <3>1
  <2> QED  BY <1>2, <2>1, <2>2, LinePlace
<1> QED  BY <1>2, <1>3, <1>4, <1>6 DEF Begins

LEMMA LineStays ==
  ASSUME RingShapes, RingShapes', in_tail' = in_tail, consumed' = consumed,
         \A i \in RingSlot : i # in_head => in_buf'[i] = in_buf[i],
         in_head' = in_head
  PROVE  Line' = Line
<1>1. LineIs /\ LineIs'
  <2>1. RingShapes' => LineIs'
    BY LineAre, PTL
  <2> QED  BY <2>1, LineAre
<1>2. Gap(in_tail, in_head') = Gap(in_tail, in_head) /\ Gap(in_tail', in_head') = Gap(in_tail, in_head)
      /\ Gap(in_tail, in_head) \in Nat
  BY <1>1 DEF LineIs
<1>3. Begins(Line', Line)
  BY <1>2, LineCut
<1>4. Len(Line') = Len(Line) /\ Line \in Seq(Val) /\ Line' \in Seq(Val)
  BY <1>1, <1>2 DEF LineIs, Gap
<1> QED  BY <1>3, <1>4, SameSequence DEF Begins

(* A character added at the head comes last.                               *)
LEMMA LineGrows ==
  ASSUME RingShapes, RingShapes', in_tail' = in_tail, consumed' = consumed,
         \A i \in RingSlot : i # in_head => in_buf'[i] = in_buf[i],
         Succ(in_head) # in_tail, in_head' = Succ(in_head)
  PROVE  Line' = Append(Line, in_buf'[in_head])
<1>1. LineIs /\ LineIs'
  <2>1. RingShapes' => LineIs'
    BY LineAre, PTL
  <2> QED  BY <2>1, LineAre
<1> DEFINE a == Len(consumed)
           k == Gap(in_tail, in_head)
           c == in_buf'[in_head]
<1>0. /\ in_tail \in RingSlot /\ in_head \in RingSlot /\ in_buf' \in [RingSlot -> Val]
  BY DEF RingShapes
<1>2. a \in Nat /\ k \in Nat /\ c \in Val
  BY <1>0, <1>1, KeyboardConstants DEF LineIs
<1>9. Gap(in_tail', in_head') = k + 1
  BY <1>0, GapGrows
<1>3. /\ Line \in Seq(Val) /\ Len(Line) = a + k
      /\ \A i \in 1 .. a : Line[i] = consumed[i]
      /\ \A i \in 1 .. k : Line[a + i] = in_buf[Spot(in_tail, i)]
  BY <1>1 DEF LineIs
<1>4. /\ Line' \in Seq(Val) /\ Len(Line') = a + (k + 1)
      /\ \A i \in 1 .. a : Line'[i] = consumed[i]
      /\ \A i \in 1 .. k + 1 : Line'[a + i] = in_buf'[Spot(in_tail, i)]
  <2>1. /\ Line' \in Seq(Val) /\ Len(Line') = Len(consumed') + Gap(in_tail', in_head')
        /\ \A i \in 1 .. Len(consumed') : Line'[i] = consumed'[i]
        /\ \A i \in 1 .. Gap(in_tail', in_head') :
             Line'[Len(consumed') + i] = in_buf'[Spot(in_tail', i)]
    BY <1>1 DEF LineIs, Gap, Spot
  <2> HIDE DEF k
  <2> QED  BY <1>9, <2>1
<1>5. /\ \A i \in 1 .. k : Spot(in_tail, i) \in RingSlot /\ Spot(in_tail, i) # in_head
      /\ Spot(in_tail, k + 1) = in_head
  BY <1>0, SpotsAre
<1> HIDE DEF a, k, c
<1> DEFINE longer == Append(Line, c)
<1>6. /\ longer \in Seq(Val) /\ Len(longer) = (a + k) + 1
      /\ longer[(a + k) + 1] = c /\ \A i \in 1 .. a + k : longer[i] = Line[i]
  BY <1>2, <1>3
<1> HIDE DEF longer
<1>7. ASSUME NEW i \in 1 .. a + (k + 1) PROVE Line'[i] = longer[i]
  <2>1. CASE i \in 1 .. a
    <3>1. i \in 1 .. a + k
      BY <1>2, <2>1
    <3> QED  BY <1>3, <1>4, <1>6, <2>1, <3>1
  <2>2. ASSUME NEW j \in 1 .. k, i = a + j PROVE Line'[i] = longer[i]
    <3>1. i \in 1 .. a + k /\ j \in 1 .. k + 1
      BY <1>2, <2>2
    <3>2. longer[i] = in_buf[Spot(in_tail, j)]
      BY <1>3, <1>6, <2>2, <3>1
    <3>3. Line'[i] = in_buf'[Spot(in_tail, j)]
      BY <1>4, <2>2, <3>1
    <3> QED  BY <1>5, <3>2, <3>3
  <2>3. CASE i = a + (k + 1)
    <3>1. k + 1 \in 1 .. k + 1 /\ i = (a + k) + 1
      BY <1>2, <2>3
    <3>2. Line'[i] = in_buf'[in_head]
      BY <1>4, <1>5, <2>3, <3>1
    <3> QED  BY <1>6, <3>1, <3>2 DEF c
  <2>4. i \in 1 .. a \/ (\E j \in 1 .. k : i = a + j) \/ i = a + (k + 1)
    <3>1. i \in 1 .. a + k \/ i = a + (k + 1)
      BY <1>2
    <3> QED  BY <1>2, <3>1, LinePlace
  <2> QED  BY <2>1, <2>2, <2>3, <2>4
<1>8. Line' = longer
  BY <1>2, <1>4, <1>6, <1>7, SameSequence
<1> QED  BY <1>8 DEF longer, c

(* Taking a character moves it from the one part to the other.             *)
LEMMA LineTaken ==
  ASSUME RingShapes, RingShapes', in_head' = in_head, in_buf' = in_buf, in_head # in_tail,
         consumed' = Append(consumed, in_buf[in_tail]), in_tail' = Succ(in_tail)
  PROVE  Line' = Line
<1>1. LineIs /\ LineIs'
  <2>1. RingShapes' => LineIs'
    BY LineAre, PTL
  <2> QED  BY <2>1, LineAre
<1> DEFINE a == Len(consumed)
           k == Gap(Succ(in_tail), in_head)
           c == in_buf[in_tail]
<1>0. /\ in_tail \in RingSlot /\ in_head \in RingSlot /\ consumed \in Seq(Val)
      /\ in_buf \in [RingSlot -> Val]
  BY DEF RingShapes
<1>2. a \in Nat /\ k \in Nat /\ c \in Val
  BY <1>0, SuccIs, GapIs, KeyboardConstants
<1>3. /\ Gap(in_tail, in_head) = k + 1 /\ Spot(in_tail, 1) = in_tail
      /\ \A i \in 1 .. k : Spot(in_tail', i) = Spot(in_tail, i + 1)
  BY <1>0, TailMoves
<1>4. /\ Line \in Seq(Val) /\ Len(Line) = a + (k + 1)
      /\ \A i \in 1 .. a : Line[i] = consumed[i]
      /\ \A i \in 1 .. k + 1 : Line[a + i] = in_buf[Spot(in_tail, i)]
  <2>1. /\ Line \in Seq(Val) /\ Len(Line) = a + Gap(in_tail, in_head)
        /\ \A i \in 1 .. a : Line[i] = consumed[i]
        /\ \A i \in 1 .. Gap(in_tail, in_head) : Line[a + i] = in_buf[Spot(in_tail, i)]
    BY <1>1 DEF LineIs
  <2> HIDE DEF k, a
  <2> QED  BY <1>3, <2>1
<1>5. /\ Len(consumed') = a + 1 /\ consumed'[a + 1] = c
      /\ \A i \in 1 .. a : consumed'[i] = consumed[i]
  <2> HIDE DEF c
  <2> QED  BY <1>0, <1>2 DEF c
<1>6. /\ Line' \in Seq(Val) /\ Len(Line') = (a + 1) + k
      /\ \A i \in 1 .. a + 1 : Line'[i] = consumed'[i]
      /\ \A i \in 1 .. k : Line'[(a + 1) + i] = in_buf[Spot(in_tail', i)]
  <2>1. /\ Line' \in Seq(Val) /\ Len(Line') = Len(consumed') + Gap(in_tail', in_head')
        /\ \A i \in 1 .. Len(consumed') : Line'[i] = consumed'[i]
        /\ \A i \in 1 .. Gap(in_tail', in_head') :
             Line'[Len(consumed') + i] = in_buf'[Spot(in_tail', i)]
    BY <1>1 DEF LineIs, Gap, Spot
  <2>2. Gap(in_tail', in_head') = k
    OBVIOUS
  <2> HIDE DEF k, a
  <2> QED  BY <1>5, <2>1, <2>2
<1> HIDE DEF a, k, c
<1>7. ASSUME NEW i \in 1 .. (a + 1) + k PROVE Line'[i] = Line[i]
  <2>1. CASE i \in 1 .. a
    <3>1. i \in 1 .. a + 1
      BY <1>2, <2>1
    <3> QED  BY <1>4, <1>5, <1>6, <2>1, <3>1
  <2>2. CASE i = a + 1
    <3>1. Line'[i] = c
      BY <1>2, <1>5, <1>6, <2>2
    <3>2. 1 \in 1 .. k + 1
      BY <1>2
    <3>3. Line[i] = in_buf[in_tail]
      BY <1>3, <1>4, <2>2, <3>2
    <3> QED  BY <3>1, <3>3 DEF c
  <2>3. ASSUME NEW j \in 1 .. k, i = (a + 1) + j PROVE Line'[i] = Line[i]
    <3>1. j + 1 \in 1 .. k + 1 /\ i = a + (j + 1)
      BY <1>2, <2>3
    <3>2. Line[i] = in_buf[Spot(in_tail, j + 1)]
      BY <1>4, <3>1
    <3> QED  BY <1>3, <1>6, <2>3, <3>2
  <2>4. i \in 1 .. a + 1 \/ \E j \in 1 .. k : i = (a + 1) + j
    BY <1>2, LinePlace
  <2>5. i \in 1 .. a + 1 => i \in 1 .. a \/ i = a + 1
    BY <1>2
  <2> QED  BY <2>1, <2>2, <2>3, <2>4, <2>5
<1>8. Len(Line') = Len(Line)
  BY <1>2, <1>4, <1>6
<1> QED  BY <1>4, <1>6, <1>7, <1>8, SameSequence

-----------------------------------------------------------------------------
(* Decoding                                                                *)

LEMMA FlagsType ==
  ASSUME RingShapes, NEW code \in Scancode
  PROVE  /\ KeysAfter(code) \subseteq Modifier \cup Lock \cup {"extended"}
         /\ ModeAfter(code) \in {"shell", "graphics"}
<1>1. keys \subseteq Modifier \cup Lock \cup {"extended"} /\ g_mode \in {"shell", "graphics"}
  BY DEF RingShapes
<1>2. ModeAfter(code) \in {"shell", "graphics"}
  BY <1>1 DEF ModeAfter, nvec_toggle
<1>3. ASSUME NEW flipped \in SUBSET Lock, NEW ends
      PROVE  SymDiff(keys \cup (Modifier \cap {code.key}), flipped) \ ends
               \subseteq Modifier \cup Lock \cup {"extended"}
  BY <1>1 DEF SymDiff
<1> DEFINE flipped == IF g_mode = "shell" THEN Lock \cap {code.key} ELSE {}
           ends == IF \/ code.key \in Letter \cup {"F10"}
                      \/ g_mode = "graphics" /\ code.key \notin Modifier
                     THEN {"extended"} ELSE {}
<1>4. flipped \in SUBSET Lock
  OBVIOUS
<1>5. KeysAfter(code) = IF code.key = "ack" THEN keys
                        ELSE IF ~code.make THEN keys \ ((Modifier \cap {code.key}) \cup {"extended"})
                        ELSE IF code.key = "e0" THEN keys \cup {"extended"}
                        ELSE SymDiff(keys \cup (Modifier \cap {code.key}), flipped) \ ends
  BY DEF KeysAfter
<1> HIDE DEF flipped, ends
<1>6. SymDiff(keys \cup (Modifier \cap {code.key}), flipped) \ ends
        \subseteq Modifier \cup Lock \cup {"extended"}
  BY <1>3, <1>4
<1>7. KeysAfter(code) \subseteq Modifier \cup Lock \cup {"extended"}
  BY <1>1, <1>5, <1>6
<1> QED  BY <1>2, <1>7

(* A scancode stands for at most one character.                            *)
LEMMA OneChar ==
  ASSUME NEW code \in Scancode
  PROVE  CharsOf(code) = <<>> \/ \E c \in Char : CharsOf(code) = <<c>>
<1>1. <<"keypad", "plain">> \in Char
  BY DEF Char
<1>2. ASSUME code.key \in Letter
      PROVE  <<code.key, IF {"shift", "caps"} \cap keys = {} THEN "plain" ELSE "shift">> \in Char
  BY <1>2 DEF Char
<1> QED  BY <1>1, <1>2 DEF CharsOf

LEMMA ReportChars ==
  ASSUME NEW r \in Reports
  PROVE  /\ UsbCharsOf(r) \in Seq(Char)
         /\ g_mode \in {"shell", "graphics"} => UsbModeAfter(r) \in {"shell", "graphics"}
<1> DEFINE S == Fresh(r) \cap Letter
           how == IF "ctrl" \in r.mods THEN "ctrl"
                  ELSE IF "shift" \in r.mods THEN "shift" ELSE "plain"
           order == SetToSeq(S)
<1>1. IsFiniteSet(S)
  <2>1. IsFiniteSet(r.keys) /\ S \subseteq r.keys
    BY KeyboardConstants DEF Fresh
  <2> QED  BY <2>1, FS_Subset
<1>2. Cardinality(S) \in Nat /\ \E f \in [1 .. Cardinality(S) -> S] : IsInjective(f)
  <2> HIDE DEF S
  <2>1. Cardinality(S) \in Nat /\ ExistsBijection(1 .. Cardinality(S), S)
    BY <1>1, FS_CardinalityType
  <2>2. PICK f : f \in Bijection(1 .. Cardinality(S), S)
    BY <2>1 DEF ExistsBijection
  <2>3. f \in [1 .. Cardinality(S) -> S] /\ f \in Injection(1 .. Cardinality(S), S)
    BY <2>2 DEF Bijection, Injection
  <2>4. IsInjective(f)
    BY <2>3 DEF Injection, IsInjective
  <2> QED  BY <2>1, <2>3, <2>4
<1>3. order \in [1 .. Cardinality(S) -> S]
  <2> HIDE DEF S
  <2> QED  BY <1>2 DEF SetToSeq
<1>4. \A c \in Letter : <<c, how>> \in Char
  BY DEF Char
<1>5. UsbCharsOf(r) = IF UsbModeAfter(r) = "graphics" THEN <<>>
                           ELSE [i \in DOMAIN order |-> <<order[i], how>>]
  BY DEF UsbCharsOf
<1>6. S \subseteq Letter
  OBVIOUS
<1> HIDE DEF order, how, S
<1>7. [i \in DOMAIN order |-> <<order[i], how>>] \in Seq(Char)
  <2>1. DOMAIN order = 1 .. Cardinality(S) /\ \A i \in 1 .. Cardinality(S) : <<order[i], how>> \in Char
    BY <1>3, <1>4, <1>6
  <2> QED  BY <1>2, <2>1
<1>8. UsbCharsOf(r) \in Seq(Char)
  BY <1>5, <1>7
<1>9. g_mode \in {"shell", "graphics"} => UsbModeAfter(r) \in {"shell", "graphics"}
  BY DEF UsbModeAfter, nvec_toggle
<1> QED  BY <1>8, <1>9

-----------------------------------------------------------------------------
(* Steps                                                                   *)

(* A step that leaves the ring and the adding alone.                       *)
LEMMA RingSame ==
  ASSUME KbdInv, RingShapes',
         UNCHANGED <<in_syscall, ring, next, todo, reader, accepted, consumed>>
  PROVE  KbdInv'
<1>1. /\ in_head' = in_head /\ in_tail' = in_tail /\ in_buf' = in_buf /\ next' = next
      /\ todo' = todo /\ reader' = reader /\ accepted' = accepted /\ consumed' = consumed
      /\ in_syscall' = in_syscall
  BY DEF ring
<1>2. Line' = Line
  BY <1>1, LineStays DEF KbdInv
<1>3. BeingAdded' = BeingAdded /\ Adding' = Adding
  BY <1>1 DEF BeingAdded, Adding, Gap
<1>4. ReaderPlace'
  BY <1>1, <1>3 DEF KbdInv, ReaderPlace, Gap
<1>5. InOrder'
  BY <1>1, <1>2, <1>3 DEF KbdInv, InOrder
<1>6. NoneLost'
  BY <1>1, <1>2, <1>3 DEF KbdInv, NoneLost
<1> QED  BY <1>4, <1>5, <1>6 DEF KbdInv

(* One of the reader with nothing in hand.                                 *)
LEMMA RingQuiet ==
  ASSUME KbdInv, RingShapes', ~BeingAdded, ~Adding',
         UNCHANGED <<in_syscall, ring, accepted, consumed>>,
         reader' = "take" => in_head # in_tail
  PROVE  KbdInv'
<1>1. /\ in_head' = in_head /\ in_tail' = in_tail /\ in_buf' = in_buf
      /\ accepted' = accepted /\ consumed' = consumed /\ in_syscall' = in_syscall
  BY DEF ring
<1>2. Line' = Line
  BY <1>1, LineStays DEF KbdInv
<1>3. ~BeingAdded' /\ reader' # "head"
  BY DEF BeingAdded, Adding
<1>4. ReaderPlace'
  BY <1>1, <1>3 DEF ReaderPlace
<1>5. InOrder'
  BY <1>1, <1>2, <1>3 DEF KbdInv, InOrder
<1>6. NoneLost'
  BY <1>1, <1>2, <1>3 DEF KbdInv, NoneLost
<1> QED  BY <1>4, <1>5, <1>6 DEF KbdInv

LEMMA AcceptedAreVals ==
  ASSUME RingShapes
  PROVE  accepted \in Seq(Val) /\ Line \in Seq(Val) /\ (todo # <<>> => Head(todo) \in Char)
<1>1. accepted \in Seq(Char) /\ todo \in Seq(Char) /\ Char \subseteq Val
  BY DEF RingShapes, Val
<1>2. accepted \in Seq(Val)
  <2>1. accepted \in [1 .. Len(accepted) -> Char] /\ Len(accepted) \in Nat
    BY <1>1
  <2>2. accepted \in [1 .. Len(accepted) -> Val]
    BY <1>1, <2>1
  <2> QED  BY <2>1, <2>2
<1>3. Line \in Seq(Val)
  BY LineAre DEF LineIs
<1>4. todo # <<>> => Head(todo) \in Char
  BY <1>1
<1> QED  BY <1>2, <1>3, <1>4

(* Interrupts: the handler adds a character whole.                         *)
LEMMA IrqAdds ==
  ASSUME KbdInv, RingShapes', ~Full, InterruptsOn, NEW c \in Char,
         in_buf' = [in_buf EXCEPT ![in_head] = c], in_head' = Succ(in_head),
         accepted' = Append(accepted, c),
         UNCHANGED <<in_syscall, in_tail, next, todo, reader, consumed>>
  PROVE  KbdInv'
<1>0. RingShapes /\ ReaderPlace /\ InOrder /\ NoneLost
  BY DEF KbdInv
<1>1. Succ(in_head) # in_tail /\ in_head \in RingSlot /\ in_tail \in RingSlot
      /\ in_buf \in [RingSlot -> Val]
  BY <1>0 DEF Full, RingShapes
<1>2. in_buf'[in_head] = c /\ \A i \in RingSlot : i # in_head => in_buf'[i] = in_buf[i]
  BY <1>1
<1>3. Line' = Append(Line, c)
  BY <1>0, <1>1, <1>2, LineGrows
<1>4. Gap(in_tail, in_head') = Gap(in_tail, in_head) + 1 /\ Gap(in_tail, in_head) \in Int
  BY <1>1, GapGrows, GapIs
<1>5. Adding' = Adding /\ (Adding /\ next # in_tail => Gap(in_tail, next) <= Gap(in_tail, in_head) + 1)
  BY <1>0 DEF Adding, ReaderPlace
<1>6. Gap(in_tail, next) \in Int
  BY <1>1, <1>0, GapIs DEF RingShapes
<1>7. ~BeingAdded'
  BY <1>4, <1>5, <1>6 DEF BeingAdded, Gap
<1>8. ReaderPlace'
  <2>1. Adding' /\ next' # in_tail' => Gap(in_tail', next') <= Gap(in_tail', in_head') + 1
    BY <1>4, <1>5, <1>6
  <2> QED  BY <1>0, <1>1, <1>7, <2>1 DEF ReaderPlace, Adding, Gap
<1>9. InOrder'
  <2>1. c \in Val /\ accepted \in Seq(Val) /\ Line \in Seq(Val)
    BY <1>0, AcceptedAreVals DEF Val
  <2>2. SubsequenceOf(Append(Line, c), Append(accepted, c))
    BY <1>0, <2>1, SubsequenceAppends DEF InOrder
  <2> QED  BY <1>3, <1>7, <2>2 DEF InOrder
<1>10. NoneLost'
  <2>1. in_syscall => ~Adding
    BY DEF InterruptsOn, Adding
  <2>2. in_syscall => Line = accepted
    BY <1>0, <2>1 DEF NoneLost, BeingAdded
  <2> QED  BY <1>3, <1>5, <1>7, <2>1, <2>2 DEF NoneLost
<1> QED  BY <1>8, <1>9, <1>10 DEF KbdInv

(* The reader looks at the head.                                           *)
LEMMA AddStarts ==
  ASSUME KbdInv, RingShapes', todo # <<>>, reader = "add", reader' = "store",
         next' = Succ(in_head),
         accepted' = IF Full THEN accepted ELSE Append(accepted, Head(todo)),
         UNCHANGED <<in_syscall, ring, todo, consumed>>
  PROVE  KbdInv'
<1>0. RingShapes /\ ReaderPlace /\ InOrder /\ NoneLost
  BY DEF KbdInv
<1>1. /\ in_head' = in_head /\ in_tail' = in_tail /\ in_buf' = in_buf
      /\ in_head \in RingSlot /\ in_tail \in RingSlot
  BY <1>0 DEF ring, RingShapes
<1>2. Line' = Line
  BY <1>0, <1>1, LineStays
<1>3. ~BeingAdded /\ Adding'
  BY DEF BeingAdded, Adding
<1>4. SubsequenceOf(Line, accepted) /\ (in_syscall => Line = accepted)
  BY <1>0, <1>3 DEF InOrder, NoneLost
<1>5. CASE Full
  <2>1. next' = in_tail' /\ accepted' = accepted
    BY <1>1, <1>5 DEF Full
  <2>2. ~BeingAdded'
    BY <2>1 DEF BeingAdded
  <2>3. ReaderPlace'
    BY <2>1, <2>2 DEF ReaderPlace
  <2>4. InOrder' /\ NoneLost'
    BY <1>2, <1>4, <2>1, <2>2 DEF InOrder, NoneLost
  <2> QED  BY <2>3, <2>4 DEF KbdInv
<1>6. CASE ~Full
  <2>1. next' # in_tail' /\ accepted' = Append(accepted, Head(todo))
    BY <1>1, <1>6 DEF Full
  <2>2. Gap(in_tail', next') = Gap(in_tail', in_head') + 1 /\ Gap(in_tail', next') \in Int
    BY <1>1, <2>1, GapGrows, GapIs, SuccIs
  <2>3. BeingAdded'
    BY <1>3, <2>1, <2>2 DEF BeingAdded
  <2>4. ReaderPlace'
    BY <2>1, <2>2 DEF ReaderPlace
  <2>5. Head(todo) \in Val /\ accepted \in Seq(Val) /\ Line \in Seq(Val)
    BY <1>0, AcceptedAreVals DEF Val
  <2>6. PICK c \in Val : c = Head(todo)
    BY <2>5
  <2>7. SubsequenceOf(Line, Append(accepted, c)) /\ SubsequenceOf(Append(Line, c), Append(accepted, c))
    BY <1>4, <2>5, SubsequenceAppends, SubsequenceSkips
  <2>8. InOrder'
    BY <1>2, <2>1, <2>6, <2>7 DEF InOrder
  <2>9. NoneLost'
    BY <1>2, <1>4, <2>1, <2>3 DEF NoneLost
  <2> QED  BY <2>4, <2>8, <2>9 DEF KbdInv
<1> QED  BY <1>5, <1>6

(* It stores the character where the head is by then.                      *)
LEMMA AddStores ==
  ASSUME KbdInv, RingShapes', next # in_tail, reader = "store", reader' = "head",
         in_buf' = [in_buf EXCEPT ![in_head] = Head(todo)],
         UNCHANGED <<in_syscall, in_head, in_tail, next, todo, accepted, consumed>>
  PROVE  KbdInv'
<1>0. RingShapes /\ ReaderPlace /\ InOrder /\ NoneLost
  BY DEF KbdInv
<1>1. /\ in_head \in RingSlot /\ in_buf \in [RingSlot -> Val]
  BY <1>0 DEF RingShapes
<1>2. in_buf'[in_head] = Head(todo) /\ \A i \in RingSlot : i # in_head => in_buf'[i] = in_buf[i]
  BY <1>1
<1>3. Line' = Line
  BY <1>0, <1>2, LineStays
<1>4. BeingAdded' = BeingAdded /\ Adding' /\ Adding
  BY DEF BeingAdded, Adding, Gap
<1>5. ReaderPlace'
  BY <1>0, <1>2, <1>4 DEF ReaderPlace, Gap
<1>6. InOrder' /\ NoneLost'
  BY <1>0, <1>3, <1>4 DEF InOrder, NoneLost
<1> QED  BY <1>5, <1>6 DEF KbdInv

(* It sets the head to the successor of the one it looked at.              *)
LEMMA AddEnds ==
  ASSUME KbdInv, RingShapes', reader = "head", reader' = "add", in_head' = next,
         UNCHANGED <<in_syscall, in_buf, in_tail, accepted, consumed>>
  PROVE  KbdInv'
<1>0. RingShapes /\ ReaderPlace /\ InOrder /\ NoneLost
  BY DEF KbdInv
<1>1. /\ in_head \in RingSlot /\ in_tail \in RingSlot /\ next \in RingSlot
      /\ Adding /\ next # in_tail /\ ~Adding' /\ ~BeingAdded' /\ todo # <<>>
  BY <1>0 DEF RingShapes, Adding, BeingAdded, ReaderPlace
<1>2. ReaderPlace'
  BY <1>1 DEF ReaderPlace, Adding
<1>3. CASE BeingAdded
  <2>1. Gap(in_tail, next) = Gap(in_tail, in_head) + 1 /\ in_buf[in_head] = Head(todo)
    BY <1>0, <1>3 DEF BeingAdded, ReaderPlace
  <2>2. next = Succ(in_head)
    <3>1. PICK s : s = Succ(in_head)
      OBVIOUS
    <3>2. s \in RingSlot /\ s = IF in_head = RING - 1 THEN 0 ELSE in_head + 1
      BY <1>1, <3>1, SuccIs
    <3>3. /\ Gap(in_tail, next) = IF in_tail <= next THEN next - in_tail ELSE (next - in_tail) + RING
          /\ Gap(in_tail, in_head) = IF in_tail <= in_head THEN in_head - in_tail
                                     ELSE (in_head - in_tail) + RING
      BY <1>1, GapIs
    <3>4. RING \in Nat /\ RING > 1
      BY KeyboardConstants
    <3>5. next = s
      BY <1>1, <2>1, <3>2, <3>3, <3>4 DEF RingSlot
    <3> QED  BY <3>1, <3>5
  <2>3. Line' = Append(Line, Head(todo))
    BY <1>0, <1>1, <2>1, <2>2, LineGrows
  <2>4. SubsequenceOf(Append(Line, Head(todo)), accepted)
        /\ (in_syscall => Append(Line, Head(todo)) = accepted)
    BY <1>0, <1>3 DEF InOrder, NoneLost
  <2> QED  BY <1>1, <1>2, <2>3, <2>4 DEF InOrder, NoneLost, KbdInv
<1>4. CASE ~BeingAdded
  <2>1. Gap(in_tail, in_head') <= Gap(in_tail, in_head)
    <3>1. Gap(in_tail, next) <= Gap(in_tail, in_head) + 1 /\ Gap(in_tail, next) # Gap(in_tail, in_head) + 1
      BY <1>0, <1>1, <1>4 DEF BeingAdded, ReaderPlace
    <3>2. Gap(in_tail, next) \in Int /\ Gap(in_tail, in_head) \in Int
      BY <1>1, GapIs
    <3> QED  BY <3>1, <3>2
  <2>2. Begins(Line', Line)
    BY <1>0, <2>1, LineCut
  <2>3. Line' \in Seq(Val) /\ Line \in Seq(Val) /\ accepted \in Seq(Val)
    <3>1. RingShapes' => LineIs'
      BY LineAre, PTL
    <3> QED  BY <1>0, <3>1, AcceptedAreVals DEF LineIs
  <2>4. SubsequenceOf(Line', accepted)
    BY <1>0, <2>2, <2>3, SubsequenceBegins DEF InOrder
  <2>5. ~in_syscall
    BY <1>0, <1>1, <1>4 DEF NoneLost
  <2> QED  BY <1>1, <1>2, <2>4, <2>5 DEF InOrder, NoneLost, KbdInv
<1> QED  BY <1>3, <1>4

LEMMA CharTaken ==
  ASSUME KbdInv, RingShapes', take_char, UNCHANGED in_syscall
  PROVE  KbdInv'
<1>0. RingShapes /\ ReaderPlace /\ InOrder /\ NoneLost
  BY DEF KbdInv
<1>1. /\ reader = "take" /\ reader' \in {"caller", "start"}
      /\ consumed' = Append(consumed, in_buf[in_tail]) /\ in_tail' = Succ(in_tail)
      /\ in_head' = in_head /\ in_buf' = in_buf /\ accepted' = accepted
  BY DEF take_char
<1>2. in_head # in_tail
  BY <1>0, <1>1 DEF ReaderPlace
<1>3. Line' = Line
  BY <1>0, <1>1, <1>2, LineTaken
<1>4. ~Adding /\ ~Adding' /\ ~BeingAdded /\ ~BeingAdded'
  BY <1>1 DEF Adding, BeingAdded
<1>5. ReaderPlace'
  BY <1>1, <1>4 DEF ReaderPlace
<1>6. InOrder' /\ NoneLost'
  BY <1>0, <1>1, <1>3, <1>4 DEF InOrder, NoneLost
<1> QED  BY <1>5, <1>6 DEF KbdInv

-----------------------------------------------------------------------------
(* Shapes                                                                  *)

LEMMA ShapesIrq ==
  ASSUME KbdInv, irq_handler, UNCHANGED in_syscall
  PROVE  RingShapes'
<1>1. RingShapes
  BY DEF KbdInv
<1>2. /\ in_head \in RingSlot /\ in_buf \in [RingSlot -> Val] /\ data \in Scancode
      /\ accepted \in Seq(Char)
  BY <1>1 DEF RingShapes
<1>3. /\ keys' \subseteq Modifier \cup Lock \cup {"extended"}
      /\ g_mode' \in {"shell", "graphics"}
  <2>1. /\ KeysAfter(data) \subseteq Modifier \cup Lock \cup {"extended"}
        /\ ModeAfter(data) \in {"shell", "graphics"}
    BY <1>1, <1>2, FlagsType
  <2>2. keys' = IF obf THEN KeysAfter(data) ELSE keys
    BY DEF irq_handler
  <2>3. g_mode' = IF obf THEN ModeAfter(data) ELSE g_mode
    BY DEF irq_handler
  <2> QED  BY <1>1, <2>1, <2>2, <2>3 DEF RingShapes
<1>4. in_head' \in RingSlot /\ in_buf' \in [RingSlot -> Val] /\ accepted' \in Seq(Char)
  <2>1. CASE obf /\ CharsOf(data) # <<>> /\ ~Full
    <3>1. PICK c \in Char : CharsOf(data) = <<c>>
      BY <1>2, <2>1, OneChar
    <3>2. in_head' = Succ(in_head) /\ in_buf' = [in_buf EXCEPT ![in_head] = c]
          /\ accepted' = accepted \o <<c>>
      BY <2>1, <3>1 DEF irq_handler
    <3>3. in_head' \in RingSlot
      BY <1>2, <3>2, SuccIs
    <3>4. in_buf' \in [RingSlot -> Val]
      BY <1>2, <3>2 DEF Val
    <3>5. accepted' \in Seq(Char)
      BY <1>2, <3>2, ConcatProperties
    <3> QED  BY <3>3, <3>4, <3>5
  <2>2. CASE ~(obf /\ CharsOf(data) # <<>> /\ ~Full)
    <3>1. in_head' = in_head /\ in_buf' = in_buf /\ accepted' = accepted
      BY <2>2 DEF irq_handler
    <3> QED  BY <1>2, <3>1
  <2> QED  BY <2>1, <2>2
<1>5. UNCHANGED <<in_syscall, in_tail, data, usb, sc, todo, next, back, consumed>>
  BY DEF irq_handler, local
<1> QED  BY <1>1, <1>3, <1>4, <1>5 DEF RingShapes

(* The steps that change none of it but the mode, the keys and what the    *)
(* reader has in hand.                                                     *)
LEMMA ShapesLocal ==
  ASSUME RingShapes, UNCHANGED <<in_syscall, ring, next, accepted, consumed>>,
         keys' \subseteq Modifier \cup Lock \cup {"extended"},
         g_mode' \in {"shell", "graphics"}, back' \in {"usb", "polled"},
         data' \in Scancode, sc' \in Scancode, usb' \in Reports \cup {None},
         todo' \in Seq(Char)
  PROVE  RingShapes'
BY DEF RingShapes, ring

LEMMA ShapesQuiet ==
  ASSUME RingShapes, UNCHANGED <<in_syscall, ring, keys, prev, g_mode, device, sc, todo,
                                 next, back, accepted, consumed>>
  PROVE  RingShapes'
BY DEF RingShapes, ring, device

LEMMA ShapesUsb ==
  ASSUME RingShapes, usb_kbd_poll, UNCHANGED in_syscall
  PROVE  RingShapes'
<1>1. /\ keys \subseteq Modifier \cup Lock \cup {"extended"}
      /\ g_mode \in {"shell", "graphics"} /\ back \in {"usb", "polled"}
      /\ data \in Scancode /\ sc \in Scancode /\ usb \in Reports \cup {None}
      /\ todo \in Seq(Char)
  BY DEF RingShapes
<1>2. UNCHANGED <<in_syscall, ring, next, accepted, consumed, keys, data, sc>>
  BY DEF usb_kbd_poll
<1>3. CASE usb = None
  <2>1. UNCHANGED <<g_mode, usb, todo, back>>
    BY <1>3 DEF usb_kbd_poll
  <2> QED  BY <1>1, <1>2, <2>1, ShapesLocal
<1>4. CASE usb # None
  <2>1. usb \in Reports
    BY <1>1, <1>4
  <2>2. g_mode' = UsbModeAfter(usb) /\ todo' = UsbCharsOf(usb) /\ usb' = None /\ back' = "usb"
    BY <1>4 DEF usb_kbd_poll
  <2>3. UsbCharsOf(usb) \in Seq(Char) /\ UsbModeAfter(usb) \in {"shell", "graphics"}
    BY <1>1, <2>1, ReportChars
  <2> QED  BY <1>1, <1>2, <2>2, <2>3, ShapesLocal
<1> QED  BY <1>3, <1>4

LEMMA ShapesRead ==
  ASSUME RingShapes, read_data, UNCHANGED in_syscall
  PROVE  RingShapes'
<1>1. UNCHANGED <<in_syscall, ring, next, accepted, consumed, keys, g_mode, data, usb, todo, back>>
      /\ sc' = data
  BY DEF read_data
<1> QED  BY <1>1, ShapesLocal DEF RingShapes

LEMMA ShapesDecode ==
  ASSUME RingShapes, ps2_handle_polled, UNCHANGED in_syscall
  PROVE  RingShapes'
<1>1. data \in Scancode /\ sc \in Scancode /\ usb \in Reports \cup {None}
  BY DEF RingShapes
<1>2. UNCHANGED <<in_syscall, ring, next, accepted, consumed, data, usb, sc>>
      /\ keys' = KeysAfter(sc) /\ g_mode' = ModeAfter(sc) /\ todo' = CharsOf(sc)
      /\ back' = "polled"
  BY DEF ps2_handle_polled, device
<1>3. /\ KeysAfter(sc) \subseteq Modifier \cup Lock \cup {"extended"}
      /\ ModeAfter(sc) \in {"shell", "graphics"}
  BY <1>1, FlagsType
<1>4. CharsOf(sc) \in Seq(Char)
  <2>1. CharsOf(sc) = <<>> \/ \E c \in Char : CharsOf(sc) = <<c>>
    BY <1>1, OneChar
  <2>2. \A c \in Char : <<c>> \in Seq(Char)
    OBVIOUS
  <2>3. <<>> \in Seq(Char)
    OBVIOUS
  <2> QED  BY <2>1, <2>2, <2>3
<1> QED  BY <1>1, <1>2, <1>3, <1>4, ShapesLocal

LEMMA ShapesAdd ==
  ASSUME KbdInv, input_add_char, UNCHANGED in_syscall
  PROVE  RingShapes'
<1>1. RingShapes /\ (Adding => todo # <<>>)
  BY DEF KbdInv, ReaderPlace
<1>2. /\ in_head \in RingSlot /\ next \in RingSlot /\ in_buf \in [RingSlot -> Val]
      /\ todo \in Seq(Char) /\ accepted \in Seq(Char)
  BY <1>1 DEF RingShapes
<1>3. UNCHANGED <<in_syscall, in_tail, keys, prev, g_mode, device, sc, back, consumed>>
  BY DEF input_add_char
<1>4. todo # <<>> => Head(todo) \in Char /\ Tail(todo) \in Seq(Char)
  BY <1>2
<1>5. in_head' \in RingSlot /\ next' \in RingSlot /\ in_buf' \in [RingSlot -> Val]
      /\ todo' \in Seq(Char) /\ accepted' \in Seq(Char)
  <2>1. CASE todo = <<>> /\ Goto("add", back) /\ UNCHANGED <<in_buf, in_head, todo, next, accepted>>
    BY <1>2, <2>1
  <2>2. CASE /\ todo # <<>> /\ Goto("add", "store") /\ next' = Succ(in_head)
             /\ accepted' = IF Full THEN accepted ELSE Append(accepted, Head(todo))
             /\ UNCHANGED <<in_buf, in_head, todo>>
    <3>1. next' \in RingSlot
      BY <1>2, <2>2, SuccIs
    <3>2. accepted' \in Seq(Char)
      BY <1>2, <1>4, <2>2
    <3> QED  BY <1>2, <2>2, <3>1, <3>2
  <2>3. CASE Goto("store", "add") /\ todo' = Tail(todo) /\ UNCHANGED <<in_buf, in_head, next, accepted>>
    BY <1>1, <1>2, <1>4, <2>3 DEF Goto, Adding
  <2>4. CASE /\ Goto("store", "head") /\ in_buf' = [in_buf EXCEPT ![in_head] = Head(todo)]
             /\ UNCHANGED <<in_head, todo, next, accepted>>
    <3>1. Head(todo) \in Val
      BY <1>1, <1>4, <2>4 DEF Goto, Adding, Val
    <3> QED  BY <1>2, <2>4, <3>1
  <2>5. CASE /\ Goto("head", "add") /\ in_head' = next /\ todo' = Tail(todo)
             /\ UNCHANGED <<in_buf, next, accepted>>
    BY <1>1, <1>2, <1>4, <2>5 DEF Goto, Adding
  <2> QED  BY <2>1, <2>2, <2>3, <2>4, <2>5 DEF input_add_char
<1> QED  BY <1>1, <1>3, <1>5 DEF RingShapes, device

LEMMA ShapesTake ==
  ASSUME RingShapes, take_char, UNCHANGED in_syscall
  PROVE  RingShapes'
<1>1. in_tail \in RingSlot /\ in_buf \in [RingSlot -> Val] /\ consumed \in Seq(Val)
  BY DEF RingShapes
<1>2. consumed' = Append(consumed, in_buf[in_tail]) /\ in_tail' = Succ(in_tail)
      /\ UNCHANGED <<in_syscall, in_head, in_buf, keys, prev, g_mode, device, sc, todo, next, back,
                     accepted>>
  BY DEF take_char
<1>3. in_tail' \in RingSlot /\ consumed' \in Seq(Val)
  BY <1>1, <1>2, SuccIs
<1> QED  BY <1>2, <1>3 DEF RingShapes, device

-----------------------------------------------------------------------------
(* The ring's invariant                                                    *)

LEMMA RingInitially == KbdInit => KbdInv
<1> SUFFICES ASSUME KbdInit PROVE KbdInv
  OBVIOUS
<1>1. RING \in Nat /\ RING > 1
  BY KeyboardConstants
<1>2. /\ in_head = 0 /\ in_tail = 0 /\ next = 0
      /\ in_buf = [i \in RingSlot |-> None] /\ todo = <<>> /\ accepted = <<>> /\ consumed = <<>>
      /\ reader = "caller"
  BY DEF KbdInit, RingSlot
<1>3. 0 \in RingSlot /\ in_buf \in [RingSlot -> Val]
  BY <1>1, <1>2 DEF RingSlot, Val
<1>4. data \in Scancode /\ sc \in Scancode
  <2>1. [key |-> "ack", make |-> FALSE] \in [key : {"e0", "ack"}, make : {FALSE}]
    OBVIOUS
  <2> QED  BY <2>1 DEF KbdInit, Scancode
<1>5. RingShapes
  <2>1. todo \in Seq(Char) /\ accepted \in Seq(Char) /\ consumed \in Seq(Val)
    BY <1>2
  <2> QED  BY <1>2, <1>3, <1>4, <2>1 DEF RingShapes, KbdInit
<1>6. ~Adding /\ ~BeingAdded /\ ReaderPlace
  BY <1>2 DEF Adding, BeingAdded, ReaderPlace
<1>7. Line = <<>>
  <2>1. Gap(in_tail, in_head) = 0
    BY <1>2, <1>3, GapIs
  <2>2. Len(Line) = 0 /\ Line \in Seq(Val)
    BY <1>2, <1>5, <2>1, LineAre DEF LineIs
  <2> QED  BY <2>2
<1>8. SubsequenceOf(Line, accepted)
  <2>1. SubsequenceOf(<<>>, <<>>)
    <3>1. \A at \in [DOMAIN <<>> -> DOMAIN <<>>] :
            /\ \A i, j \in DOMAIN <<>> : i < j => at[i] < at[j]
            /\ \A i \in DOMAIN <<>> : <<>>[i] = <<>>[at[i]]
      OBVIOUS
    <3>2. [i \in DOMAIN <<>> |-> i] \in [DOMAIN <<>> -> DOMAIN <<>>]
      OBVIOUS
    <3> QED  BY <3>1, <3>2 DEF SubsequenceOf
  <2> QED  BY <1>2, <1>7, <2>1
<1> QED  BY <1>2, <1>5, <1>6, <1>7, <1>8 DEF InOrder, NoneLost, KbdInv

LEMMA AddKeeps ==
  ASSUME KbdInv, input_add_char, UNCHANGED in_syscall
  PROVE  KbdInv'
<1>1. RingShapes'
  BY ShapesAdd
<1>2. UNCHANGED <<in_syscall, in_tail, keys, prev, g_mode, device, sc, back, consumed>>
  BY DEF input_add_char
<1>3. back \in {"usb", "polled"}
  BY DEF KbdInv, RingShapes
<1>4. CASE todo = <<>> /\ Goto("add", back) /\ UNCHANGED <<in_buf, in_head, todo, next, accepted>>
  <2>1. ~BeingAdded /\ ~Adding' /\ reader' # "take" /\ UNCHANGED ring
    BY <1>2, <1>3, <1>4 DEF BeingAdded, Adding, Goto, ring
  <2> QED  BY <1>1, <1>2, <1>4, <2>1, RingQuiet
<1>5. CASE /\ todo # <<>> /\ Goto("add", "store") /\ next' = Succ(in_head)
           /\ accepted' = IF Full THEN accepted ELSE Append(accepted, Head(todo))
           /\ UNCHANGED <<in_buf, in_head, todo>>
  <2>1. reader = "add" /\ reader' = "store" /\ UNCHANGED ring
    BY <1>2, <1>5 DEF Goto, ring
  <2> QED  BY <1>1, <1>2, <1>5, <2>1, AddStarts
<1>6. CASE next = in_tail /\ Goto("store", "add") /\ todo' = Tail(todo)
           /\ UNCHANGED <<in_buf, in_head, next, accepted>>
  <2>1. ~BeingAdded /\ ~Adding' /\ reader' # "take" /\ UNCHANGED ring
    BY <1>2, <1>6 DEF BeingAdded, Adding, Goto, ring
  <2> QED  BY <1>1, <1>2, <1>6, <2>1, RingQuiet
<1>7. CASE /\ next # in_tail /\ Goto("store", "head") /\ in_buf' = [in_buf EXCEPT ![in_head] = Head(todo)]
           /\ UNCHANGED <<in_head, todo, next, accepted>>
  <2>1. reader = "store" /\ reader' = "head"
    BY <1>7 DEF Goto
  <2> QED  BY <1>1, <1>2, <1>7, <2>1, AddStores
<1>8. CASE /\ Goto("head", "add") /\ in_head' = next /\ todo' = Tail(todo)
           /\ UNCHANGED <<in_buf, next, accepted>>
  <2>1. reader = "head" /\ reader' = "add"
    BY <1>8 DEF Goto
  <2> QED  BY <1>1, <1>2, <1>8, <2>1, AddEnds
<1> QED  BY <1>4, <1>5, <1>6, <1>7, <1>8 DEF input_add_char

LEMMA IrqKeeps ==
  ASSUME KbdInv, irq_handler, UNCHANGED in_syscall
  PROVE  KbdInv'
<1>1. RingShapes'
  BY ShapesIrq
<1>2. InterruptsOn /\ UNCHANGED <<in_syscall, in_tail, todo, next, reader, consumed>>
  BY DEF irq_handler, local
<1>3. CASE obf /\ CharsOf(data) # <<>> /\ ~Full
  <2>1. data \in Scancode /\ accepted \in Seq(Char)
    BY DEF KbdInv, RingShapes
  <2>2. PICK c \in Char : CharsOf(data) = <<c>>
    BY <1>3, <2>1, OneChar
  <2>3. in_head' = Succ(in_head) /\ in_buf' = [in_buf EXCEPT ![in_head] = c]
        /\ accepted' = accepted \o <<c>>
    BY <1>3, <2>2 DEF irq_handler
  <2>4. accepted' = Append(accepted, c)
    BY <2>1, <2>3
  <2> QED  BY <1>1, <1>2, <1>3, <2>3, <2>4, IrqAdds
<1>4. CASE ~(obf /\ CharsOf(data) # <<>> /\ ~Full)
  <2>1. UNCHANGED <<ring, accepted>>
    BY <1>2, <1>4 DEF irq_handler, ring
  <2> QED  BY <1>1, <1>2, <2>1, RingSame
<1> QED  BY <1>3, <1>4

(* The reader's steps that neither add nor take.                           *)
LEMMA QuietReaderKeeps ==
  ASSUME KbdInv, UNCHANGED in_syscall,
         \/ call_reader \/ reader_start \/ usb_kbd_poll \/ poll_status \/ read_data
         \/ ps2_handle_polled \/ after_poll
  PROVE  KbdInv'
<1>1. RingShapes
  BY DEF KbdInv
<1>2. RingShapes'
  <2>1. CASE call_reader \/ reader_start \/ poll_status \/ after_poll
    <3>1. UNCHANGED <<ring, keys, prev, g_mode, device, sc, todo, next, back, accepted, consumed>>
      BY <2>1 DEF call_reader, reader_start, poll_status, after_poll
    <3> QED  BY <1>1, <3>1, ShapesQuiet
  <2>2. CASE usb_kbd_poll
    BY <1>1, <2>2, ShapesUsb
  <2>3. CASE read_data
    BY <1>1, <2>3, ShapesRead
  <2>4. CASE ps2_handle_polled
    BY <1>1, <2>4, ShapesDecode
  <2> QED  BY <2>1, <2>2, <2>3, <2>4
<1>3. UNCHANGED <<ring, accepted, consumed>>
  BY DEF call_reader, reader_start, usb_kbd_poll, poll_status, read_data, ps2_handle_polled,
         after_poll
<1>4. ~Adding /\ ~Adding'
  BY DEF call_reader, reader_start, usb_kbd_poll, poll_status, read_data, ps2_handle_polled,
         after_poll, Goto, Adding
<1>5. reader' = "take" => in_head # in_tail
  BY DEF call_reader, reader_start, usb_kbd_poll, poll_status, read_data, ps2_handle_polled,
         after_poll, Goto
<1> QED  BY <1>2, <1>3, <1>4, <1>5, RingQuiet DEF BeingAdded

(* A byte or a report arrives, or nothing happens.                         *)
LEMMA DevicesKeep ==
  ASSUME KbdInv, UNCHANGED in_syscall,
         \/ \E code \in Codes : Ps2Byte(code)
         \/ \E r \in Reports : UsbReport(r)
         \/ UNCHANGED kbdVars
  PROVE  KbdInv'
<1>1. RingShapes
  BY DEF KbdInv
<1>2. UNCHANGED <<ring, keys, prev, g_mode, local, accepted, consumed>>
  BY DEF Ps2Byte, UsbReport, kbdVars
<1>3. data' \in Scancode /\ usb' \in Reports \cup {None}
  <2>1. data \in Scancode /\ usb \in Reports \cup {None} /\ Codes \subseteq Scancode
    BY <1>1, KeyboardConstants DEF RingShapes
  <2> QED  BY <2>1 DEF Ps2Byte, UsbReport, kbdVars, device
<1>4. RingShapes'
  BY <1>1, <1>2, <1>3 DEF RingShapes, ring, local
<1> QED  BY <1>2, <1>4, RingSame DEF local

LEMMA KbdStep == KbdInv /\ [KbdNext]_kbdVars => KbdInv'
<1> SUFFICES ASSUME KbdInv, [KbdNext]_kbdVars PROVE KbdInv'
  OBVIOUS
<1>1. UNCHANGED in_syscall
  BY DEF KbdNext, kbdVars
<1>2. CASE input_add_char
  BY <1>1, <1>2, AddKeeps
<1>3. CASE take_char
  <2>1. RingShapes'
    BY <1>1, <1>3, ShapesTake DEF KbdInv
  <2> QED  BY <1>1, <1>3, <2>1, CharTaken
<1>4. CASE irq_handler
  BY <1>1, <1>4, IrqKeeps
<1>5. CASE \/ call_reader \/ reader_start \/ usb_kbd_poll \/ poll_status \/ read_data
           \/ ps2_handle_polled \/ after_poll
  BY <1>1, <1>5, QuietReaderKeeps
<1>6. CASE \/ \E code \in Codes : Ps2Byte(code)
           \/ \E r \in Reports : UsbReport(r)
           \/ UNCHANGED kbdVars
  BY <1>1, <1>6, DevicesKeep
<1> QED  BY <1>2, <1>3, <1>4, <1>5, <1>6 DEF KbdNext, Reader

LEMMA RingHolds == KbdSpec => []KbdInv
BY RingInitially, KbdStep, PTL DEF KbdSpec

(* What has been read is a part of what was accepted, so it is characters  *)
(* only: never the None of a slot that was not written.                    *)
LEMMA RingTypes == KbdInv => TypeOK
<1> SUFFICES ASSUME KbdInv PROVE TypeOK
  OBVIOUS
<1>1. RingShapes /\ SubsequenceOf(Line, accepted)
  BY DEF KbdInv, InOrder
<1>2. accepted \in Seq(Char) /\ consumed \in Seq(Val) /\ Len(consumed) \in Nat
  BY <1>1 DEF RingShapes
<1>3. /\ Len(Line) = Len(consumed) + Gap(in_tail, in_head) /\ Gap(in_tail, in_head) \in Nat
      /\ Line \in Seq(Val) /\ \A i \in 1 .. Len(consumed) : Line[i] = consumed[i]
  BY <1>1, LineAre DEF LineIs
<1>4. \A i \in 1 .. Len(consumed) : consumed[i] \in Char
  <2> TAKE i \in 1 .. Len(consumed)
  <2>1. i \in DOMAIN Line
    BY <1>2, <1>3
  <2>2. PICK at \in [DOMAIN Line -> DOMAIN accepted] : \A j \in DOMAIN Line : Line[j] = accepted[at[j]]
    BY <1>1 DEF SubsequenceOf
  <2>3. Line[i] = accepted[at[i]] /\ at[i] \in DOMAIN accepted
    BY <2>1, <2>2
  <2>4. accepted[at[i]] \in Char
    BY <1>2, <2>3
  <2> QED  BY <1>3, <2>3, <2>4
<1>5. consumed \in Seq(Char)
  <2>1. consumed \in [1 .. Len(consumed) -> Char]
    BY <1>2, <1>4
  <2> QED  BY <1>2, <2>1
<1>6. RingSlot = 0 .. RING - 1 /\ Val = Char \cup {None}
  BY DEF RingSlot, Val
<1> QED  BY <1>1, <1>5, <1>6 DEF RingShapes, TypeOK

(* The ring's indices, its characters and the flags keep their range       *)
(* whatever the interrupt handler does between two accesses of the reader. *)
THEOREM RingTypeCorrect == KbdSpec => []TypeOK
BY RingHolds, RingTypes, PTL

(* drivers/ps2.c: interrupted or not, ps2_getchar and try_getchar return   *)
(* nothing but characters that input_add_char was given room for, in that  *)
(* order and none twice.                                                   *)
THEOREM RingYieldsInOrder == KbdSpec => []DeliveredInOrder
<1>1. KbdInv => DeliveredInOrder
  BY DEF KbdInv, InOrder, DeliveredInOrder, Line
<1> QED  BY <1>1, RingHolds, PTL

(* In a system call, where interrupts are masked, none of them is lost.    *)
THEOREM MaskedRingLosesNothing == KbdSpec => []MaskedKeysDelivered
<1>1. KbdInv => MaskedKeysDelivered
  BY DEF KbdInv, NoneLost, MaskedKeysDelivered, Line, BeingAdded
<1> QED  BY <1>1, RingHolds, PTL

-----------------------------------------------------------------------------
(* The inductive invariant.                                                *)

(* The registers, phase by phase of xhci_init.  Before a port was looked   *)
(* at, usb_kbd_poll means that xhci_init gave up.                          *)
HandedOver ==
  /\ hc \in [bios : BOOLEAN, smi : BOOLEAN, rs : BOOLEAN, run : BOOLEAN,
             reset : BOOLEAN, rings : BOOLEAN, wild : BOOLEAN]
  /\ port \in Nat
  /\ pc \in {"probe", "stop", "reset", "start"} => port = 0
  /\ pc \in {"stop", "reset", "start"} => ~hc.bios /\ ~hc.smi
  /\ pc \in {"stop", "reset"} /\ ~hc.wild => ~hc.rs
  /\ pc = "start" /\ ~hc.wild => hc.rs /\ hc.rings
  /\ pc \in {"probe", "stop"} => ~hc.wild
  /\ pc # "reset" /\ (port > 0 \/ pc # "poll") => ~hc.reset

(* A reset is about the registers and nothing else.                        *)
OnlyRegisters == UNCHANGED <<software, event_ring, xhc, inside, bus, report, queue, bells>>

LEMMA ResetIs == hc_reset => OnlyRegisters
  BY Zenon DEF hc_reset, OnlyRegisters

(* Places from a on to b, and the place i steps after the first.           *)
Ahead(a, b) == IF a <= b THEN b - a ELSE b - a + EVENT_RING_SIZE

Place(i) == IF i < EVENT_RING_SIZE THEN i ELSE i - EVENT_RING_SIZE

EventPlaces == 0 .. EVENT_RING_SIZE - 1

(* The controller is in the lap of the driver, or in the next one and      *)
(* behind it; what it wrote in its lap carries its cycle state; the driver *)
(* is between what it told in ERDP and the controller; and the events in   *)
(* front of it are those that were posted and not taken.                   *)
EventRing ==
  /\ event_dequeue \in EventPlaces /\ erdp \in EventPlaces /\ event_cycle \in {0, 1}
  /\ xhc \in [command : Nat, ccs : {0, 1}, enqueue : EventPlaces, cycle : {0, 1}]
  /\ DOMAIN event_ring = EventPlaces
  /\ xhc.cycle = event_cycle <=> event_dequeue <= xhc.enqueue
  /\ \A j \in EventPlaces :
       event_ring[j].cycle = IF j < xhc.enqueue THEN xhc.cycle ELSE Toggle(xhc.cycle)
  /\ Ahead(erdp, event_dequeue) + Ahead(event_dequeue, xhc.enqueue)
       = Ahead(erdp, xhc.enqueue)
  /\ queue = [i \in 1 .. Ahead(event_dequeue, xhc.enqueue) |->
                event_ring[Place(event_dequeue + i - 1)]]

(* The command ring is never filled to its Link TRB: a full ring is never  *)
(* used again.  So commands lie in it in the order they were sent.         *)
CommandRing ==
  /\ sent \in 0 .. CMD_RING_SIZE - 2 /\ cmd_enqueue = sent
  /\ cmd_cycle = 1 /\ xhc.ccs = 1 /\ xhc.command \in 0 .. sent
  /\ DOMAIN cmd_ring = 0 .. CMD_RING_SIZE - 1
  /\ \A i \in 0 .. sent - 1 : cmd_ring[i].id = i + 1
  /\ \A i \in sent .. CMD_RING_SIZE - 2 : cmd_ring[i].cycle = 0

CommandEvents == {i \in DOMAIN queue : queue[i].kind = "command"}

(* A command is executed only while the driver waits for it, and answered  *)
(* only once.                                                              *)
OneCommand ==
  "command" \notin missed =>
    \/ ~Waiting /\ xhc.command = sent /\ CommandEvents = {}
    \/ Waiting /\ xhc.command = sent - 1 /\ CommandEvents = {}
    \/ /\ Waiting /\ xhc.command = sent
       /\ \E i \in DOMAIN queue : CommandEvents = {i} /\ queue[i].of = sent

(* The phases of the keyboard.  They are told as long as one device was    *)
(* addressed and nothing missed.                                           *)

TransferEvents == {i \in DOMAIN queue : queue[i].kind = "transfer"}

Ep1Context == [on : BOOLEAN, at : Nat, ccs : {0, 1}, busy : BOOLEAN]
NewContext == [on |-> FALSE, at |-> 0, ccs |-> 1, busy |-> FALSE]
NoStages   == <<"none", "none", "none", "none">>

DeviceTypes ==
  /\ slots \in 0 .. PORTS /\ addressed \subseteq 1 .. slots
  /\ DOMAIN ep0_ring = Slot /\ DOMAIN ep0_dequeue = Slot
  /\ ep1 \in [Slot -> Ep1Context]
  /\ ep1_configured \in BOOLEAN

(* What the driver waits for is what it sent last.                         *)
LastCommand ==
  LET command == cmd_ring[sent - 1]
  IN  /\ pc = "wait_enable" => command.kind = "enable"
      /\ pc = "wait_address" => command.kind = "address" /\ command.slot = slot_id
      /\ pc = "wait_configure" => command.kind = "configure" /\ command.slot = slot_id

Undisturbed == Cardinality(addressed) <= 1 /\ missed = {}

Succeeded == \E i \in CommandEvents : queue[i].ok

(* No device answered to its address yet, or the driver has not seen it.   *)
NoKeyboard ==
  /\ usb_kbd_slot = 0 /\ ~ep1_configured /\ report = 0
  /\ TransferEvents = {}
  /\ pc \notin {"descriptor", "wait_configure"}
  /\ \A t \in Slot : ep0_ring[t] = NoStages /\ ep0_dequeue[t] = 1 /\ ep1[t] = NewContext
  /\ addressed = IF pc = "wait_address" /\ Succeeded THEN {slot_id} ELSE {}

(* The first n of the two answers to Get Descriptor are posted, got_data   *)
(* of them taken.                                                          *)
Describing ==
  LET posted == IF ep0_dequeue[usb_kbd_slot] <= 2 THEN 0 ELSE ep0_dequeue[usb_kbd_slot] - 2
  IN  /\ pc = "descriptor" /\ slot_id = usb_kbd_slot
      /\ ~ep1_configured /\ report = 0
      /\ ep0_ring[usb_kbd_slot] = <<"get", "data", "status", "none">>
      /\ ep0_dequeue[usb_kbd_slot] \in 1 .. 4
      /\ ep1[usb_kbd_slot] = NewContext
      /\ \A i \in TransferEvents : queue[i].slot = usb_kbd_slot
      /\ got_data \in 0 .. posted
      /\ got_data = posted => TransferEvents = {}
      /\ got_data = posted - 1 => \E i \in DOMAIN queue : TransferEvents = {i}
      /\ got_data = posted - 2 => \E i, j \in DOMAIN queue : i < j /\ TransferEvents = {i, j}

(* Nothing more comes from EP0.                                            *)
Described ==
  /\ pc # "descriptor"
  /\ ep0_dequeue[usb_kbd_slot] = 4
  /\ DOMAIN ep0_ring[usb_kbd_slot] = 1 .. 4 /\ ep0_ring[usb_kbd_slot][4] = "none"

NotConfigured ==
  /\ ~ep1_configured /\ report = 0
  /\ TransferEvents = {}
  /\ pc = "wait_configure" => slot_id = usb_kbd_slot
  /\ LET endpoint == ep1[usb_kbd_slot]
     IN  endpoint.at = 0 /\ endpoint.ccs = 1 /\ ~endpoint.busy
  /\ ep1_ring = [i \in 0 .. EP_RING_SIZE - 1 |-> NoTRB]
  /\ ep1_enqueue = 0 /\ ep1_cycle = 1

(* The transfer ring: the lap of the driver up to its place, what is left  *)
(* of the one before behind it.                                            *)
TransferRing ==
  /\ ep1_enqueue \in 0 .. EP_RING_SIZE - 2 /\ ep1_cycle \in {0, 1}
  /\ DOMAIN ep1_ring = 0 .. EP_RING_SIZE - 1
  /\ \A i \in 0 .. ep1_enqueue - 1 : ep1_ring[i] = [kind |-> "normal", cycle |-> ep1_cycle]
  /\ \A i \in ep1_enqueue .. EP_RING_SIZE - 2 :
       ep1_ring[i] \in {NoTRB, [kind |-> "normal", cycle |-> Toggle(ep1_cycle)]}
  /\ ep1_ring[EP_RING_SIZE - 1] = [kind |-> "link", cycle |-> Toggle(ep1_cycle)]
     \/ ep1_ring[EP_RING_SIZE - 1] = NoTRB

(* The endpoint is at this place, or at the Link TRB in front of it.       *)
EndpointAt(place, cycle) ==
  LET endpoint == ep1[usb_kbd_slot]
  IN  \/ endpoint.at = place /\ endpoint.ccs = cycle
      \/ /\ place = 0 /\ endpoint.at = EP_RING_SIZE - 1 /\ endpoint.ccs = Toggle(cycle)
         /\ ep1_ring[EP_RING_SIZE - 1].kind = "link"

EndpointAtLast ==
  IF ep1_enqueue = 0
  THEN EndpointAt(EP_RING_SIZE - 2, Toggle(ep1_cycle)) /\ ep1_ring[EP_RING_SIZE - 1].kind = "link"
  ELSE EndpointAt(ep1_enqueue - 1, ep1_cycle)

(* One transfer is under way: queued, taken up by the endpoint, or done    *)
(* and its event not taken.                                                *)
OneTransfer ==
  \/ /\ EndpointAtLast /\ TransferEvents = {} /\ report = 0
     /\ ep1[usb_kbd_slot].busy => ep1[usb_kbd_slot].at # EP_RING_SIZE - 1
  \/ /\ EndpointAt(ep1_enqueue, ep1_cycle) /\ ~ep1[usb_kbd_slot].busy
     /\ \E i \in DOMAIN queue : /\ TransferEvents = {i} /\ queue[i].slot = usb_kbd_slot
                                /\ report = IF queue[i].ok THEN 1 ELSE 0

Configured ==
  /\ ep1_configured /\ pc # "wait_configure"
  /\ TransferRing /\ OneTransfer

HasKeyboard ==
  /\ usb_kbd_slot \in Slot /\ addressed = {usb_kbd_slot}
  /\ \A t \in Slot \ {usb_kbd_slot} : ~ep1[t].on /\ ~ep1[t].busy
  /\ pc = "wait_address" => ~Succeeded
  /\ Describing \/ (Described /\ (NotConfigured \/ Configured))

KeyboardInv ==
  /\ DeviceTypes /\ LastCommand
  /\ Undisturbed => NoKeyboard \/ HasKeyboard

OwnInv == HandedOver /\ DriverOwns

RingInv == EventRing /\ CommandRing /\ OneCommand

Inv == OwnInv /\ RingInv /\ KeyboardInv

-----------------------------------------------------------------------------
(* The event ring                                                          *)

(* The sizes of the rings and the number of ports.                         *)
LEMMA Sizes ==
  /\ EVENT_RING_SIZE \in Nat /\ EVENT_RING_SIZE >= 2
  /\ CMD_RING_SIZE \in Nat /\ CMD_RING_SIZE >= 3
  /\ PORTS \in Nat
<1>1. /\ {PORTS, FLUSH, MaxPortEvents, MaxReports, MaxErrors} \subseteq Nat
      /\ {CMD_RING_SIZE, EVENT_RING_SIZE} \subseteq Nat
      /\ CMD_RING_SIZE >= 3 /\ EVENT_RING_SIZE >= 2
  BY XhciConstants
<1>2. QED
  BY <1>1

(* The place after another one.                                            *)
LEMMA NextPlace ==
  ASSUME NEW i \in EventPlaces
  PROVE  /\ (i + 1) % EVENT_RING_SIZE = IF i + 1 = EVENT_RING_SIZE THEN 0 ELSE i + 1
         /\ (i + 1) % EVENT_RING_SIZE \in EventPlaces
<1> DEFINE N == EVENT_RING_SIZE
<1>1. N \in Nat /\ N >= 2 /\ i \in 0 .. N - 1
  BY Sizes DEF EventPlaces
<1> HIDE DEF N
<1>2. CASE i + 1 = N
  <2>1. N % N = 0
    BY <1>1
  <2>2. QED
    BY <1>1, <1>2, <2>1 DEF EventPlaces, N
<1>3. CASE i + 1 # N
  <2>1. i + 1 \in 0 .. N - 1
    BY <1>1, <1>3
  <2>2. (i + 1) % N = i + 1
    BY <1>1, <2>1
  <2>3. QED
    BY <1>3, <2>1, <2>2 DEF EventPlaces, N
<1>4. QED
  BY <1>2, <1>3

(* How far it is to the next place, and from it.                           *)
LEMMA AheadNext ==
  ASSUME NEW a \in EventPlaces, NEW b \in EventPlaces, NEW after \in EventPlaces,
         after = IF b + 1 = EVENT_RING_SIZE THEN 0 ELSE b + 1
  PROVE  /\ Ahead(a, b) \in 0 .. EVENT_RING_SIZE - 1
         /\ after # a => /\ Ahead(a, after) = Ahead(a, b) + 1
                        /\ Ahead(a, b) < EVENT_RING_SIZE - 1
         /\ after = a => Ahead(a, b) = EVENT_RING_SIZE - 1
         /\ b # a => Ahead(after, a) = Ahead(b, a) - 1
<1> DEFINE N == EVENT_RING_SIZE
<1>1. N \in Nat /\ N >= 2 /\ a \in 0 .. N - 1 /\ b \in 0 .. N - 1 /\ after \in 0 .. N - 1
  BY Sizes DEF EventPlaces
<1>2. after = IF b + 1 = N THEN 0 ELSE b + 1
  OBVIOUS
<1> HIDE DEF N
<1>3. /\ Ahead(a, b) = IF a <= b THEN b - a ELSE b - a + N
      /\ Ahead(a, after) = IF a <= after THEN after - a ELSE after - a + N
      /\ Ahead(after, a) = IF after <= a THEN a - after ELSE a - after + N
      /\ Ahead(b, a) = IF b <= a THEN a - b ELSE a - b + N
  BY DEF Ahead, N
<1>4. Ahead(a, b) \in 0 .. N - 1
  BY <1>1, <1>3
<1>5. after # a => Ahead(a, after) = Ahead(a, b) + 1 /\ Ahead(a, b) < N - 1
  BY <1>1, <1>2, <1>3
<1>6. after = a => Ahead(a, b) = N - 1
  BY <1>1, <1>2, <1>3
<1>7. b # a => Ahead(after, a) = Ahead(b, a) - 1
  BY <1>1, <1>2, <1>3
<1>8. QED
  BY <1>4, <1>5, <1>6, <1>7 DEF N

(* What the ring tells of the queue.                                       *)
LEMMA QueueFacts ==
  ASSUME EventRing
  PROVE  /\ Len(queue) = Ahead(event_dequeue, xhc.enqueue)
         /\ Len(queue) \in 0 .. EVENT_RING_SIZE - 1
         /\ DOMAIN queue = 1 .. Len(queue)
         /\ \A i \in 1 .. Len(queue) : queue[i] = event_ring[Place(event_dequeue + i - 1)]
         /\ \E S : queue \in Seq(S)
<1> DEFINE n == Ahead(event_dequeue, xhc.enqueue)
<1>1. n \in 0 .. EVENT_RING_SIZE - 1
  BY Sizes DEF EventRing, Ahead, EventPlaces
<1>2. queue = [i \in 1 .. n |-> event_ring[Place(event_dequeue + i - 1)]]
  BY DEF EventRing
<1> HIDE DEF n
<1>3. n \in Nat
  BY <1>1, Sizes
<1>4. DOMAIN queue = 1 .. n
  BY <1>2
<1>5. queue \in Seq({queue[i] : i \in 1 .. n})
  <2>1. queue \in [1 .. n -> {queue[i] : i \in 1 .. n}]
    BY <1>2
  <2>2. QED
    BY <1>3, <2>1, SeqDef
<1>6. Len(queue) = n
  BY <1>3, <1>4, <1>5, LenProperties
<1>7. QED
  BY <1>1, <1>2, <1>4, <1>5, <1>6 DEF n

(* The ring, as the invariant describes it, hands out events in order.     *)
LEMMA EventRingInOrder == EventRing => EventsInOrder
<1> SUFFICES ASSUME EventRing PROVE EventsInOrder
  OBVIOUS
<1>1. /\ Len(queue) = Ahead(event_dequeue, xhc.enqueue)
      /\ Len(queue) \in Nat
      /\ \A i \in 1 .. Len(queue) : queue[i] = event_ring[Place(event_dequeue + i - 1)]
      /\ \E S : queue \in Seq(S)
  BY QueueFacts, Sizes
<1>2. Pending <=> event_dequeue # xhc.enqueue
  BY Sizes DEF EventRing, Pending, Toggle, EventPlaces
<1>3. event_dequeue # xhc.enqueue <=> Len(queue) > 0
  <2> DEFINE d == event_dequeue  e == xhc.enqueue  n == Len(queue)
  <2>1. d \in 0 .. EVENT_RING_SIZE - 1 /\ e \in 0 .. EVENT_RING_SIZE - 1
    BY DEF EventRing, EventPlaces
  <2>2. n = IF d <= e THEN e - d ELSE e - d + EVENT_RING_SIZE
    BY <1>1 DEF Ahead
  <2> HIDE DEF d, e, n
  <2>3. d # e <=> n > 0
    BY <2>1, <2>2, Sizes
  <2>4. QED
    BY <2>3 DEF d, e, n
<1>4. queue # <<>> <=> Len(queue) > 0
  BY <1>1, EmptySeq
<1>5. ASSUME Pending PROVE Event = Head(queue)
  <2>1. 1 \in 1 .. Len(queue) /\ queue # <<>>
    BY <1>1, <1>2, <1>3, <1>4, <1>5
  <2>2. Place(event_dequeue + 1 - 1) = event_dequeue
    BY Sizes DEF EventRing, Place, EventPlaces
  <2>3. queue[1] = Event
    BY <1>1, <2>1, <2>2 DEF Event
  <2>4. Head(queue) = queue[1]
    BY <1>1, <2>1, HeadTailProperties
  <2>5. QED
    BY <2>3, <2>4
<1>6. QED
  BY <1>2, <1>3, <1>4, <1>5 DEF EventsInOrder

(* The loops that take events: the oldest one goes, the rest move up.      *)
LEMMA Taken ==
  ASSUME EventRing, Pending, Advance
  PROVE  /\ Len(queue) > 0 /\ queue[1] = Event
         /\ Len(queue') = Len(queue) - 1 /\ DOMAIN queue' = 1 .. Len(queue) - 1
         /\ \A i \in 1 .. Len(queue) - 1 : queue'[i] = queue[i + 1]
         /\ queue' = [i \in 1 .. Len(queue) - 1 |-> queue[i + 1]]
<1>1. queue # <<>> /\ Event = Head(queue) /\ queue' = Tail(queue)
  BY EventRingInOrder DEF EventsInOrder, Advance
<1>2. PICK S : queue \in Seq(S)
  BY QueueFacts
<1>3. Len(queue) \in Nat /\ Len(queue) > 0
  BY <1>1, <1>2, EmptySeq
<1>4. /\ queue' \in Seq(S) /\ Len(queue') = Len(queue) - 1
      /\ \A i \in 1 .. Len(queue) - 1 : queue'[i] = queue[i + 1]
  BY <1>1, <1>2, HeadTailProperties
<1>5. queue' \in [1 .. Len(queue) - 1 -> S] /\ DOMAIN queue' = 1 .. Len(queue) - 1
  BY <1>4, LenProperties
<1>6. queue' = [i \in 1 .. Len(queue) - 1 |-> queue[i + 1]]
  BY <1>4, <1>5
<1>7. queue[1] = Event
  BY <1>1, <1>2, HeadTailProperties
<1>8. QED
  BY <1>3, <1>4, <1>5, <1>6, <1>7

(* Taking an event moves the dequeue pointer and keeps the ring in order.  *)
LEMMA AdvanceStep ==
  ASSUME EventRing, Pending, Advance, UNCHANGED <<event_ring, xhc>>,
         erdp' \in {erdp, event_dequeue'}
  PROVE  EventRing'
<1> DEFINE N == EVENT_RING_SIZE
           d == event_dequeue
           e == xhc.enqueue
           n == Ahead(d, e)
<1>1. /\ N \in Nat /\ N >= 2 /\ d \in 0 .. N - 1 /\ e \in 0 .. N - 1 /\ erdp \in 0 .. N - 1
      /\ event_cycle \in {0, 1} /\ xhc.cycle \in {0, 1}
      /\ xhc.cycle = event_cycle <=> d <= e
  BY Sizes DEF EventRing, EventPlaces
<1>2. d # e
  BY <1>1 DEF EventRing, Pending, Toggle, EventPlaces
<1>3. /\ event_dequeue' = IF d + 1 = N THEN 0 ELSE d + 1
      /\ event_cycle' = IF event_dequeue' = 0 THEN Toggle(event_cycle) ELSE event_cycle
  BY NextPlace DEF Advance, EventRing
<1>4. event_dequeue' \in 0 .. N - 1 /\ erdp' \in 0 .. N - 1 /\ event_cycle' \in {0, 1}
  BY <1>1, <1>3 DEF Toggle
<1>5. xhc'.cycle = event_cycle' <=> event_dequeue' <= xhc'.enqueue
  BY <1>1, <1>2, <1>3 DEF Toggle
<1>6. n \in 1 .. N - 1 /\ Ahead(event_dequeue', e) = n - 1
  BY <1>1, <1>2, <1>3 DEF Ahead
<1>7. Ahead(erdp', event_dequeue') + Ahead(event_dequeue', e) = Ahead(erdp', e)
  <2>1. Ahead(erdp, d) + Ahead(d, e) = Ahead(erdp, e)
    BY DEF EventRing
  <2>2. CASE erdp' = erdp
    <3> DEFINE after == event_dequeue'
               far == Ahead(erdp, d)
               left == Ahead(d, e)
               all == Ahead(erdp, e)
    <3>1. /\ far \in 0 .. N - 1 /\ all \in 0 .. N - 1 /\ left \in 1 .. N - 1
          /\ Ahead(after, e) = left - 1
      BY <1>1, <1>6 DEF Ahead
    <3>2. /\ after # erdp => Ahead(erdp, after) = far + 1
          /\ after = erdp => far = N - 1
      <4>1. erdp \in EventPlaces /\ d \in EventPlaces /\ after \in EventPlaces
        BY <1>1, <1>4 DEF EventPlaces
      <4>2. QED
        BY <1>3, <4>1, AheadNext
    <3> HIDE DEF after, far, left, all
    <3>3. far + left = all
      BY <2>1 DEF far, left, all
    <3>4. Ahead(erdp, after) + Ahead(after, e) = all
      BY <1>1, <3>1, <3>2, <3>3
    <3>5. QED
      BY <2>2, <3>4 DEF after, all
  <2>3. CASE erdp' = event_dequeue'
    BY <1>1, <1>3, <2>3 DEF Ahead
  <2>4. QED
    BY <2>2, <2>3
<1>8. queue' = [i \in 1 .. n - 1 |-> event_ring[Place(event_dequeue' + i - 1)]]
  <2>1. /\ Len(queue) = n
        /\ \A i \in 1 .. n : queue[i] = event_ring[Place(d + i - 1)]
    BY QueueFacts
  <2>2. queue' = [i \in 1 .. n - 1 |-> queue[i + 1]]
    BY <2>1, Taken
  <2> HIDE DEF n
  <2>3. ASSUME NEW i \in 1 .. n - 1
        PROVE  queue[i + 1] = event_ring[Place(event_dequeue' + i - 1)]
    <3>1. i + 1 \in 1 .. n
      BY <1>6
    <3>2. Place(d + (i + 1) - 1) = Place(event_dequeue' + i - 1)
      BY <1>1, <1>3, <1>6 DEF Place
    <3>3. QED
      BY <2>1, <3>1, <3>2
  <2>4. QED
    BY <2>2, <2>3
<1>9. /\ xhc' \in [command : Nat, ccs : {0, 1}, enqueue : EventPlaces, cycle : {0, 1}]
      /\ DOMAIN event_ring' = EventPlaces
      /\ \A j \in EventPlaces :
           event_ring'[j].cycle = IF j < xhc'.enqueue THEN xhc'.cycle ELSE Toggle(xhc'.cycle)
  BY DEF EventRing
<1>10. QED
  BY <1>4, <1>5, <1>6, <1>7, <1>8, <1>9 DEF EventRing, EventPlaces

(* The controller posts an event: behind the others, in a free place.      *)
LEMMA PostStep ==
  ASSUME EventRing, NEW kind, NEW slot, NEW ok, NEW of, Post(kind, slot, ok, of),
         NEW command \in Nat,
         xhc' = [Posted EXCEPT !.command = command],
         UNCHANGED <<event_dequeue, event_cycle, erdp>>
  PROVE  /\ EventRing' /\ xhc'.command = command /\ xhc'.ccs = xhc.ccs
         /\ Len(queue') = Len(queue) + 1 /\ DOMAIN queue' = 1 .. Len(queue) + 1
         /\ \A i \in 1 .. Len(queue) : queue'[i] = queue[i]
         /\ queue'[Len(queue) + 1].kind = kind
         /\ queue'[Len(queue) + 1].of = of
<1> DEFINE N == EVENT_RING_SIZE
           d == event_dequeue
           e == xhc.enqueue
           after == IF e + 1 = N THEN 0 ELSE e + 1
           n == Ahead(d, e)
           event == [kind |-> kind, slot |-> slot, ok |-> ok, of |-> of, cycle |-> xhc.cycle]
<1>1. /\ N \in Nat /\ N >= 2 /\ d \in 0 .. N - 1 /\ e \in 0 .. N - 1 /\ erdp \in 0 .. N - 1
      /\ event_cycle \in {0, 1} /\ xhc.cycle \in {0, 1}
      /\ xhc.cycle = event_cycle <=> d <= e
  BY Sizes DEF EventRing, EventPlaces
<1>2. (e + 1) % N = after /\ after \in 0 .. N - 1
  BY <1>1, NextPlace DEF EventPlaces
<1>3. after # erdp /\ event_ring' = [event_ring EXCEPT ![e] = event]
  BY <1>2 DEF Post
<1>4. /\ xhc' \in [command : Nat, ccs : {0, 1}, enqueue : EventPlaces, cycle : {0, 1}]
      /\ xhc'.enqueue = after
      /\ xhc'.cycle = IF after = 0 THEN Toggle(xhc.cycle) ELSE xhc.cycle
      /\ xhc'.command = command /\ xhc'.ccs = xhc.ccs
  <2> DEFINE cycle == IF after = 0 THEN Toggle(xhc.cycle) ELSE xhc.cycle
  <2>1. Posted = [xhc EXCEPT !.enqueue = after, !.cycle = cycle]
    BY <1>2 DEF Posted
  <2>2. cycle \in {0, 1} /\ after \in EventPlaces
    BY <1>1, <1>2 DEF Toggle, EventPlaces
  <2>3. xhc \in [command : Nat, ccs : {0, 1}, enqueue : EventPlaces, cycle : {0, 1}]
    BY DEF EventRing
  <2> HIDE DEF cycle, after, e
  <2>4. xhc' = [xhc EXCEPT !.enqueue = after, !.cycle = cycle, !.command = command]
    BY <2>1, <2>3
  <2>5. QED
    BY <2>2, <2>3, <2>4 DEF cycle
<1>5. DOMAIN event_ring = EventPlaces /\ e \in EventPlaces
  BY DEF EventRing
<1>6. /\ event_ring'[e] = event /\ DOMAIN event_ring' = EventPlaces
      /\ \A j \in EventPlaces \ {e} : event_ring'[j] = event_ring[j]
  BY <1>3, <1>5
<1>7. Ahead(erdp, d) + Ahead(d, e) = Ahead(erdp, e)
  BY DEF EventRing
<1>8. /\ n \in 0 .. N - 2 /\ Ahead(d, after) = n + 1
      /\ Ahead(erdp, d) + Ahead(d, after) = Ahead(erdp, after)
  <2> DEFINE far == Ahead(erdp, d)
             all == Ahead(erdp, e)
  <2>1. /\ far \in 0 .. N - 1 /\ n \in 0 .. N - 1
        /\ Ahead(erdp, after) = all + 1 /\ all \in 0 .. N - 2
        /\ after # d => Ahead(d, after) = n + 1
        /\ after = d => n = N - 1
    <3>1. /\ erdp \in EventPlaces /\ d \in EventPlaces /\ e \in EventPlaces
          /\ after \in EventPlaces
      BY <1>1, <1>2 DEF EventPlaces
    <3>2. /\ far \in 0 .. N - 1 /\ n \in 0 .. N - 1 /\ all \in 0 .. N - 1
      BY <1>1 DEF Ahead
    <3>3. Ahead(erdp, after) = all + 1 /\ all < N - 1
      BY <1>3, <3>1, AheadNext
    <3>4. /\ after # d => Ahead(d, after) = n + 1
          /\ after = d => n = N - 1
      BY <3>1, AheadNext
    <3> HIDE DEF far, n, all, after
    <3>5. all \in 0 .. N - 2
      BY <1>1, <3>2, <3>3
    <3>6. QED
      BY <3>2, <3>3, <3>4, <3>5
  <2>2. far + n = all
    BY <1>7
  <2> HIDE DEF far, n, all, after
  <2>3. n \in 0 .. N - 2 /\ Ahead(d, after) = n + 1 /\ far + (n + 1) = all + 1
    BY <1>1, <2>1, <2>2
  <2>4. QED
    BY <2>1, <2>3 DEF far
<1>9. xhc'.cycle = event_cycle <=> d <= after
  BY <1>1, <1>4, <1>8 DEF Toggle, Ahead
<1>10. ASSUME NEW j \in EventPlaces
       PROVE  event_ring'[j].cycle = IF j < after THEN xhc'.cycle ELSE Toggle(xhc'.cycle)
  <2>1. event.cycle = xhc.cycle
    OBVIOUS
  <2>2. event_ring[j].cycle = IF j < e THEN xhc.cycle ELSE Toggle(xhc.cycle)
    BY DEF EventRing
  <2> HIDE DEF event
  <2>3. CASE j = e
    BY <1>1, <1>4, <1>6, <2>1, <2>3 DEF Toggle
  <2>4. CASE j # e
    <3>1. event_ring'[j].cycle = IF j < e THEN xhc.cycle ELSE Toggle(xhc.cycle)
      BY <1>6, <2>2, <2>4
    <3>2. CASE xhc'.cycle = xhc.cycle /\ after = e + 1
      BY <1>1, <2>4, <3>1, <3>2 DEF EventPlaces
    <3>3. CASE xhc'.cycle = Toggle(xhc.cycle) /\ after = 0 /\ e = N - 1
      <4>1. j < e /\ ~ (j < after)
        BY <1>1, <2>4, <3>3 DEF EventPlaces
      <4>2. Toggle(Toggle(xhc.cycle)) = xhc.cycle
        BY <1>1 DEF Toggle
      <4>3. QED
        BY <3>1, <3>3, <4>1, <4>2
    <3>4. QED
      BY <1>1, <1>4, <3>2, <3>3
  <2>5. QED
    BY <2>3, <2>4
<1>11. /\ Len(queue) = n /\ DOMAIN queue = 1 .. n
       /\ \A i \in 1 .. n : queue[i] = event_ring[Place(d + i - 1)]
  BY QueueFacts
<1>12. PICK S0 : queue \in Seq(S0)
  BY QueueFacts
<1> DEFINE S == S0 \cup {event}
<1>13. queue \in Seq(S) /\ event \in S /\ queue' = Append(queue, event)
  BY <1>3, <1>5, <1>6, <1>12, SeqMonotonic DEF Post
<1> HIDE DEF S, event, n
<1>14. /\ queue' \in Seq(S) /\ Len(queue') = n + 1 /\ queue'[n + 1] = event
       /\ \A i \in 1 .. n : queue'[i] = queue[i]
  BY <1>8, <1>11, <1>13, AppendProperties
<1>15. queue' \in [1 .. n + 1 -> S] /\ DOMAIN queue' = 1 .. n + 1
  BY <1>14, LenProperties
<1>16. ASSUME NEW i \in 1 .. n + 1
       PROVE  queue'[i] = event_ring'[Place(d + i - 1)]
  <2>1. CASE i = n + 1
    <3>1. Place(d + i - 1) = e
      BY <1>1, <2>1 DEF Place, n, Ahead
    <3>2. QED
      BY <1>6, <1>14, <2>1, <3>1
  <2>2. CASE i \in 1 .. n
    <3>1. Place(d + i - 1) \in EventPlaces \ {e}
      BY <1>1, <2>2 DEF Place, n, Ahead, EventPlaces
    <3>2. QED
      BY <1>6, <1>11, <1>14, <2>2, <3>1
  <2>3. QED
    BY <1>8, <2>1, <2>2
<1>17. queue' = [i \in 1 .. n + 1 |-> event_ring'[Place(d + i - 1)]]
  BY <1>15, <1>16
<1>18. EventRing'
  BY <1>1, <1>4, <1>6, <1>8, <1>9, <1>10, <1>17 DEF EventRing, EventPlaces
<1>19. event.kind = kind /\ event.of = of
  BY DEF event
<1>20. QED
  BY <1>4, <1>11, <1>14, <1>15, <1>18, <1>19

(* Neither ring nor queue is touched.                                      *)
LEMMA EventsUntouched ==
  ASSUME EventRing, UNCHANGED <<event_dequeue, event_cycle, event_ring, xhc, queue>>,
         erdp' \in {erdp, event_dequeue}
  PROVE  EventRing'
<1>1. Ahead(event_dequeue, event_dequeue) = 0
  BY Sizes DEF Ahead, EventRing, EventPlaces
<1>2. Ahead(event_dequeue, xhc.enqueue) \in Int
  BY Sizes DEF Ahead, EventRing, EventPlaces
<1>3. Ahead(erdp', event_dequeue) + Ahead(event_dequeue, xhc.enqueue)
        = Ahead(erdp', xhc.enqueue)
  BY <1>1, <1>2 DEF EventRing
<1>4. erdp' \in EventPlaces
  BY DEF EventRing
<1>5. QED
  BY <1>3, <1>4 DEF EventRing

-----------------------------------------------------------------------------
(* Commands and their answers                                              *)

(* A command that is sent goes into the next place of the ring; its last   *)
(* place in front of the Link TRB stays free.                              *)
LEMMA SendStep ==
  ASSUME CommandRing, NEW kind, NEW slot, NEW wait, NEW failed,
         xhci_send_command(kind, slot, wait, failed), UNCHANGED xhc
  PROVE  /\ CommandRing'
         /\ \/ pc' = failed /\ sent' = sent
            \/ pc' = wait /\ sent' = sent + 1
<1> DEFINE N == CMD_RING_SIZE
           command == [kind |-> kind, slot |-> slot, id |-> sent + 1, cycle |-> cmd_cycle]
<1>1. N \in Nat /\ N >= 3 /\ sent \in 0 .. N - 2 /\ cmd_enqueue = sent /\ cmd_cycle = 1
  BY Sizes DEF CommandRing
<1>2. RingFull <=> sent = N - 2
  <2>1. sent + 1 \in 1 .. N - 1
    BY <1>1
  <2> HIDE DEF N
  <2>2. (sent + 1) % N = sent + 1
    BY <1>1, <2>1
  <2>3. RingFull <=> (sent + 1) % N \in {N - 1, 0}
    BY <1>1 DEF RingFull, N
  <2>4. QED
    BY <1>1, <2>1, <2>2, <2>3
<1>3. CASE RingFull
  BY <1>3 DEF xhci_send_command, CommandRing, commands
<1>4. CASE ~RingFull
  <2>1. /\ cmd_ring' = [cmd_ring EXCEPT ![sent] = command]
        /\ sent' = sent + 1 /\ pc' = wait
        /\ cmd_enqueue' = sent + 1 /\ cmd_cycle' = 1
    BY <1>1, <1>2, <1>4 DEF xhci_send_command
  <2>2. /\ DOMAIN cmd_ring = 0 .. N - 1 /\ xhc.ccs = 1 /\ xhc.command \in 0 .. sent
        /\ \A i \in 0 .. sent - 1 : cmd_ring[i].id = i + 1
        /\ \A i \in sent .. N - 2 : cmd_ring[i].cycle = 0
    BY DEF CommandRing
  <2>3. sent' \in 0 .. N - 2 /\ xhc'.command \in 0 .. sent'
    BY <1>1, <1>2, <1>4, <2>1, <2>2
  <2>4. ASSUME NEW i \in 0 .. sent PROVE cmd_ring'[i].id = i + 1
    <3>1. CASE i = sent
      BY <1>1, <2>1, <2>2, <3>1
    <3>2. CASE i \in 0 .. sent - 1
      BY <1>1, <2>1, <2>2, <3>2
    <3>3. QED
      BY <1>1, <3>1, <3>2
  <2>5. ASSUME NEW i \in sent + 1 .. N - 2 PROVE cmd_ring'[i].cycle = 0
    BY <1>1, <2>1, <2>2
  <2>6. DOMAIN cmd_ring' = 0 .. N - 1
    BY <2>1, <2>2
  <2>7. CommandRing'
    BY <1>1, <2>1, <2>2, <2>3, <2>4, <2>5, <2>6 DEF CommandRing
  <2>8. QED
    BY <2>1, <2>7
<1>5. QED
  BY <1>3, <1>4

(* Which command events are left when one event is taken.                  *)
LEMMA TakenCommands ==
  ASSUME EventRing, Pending, Advance
  PROVE  /\ CommandEvents = {} => Event.kind # "command" /\ CommandEvents' = {}
         /\ \A i \in DOMAIN queue :
              CommandEvents = {i} =>
                IF Event.kind = "command" THEN i = 1 /\ CommandEvents' = {}
                ELSE /\ i - 1 \in DOMAIN queue' /\ CommandEvents' = {i - 1}
                     /\ queue'[i - 1] = queue[i]
<1> DEFINE n == Len(queue)
<1>1. /\ n \in Nat /\ n > 0 /\ queue[1] = Event /\ DOMAIN queue = 1 .. n
      /\ DOMAIN queue' = 1 .. n - 1
      /\ \A i \in 1 .. n - 1 : queue'[i] = queue[i + 1]
  BY Taken, QueueFacts, Sizes
<1> HIDE DEF n
<1>2. 1 \in CommandEvents <=> Event.kind = "command"
  BY <1>1 DEF CommandEvents
<1>3. \A j : j \in CommandEvents' <=> j \in 1 .. n - 1 /\ j + 1 \in CommandEvents
  BY <1>1 DEF CommandEvents
<1>4. CommandEvents = {} => Event.kind # "command" /\ CommandEvents' = {}
  BY <1>2, <1>3
<1>5. ASSUME NEW i \in DOMAIN queue, CommandEvents = {i}, Event.kind = "command"
      PROVE  i = 1 /\ CommandEvents' = {}
  <2>1. i = 1
    BY <1>2, <1>5
  <2>2. \A j : j \notin CommandEvents'
    BY <1>1, <1>3, <1>5, <2>1
  <2>3. QED
    BY <2>1, <2>2
<1>6. ASSUME NEW i \in DOMAIN queue, CommandEvents = {i}, Event.kind # "command"
      PROVE  /\ i - 1 \in DOMAIN queue' /\ CommandEvents' = {i - 1}
             /\ queue'[i - 1] = queue[i]
  <2>1. i # 1 /\ i \in 2 .. n /\ i - 1 \in 1 .. n - 1 /\ (i - 1) + 1 = i
    BY <1>1, <1>2, <1>6
  <2>2. \A j : j \in CommandEvents' <=> j = i - 1
    BY <1>1, <1>3, <1>6, <2>1
  <2>3. CommandEvents' = {i - 1}
    BY <2>2
  <2>4. QED
    BY <1>1, <2>1, <2>3
<1>7. QED
  BY <1>4, <1>5, <1>6

-----------------------------------------------------------------------------
(* What the steps do to the rings                                          *)

(* A step that has nothing to do with commands and events.                 *)
LEMMA QuietStep ==
  ASSUME RingInv, Waiting' <=> Waiting,
         UNCHANGED <<events, event_ring, xhc, queue, commands, missed>>
  PROVE  RingInv'
<1>1. EventRing'
  BY EventsUntouched DEF RingInv, events
<1>2. CommandRing' /\ OneCommand'
  BY DEF RingInv, CommandRing, OneCommand, CommandEvents, commands
<1>3. QED
  BY <1>1, <1>2 DEF RingInv

(* The driver takes an event and goes on with what it was at.              *)
LEMMA TakeStep ==
  ASSUME RingInv, Pending, Advance, erdp' \in {erdp, event_dequeue'},
         UNCHANGED <<event_ring, xhc, commands>>, missed \subseteq missed',
         Waiting' <=> Waiting, Waiting => Event.kind # "command"
  PROVE  RingInv'
<1>1. EventRing'
  BY AdvanceStep DEF RingInv
<1>2. CommandRing'
  BY DEF RingInv, CommandRing, commands
<1>3. OneCommand'
  <2> SUFFICES ASSUME "command" \notin missed' PROVE OneCommand'
    BY DEF OneCommand
  <2>1. /\ sent' = sent /\ xhc'.command = xhc.command
        /\ CommandEvents = {} => CommandEvents' = {}
        /\ \A i \in DOMAIN queue :
             CommandEvents = {i} /\ Event.kind # "command" =>
               /\ i - 1 \in DOMAIN queue' /\ CommandEvents' = {i - 1}
               /\ queue'[i - 1] = queue[i]
    BY TakenCommands DEF RingInv, commands
  <2>2. \/ ~Waiting /\ xhc.command = sent /\ CommandEvents = {}
        \/ Waiting /\ xhc.command = sent - 1 /\ CommandEvents = {}
        \/ /\ Waiting /\ xhc.command = sent
           /\ \E i \in DOMAIN queue : CommandEvents = {i} /\ queue[i].of = sent
    BY DEF RingInv, OneCommand
  <2>3. CASE CommandEvents = {}
    BY <2>1, <2>2, <2>3 DEF OneCommand
  <2>4. CASE /\ Waiting /\ xhc.command = sent
             /\ \E i \in DOMAIN queue : CommandEvents = {i} /\ queue[i].of = sent
    <3>1. PICK i \in DOMAIN queue : CommandEvents = {i} /\ queue[i].of = sent
      BY <2>4
    <3>2. /\ i - 1 \in DOMAIN queue' /\ CommandEvents' = {i - 1}
          /\ queue'[i - 1].of = sent'
      BY <2>1, <2>4, <3>1
    <3>3. QED
      BY <2>1, <2>4, <3>2 DEF OneCommand
  <2>5. QED
    BY <2>2, <2>3, <2>4
<1>4. QED
  BY <1>1, <1>2, <1>3 DEF RingInv

(* The driver takes the answer to its command: none is left.               *)
LEMMA Answered ==
  ASSUME RingInv, Waiting, TakeEvent, Event.kind = "command",
         UNCHANGED <<event_ring, xhc>>
  PROVE  /\ EventRing'
         /\ "command" \notin missed => xhc.command = sent /\ CommandEvents' = {}
<1>1. EventRing'
  BY AdvanceStep DEF RingInv, TakeEvent
<1>2. /\ CommandEvents = {} => Event.kind # "command"
      /\ \A i \in DOMAIN queue : CommandEvents = {i} => CommandEvents' = {}
  BY TakenCommands DEF RingInv, TakeEvent
<1>3. "command" \notin missed =>
        xhc.command = sent /\ \E i \in DOMAIN queue : CommandEvents = {i}
  BY <1>2 DEF RingInv, OneCommand
<1>4. QED
  BY <1>1, <1>2, <1>3

(* The event of a command ends the wait for it.                            *)
LEMMA AnswerStep ==
  ASSUME RingInv, Waiting, TakeEvent, Event.kind = "command",
         UNCHANGED <<event_ring, xhc, commands, missed>>, ~Waiting'
  PROVE  RingInv'
<1>1. EventRing' /\ ("command" \notin missed => xhc.command = sent /\ CommandEvents' = {})
  BY Answered
<1>2. CommandRing'
  BY DEF RingInv, CommandRing, commands
<1>3. OneCommand'
  BY <1>1 DEF OneCommand, commands
<1>4. QED
  BY <1>1, <1>2, <1>3 DEF RingInv

(* The driver sends a command while none is on its way.                    *)
LEMMA CommandStep ==
  ASSUME EventRing', CommandRing, UNCHANGED xhc, missed \subseteq missed',
         "command" \notin missed => xhc.command = sent /\ CommandEvents' = {},
         NEW kind, NEW slot,
         NEW wait \in {"wait_enable", "wait_address", "wait_configure"},
         xhci_send_command(kind, slot, wait, "next")
  PROVE  RingInv'
<1>1. /\ CommandRing'
      /\ \/ pc' = "next" /\ sent' = sent
         \/ pc' = wait /\ sent' = sent + 1
  BY SendStep
<1>2. sent \in Nat
  BY Sizes DEF CommandRing
<1>3. CASE pc' = "next" /\ sent' = sent
  BY <1>1, <1>3 DEF RingInv, OneCommand, Waiting
<1>4. CASE pc' = wait /\ sent' = sent + 1
  <2>1. sent = sent' - 1 /\ Waiting'
    BY <1>2, <1>4 DEF Waiting
  <2>2. OneCommand'
    BY <2>1 DEF OneCommand
  <2>3. QED
    BY <1>1, <2>2 DEF RingInv
<1>5. QED
  BY <1>1, <1>3, <1>4

(* The controller posts an event: the answer to a command, or another one. *)
LEMMA OtherEventStep ==
  ASSUME RingInv, NEW kind, kind # "command", NEW slot, NEW ok, NEW of,
         Post(kind, slot, ok, of), xhc' = Posted,
         UNCHANGED <<events, commands, missed>>, Waiting' <=> Waiting
  PROVE  RingInv'
<1>1. /\ xhc' = [Posted EXCEPT !.command = xhc.command] /\ xhc.command \in Nat
      /\ EventRing /\ UNCHANGED <<event_dequeue, event_cycle, erdp>>
  BY DEF Posted, RingInv, EventRing, events
<1>2. /\ EventRing' /\ xhc'.command = xhc.command /\ xhc'.ccs = xhc.ccs
      /\ DOMAIN queue' = 1 .. Len(queue) + 1
      /\ \A i \in 1 .. Len(queue) : queue'[i] = queue[i]
      /\ queue'[Len(queue) + 1].kind = kind
  <2>1. PICK m \in Nat : m = xhc.command
    BY <1>1
  <2>2. xhc' = [Posted EXCEPT !.command = m] /\ EventRing
        /\ UNCHANGED <<event_dequeue, event_cycle, erdp>>
    BY <1>1, <2>1
  <2>3. /\ EventRing' /\ xhc'.command = m /\ xhc'.ccs = xhc.ccs
        /\ DOMAIN queue' = 1 .. Len(queue) + 1
        /\ \A i \in 1 .. Len(queue) : queue'[i] = queue[i]
        /\ queue'[Len(queue) + 1].kind = kind
    BY <2>2, PostStep, Zenon
  <2> QED  BY <2>1, <2>3
<1>3. Len(queue) \in Nat /\ DOMAIN queue = 1 .. Len(queue)
  BY QueueFacts, Sizes DEF RingInv
<1>4. CommandEvents' = CommandEvents
  <2>1. \A i \in 1 .. Len(queue) + 1 : i \in 1 .. Len(queue) \/ i = Len(queue) + 1
    BY <1>3
  <2>2. \A i : i \in CommandEvents' <=> i \in CommandEvents
    BY <1>2, <1>3, <2>1 DEF CommandEvents
  <2>3. QED
    BY <2>2
<1>5. CommandRing'
  BY <1>2 DEF RingInv, CommandRing, commands
<1>6. OneCommand'
  BY <1>2, <1>3, <1>4 DEF RingInv, OneCommand, commands
<1>7. QED
  BY <1>2, <1>5, <1>6 DEF RingInv

(* Only a command that was sent is executed, and only once.                *)
LEMMA ExecuteStep ==
  ASSUME RingInv, NEW ok \in BOOLEAN, xhc_command(ok)
  PROVE  RingInv'
<1>1. PICK slot : /\ Post("command", slot, ok, Command.id)
                  /\ Command.cycle = xhc.ccs
                  /\ xhc' = [Posted EXCEPT !.command = @ + 1]
                  /\ UNCHANGED <<software, hc>>
  BY DEF xhc_command
<1>2. xhc' = [Posted EXCEPT !.command = xhc.command + 1] /\ xhc.command + 1 \in Nat
  BY <1>1 DEF Posted, RingInv, EventRing
<1>3. UNCHANGED <<pc, missed, cmd_ring, cmd_enqueue, cmd_cycle, sent, event_dequeue,
                  event_cycle, erdp>>
  BY <1>1 DEF software, commands, events
<1>4. /\ EventRing' /\ xhc'.command = xhc.command + 1 /\ xhc'.ccs = xhc.ccs
      /\ DOMAIN queue' = 1 .. Len(queue) + 1
      /\ \A i \in 1 .. Len(queue) : queue'[i] = queue[i]
      /\ queue'[Len(queue) + 1].kind = "command"
      /\ queue'[Len(queue) + 1].of = Command.id
  BY <1>1, <1>2, <1>3, PostStep DEF RingInv
<1>5. xhc.command \in 0 .. sent - 1 /\ Command.id = xhc.command + 1 /\ sent \in Nat
  <2>1. /\ sent \in 0 .. CMD_RING_SIZE - 2 /\ xhc.ccs = 1 /\ xhc.command \in 0 .. sent
        /\ \A i \in 0 .. sent - 1 : cmd_ring[i].id = i + 1
        /\ \A i \in sent .. CMD_RING_SIZE - 2 : cmd_ring[i].cycle = 0
    BY DEF RingInv, CommandRing
  <2>2. xhc.command # sent
    BY <1>1, <2>1, Sizes DEF Command
  <2>3. QED
    BY <2>1, <2>2, Sizes DEF Command
<1>6. CommandRing'
  BY <1>3, <1>4, <1>5 DEF RingInv, CommandRing
<1>7. Len(queue) \in Nat /\ DOMAIN queue = 1 .. Len(queue)
  BY QueueFacts, Sizes DEF RingInv
<1>8. OneCommand'
  <2> SUFFICES ASSUME "command" \notin missed PROVE OneCommand'
    BY <1>3 DEF OneCommand
  <2>1. Waiting /\ xhc.command = sent - 1 /\ CommandEvents = {}
    BY <1>5 DEF RingInv, OneCommand
  <2>2. \A i : i \in CommandEvents' <=> i = Len(queue) + 1
    BY <1>4, <1>7, <2>1 DEF CommandEvents
  <2>3. CommandEvents' = {Len(queue) + 1} /\ Len(queue) + 1 \in DOMAIN queue'
    BY <1>4, <1>7, <2>2
  <2>4. xhc'.command = sent' /\ queue'[Len(queue) + 1].of = sent' /\ Waiting'
    BY <1>3, <1>4, <1>5, <2>1 DEF Waiting
  <2>5. QED
    BY <2>3, <2>4 DEF OneCommand
<1>9. QED
  BY <1>4, <1>6, <1>8 DEF RingInv

(* The rings, action by action.                                            *)
LEMMA RingStep == RingInv /\ [Next]_vars => RingInv'
<1> SUFFICES ASSUME RingInv, [Next]_vars PROVE RingInv'
  OBVIOUS
<1> USE DEF outside
<1>1. CASE \/ xhci_init_fails \/ xhci_perform_bios_handoff \/ start_reset \/ reset_timeout
           \/ no_memory \/ init_rings \/ start_timeout \/ power_ports
  <2>1. UNCHANGED <<events, event_ring, xhc, queue, commands, missed>>
    BY <1>1 DEF xhci_init_fails, xhci_perform_bios_handoff, start_reset, reset_timeout,
       no_memory, init_rings, start_timeout, power_ports, untouched
  <2>2. ~Waiting /\ ~Waiting'
    BY <1>1 DEF xhci_init_fails, xhci_perform_bios_handoff, start_reset, reset_timeout,
       no_memory, init_rings, start_timeout, power_ports, Ends, Waiting
  <2>3. QED
    BY <2>1, <2>2, QuietStep
<1>2. CASE ignore_event
  BY <1>2, TakeStep DEF ignore_event, Answer, TakeEvent, Waiting
<1>3. CASE command_failed
  BY <1>3, AnswerStep DEF command_failed, Answer, Waiting
<1>4. CASE command_timeout
  <2>1. EventRing' /\ CommandRing'
    BY <1>4, EventsUntouched DEF command_timeout, events, commands, RingInv, CommandRing
  <2>2. OneCommand'
    BY <1>4 DEF command_timeout, OneCommand
  <2>3. QED
    BY <2>1, <2>2 DEF RingInv
<1>5. CASE next_port
  BY <1>5, QuietStep DEF next_port, Waiting
<1>6. CASE flush_event
  BY <1>6, TakeStep DEF flush_event, Waiting
<1>7. CASE enable_slot
  <2>1. /\ pc = "flush" /\ erdp' = event_dequeue
        /\ xhci_send_command("enable", 0, "wait_enable", "next")
        /\ UNCHANGED <<event_dequeue, event_cycle, queue, event_ring, xhc, missed>>
    BY <1>7 DEF enable_slot
  <2>2. EventRing'
    BY <2>1, EventsUntouched DEF RingInv
  <2>3. "command" \notin missed => xhc.command = sent /\ CommandEvents' = {}
    BY <2>1 DEF RingInv, OneCommand, Waiting, CommandEvents
  <2>4. QED
    BY <2>1, <2>2, <2>3, CommandStep DEF RingInv
<1>8. CASE xhci_address_device
  <2>1. /\ Waiting /\ TakeEvent /\ Event.kind = "command"
        /\ xhci_send_command("address", Event.slot, "wait_address", "next")
        /\ UNCHANGED <<event_ring, xhc, missed>>
    BY <1>8 DEF xhci_address_device, Answer
  <2>2. /\ EventRing'
        /\ "command" \notin missed => xhc.command = sent /\ CommandEvents' = {}
    BY <2>1, Answered
  <2>3. PICK slot : xhci_send_command("address", slot, "wait_address", "next")
    BY <2>1
  <2>4. QED
    BY <2>1, <2>2, <2>3, CommandStep DEF RingInv
<1>9. CASE xhci_get_device_descriptor
  BY <1>9, AnswerStep DEF xhci_get_device_descriptor, Answer, Waiting
<1>10. CASE descriptor_event
  BY <1>10, TakeStep DEF descriptor_event, TakeEvent, Waiting
<1>11. CASE xhci_configure_kbd_endpoint
  <2>1. /\ pc = "descriptor" /\ missed \subseteq missed'
        /\ xhci_send_command("configure", slot_id, "wait_configure", "next")
        /\ UNCHANGED <<event_dequeue, event_cycle, erdp, queue, event_ring, xhc>>
    BY <1>11 DEF xhci_configure_kbd_endpoint, events
  <2>2. EventRing'
    BY <2>1, EventsUntouched DEF RingInv
  <2>3. "command" \notin missed => xhc.command = sent /\ CommandEvents' = {}
    BY <2>1 DEF RingInv, OneCommand, Waiting, CommandEvents
  <2>4. PICK slot : xhci_send_command("configure", slot, "wait_configure", "next")
    BY <2>1
  <2>5. QED
    BY <2>1, <2>2, <2>3, <2>4, CommandStep DEF RingInv
<1>12. CASE xhci_set_boot_protocol
  BY <1>12, AnswerStep DEF xhci_set_boot_protocol, Answer, Waiting
<1>13. CASE poll_report \/ poll_other
  BY <1>13, TakeStep DEF poll_report, poll_other, TakeEvent, Waiting
<1>14. CASE \E ok \in BOOLEAN : xhc_command(ok)
  BY <1>14, ExecuteStep
<1>15. CASE \E s \in Slot : xhc_control(s)
  <2>1. PICK s \in Slot : xhc_control(s)
    BY <1>15
  <2>2. /\ UNCHANGED <<events, commands, missed>> /\ (Waiting' <=> Waiting)
        /\ \/ UNCHANGED <<event_ring, xhc, queue>>
           \/ Post("transfer", s, TRUE, 0) /\ xhc' = Posted
    BY <2>1 DEF xhc_control, software, Waiting
  <2>3. QED
    BY <2>2, QuietStep, OtherEventStep
<1>16. CASE \E s \in Slot : xhc_fetch(s)
  BY <1>16, QuietStep DEF xhc_fetch, software, Waiting
<1>17. CASE \E s \in Slot : \E ok \in BOOLEAN : xhc_report(s, ok)
  <2>1. PICK s \in Slot, ok \in BOOLEAN : xhc_report(s, ok)
    BY <1>17
  <2>2. /\ Post("transfer", s, ok, 0) /\ xhc' = Posted
        /\ UNCHANGED <<events, commands, missed>> /\ (Waiting' <=> Waiting)
    BY <2>1 DEF xhc_report, software, Waiting
  <2>3. QED
    BY <2>2, OtherEventStep
<1>18. CASE xhc_port_event
  <2>1. /\ Post("port", 0, TRUE, 0) /\ xhc' = Posted
        /\ UNCHANGED <<events, commands, missed>> /\ (Waiting' <=> Waiting)
    BY <1>18 DEF xhc_port_event, software, Waiting
  <2>2. QED
    BY <2>1, OtherEventStep
<1>19. CASE hc_stop \/ hc_reset \/ hc_start
  <2>1. OnlyRegisters
    BY <1>19, ResetIs DEF hc_stop, hc_start, OnlyRegisters
  <2>2. QED
    BY <2>1, QuietStep DEF OnlyRegisters, software, Waiting
<1>20. CASE UNCHANGED vars
  BY <1>20, QuietStep DEF vars, Waiting
<1>21. QED
  BY <1>1, <1>2, <1>3, <1>4, <1>5, <1>6, <1>7, <1>8, <1>9, <1>10, <1>11, <1>12, <1>13,
     <1>14, <1>15, <1>16, <1>17, <1>18, <1>19, <1>20 DEF Next, Driver, Controller

-----------------------------------------------------------------------------
(* Taking over the controller                                              *)

Early == {"probe", "stop", "reset", "start"}

(* From the first port on nothing is written to the registers.             *)
LEMMA OwnKept ==
  ASSUME OwnInv, pc \notin Early, pc' \notin Early, UNCHANGED hc, port' \in Nat,
         pc = "poll" => UNCHANGED <<pc, port>>
  PROVE  OwnInv'
BY DEF OwnInv, HandedOver, DriverOwns, Operating, Early

(* The phases of xhci_init and what the controller does meanwhile.         *)
LEMMA OwnStep == OwnInv /\ [Next]_vars => OwnInv'
<1> SUFFICES ASSUME OwnInv, [Next]_vars PROVE OwnInv'
  OBVIOUS
<1> USE DEF OwnInv, outside
<1>1. CASE xhci_init_fails \/ reset_timeout \/ no_memory \/ start_timeout
  BY <1>1 DEF xhci_init_fails, reset_timeout, no_memory, start_timeout, Ends, untouched,
     driver, HandedOver, DriverOwns
<1>2. CASE xhci_perform_bios_handoff \/ start_reset
  <2>1. CASE xhci_perform_bios_handoff
    BY <2>1 DEF xhci_perform_bios_handoff, untouched, driver, HandedOver, DriverOwns
  <2>2. CASE start_reset
    <3>1. pc = "stop" /\ pc' = "reset" /\ port' = port
      BY <2>2 DEF start_reset, untouched, driver
    <3>2. hc' = [hc EXCEPT !.reset = TRUE, !.wild = hc.run]
      BY <2>2 DEF start_reset
    <3>3. /\ hc' \in [bios : BOOLEAN, smi : BOOLEAN, rs : BOOLEAN, run : BOOLEAN,
                       reset : BOOLEAN, rings : BOOLEAN, wild : BOOLEAN]
          /\ hc'.bios = hc.bios /\ hc'.smi = hc.smi /\ hc'.rs = hc.rs
      BY <3>2, Zenon DEF HandedOver
    <3>4. ~hc.rs
      BY <3>1 DEF HandedOver
    <3>5. QED
      BY <3>1, <3>3, <3>4 DEF HandedOver, DriverOwns
  <2>3. QED
    BY <1>2, <2>1, <2>2
<1>3. CASE init_rings
  BY <1>3 DEF init_rings, untouched, driver, HandedOver, DriverOwns
<1>4. CASE power_ports
  BY <1>4 DEF power_ports, untouched, driver, HandedOver, DriverOwns, Operating
<1>5. CASE next_port
  <2>1. pc \notin Early /\ pc' \notin Early /\ pc # "poll" /\ port' \in Nat /\ UNCHANGED hc
    BY <1>5 DEF next_port, HandedOver, Early
  <2>2. QED
    BY <2>1, OwnKept
<1>6. CASE \/ ignore_event \/ command_failed \/ command_timeout \/ flush_event
           \/ enable_slot \/ xhci_address_device \/ xhci_get_device_descriptor
           \/ descriptor_event \/ xhci_configure_kbd_endpoint \/ xhci_set_boot_protocol
  <2>1. pc \notin Early /\ pc # "poll"
    BY <1>6 DEF ignore_event, command_failed, command_timeout, flush_event, enable_slot,
       xhci_address_device, xhci_get_device_descriptor, descriptor_event,
       xhci_configure_kbd_endpoint, xhci_set_boot_protocol, Answer, Waiting, Early
  <2>2. pc' \notin Early
    BY <1>6, <2>1 DEF ignore_event, command_failed, command_timeout, flush_event,
       enable_slot, xhci_address_device, xhci_get_device_descriptor, descriptor_event,
       xhci_configure_kbd_endpoint, xhci_set_boot_protocol, xhci_send_command, Early
  <2>3. UNCHANGED <<port, hc>>
    BY <1>6 DEF ignore_event, command_failed, command_timeout, flush_event, enable_slot,
       xhci_address_device, xhci_get_device_descriptor, descriptor_event,
       xhci_configure_kbd_endpoint, xhci_set_boot_protocol, driver
  <2>4. QED
    BY <2>1, <2>2, <2>3, OwnKept DEF HandedOver
<1>7. CASE poll_report \/ poll_other
  <2>1. pc = "poll" /\ UNCHANGED <<pc, port, hc>>
    BY <1>7 DEF poll_report, poll_other, driver
  <2>2. QED
    BY <2>1, OwnKept DEF HandedOver, Early
<1>8. CASE UNCHANGED <<pc, port, hc>>
  BY <1>8 DEF HandedOver, DriverOwns, Operating
<1>9. ASSUME Controller \/ xhc_port_event PROVE UNCHANGED <<pc, port, hc>>
  BY <1>9 DEF Controller, xhc_command, xhc_control, xhc_fetch, xhc_report, xhc_port_event,
     software, driver
<1>10. CASE hc_stop
  BY <1>10 DEF hc_stop, software, driver, HandedOver, DriverOwns, Operating
<1>11. CASE hc_reset
  <2>1. UNCHANGED <<pc, port>>
    BY <1>11, ResetIs DEF OnlyRegisters, software, driver
  <2>2. CASE hc' = [hc EXCEPT !.reset = FALSE, !.wild = FALSE,
                              !.rs = FALSE, !.run = FALSE, !.rings = FALSE]
    BY <1>11, <2>1, <2>2 DEF hc_reset, HandedOver, DriverOwns, Operating
  <2>3. CASE hc.wild /\ \E rs, run \in BOOLEAN :
               hc' = [hc EXCEPT !.reset = FALSE, !.rs = rs, !.run = run]
    <3>1. PICK rs \in BOOLEAN, run \in BOOLEAN :
            hc' = [hc EXCEPT !.reset = FALSE, !.rs = rs, !.run = run]
      BY <2>3, Zenon
    <3>2. hc.wild
      BY <2>3
    <3>3. QED
      BY <2>1, <3>1, <3>2 DEF HandedOver, DriverOwns
  <2>4. QED
    BY <1>11, <2>2, <2>3, Zenon DEF hc_reset
<1>12. CASE hc_start
  BY <1>12 DEF hc_start, software, driver, HandedOver, DriverOwns, Operating
<1>13. CASE UNCHANGED vars
  BY <1>8, <1>13 DEF vars, driver
<1>14. QED
  BY <1>1, <1>2, <1>3, <1>4, <1>5, <1>6, <1>7, <1>8, <1>9, <1>10, <1>11, <1>12, <1>13
  DEF Next, Driver

-----------------------------------------------------------------------------
(* What steps on the event ring do to the transfer events                  *)

(* The transfer events stay, though their places in the queue may change.  *)
TransfersKept ==
  /\ TransferEvents = {} => TransferEvents' = {}
  /\ \A i \in DOMAIN queue : TransferEvents = {i} =>
       \E k \in DOMAIN queue' : TransferEvents' = {k} /\ queue'[k] = queue[i]
  /\ \A i, j \in DOMAIN queue : i < j /\ TransferEvents = {i, j} =>
       \E k, l \in DOMAIN queue' : k < l /\ TransferEvents' = {k, l}
  /\ \A s : (\A i \in TransferEvents : queue[i].slot = s) =>
              \A i \in TransferEvents' : queue'[i].slot = s

(* Nothing happens to the queue.                                           *)
LEMMA QueueUntouched ==
  ASSUME UNCHANGED queue
  PROVE  TransfersKept /\ (Succeeded' <=> Succeeded) /\ CommandEvents' = CommandEvents
BY DEF TransfersKept, TransferEvents, Succeeded, CommandEvents

(* Which transfer events and answers are left when an event is taken.      *)
LEMMA TakenTransfers ==
  ASSUME EventRing, Pending, Advance
  PROVE  /\ Event.kind # "transfer" => TransfersKept
         /\ Event.kind # "command" => (Succeeded' <=> Succeeded)
         /\ 1 \in DOMAIN queue /\ queue[1] = Event
         /\ 1 \in TransferEvents <=> Event.kind = "transfer"
         /\ 1 \in CommandEvents <=> Event.kind = "command"
         /\ \A i \in DOMAIN queue : i # 1 => i - 1 \in DOMAIN queue' /\ queue'[i - 1] = queue[i]
         /\ \A j : j \in TransferEvents' <=> j + 1 \in TransferEvents /\ j \in DOMAIN queue'
         /\ DOMAIN queue \subseteq Nat \ {0} /\ DOMAIN queue' \subseteq Nat \ {0}
<1> DEFINE n == Len(queue)
<1>1. /\ n \in Nat /\ n > 0 /\ queue[1] = Event /\ DOMAIN queue = 1 .. n
      /\ DOMAIN queue' = 1 .. n - 1
      /\ \A i \in 1 .. n - 1 : queue'[i] = queue[i + 1]
  BY Taken, QueueFacts, Sizes
<1> HIDE DEF n
<1>2. /\ 1 \in TransferEvents <=> Event.kind = "transfer"
      /\ 1 \in CommandEvents <=> Event.kind = "command"
  BY <1>1 DEF CommandEvents, TransferEvents
<1>3. ASSUME NEW i \in DOMAIN queue, i # 1
      PROVE  i - 1 \in DOMAIN queue' /\ queue'[i - 1] = queue[i] /\ (i - 1) + 1 = i
  BY <1>1, <1>3
<1>4. \A j : j \in TransferEvents' <=> j + 1 \in TransferEvents /\ j \in DOMAIN queue'
  BY <1>1 DEF TransferEvents
<1>5. \A j : j \in CommandEvents' <=> j + 1 \in CommandEvents /\ j \in DOMAIN queue'
  BY <1>1 DEF CommandEvents
<1>6. DOMAIN queue \subseteq Nat \ {0} /\ DOMAIN queue' \subseteq Nat \ {0}
  BY <1>1
<1>7. ASSUME Event.kind # "command" PROVE Succeeded' <=> Succeeded
  <2>1. ASSUME Succeeded PROVE Succeeded'
    <3>1. PICK i \in CommandEvents : queue[i].ok
      BY <2>1 DEF Succeeded
    <3>2. i \in DOMAIN queue /\ i # 1
      BY <1>2, <1>7, <3>1 DEF CommandEvents
    <3>3. i - 1 \in CommandEvents' /\ queue'[i - 1].ok
      BY <1>3, <1>5, <3>1, <3>2
    <3>4. QED
      BY <3>3 DEF Succeeded
  <2>2. ASSUME Succeeded' PROVE Succeeded
    <3>1. PICK j \in CommandEvents' : queue'[j].ok
      BY <2>2 DEF Succeeded
    <3>2. j \in 1 .. n - 1 /\ j + 1 \in CommandEvents /\ queue[j + 1].ok
      BY <1>1, <1>5, <3>1
    <3>3. QED
      BY <3>2 DEF Succeeded
  <2>3. QED
    BY <2>1, <2>2
<1>8. ASSUME Event.kind # "transfer" PROVE TransfersKept
  <2>1. 1 \notin TransferEvents /\ TransferEvents \subseteq DOMAIN queue
    BY <1>2, <1>8 DEF TransferEvents
  <2>2. TransferEvents = {} => TransferEvents' = {}
    BY <1>4
  <2>3. ASSUME NEW i \in DOMAIN queue, TransferEvents = {i}
        PROVE  \E k \in DOMAIN queue' : TransferEvents' = {k} /\ queue'[k] = queue[i]
    <3>1. i # 1 /\ i - 1 \in DOMAIN queue' /\ queue'[i - 1] = queue[i]
      BY <1>3, <2>1, <2>3
    <3>2. \A j : j \in TransferEvents' <=> j = i - 1
      BY <1>1, <1>4, <2>3, <3>1
    <3>3. TransferEvents' = {i - 1}
      BY <3>2
    <3>4. QED
      BY <3>1, <3>3
  <2>4. ASSUME NEW i \in DOMAIN queue, NEW j \in DOMAIN queue, i < j, TransferEvents = {i, j}
        PROVE  \E k, l \in DOMAIN queue' : k < l /\ TransferEvents' = {k, l}
    <3>1. /\ i # 1 /\ i - 1 \in DOMAIN queue'
          /\ j # 1 /\ j - 1 \in DOMAIN queue'
      BY <1>3, <2>1, <2>4
    <3>2. \A k : k \in TransferEvents' <=> k = i - 1 \/ k = j - 1
      <4>1. i \in Nat /\ j \in Nat /\ (i - 1) + 1 = i /\ (j - 1) + 1 = j
        BY <1>6
      <4>2. i - 1 \in TransferEvents' /\ j - 1 \in TransferEvents'
        BY <1>4, <2>4, <3>1, <4>1
      <4>3. ASSUME NEW k \in TransferEvents' PROVE k = i - 1 \/ k = j - 1
        <5>1. k + 1 = i \/ k + 1 = j
          BY <1>4, <2>4
        <5>2. k \in Nat
          BY <1>4, <1>6
        <5>3. QED
          BY <4>1, <5>1, <5>2
      <4>4. QED
        BY <4>2, <4>3
    <3>3. TransferEvents' = {i - 1, j - 1} /\ i - 1 < j - 1
      BY <1>6, <2>4, <3>2
    <3>4. QED
      BY <3>1, <3>3
  <2>5. ASSUME NEW s, \A i \in TransferEvents : queue[i].slot = s, NEW j \in TransferEvents'
        PROVE  queue'[j].slot = s
    <3>1. j \in 1 .. n - 1 /\ j + 1 \in TransferEvents
      BY <1>1, <1>4
    <3>2. queue'[j] = queue[j + 1]
      BY <1>1, <3>1
    <3>3. QED
      BY <2>5, <3>1, <3>2
  <2>6. QED
    BY <2>2, <2>3, <2>4, <2>5 DEF TransfersKept
<1>9. QED
  BY <1>1, <1>2, <1>3, <1>4, <1>6, <1>7, <1>8

(* Which there are when one is posted.                                     *)
LEMMA PostedTransfers ==
  ASSUME EventRing, NEW kind, NEW slot, NEW ok, NEW of, Post(kind, slot, ok, of),
         xhc' = Posted \/ xhc' = [Posted EXCEPT !.command = @ + 1],
         UNCHANGED <<event_dequeue, event_cycle, erdp>>
  PROVE  \E m \in DOMAIN queue' :
           /\ m \notin DOMAIN queue
           /\ queue'[m].kind = kind /\ queue'[m].slot = slot /\ queue'[m].ok = ok
           /\ \A i \in DOMAIN queue : i \in DOMAIN queue' /\ i < m /\ queue'[i] = queue[i]
           /\ TransferEvents' = IF kind = "transfer" THEN TransferEvents \cup {m}
                                                     ELSE TransferEvents
           /\ CommandEvents' = IF kind = "command" THEN CommandEvents \cup {m}
                                                   ELSE CommandEvents
           /\ kind # "transfer" => TransfersKept
           /\ kind # "command" => (Succeeded' <=> Succeeded)
<1> DEFINE m == Len(queue) + 1
<1>1. /\ DOMAIN queue' = 1 .. m
      /\ \A i \in 1 .. Len(queue) : queue'[i] = queue[i]
      /\ queue'[m].kind = kind
  <2>1. xhc.command \in Nat /\ xhc.command + 1 \in Nat
    BY DEF EventRing
  <2>2. \/ xhc' = [Posted EXCEPT !.command = xhc.command]
        \/ xhc' = [Posted EXCEPT !.command = xhc.command + 1]
    BY DEF Posted, EventRing
  <2>3. CASE xhc' = [Posted EXCEPT !.command = xhc.command]
    BY <2>1, <2>3, PostStep
  <2>4. CASE xhc' = [Posted EXCEPT !.command = xhc.command + 1]
    BY <2>1, <2>4, PostStep
  <2>5. QED
    BY <2>2, <2>3, <2>4
<1>2. Len(queue) \in Nat /\ DOMAIN queue = 1 .. Len(queue) /\ \E S : queue \in Seq(S)
  BY QueueFacts, Sizes
<1>3. queue'[m].slot = slot /\ queue'[m].ok = ok
  <2> DEFINE event == [kind |-> kind, slot |-> slot, ok |-> ok, of |-> of, cycle |-> xhc.cycle]
  <2>1. xhc.enqueue \in DOMAIN event_ring
    BY DEF EventRing
  <2>2. event_ring'[xhc.enqueue] = event /\ queue' = Append(queue, event)
    BY <2>1 DEF Post
  <2>3. event.slot = slot /\ event.ok = ok
    OBVIOUS
  <2> HIDE DEF event
  <2>4. PICK S : queue \in Seq(S)
    BY <1>2
  <2>5. queue \in Seq(S \cup {event}) /\ event \in S \cup {event}
    BY <2>4, SeqMonotonic
  <2>6. queue'[Len(queue) + 1] = event
    BY <2>2, <2>5, AppendProperties
  <2>7. QED
    BY <2>3, <2>6
<1>4. m \in 1 .. m /\ m \notin 1 .. Len(queue)
  BY <1>2
<1>5. ASSUME NEW i \in DOMAIN queue PROVE i \in DOMAIN queue' /\ i < m /\ queue'[i] = queue[i]
  BY <1>1, <1>2
<1>6. \A i \in DOMAIN queue' : i \in DOMAIN queue \/ i = m
  BY <1>1, <1>2
<1> HIDE DEF m
<1>7. TransferEvents' = IF kind = "transfer" THEN TransferEvents \cup {m} ELSE TransferEvents
  BY <1>1, <1>2, <1>4, <1>5, <1>6 DEF TransferEvents
<1>8. CommandEvents' = IF kind = "command" THEN CommandEvents \cup {m} ELSE CommandEvents
  BY <1>1, <1>2, <1>4, <1>5, <1>6 DEF CommandEvents
<1>9. ASSUME kind # "transfer" PROVE TransfersKept
  <2>1. TransferEvents' = TransferEvents /\ TransferEvents \subseteq DOMAIN queue
    BY <1>7, <1>9 DEF TransferEvents
  <2>2. QED
    BY <1>5, <2>1 DEF TransfersKept
<1>10. ASSUME kind # "command" PROVE Succeeded' <=> Succeeded
  <2>1. CommandEvents' = CommandEvents /\ CommandEvents \subseteq DOMAIN queue
    BY <1>8, <1>10 DEF CommandEvents
  <2>2. QED
    BY <1>5, <2>1 DEF Succeeded
<1>11. m \in DOMAIN queue' /\ m \notin DOMAIN queue
  BY <1>1, <1>2, <1>4
<1>12. QED
  BY <1>1, <1>3, <1>5, <1>7, <1>8, <1>9, <1>10, <1>11

-----------------------------------------------------------------------------
(* Devices, commands and the two conditions                                *)

(* The transfer ring has room for more than one transfer and its Link TRB. *)
LEMMA EndpointSizes ==
  /\ EP_RING_SIZE \in Nat /\ EP_RING_SIZE >= 5
  /\ Slot \subseteq Nat \ {0}
BY XhciConstants DEF Slot

(* Tables of devices keep their types.                                     *)
LEMMA DeviceTypesStep == DeviceTypes /\ [Next]_vars => DeviceTypes'
<1> SUFFICES ASSUME DeviceTypes, [Next]_vars PROVE DeviceTypes'
  OBVIOUS
<1> USE DEF outside, inside, keyboard
<1>1. CASE UNCHANGED <<slots, addressed, ep0_ring, ep0_dequeue, ep1, ep1_configured>>
  BY <1>1 DEF DeviceTypes
<1>2. CASE \/ xhci_init_fails \/ xhci_perform_bios_handoff \/ start_reset \/ reset_timeout
           \/ no_memory \/ init_rings \/ start_timeout \/ power_ports
  BY <1>1, <1>2 DEF xhci_init_fails, xhci_perform_bios_handoff, start_reset, reset_timeout,
     no_memory, init_rings, start_timeout, power_ports, untouched
<1>3. CASE \/ ignore_event \/ command_failed \/ command_timeout \/ next_port \/ flush_event
           \/ enable_slot \/ xhci_address_device \/ descriptor_event
           \/ xhci_configure_kbd_endpoint \/ poll_report \/ poll_other
  BY <1>1, <1>3 DEF ignore_event, command_failed, command_timeout, next_port, flush_event,
     enable_slot, xhci_address_device, descriptor_event, xhci_configure_kbd_endpoint,
     poll_report, poll_other
<1>4. CASE xhci_get_device_descriptor \/ xhci_set_boot_protocol
  BY <1>4 DEF DeviceTypes, xhci_get_device_descriptor, xhci_set_boot_protocol
<1>5. ASSUME NEW ok \in BOOLEAN, xhc_command(ok) PROVE DeviceTypes'
  <2> DEFINE Is(kind) == Command.kind = kind /\ ok
             slot == IF Is("enable") THEN slots + 1 ELSE Command.slot
  <2>1. /\ Is("enable") => slots < PORTS
        /\ Is("address") => slot \in 1 .. slots
        /\ slots' = IF Is("enable") THEN slot ELSE slots
        /\ addressed' = IF Is("address") THEN addressed \cup {slot} ELSE addressed
        /\ ep1' = IF Is("configure")
                    THEN [ep1 EXCEPT ![slot] = [on |-> TRUE, at |-> 0, ccs |-> 1, busy |-> FALSE]]
                    ELSE ep1
        /\ UNCHANGED <<ep0_ring, ep0_dequeue, ep1_configured>>
    BY <1>5 DEF xhc_command, software
  <2>2. slots' \in 0 .. PORTS /\ slots <= slots'
    BY <2>1, Sizes DEF DeviceTypes
  <2>3. addressed' \subseteq 1 .. slots'
    <3>1. addressed \subseteq 1 .. slots /\ slots \in Nat
      BY Sizes DEF DeviceTypes
    <3>2. addressed' \subseteq 1 .. slots
      BY <2>1, <3>1
    <3> HIDE DEF Is, slot
    <3>3. slots' \in Nat
      BY <2>2, Sizes
    <3>4. 1 .. slots \subseteq 1 .. slots'
      BY <2>2, <3>1, <3>3
    <3>5. QED
      BY <3>2, <3>4
  <2>4. ep1' \in [Slot -> Ep1Context]
    BY <2>1 DEF DeviceTypes, Ep1Context
  <2>5. QED
    BY <2>1, <2>2, <2>3, <2>4 DEF DeviceTypes
<1>6. ASSUME NEW s \in Slot, xhc_control(s) PROVE DeviceTypes'
  BY <1>6 DEF DeviceTypes, xhc_control, software
<1>7. ASSUME NEW s \in Slot, xhc_fetch(s) \/ \E ok \in BOOLEAN : xhc_report(s, ok)
      PROVE  DeviceTypes'
  <2>1. /\ UNCHANGED <<slots, addressed, ep0_ring, ep0_dequeue, ep1_configured>>
        /\ \/ ep1' = ep1
           \/ ep1' = [ep1 EXCEPT ![s].at = 0, ![s].ccs = Toggle(@)]
           \/ ep1' = [ep1 EXCEPT ![s].busy = TRUE]
           \/ ep1' = [ep1 EXCEPT ![s].busy = FALSE, ![s].at = @ + 1]
    BY <1>7 DEF xhc_fetch, xhc_report, software
  <2>2. ep1 \in [Slot -> Ep1Context]
    BY DEF DeviceTypes
  <2>3. ep1' \in [Slot -> Ep1Context]
    <3>1. ep1[s] \in Ep1Context
      BY <2>2
    <3> DEFINE e == ep1[s]
    <3>2. /\ [e EXCEPT !.at = 0, !.ccs = Toggle(e.ccs)] \in Ep1Context
          /\ [e EXCEPT !.busy = TRUE] \in Ep1Context
          /\ [e EXCEPT !.busy = FALSE, !.at = e.at + 1] \in Ep1Context
      <4> HIDE DEF e
      <4>1. e \in Ep1Context
        BY <3>1 DEF e
      <4>2. Toggle(e.ccs) \in {0, 1} /\ e.at + 1 \in Nat
        BY <4>1 DEF Ep1Context, Toggle
      <4>3. QED
        BY <4>1, <4>2 DEF Ep1Context
    <3>3. \E new \in Ep1Context : ep1' = [ep1 EXCEPT ![s] = new]
      <4>1. CASE ep1' = ep1
        <5>1. ep1' = [ep1 EXCEPT ![s] = ep1[s]]
          BY <2>2, <4>1
        <5>2. QED
          BY <3>1, <5>1
      <4>2. CASE ep1' = [ep1 EXCEPT ![s].at = 0, ![s].ccs = Toggle(@)]
        <5>1. ep1' = [ep1 EXCEPT ![s] = [e EXCEPT !.at = 0, !.ccs = Toggle(e.ccs)]]
          BY <2>2, <3>1, <4>2
        <5>2. QED
          BY <3>2, <5>1
      <4>3. CASE ep1' = [ep1 EXCEPT ![s].busy = TRUE]
        BY <3>2, <4>3
      <4>4. CASE ep1' = [ep1 EXCEPT ![s].busy = FALSE, ![s].at = @ + 1]
        <5>1. ep1' = [ep1 EXCEPT ![s] = [e EXCEPT !.busy = FALSE, !.at = e.at + 1]]
          BY <2>2, <3>1, <4>4
        <5>2. QED
          BY <3>2, <5>1
      <4>5. QED
        BY <2>1, <4>1, <4>2, <4>3, <4>4
    <3>4. QED
      BY <2>2, <3>3
  <2>4. QED
    BY <2>1, <2>3 DEF DeviceTypes
<1>8. CASE xhc_port_event \/ hc_stop \/ hc_reset \/ hc_start
  BY <1>1, <1>8, ResetIs DEF xhc_port_event, hc_stop, hc_start, OnlyRegisters, software
<1>9. CASE UNCHANGED vars
  BY <1>1, <1>9 DEF vars
<1>10. QED
  BY <1>2, <1>3, <1>4, <1>5, <1>6, <1>7, <1>8, <1>9 DEF Next, Driver, Controller

(* A command that is sent is the last one in the ring.                     *)
LEMMA SentLast ==
  ASSUME CommandRing, NEW kind, NEW slot, NEW wait, NEW failed,
         xhci_send_command(kind, slot, wait, failed), pc' # failed
  PROVE  /\ pc' = wait
         /\ cmd_ring'[sent' - 1].kind = kind /\ cmd_ring'[sent' - 1].slot = slot
<1>1. /\ cmd_ring' = [cmd_ring EXCEPT ![sent] =
                        [kind |-> kind, slot |-> slot, id |-> sent + 1, cycle |-> cmd_cycle]]
      /\ sent' = sent + 1 /\ pc' = wait
  BY DEF xhci_send_command, CommandRing
<1>2. sent \in DOMAIN cmd_ring /\ sent \in Nat
  BY Sizes DEF CommandRing
<1>3. sent' - 1 = sent
  BY <1>1, <1>2
<1>4. QED
  BY <1>1, <1>2, <1>3

(* So the driver waits for that one.                                       *)
LEMMA LastCommandStep == LastCommand /\ CommandRing /\ [Next]_vars => LastCommand'
<1> SUFFICES ASSUME LastCommand, CommandRing, [Next]_vars PROVE LastCommand'
  OBVIOUS
<1>1. CASE ~Waiting'
  BY <1>1 DEF LastCommand, Waiting
<1>2. CASE UNCHANGED <<pc, driver, commands>>
  BY <1>2 DEF LastCommand, driver, commands
<1>3. CASE \/ xhci_init_fails \/ xhci_perform_bios_handoff \/ start_reset \/ reset_timeout
           \/ no_memory \/ init_rings \/ start_timeout \/ power_ports
  BY <1>1, <1>3 DEF xhci_init_fails, xhci_perform_bios_handoff, start_reset, reset_timeout,
     no_memory, init_rings, start_timeout, power_ports, Ends, Waiting
<1>4. CASE \/ command_failed \/ command_timeout \/ next_port \/ flush_event
           \/ xhci_get_device_descriptor \/ descriptor_event \/ xhci_set_boot_protocol
  BY <1>1, <1>4 DEF command_failed, command_timeout, next_port, flush_event,
     xhci_get_device_descriptor, descriptor_event, xhci_set_boot_protocol, Waiting
<1>5. CASE ignore_event \/ poll_report \/ poll_other
  BY <1>2, <1>5 DEF ignore_event, poll_report, poll_other
<1>6. CASE enable_slot
  <2>1. xhci_send_command("enable", 0, "wait_enable", "next")
    BY <1>6 DEF enable_slot
  <2>2. CASE pc' = "next"
    BY <1>1, <2>2 DEF Waiting
  <2>3. CASE pc' # "next"
    BY <2>1, <2>3, SentLast DEF LastCommand
  <2>4. QED
    BY <2>2, <2>3
<1>7. CASE xhci_address_device
  <2>1. xhci_send_command("address", slot_id', "wait_address", "next")
    BY <1>7 DEF xhci_address_device
  <2>2. CASE pc' = "next"
    BY <1>1, <2>2 DEF Waiting
  <2>3. CASE pc' # "next"
    <3>1. PICK slot : slot = slot_id'
      OBVIOUS
    <3>2. /\ pc' = "wait_address"
          /\ cmd_ring'[sent' - 1].kind = "address" /\ cmd_ring'[sent' - 1].slot = slot
      BY <2>1, <2>3, <3>1, SentLast
    <3>3. QED
      BY <3>1, <3>2 DEF LastCommand
  <2>4. QED
    BY <2>2, <2>3
<1>8. CASE xhci_configure_kbd_endpoint
  <2>1. xhci_send_command("configure", slot_id, "wait_configure", "next") /\ slot_id' = slot_id
    BY <1>8 DEF xhci_configure_kbd_endpoint, driver
  <2>2. CASE pc' = "next"
    BY <1>1, <2>2 DEF Waiting
  <2>3. CASE pc' # "next"
    <3>1. PICK slot : slot = slot_id
      OBVIOUS
    <3>2. /\ pc' = "wait_configure"
          /\ cmd_ring'[sent' - 1].kind = "configure" /\ cmd_ring'[sent' - 1].slot = slot
      BY <2>1, <2>3, <3>1, SentLast
    <3>3. QED
      BY <2>1, <3>1, <3>2 DEF LastCommand
  <2>4. QED
    BY <2>2, <2>3
<1>9. CASE Controller \/ xhc_port_event \/ hc_stop \/ hc_reset \/ hc_start
  BY <1>2, <1>9 DEF Controller, xhc_command, xhc_control, xhc_fetch, xhc_report,
     xhc_port_event, hc_stop, hc_reset, hc_start, software
<1>10. CASE UNCHANGED vars
  BY <1>2, <1>10 DEF vars
<1>11. QED
  BY <1>3, <1>4, <1>5, <1>6, <1>7, <1>8, <1>9, <1>10 DEF Next, Driver

(* One device at most: none, or this one; another one is too many.         *)
LEMMA FewDevices ==
  ASSUME DeviceTypes, NEW t
  PROVE  /\ Cardinality(addressed) <= 1 /\ t \in addressed => addressed = {t}
         /\ Cardinality(addressed \cup {t}) <= 1 => Cardinality(addressed) <= 1
         /\ Cardinality(addressed \cup {t}) <= 1 /\ addressed # {} => t \in addressed
<1>1. IsFiniteSet(addressed)
  <2>1. IsFiniteSet(1 .. slots) /\ addressed \subseteq 1 .. slots
    BY Sizes, FS_Interval DEF DeviceTypes
  <2>2. QED
    BY <2>1, FS_Subset
<1>2. Cardinality(addressed) \in Nat /\ IsFiniteSet(addressed \cup {t})
  BY <1>1, FS_CardinalityType, FS_AddElement
<1>3. ASSUME Cardinality(addressed) <= 1, t \in addressed PROVE addressed = {t}
  <2>1. IsFiniteSet(addressed \ {t}) /\ Cardinality(addressed \ {t}) = Cardinality(addressed) - 1
    BY <1>1, <1>3, FS_RemoveElement
  <2>2. Cardinality(addressed \ {t}) \in Nat
    BY <2>1, FS_CardinalityType
  <2>3. Cardinality(addressed \ {t}) = 0
    BY <1>2, <1>3, <2>1, <2>2
  <2>4. addressed \ {t} = {}
    BY <2>1, <2>3, FS_EmptySet
  <2>5. QED
    BY <1>3, <2>4
<1>4. ASSUME Cardinality(addressed \cup {t}) <= 1 PROVE Cardinality(addressed) <= 1
  <2>1. Cardinality(addressed) <= Cardinality(addressed \cup {t})
    BY <1>2, FS_Subset
  <2>2. Cardinality(addressed \cup {t}) \in Nat
    BY <1>2, FS_CardinalityType
  <2>3. QED
    BY <1>2, <1>4, <2>1, <2>2
<1>5. ASSUME Cardinality(addressed \cup {t}) <= 1, addressed # {}, t \notin addressed PROVE FALSE
  <2>1. Cardinality(addressed \cup {t}) = Cardinality(addressed) + 1
    BY <1>1, <1>5, FS_AddElement
  <2>2. Cardinality(addressed) = 0
    BY <1>2, <1>5, <2>1
  <2>3. QED
    BY <1>1, <1>5, <2>2, FS_EmptySet
<1>6. QED
  BY <1>3, <1>4, <1>5

(* What was disturbed once stays so.                                       *)
LEMMA UndisturbedBefore == DeviceTypes /\ [Next]_vars /\ Undisturbed' => Undisturbed
<1> SUFFICES ASSUME DeviceTypes, [Next]_vars, Undisturbed' PROVE Undisturbed
  OBVIOUS
<1> USE DEF outside, inside
<1>1. missed \subseteq missed' /\ \E S : addressed' \in {addressed, addressed \cup {S}}
  <2>1. CASE \/ xhci_init_fails \/ xhci_perform_bios_handoff \/ start_reset \/ reset_timeout
             \/ no_memory \/ init_rings \/ start_timeout \/ power_ports
    BY <2>1 DEF xhci_init_fails, xhci_perform_bios_handoff, start_reset, reset_timeout,
       no_memory, init_rings, start_timeout, power_ports, untouched
  <2>2. CASE \/ ignore_event \/ command_failed \/ command_timeout \/ next_port \/ flush_event
             \/ enable_slot \/ xhci_address_device \/ xhci_get_device_descriptor
             \/ descriptor_event \/ xhci_configure_kbd_endpoint \/ xhci_set_boot_protocol
             \/ poll_report \/ poll_other
    BY <2>2 DEF ignore_event, command_failed, command_timeout, next_port, flush_event,
       enable_slot, xhci_address_device, xhci_get_device_descriptor, descriptor_event,
       xhci_configure_kbd_endpoint, xhci_set_boot_protocol, poll_report, poll_other
  <2>3. CASE Controller \/ xhc_port_event \/ hc_stop \/ hc_reset \/ hc_start
    BY <2>3 DEF Controller, xhc_command, xhc_control, xhc_fetch, xhc_report, xhc_port_event,
       hc_stop, hc_reset, hc_start, software
  <2>4. CASE UNCHANGED vars
    BY <2>4 DEF vars
  <2>5. QED
    BY <2>1, <2>2, <2>3, <2>4 DEF Next, Driver
<1>2. Cardinality(addressed) <= 1
  BY <1>1, FewDevices DEF Undisturbed
<1>3. QED
  BY <1>1, <1>2 DEF Undisturbed

-----------------------------------------------------------------------------
(* The phases of the keyboard                                              *)

Phases == NoKeyboard \/ HasKeyboard

(* A step that leaves the keyboard, its rings and its events alone.        *)
LEMMA KeyboardAside ==
  ASSUME Phases, TransfersKept,
         UNCHANGED <<ep0_ring, transfer, keyboard, addressed, ep0_dequeue, ep1, report>>,
         pc' = "descriptor" <=> pc = "descriptor",
         pc = "descriptor" => UNCHANGED <<slot_id, got_data>>,
         pc' = "wait_configure" => pc = "wait_configure" /\ UNCHANGED slot_id,
         pc' = "wait_address" /\ Succeeded' =>
           pc = "wait_address" /\ Succeeded /\ UNCHANGED slot_id,
         pc = "wait_address" /\ Succeeded => pc' = "wait_address" /\ Succeeded'
  PROVE  Phases'
<1> USE DEF transfer, keyboard
<1>1. CASE NoKeyboard
  <2>1. addressed' = IF pc' = "wait_address" /\ Succeeded' THEN {slot_id'} ELSE {}
    BY <1>1 DEF NoKeyboard
  <2>2. TransferEvents' = {}
    BY <1>1 DEF NoKeyboard, TransfersKept
  <2>3. NoKeyboard'
    BY <1>1, <2>1, <2>2 DEF NoKeyboard
  <2>4. QED
    BY <2>3 DEF Phases
<1>2. CASE HasKeyboard
  <2>1. pc' = "wait_address" => ~Succeeded'
    BY <1>2 DEF HasKeyboard
  <2>2. CASE Describing
    <3>1. (\A i \in TransferEvents : queue[i].slot = usb_kbd_slot)
            => \A i \in TransferEvents' : queue'[i].slot = usb_kbd_slot
      BY DEF TransfersKept
    <3>2. TransferEvents = {} => TransferEvents' = {}
      BY DEF TransfersKept
    <3>3. (\E i \in DOMAIN queue : TransferEvents = {i})
            => \E i \in DOMAIN queue' : TransferEvents' = {i}
      BY DEF TransfersKept
    <3>4. (\E i, j \in DOMAIN queue : i < j /\ TransferEvents = {i, j})
            => \E i, j \in DOMAIN queue' : i < j /\ TransferEvents' = {i, j}
      BY DEF TransfersKept
    <3>5. UNCHANGED <<pc, slot_id, got_data>>
      BY <2>2 DEF Describing
    <3>6. Describing'
      BY <2>2, <3>1, <3>2, <3>3, <3>4, <3>5 DEF Describing
    <3>7. QED
      BY <1>2, <2>1, <3>6 DEF HasKeyboard, Phases
  <2>3. CASE Described /\ NotConfigured
    <3>1. TransferEvents' = {}
      BY <2>3 DEF NotConfigured, TransfersKept
    <3>2. Described' /\ NotConfigured'
      BY <2>3, <3>1 DEF Described, NotConfigured
    <3>3. QED
      BY <1>2, <2>1, <3>2 DEF HasKeyboard, Phases
  <2>4. CASE Described /\ Configured
    <3>1. EndpointAt(ep1_enqueue, ep1_cycle)' = EndpointAt(ep1_enqueue, ep1_cycle)
      BY DEF EndpointAt
    <3>2. EndpointAtLast' = EndpointAtLast
      BY DEF EndpointAtLast, EndpointAt
    <3>3. OneTransfer'
      <4>1. CASE /\ EndpointAtLast /\ TransferEvents = {} /\ report = 0
                 /\ ep1[usb_kbd_slot].busy => ep1[usb_kbd_slot].at # EP_RING_SIZE - 1
        <5>1. TransferEvents' = {}
          BY <4>1 DEF TransfersKept
        <5>2. QED
          BY <3>2, <4>1, <5>1 DEF OneTransfer
      <4>2. CASE /\ EndpointAt(ep1_enqueue, ep1_cycle) /\ ~ep1[usb_kbd_slot].busy
                 /\ \E i \in DOMAIN queue :
                      /\ TransferEvents = {i} /\ queue[i].slot = usb_kbd_slot
                      /\ report = IF queue[i].ok THEN 1 ELSE 0
        <5>1. PICK i \in DOMAIN queue : /\ TransferEvents = {i} /\ queue[i].slot = usb_kbd_slot
                                        /\ report = IF queue[i].ok THEN 1 ELSE 0
          BY <4>2
        <5>2. PICK k \in DOMAIN queue' : TransferEvents' = {k} /\ queue'[k] = queue[i]
          BY <5>1 DEF TransfersKept
        <5>3. QED
          BY <3>1, <4>2, <5>1, <5>2 DEF OneTransfer
      <4>3. QED
        BY <2>4, <4>1, <4>2 DEF Configured, OneTransfer
    <3>4. Described' /\ Configured'
      BY <2>4, <3>3 DEF Described, Configured, TransferRing
    <3>5. QED
      BY <1>2, <2>1, <3>4 DEF HasKeyboard, Phases
  <2>5. QED
    BY <1>2, <2>2, <2>3, <2>4 DEF HasKeyboard
<1>3. QED
  BY <1>1, <1>2 DEF Phases

(* xhci_queue_kbd_transfer: the endpoint, which was where the driver was,  *)
(* is now one TRB behind.                                                  *)
LEMMA QueuedTRB ==
  ASSUME TransferRing, EndpointAt(ep1_enqueue, ep1_cycle), UNCHANGED <<ep1, usb_kbd_slot>>,
         QueueTRB(ep1_ring, ep1_enqueue, ep1_cycle)
  PROVE  TransferRing' /\ EndpointAtLast'
<1> DEFINE N == EP_RING_SIZE
           e == ep1_enqueue
           c == ep1_cycle
           trb == [kind |-> "normal", cycle |-> c]
           link == [kind |-> "link", cycle |-> c]
<1>1. N \in Nat /\ N >= 5 /\ e \in 0 .. N - 2 /\ c \in {0, 1} /\ DOMAIN ep1_ring = 0 .. N - 1
  BY EndpointSizes DEF TransferRing
<1>2. /\ \A i \in 0 .. e - 1 : ep1_ring[i] = trb
      /\ \A i \in e .. N - 2 : ep1_ring[i] \in {NoTRB, [kind |-> "normal", cycle |-> Toggle(c)]}
      /\ ep1_ring[N - 1] = [kind |-> "link", cycle |-> Toggle(c)] \/ ep1_ring[N - 1] = NoTRB
  BY DEF TransferRing
<1>3. Toggle(c) \in {0, 1} /\ Toggle(Toggle(c)) = c /\ Toggle(c) # c
  BY <1>1 DEF Toggle
<1>4. CASE e + 1 >= N - 1
  <2>1. /\ ep1_ring' = [ep1_ring EXCEPT ![e] = trb, ![N - 1] = link]
        /\ ep1_enqueue' = 0 /\ ep1_cycle' = Toggle(c)
    BY <1>4 DEF QueueTRB
  <2>2. e = N - 2 /\ e # N - 1 /\ N - 1 \in DOMAIN ep1_ring /\ e \in DOMAIN ep1_ring
    BY <1>1, <1>4
  <2>3. trb.cycle = c /\ link.cycle = c /\ link.kind = "link"
    OBVIOUS
  <2> HIDE DEF trb, link
  <2>4. /\ ep1_ring'[N - 1] = link /\ ep1_ring'[e] = trb
        /\ \A i \in 0 .. e - 1 : ep1_ring'[i] = trb
        /\ DOMAIN ep1_ring' = 0 .. N - 1
    BY <1>1, <1>2, <2>1, <2>2
  <2>5. \A i \in 0 .. N - 2 : ep1_ring'[i] = trb
    <3> TAKE i \in 0 .. N - 2
    <3>1. i = e \/ i \in 0 .. e - 1
      BY <1>1, <2>2
    <3>2. QED
      BY <2>3, <2>4, <3>1
  <2>6. 0 .. ep1_enqueue' - 1 = {} /\ ep1_enqueue' \in 0 .. N - 2
    BY <1>1, <2>1
  <2>7. TransferRing'
    BY <1>1, <1>3, <2>1, <2>4, <2>5, <2>6 DEF TransferRing, link, trb
  <2>8. ep1'[usb_kbd_slot'].at = N - 2 /\ ep1'[usb_kbd_slot'].ccs = c
    BY <1>1, <2>2 DEF EndpointAt
  <2>9. Toggle(ep1_cycle') = c
    BY <1>3, <2>1
  <2> HIDE DEF c
  <2>10. EndpointAtLast'
    BY <2>1, <2>3, <2>4, <2>8, <2>9 DEF EndpointAtLast, EndpointAt
  <2>11. QED
    BY <2>7, <2>10
<1>5. CASE ~ (e + 1 >= N - 1)
  <2>1. /\ ep1_ring' = [ep1_ring EXCEPT ![e] = trb]
        /\ ep1_enqueue' = e + 1 /\ ep1_cycle' = c
    BY <1>5 DEF QueueTRB
  <2>2. e + 1 \in 0 .. N - 2 /\ e + 1 # 0 /\ (e + 1) - 1 = e /\ e # N - 1
    BY <1>1, <1>5
  <2> HIDE DEF trb, link
  <2>3. /\ ep1_ring'[e] = trb /\ DOMAIN ep1_ring' = 0 .. N - 1
        /\ \A i \in 0 .. N - 1 : i # e => ep1_ring'[i] = ep1_ring[i]
    BY <1>1, <2>1
  <2>4. \A i \in 0 .. (e + 1) - 1 : ep1_ring'[i] = trb
    <3> TAKE i \in 0 .. (e + 1) - 1
    <3>1. i = e \/ (i \in 0 .. e - 1 /\ i \in 0 .. N - 1 /\ i # e)
      BY <1>1
    <3>2. QED
      BY <1>2, <2>3, <3>1
  <2>5. \A i \in e + 1 .. N - 2 :
          ep1_ring'[i] \in {NoTRB, [kind |-> "normal", cycle |-> Toggle(c)]}
    <3> TAKE i \in e + 1 .. N - 2
    <3>1. i \in e .. N - 2 /\ i \in 0 .. N - 1 /\ i # e
      BY <1>1
    <3>2. QED
      BY <1>2, <2>3, <3>1
  <2>6. ep1_ring'[N - 1] = ep1_ring[N - 1]
    BY <1>1, <2>2, <2>3
  <2>7. TransferRing'
    BY <1>1, <1>2, <2>1, <2>2, <2>3, <2>4, <2>5, <2>6 DEF TransferRing, trb
  <2>8. LET endpoint == ep1'[usb_kbd_slot']
        IN  \/ endpoint.at = e /\ endpoint.ccs = c
            \/ /\ e = 0 /\ endpoint.at = N - 1 /\ endpoint.ccs = Toggle(c)
               /\ ep1_ring'[N - 1].kind = "link"
    BY <2>6 DEF EndpointAt
  <2>9. ep1_enqueue' # 0 /\ ep1_enqueue' - 1 = e /\ ep1_cycle' = c
    BY <2>1, <2>2
  <2> HIDE DEF e, c
  <2>10. EndpointAtLast'
    BY <2>8, <2>9 DEF EndpointAtLast, EndpointAt
  <2>11. QED
    BY <2>7, <2>10
<1>6. QED
  BY <1>4, <1>5

(* The keyboard has all transfer events, and none before the first one was *)
(* asked for.                                                              *)
LEMMA KeyboardEvents ==
  ASSUME Phases, NEW i \in TransferEvents
  PROVE  /\ HasKeyboard /\ queue[i].slot = usb_kbd_slot
         /\ IF pc = "descriptor" THEN Describing ELSE ep1_configured
<1>1. HasKeyboard
  BY DEF Phases, NoKeyboard
<1>2. CASE Describing
  <2>1. pc = "descriptor" /\ \A j \in TransferEvents : queue[j].slot = usb_kbd_slot
    BY <1>2 DEF Describing
  <2>2. QED
    BY <1>1, <1>2, <2>1
<1>3. CASE Described /\ Configured
  <2>1. PICK k \in DOMAIN queue : TransferEvents = {k} /\ queue[k].slot = usb_kbd_slot
    BY <1>3 DEF Configured, OneTransfer
  <2>2. QED
    BY <1>1, <1>3, <2>1 DEF Described, Configured
<1>4. QED
  BY <1>1, <1>2, <1>3 DEF HasKeyboard, NotConfigured

(* A transfer event that xhci_init throws away is missed.                  *)
LEMMA NothingThrownAway ==
  ASSUME Phases, EventRing, Pending, Advance, pc # "descriptor",
         missed' = missed \cup ThrownAway, Undisturbed'
  PROVE  TransfersKept
<1>1. CASE Event.kind # "transfer"
  BY <1>1, TakenTransfers
<1>2. CASE Event.kind = "transfer"
  <2>1. 1 \in TransferEvents /\ queue[1] = Event
    BY <1>2, TakenTransfers
  <2>2. Event.slot = usb_kbd_slot /\ ep1_configured
    BY <2>1, KeyboardEvents
  <2>3. "report" \in missed'
    BY <1>2, <2>2 DEF ThrownAway, FromKeyboard
  <2>4. QED
    BY <2>3 DEF Undisturbed
<1>3. QED
  BY <1>1, <1>2

(* Before the driver is at the ports, and the registers.                   *)
LEMMA QuietPhases ==
  ASSUME Phases,
         \/ xhci_init_fails \/ xhci_perform_bios_handoff \/ start_reset \/ reset_timeout
         \/ no_memory \/ init_rings \/ start_timeout \/ power_ports
         \/ hc_stop \/ hc_reset \/ hc_start \/ UNCHANGED vars
  PROVE  Phases'
<1>1. UNCHANGED <<queue, slot_id, got_data, ep0_ring, transfer, keyboard, addressed, ep0_dequeue,
                  ep1, report>>
  BY ResetIs
  DEF xhci_init_fails, xhci_perform_bios_handoff, start_reset, reset_timeout, no_memory,
      init_rings, start_timeout, power_ports, hc_stop, hc_start, OnlyRegisters, vars,
      untouched, software, driver, inside, outside
<1>2. \/ pc' = pc
      \/ pc \notin {"descriptor", "wait_address"}
         /\ pc' \notin {"descriptor", "wait_address", "wait_configure"}
  BY ResetIs
  DEF xhci_init_fails, xhci_perform_bios_handoff, start_reset, reset_timeout, no_memory,
      init_rings, start_timeout, power_ports, hc_stop, hc_start, OnlyRegisters, vars,
      software, Ends
<1>3. TransfersKept /\ (Succeeded' <=> Succeeded)
  BY <1>1, QueueUntouched
<1>4. QED
  BY <1>1, <1>2, <1>3, KeyboardAside

(* The next port, its flush and its Enable Slot.                           *)
LEMMA PortPhases ==
  ASSUME Phases, RingInv, Undisturbed', next_port \/ flush_event \/ enable_slot
  PROVE  Phases'
<1>1. UNCHANGED <<slot_id, got_data, ep0_ring, transfer, keyboard, addressed, ep0_dequeue,
                  ep1, report>>
  BY DEF next_port, flush_event, enable_slot, driver, inside, outside
<1>2. /\ pc \in {"next", "flush"}
      /\ pc' \in {"poll", "next", "flush", "wait_enable"}
  BY DEF next_port, flush_event, enable_slot, xhci_send_command
<1>3. TransfersKept
  <2>1. CASE next_port \/ enable_slot
    BY <2>1, QueueUntouched DEF next_port, enable_slot
  <2>2. CASE flush_event
    BY <1>2, <2>2, NothingThrownAway DEF flush_event, RingInv
  <2>3. QED
    BY <2>1, <2>2
<1>4. QED
  BY <1>1, <1>2, <1>3, KeyboardAside

(* The only answer there is, is the one that is taken.                     *)
LEMMA OnlyAnswer ==
  ASSUME RingInv, Undisturbed, Answer, Event.kind = "command", UNCHANGED <<event_ring, xhc>>
  PROVE  /\ Succeeded <=> Event.ok
         /\ ~Succeeded' /\ TransfersKept
<1>1. /\ EventRing /\ Pending /\ Advance /\ Waiting /\ "command" \notin missed
  BY DEF RingInv, Answer, TakeEvent, Undisturbed
<1>2. 1 \in CommandEvents /\ queue[1] = Event /\ TransfersKept
  BY <1>1, TakenTransfers
<1>3. CommandEvents' = {}
  BY <1>1, Answered DEF Answer
<1>4. CommandEvents = {1}
  BY <1>1, <1>2 DEF RingInv, OneCommand
<1>5. QED
  BY <1>2, <1>3, <1>4 DEF Succeeded

(* Waiting for a command, up to its answer.                                *)
LEMMA WaitPhases ==
  ASSUME Phases, RingInv, Undisturbed, Undisturbed',
         ignore_event \/ command_failed \/ command_timeout \/ xhci_address_device
  PROVE  Phases'
<1>1. UNCHANGED <<got_data, ep0_ring, transfer, keyboard, addressed, ep0_dequeue,
                  ep1, report, event_ring, xhc>>
  BY DEF ignore_event, command_failed, command_timeout, xhci_address_device, driver, inside,
     outside
<1>2. pc \in {"wait_enable", "wait_address", "wait_configure"}
  BY DEF ignore_event, command_failed, command_timeout, xhci_address_device, Answer, Waiting
<1>3. CASE ignore_event
  <2>1. /\ EventRing /\ Pending /\ Advance /\ Event.kind # "command"
        /\ UNCHANGED <<pc, slot_id>> /\ missed' = missed \cup ThrownAway
    BY <1>3 DEF RingInv, ignore_event, Answer, TakeEvent, driver
  <2>2. TransfersKept
    BY <1>2, <2>1, NothingThrownAway
  <2>3. Succeeded' <=> Succeeded
    BY <2>1, TakenTransfers
  <2>4. QED
    BY <1>1, <1>2, <2>1, <2>2, <2>3, KeyboardAside
<1>4. CASE command_failed
  <2>1. /\ Answer /\ Event.kind = "command" /\ ~Event.ok /\ pc' = "next"
    BY <1>4 DEF command_failed
  <2>2. TransfersKept /\ ~Succeeded
    BY <1>1, <2>1, OnlyAnswer
  <2>3. QED
    BY <1>1, <1>2, <2>1, <2>2, KeyboardAside
<1>5. CASE command_timeout
  BY <1>5 DEF command_timeout, Undisturbed
<1>6. CASE xhci_address_device
  <2>1. /\ Answer /\ Event.kind = "command" /\ pc = "wait_enable"
        /\ pc' \in {"wait_address", "next"}
    BY <1>6 DEF xhci_address_device, xhci_send_command
  <2>2. TransfersKept /\ ~Succeeded'
    BY <1>1, <2>1, OnlyAnswer
  <2>3. QED
    BY <1>1, <2>1, <2>2, KeyboardAside
<1>7. QED
  BY <1>3, <1>4, <1>5, <1>6

(* The device that answered becomes the keyboard.                          *)
LEMMA GetDescriptorPhases ==
  ASSUME Phases, DeviceTypes, RingInv, Undisturbed, xhci_get_device_descriptor
  PROVE  Phases'
<1>1. /\ pc = "wait_address" /\ Answer /\ Event.kind = "command" /\ Event.ok
      /\ usb_kbd_slot' = slot_id
      /\ ep0_ring' = [ep0_ring EXCEPT ![slot_id] = <<"get", "data", "status", "none">>]
      /\ got_data' = 0 /\ pc' = "descriptor"
      /\ UNCHANGED <<slot_id, ep1_configured, report, addressed, ep0_dequeue, ep1, event_ring, xhc>>
  BY DEF xhci_get_device_descriptor, outside, inside
<1>2. Succeeded /\ TransfersKept
  BY <1>1, OnlyAnswer
<1>3. NoKeyboard
  BY <1>1, <1>2 DEF Phases, HasKeyboard
<1>4. addressed = {slot_id} /\ slot_id \in Slot
  <2>1. addressed = {slot_id}
    BY <1>1, <1>2, <1>3 DEF NoKeyboard
  <2>2. 1 .. slots \subseteq Slot
    BY Sizes DEF DeviceTypes, Slot
  <2>3. QED
    BY <2>1, <2>2 DEF DeviceTypes
<1>5. /\ ep0_dequeue[slot_id] = 1 /\ ep1[slot_id] = NewContext
      /\ ~ep1_configured /\ report = 0
      /\ \A t \in Slot : ~ep1[t].on /\ ~ep1[t].busy
  BY <1>3, <1>4 DEF NoKeyboard, NewContext
<1>6. TransferEvents' = {}
  BY <1>2, <1>3 DEF NoKeyboard, TransfersKept
<1>7. ep0_ring'[slot_id] = <<"get", "data", "status", "none">>
  BY <1>1, <1>4 DEF DeviceTypes
<1>8. Describing'
  <2>1. ep0_dequeue'[usb_kbd_slot'] = 1
    BY <1>1, <1>5
  <2>2. QED
    BY <1>1, <1>5, <1>6, <1>7, <2>1 DEF Describing
<1>9. HasKeyboard'
  BY <1>1, <1>4, <1>5, <1>8 DEF HasKeyboard
<1>10. QED
  BY <1>9 DEF Phases

(* Every stage of the two is posted, then its event taken.                 *)
LEMMA DescriptorPhases ==
  ASSUME Phases, RingInv, Undisturbed', descriptor_event
  PROVE  Phases'
<1>1. /\ pc = "descriptor" /\ Pending /\ Advance
      /\ got_data' = IF Event.kind = "transfer" /\ Event.slot = slot_id
                       THEN got_data + 1 ELSE got_data
      /\ UNCHANGED <<pc, slot_id, ep0_ring, transfer, keyboard, addressed, ep0_dequeue, ep1,
                     report>>
  BY DEF descriptor_event, TakeEvent, driver, outside, inside
<1>2. HasKeyboard /\ Describing
  BY <1>1 DEF Phases, NoKeyboard, HasKeyboard, Described
<1>3. CASE Event.kind # "transfer"
  <2>1. TransfersKept /\ got_data' = got_data
    BY <1>1, <1>3, TakenTransfers DEF RingInv
  <2>2. QED
    BY <1>1, <2>1, KeyboardAside
<1>4. CASE Event.kind = "transfer"
  <2> DEFINE d == ep0_dequeue[usb_kbd_slot]
             posted == IF d <= 2 THEN 0 ELSE d - 2
  <2>1. /\ 1 \in TransferEvents /\ queue[1] = Event
        /\ \A j : j \in TransferEvents' <=> j + 1 \in TransferEvents /\ j \in DOMAIN queue'
        /\ \A i \in DOMAIN queue : i # 1 => i - 1 \in DOMAIN queue' /\ queue'[i - 1] = queue[i]
        /\ DOMAIN queue \subseteq Nat \ {0} /\ DOMAIN queue' \subseteq Nat \ {0}
    BY <1>1, <1>4, TakenTransfers DEF RingInv
  <2>2. /\ \A i \in TransferEvents : queue[i].slot = usb_kbd_slot
        /\ slot_id = usb_kbd_slot /\ d \in 1 .. 4
    BY <1>2 DEF Describing
  <2>3. /\ got_data \in 0 .. posted
        /\ got_data = posted => TransferEvents = {}
        /\ got_data = posted - 1 => \E i \in DOMAIN queue : TransferEvents = {i}
        /\ got_data = posted - 2 => \E i, j \in DOMAIN queue : i < j /\ TransferEvents = {i, j}
    BY <1>2 DEF Describing
  <2>4. got_data' = got_data + 1
    BY <1>1, <1>4, <2>1, <2>2
  <2>5. \A i \in TransferEvents' : queue'[i].slot = usb_kbd_slot
    <3> TAKE j \in TransferEvents'
    <3>1. j + 1 \in TransferEvents /\ j \in Nat \ {0}
      BY <2>1
    <3>2. j + 1 \in DOMAIN queue /\ j + 1 # 1 /\ (j + 1) - 1 = j
      BY <3>1 DEF TransferEvents
    <3>3. QED
      BY <2>1, <2>2, <3>1, <3>2
  <2>6. posted \in 0 .. 2
    BY <2>2
  <2> HIDE DEF posted
  <2>7. /\ got_data' \in 0 .. posted
        /\ got_data' = posted => TransferEvents' = {}
        /\ got_data' = posted - 1 => \E i \in DOMAIN queue' : TransferEvents' = {i}
        /\ got_data' # posted - 2
    <3>1. CASE got_data = posted - 1
      <4>1. PICK i \in DOMAIN queue : TransferEvents = {i}
        BY <2>3, <3>1
      <4>2. \A j : j \notin TransferEvents'
        <5>1. i = 1
          BY <2>1, <4>1
        <5>2. QED
          BY <2>1, <4>1, <5>1
      <4>3. got_data' = posted
        BY <2>3, <2>4, <2>6, <3>1
      <4>4. QED
        BY <2>6, <4>2, <4>3
    <3>2. CASE got_data = posted - 2
      <4>1. PICK i \in DOMAIN queue, j \in DOMAIN queue : i < j /\ TransferEvents = {i, j}
        BY <2>3, <3>2
      <4>2. i \in Nat \ {0} /\ j \in Nat \ {0} /\ i = 1 /\ j # 1
        BY <2>1, <4>1
      <4>3. j - 1 \in DOMAIN queue' /\ (j - 1) + 1 = j
        BY <2>1, <4>1, <4>2
      <4>4. \A k : k \in TransferEvents' <=> k = j - 1
        <5>1. j - 1 \in TransferEvents'
          BY <2>1, <4>1, <4>3
        <5>2. ASSUME NEW k \in TransferEvents' PROVE k = j - 1
          <6>1. k \in Nat \ {0} /\ (k + 1 = i \/ k + 1 = j)
            BY <2>1, <4>1
          <6>2. QED
            BY <4>2, <6>1
        <5>3. QED
          BY <5>1, <5>2
      <4>5. TransferEvents' = {j - 1}
        BY <4>4
      <4>6. got_data' = posted - 1 /\ got_data' \in 0 .. posted
        BY <2>3, <2>4, <2>6, <3>2
      <4>7. QED
        BY <2>6, <4>3, <4>5, <4>6
    <3>3. got_data # posted
      BY <2>1, <2>3
    <3>4. got_data \in Int /\ (got_data = posted \/ got_data = posted - 1 \/ got_data = posted - 2)
      BY <2>3, <2>6
    <3>5. QED
      BY <3>1, <3>2, <3>3, <3>4
  <2>8. /\ usb_kbd_slot' = usb_kbd_slot /\ ep1_configured' = ep1_configured
    BY <1>1 DEF keyboard
  <2>9. Describing'
    BY <1>1, <1>2, <2>5, <2>7, <2>8 DEF Describing, posted
  <2>10. HasKeyboard'
    BY <1>1, <1>2, <2>8, <2>9 DEF HasKeyboard
  <2>11. QED
    BY <2>10 DEF Phases
<1>5. QED
  BY <1>3, <1>4

(* With both events taken the endpoint is configured.                      *)
LEMMA ConfigurePhases ==
  ASSUME Phases, Undisturbed', xhci_configure_kbd_endpoint
  PROVE  Phases'
<1>1. /\ pc = "descriptor" /\ got_data = 2
      /\ ep1_ring' = [i \in 0 .. EP_RING_SIZE - 1 |-> NoTRB]
      /\ ep1_enqueue' = 0 /\ ep1_cycle' = 1
      /\ pc' \in {"wait_configure", "next"}
      /\ UNCHANGED <<slot_id, queue, ep0_ring, keyboard, addressed, ep0_dequeue, ep1, report>>
  BY DEF xhci_configure_kbd_endpoint, xhci_send_command, Undisturbed, driver, outside, inside
<1>2. HasKeyboard /\ Describing
  BY <1>1 DEF Phases, NoKeyboard, HasKeyboard, Described
<1>3. /\ ep0_dequeue[usb_kbd_slot] = 4 /\ TransferEvents = {} /\ slot_id = usb_kbd_slot
      /\ ep0_ring[usb_kbd_slot] = <<"get", "data", "status", "none">>
      /\ ep1[usb_kbd_slot] = NewContext /\ ~ep1_configured /\ report = 0
  <2>1. ep0_dequeue[usb_kbd_slot] = 4
    BY <1>1, <1>2 DEF Describing
  <2>2. QED
    BY <1>1, <1>2, <2>1 DEF Describing
<1>4. UNCHANGED <<usb_kbd_slot, ep1_configured>> /\ TransferEvents' = {}
  BY <1>1, <1>3 DEF keyboard, TransferEvents
<1>5. Described'
  BY <1>1, <1>3, <1>4 DEF Described
<1>6. NotConfigured'
  <2>1. ep1'[usb_kbd_slot'] = NewContext
    BY <1>1, <1>3, <1>4
  <2>2. /\ ep1'[usb_kbd_slot'].at = 0 /\ ep1'[usb_kbd_slot'].ccs = 1
        /\ ~ep1'[usb_kbd_slot'].busy
    BY <2>1 DEF NewContext
  <2>3. QED
    BY <1>1, <1>3, <1>4, <2>2 DEF NotConfigured
<1>7. HasKeyboard'
  BY <1>1, <1>2, <1>4, <1>5, <1>6 DEF HasKeyboard
<1>8. QED
  BY <1>7 DEF Phases

(* The first transfer.                                                     *)
LEMMA BootProtocolPhases ==
  ASSUME Phases, DeviceTypes, RingInv, Undisturbed, xhci_set_boot_protocol
  PROVE  Phases'
<1>1. /\ pc = "wait_configure" /\ Answer /\ Event.kind = "command"
      /\ ep1_configured' = TRUE /\ pc' = "next"
      /\ ep0_ring' = [ep0_ring EXCEPT ![slot_id][1] = "set", ![slot_id][2] = "status"]
      /\ QueueTRB(ep1_ring, ep1_enqueue, ep1_cycle)
      /\ UNCHANGED <<usb_kbd_slot, report, addressed, ep0_dequeue, ep1, event_ring, xhc>>
  BY DEF xhci_set_boot_protocol, driver, outside, inside
<1>2. HasKeyboard /\ Described /\ NotConfigured /\ slot_id = usb_kbd_slot
  BY <1>1 DEF Phases, NoKeyboard, HasKeyboard, Describing, Configured, NotConfigured
<1>3. TransferEvents' = {}
  <2>1. TransfersKept
    BY <1>1, OnlyAnswer
  <2>2. QED
    BY <1>2, <2>1 DEF TransfersKept, NotConfigured
<1>4. Described'
  <2>1. /\ usb_kbd_slot \in DOMAIN ep0_ring
        /\ DOMAIN ep0_ring[usb_kbd_slot] = 1 .. 4 /\ ep0_ring[usb_kbd_slot][4] = "none"
    BY <1>2 DEF DeviceTypes, HasKeyboard, Described
  <2>2. /\ DOMAIN ep0_ring'[usb_kbd_slot] = 1 .. 4 /\ ep0_ring'[usb_kbd_slot][4] = "none"
    BY <1>1, <1>2, <2>1
  <2>3. QED
    BY <1>1, <1>2, <2>2 DEF Described
<1>5. /\ ep1[usb_kbd_slot].at = 0 /\ ep1[usb_kbd_slot].ccs = 1 /\ ~ep1[usb_kbd_slot].busy
      /\ report = 0
  BY <1>2 DEF NotConfigured, NewContext
<1>6. TransferRing /\ EndpointAt(ep1_enqueue, ep1_cycle)
  <2>1. /\ ep1_ring = [i \in 0 .. EP_RING_SIZE - 1 |-> NoTRB]
        /\ ep1_enqueue = 0 /\ ep1_cycle = 1
    BY <1>2 DEF NotConfigured
  <2>2. EndpointAt(ep1_enqueue, ep1_cycle)
    BY <1>5, <2>1 DEF EndpointAt
  <2>3. 0 .. ep1_enqueue - 1 = {} /\ ep1_enqueue \in 0 .. EP_RING_SIZE - 2
    BY <2>1, EndpointSizes
  <2>4. /\ \A i \in ep1_enqueue .. EP_RING_SIZE - 2 : ep1_ring[i] = NoTRB
        /\ ep1_ring[EP_RING_SIZE - 1] = NoTRB
    BY <2>1, EndpointSizes
  <2>5. TransferRing
    BY <2>1, <2>3, <2>4 DEF TransferRing
  <2>6. QED
    BY <2>2, <2>5
<1>7. TransferRing' /\ EndpointAtLast'
  BY <1>1, <1>6, QueuedTRB
<1>8. Configured'
  BY <1>1, <1>3, <1>5, <1>7 DEF Configured, OneTransfer
<1>9. HasKeyboard'
  BY <1>1, <1>2, <1>4, <1>8 DEF HasKeyboard
<1>10. QED
  BY <1>9 DEF Phases

(* usb_kbd_poll takes the event and queues the next transfer.              *)
LEMMA PollPhases ==
  ASSUME Phases, RingInv, poll_report \/ poll_other
  PROVE  Phases'
<1>1. /\ pc = "poll" /\ ep1_configured /\ EventRing /\ Pending /\ Advance
      /\ UNCHANGED <<pc, ep0_ring, keyboard, addressed, ep0_dequeue, ep1>>
  BY DEF poll_report, poll_other, TakeEvent, RingInv, outside, inside
<1>2. Event.kind = "transfer" => FromKeyboard
  BY <1>1, TakenTransfers, KeyboardEvents DEF FromKeyboard
<1>3. CASE poll_other
  <2>1. TransfersKept
    BY <1>1, <1>2, <1>3, TakenTransfers DEF poll_other
  <2>2. QED
    BY <1>1, <1>3, <2>1, KeyboardAside DEF poll_other, outside
<1>4. CASE poll_report
  <2>1. /\ FromKeyboard /\ report' = (IF Event.ok THEN 0 ELSE report)
        /\ QueueTRB(ep1_ring, ep1_enqueue, ep1_cycle)
    BY <1>4 DEF poll_report
  <2>2. /\ 1 \in TransferEvents /\ queue[1] = Event
        /\ \A j : j \in TransferEvents' => j + 1 \in TransferEvents /\ j \in Nat \ {0}
    BY <1>1, <2>1, TakenTransfers DEF FromKeyboard
  <2>3. HasKeyboard /\ Described /\ Configured
    BY <1>1 DEF Phases, NoKeyboard, HasKeyboard, Describing, NotConfigured
  <2>4. PICK i \in DOMAIN queue : /\ TransferEvents = {i}
                                  /\ report = IF queue[i].ok THEN 1 ELSE 0
    BY <2>2, <2>3 DEF Configured, OneTransfer
  <2>5. TransferRing /\ EndpointAt(ep1_enqueue, ep1_cycle) /\ ~ep1[usb_kbd_slot].busy
    BY <2>2, <2>3 DEF Configured, OneTransfer
  <2>6. i = 1 /\ report' = 0
    BY <2>1, <2>2, <2>4
  <2>7. TransferEvents' = {}
    <3>1. ASSUME NEW j \in TransferEvents' PROVE FALSE
      <4>1. j + 1 = 1 /\ j \in Nat \ {0}
        BY <2>2, <2>4, <2>6
      <4>2. QED
        BY <4>1
    <3>2. QED
      BY <3>1
  <2>8. UNCHANGED <<usb_kbd_slot, ep1_configured>>
    BY <1>1 DEF keyboard
  <2>9. TransferRing' /\ EndpointAtLast'
    BY <1>1, <2>1, <2>5, <2>8, QueuedTRB
  <2>10. Configured'
    BY <1>1, <2>3, <2>5, <2>6, <2>7, <2>8, <2>9 DEF Configured, OneTransfer
  <2>11. HasKeyboard'
    BY <1>1, <2>3, <2>8, <2>10 DEF HasKeyboard, Described
  <2>12. QED
    BY <2>11 DEF Phases
<1>5. QED
  BY <1>3, <1>4

(* The command that is executed is the last one, and not answered yet.     *)
LEMMA Executed ==
  ASSUME RingInv, Undisturbed, NEW ok \in BOOLEAN, xhc_command(ok)
  PROVE  /\ Waiting /\ CommandEvents = {} /\ Command = cmd_ring[sent - 1]
         /\ TransfersKept /\ (Succeeded' <=> ok) /\ ~Succeeded
<1>1. PICK slot : /\ Post("command", slot, ok, Command.id)
                  /\ Command.cycle = xhc.ccs
                  /\ xhc' = [Posted EXCEPT !.command = @ + 1]
                  /\ UNCHANGED software
  BY DEF xhc_command
<1>2. EventRing /\ UNCHANGED <<event_dequeue, event_cycle, erdp>>
  BY <1>1 DEF software, events, RingInv
<1>3. PICK m : /\ queue'[m].ok = ok
               /\ CommandEvents' = CommandEvents \cup {m}
               /\ TransfersKept
  BY <1>1, <1>2, PostedTransfers
<1>4. xhc.command # sent
  BY <1>1, Sizes DEF RingInv, CommandRing, Command
<1>5. Waiting /\ xhc.command = sent - 1 /\ CommandEvents = {}
  BY <1>4 DEF RingInv, OneCommand, Undisturbed
<1>6. QED
  BY <1>3, <1>5 DEF Succeeded, Command

(* A device is enabled, addressed or configured, or is not.                *)
LEMMA CommandPhases ==
  ASSUME Phases, DeviceTypes, LastCommand, RingInv, Undisturbed, Undisturbed',
         NEW ok \in BOOLEAN, xhc_command(ok)
  PROVE  Phases'
<1> DEFINE Is(kind) == Command.kind = kind /\ ok
           slot == IF Is("enable") THEN slots + 1 ELSE Command.slot
<1>1. /\ Is("address") => slot \notin addressed
      /\ addressed' = IF Is("address") THEN addressed \cup {slot} ELSE addressed
      /\ ep1' = IF Is("configure")
                  THEN [ep1 EXCEPT ![slot] = [on |-> TRUE, at |-> 0, ccs |-> 1, busy |-> FALSE]]
                  ELSE ep1
      /\ UNCHANGED <<pc, slot_id, got_data, ep0_ring, transfer, keyboard, ep0_dequeue, report>>
  BY DEF xhc_command, software, driver
<1>2. /\ Waiting /\ CommandEvents = {} /\ Command = cmd_ring[sent - 1]
      /\ TransfersKept /\ (Succeeded' <=> ok) /\ ~Succeeded
  BY Executed
<1>3. CASE pc = "wait_enable" \/ ~ok
  <2>1. ~Is("address") /\ ~Is("configure") /\ (pc = "wait_enable" \/ ~Succeeded')
    BY <1>2, <1>3 DEF LastCommand
  <2>2. addressed' = addressed /\ ep1' = ep1
    BY <1>1, <2>1
  <2>3. pc' = pc /\ pc # "descriptor"
    BY <1>1, <1>2 DEF Waiting
  <2>4. QED
    BY <1>1, <1>2, <2>1, <2>2, <2>3, KeyboardAside
<1>4. CASE pc = "wait_address" /\ ok
  <2>1. Is("address") /\ ~Is("configure") /\ slot = slot_id
    BY <1>2, <1>4 DEF LastCommand
  <2>2. addressed' = addressed \cup {slot_id} /\ ep1' = ep1 /\ slot_id \notin addressed
    BY <1>1, <2>1
  <2>3. addressed = {}
    <3>1. Cardinality(addressed \cup {slot_id}) <= 1
      BY <2>2 DEF Undisturbed
    <3>2. PICK t : t = slot_id
      OBVIOUS
    <3>3. QED
      BY <2>2, <3>1, <3>2, FewDevices
  <2>4. NoKeyboard
    BY <2>3 DEF Phases, HasKeyboard
  <2>5. TransferEvents' = {} /\ addressed' = {slot_id'} /\ pc' = "wait_address" /\ Succeeded'
    BY <1>1, <1>2, <1>4, <2>2, <2>3, <2>4 DEF NoKeyboard, TransfersKept
  <2>6. NoKeyboard'
    BY <1>1, <2>2, <2>4, <2>5 DEF NoKeyboard, keyboard
  <2>7. QED
    BY <2>6 DEF Phases
<1>5. CASE pc = "wait_configure" /\ ok
  <2>1. Is("configure") /\ ~Is("address") /\ slot = slot_id
    BY <1>2, <1>5 DEF LastCommand
  <2>2. /\ addressed' = addressed
        /\ ep1' = [ep1 EXCEPT ![slot_id] = [on |-> TRUE, at |-> 0, ccs |-> 1, busy |-> FALSE]]
        /\ UNCHANGED <<pc, usb_kbd_slot, ep1_configured, ep1_ring, ep1_enqueue, ep1_cycle>>
    BY <1>1, <2>1 DEF keyboard, transfer
  <2>3. HasKeyboard /\ Described /\ NotConfigured /\ slot_id = usb_kbd_slot
    BY <1>5 DEF Phases, NoKeyboard, HasKeyboard, Describing, Configured, NotConfigured
  <2>4. /\ ep1'[usb_kbd_slot].at = 0 /\ ep1'[usb_kbd_slot].ccs = 1
        /\ ~ep1'[usb_kbd_slot].busy
        /\ \A t \in Slot \ {usb_kbd_slot} : ep1'[t] = ep1[t]
    <3>1. DOMAIN ep1 = Slot /\ usb_kbd_slot \in Slot
      BY <2>3 DEF DeviceTypes, HasKeyboard
    <3>2. /\ ep1'[usb_kbd_slot] = [on |-> TRUE, at |-> 0, ccs |-> 1, busy |-> FALSE]
          /\ \A t \in Slot \ {usb_kbd_slot} : ep1'[t] = ep1[t]
      BY <2>2, <2>3, <3>1
    <3>3. QED
      BY <3>2
  <2>5. TransferEvents' = {}
    BY <1>2, <2>3 DEF TransfersKept, NotConfigured
  <2>6. Described' /\ NotConfigured'
    BY <1>1, <2>2, <2>3, <2>4, <2>5 DEF Described, NotConfigured
  <2>7. HasKeyboard'
    BY <1>5, <2>2, <2>3, <2>4, <2>6 DEF HasKeyboard
  <2>8. QED
    BY <2>7 DEF Phases
<1>6. QED
  BY <1>2, <1>3, <1>4, <1>5 DEF Waiting

(* The stages of the one control transfer.                                 *)
LEMMA ControlPhases ==
  ASSUME Phases, DeviceTypes, RingInv, NEW s \in Slot, xhc_control(s)
  PROVE  Phases'
<1> DEFINE d == ep0_dequeue[usb_kbd_slot]
           stages == <<"get", "data", "status", "none">>
<1>1. /\ s \in addressed
      /\ UNCHANGED <<pc, slot_id, got_data, ep0_ring, transfer, keyboard, addressed, ep1, report>>
      /\ UNCHANGED <<usb_kbd_slot, ep1_configured>>
  BY DEF xhc_control, software, driver, keyboard
<1>2. CASE ep0_ring[s][ep0_dequeue[s]] = "none"
  <2>1. UNCHANGED <<queue, ep0_dequeue>>
    BY <1>2 DEF xhc_control
  <2>2. TransfersKept /\ (Succeeded' <=> Succeeded)
    BY <2>1, QueueUntouched
  <2>3. QED
    BY <1>1, <2>1, <2>2, KeyboardAside
<1>3. CASE ep0_ring[s][ep0_dequeue[s]] # "none"
  <2>1. HasKeyboard
    BY <1>3 DEF Phases, NoKeyboard, NoStages
  <2>2. s = usb_kbd_slot
    BY <1>1, <2>1 DEF HasKeyboard
  <2>3. Describing
    BY <1>3, <2>1, <2>2 DEF HasKeyboard, Described
  <2>4. /\ d \in 1 .. 3 /\ stages[d] # "none" /\ ep0_ring[usb_kbd_slot] = stages
        /\ ep0_dequeue' = [ep0_dequeue EXCEPT ![usb_kbd_slot] = d + 1]
        /\ IF stages[d] \in {"data", "status"}
             THEN Post("transfer", usb_kbd_slot, TRUE, 0) /\ xhc' = Posted
             ELSE UNCHANGED <<event_ring, xhc, queue>>
    <3>1. d \in 1 .. 4 /\ ep0_ring[usb_kbd_slot] = stages
      BY <2>3 DEF Describing
    <3>2. /\ ep0_dequeue' = [ep0_dequeue EXCEPT ![usb_kbd_slot] = d + 1]
          /\ IF stages[d] \in {"data", "status"}
               THEN Post("transfer", usb_kbd_slot, TRUE, 0) /\ xhc' = Posted
               ELSE UNCHANGED <<event_ring, xhc, queue>>
      BY <1>3, <2>2, <3>1 DEF xhc_control
    <3>3. stages[d] # "none"
      BY <1>3, <2>2, <3>1
    <3>4. d # 4
      BY <3>3
    <3> HIDE DEF d, stages
    <3>5. d \in 1 .. 3
      BY <3>1, <3>4
    <3>6. QED
      BY <3>1, <3>2, <3>3, <3>5
  <2>5. ep0_dequeue'[usb_kbd_slot] = d + 1
    BY <2>1, <2>4 DEF DeviceTypes, HasKeyboard
  <2>6. CASE d = 1
    <3>1. queue' = queue
      BY <2>4, <2>6
    <3>2. TransferEvents' = TransferEvents
      BY <3>1 DEF TransferEvents
    <3>3. Describing'
      BY <1>1, <2>3, <2>5, <2>6, <3>1, <3>2 DEF Describing
    <3>4. HasKeyboard'
      BY <1>1, <2>1, <2>3, <3>3 DEF HasKeyboard, Describing
    <3>5. QED
      BY <3>4 DEF Phases
  <2>7. CASE d \in 2 .. 3
    <3>1. PICK ok \in BOOLEAN : Post("transfer", s, ok, 0) /\ xhc' = Posted
      <4>1. d = 2 \/ d = 3
        BY <2>7
      <4>2. stages[2] = "data" /\ stages[3] = "status"
        OBVIOUS
      <4> HIDE DEF d, stages
      <4>3. QED
        BY <2>2, <2>4, <4>1, <4>2
    <3>2. EventRing /\ UNCHANGED <<event_dequeue, event_cycle, erdp>>
      BY DEF RingInv, xhc_control, software, events
    <3>3. PICK m \in DOMAIN queue' :
            /\ queue'[m].slot = s
            /\ \A i \in DOMAIN queue : i \in DOMAIN queue' /\ i < m /\ queue'[i] = queue[i]
            /\ TransferEvents' = TransferEvents \cup {m}
      BY <3>1, <3>2, PostedTransfers
    <3>4. /\ \A i \in TransferEvents : queue[i].slot = usb_kbd_slot
          /\ got_data \in 0 .. d - 2
          /\ got_data = d - 2 => TransferEvents = {}
          /\ got_data = d - 3 => \E i \in DOMAIN queue : TransferEvents = {i}
      BY <2>3, <2>7 DEF Describing
    <3>5. \A i \in TransferEvents' : queue'[i].slot = usb_kbd_slot
      <4>1. TransferEvents \subseteq DOMAIN queue
        BY DEF TransferEvents
      <4>2. QED
        BY <2>2, <3>3, <3>4, <4>1
    <3>6. /\ got_data = (d + 1) - 3 => \E i \in DOMAIN queue' : TransferEvents' = {i}
          /\ got_data = (d + 1) - 4 =>
               \E i, j \in DOMAIN queue' : i < j /\ TransferEvents' = {i, j}
          /\ got_data \in 0 .. (d + 1) - 2 /\ got_data # (d + 1) - 2
      <4>1. ASSUME got_data = d - 2 PROVE \E i \in DOMAIN queue' : TransferEvents' = {i}
        BY <3>3, <3>4, <4>1
      <4>2. ASSUME got_data = d - 3
            PROVE  \E i, j \in DOMAIN queue' : i < j /\ TransferEvents' = {i, j}
        <5>1. PICK i \in DOMAIN queue : TransferEvents = {i}
          BY <3>4, <4>2
        <5>2. i \in DOMAIN queue' /\ i < m /\ TransferEvents' = {i, m}
          BY <3>3, <5>1
        <5>3. QED
          BY <5>2
      <4> HIDE DEF d
      <4>3. QED
        BY <2>7, <3>4, <4>1, <4>2
    <3>7. Describing'
      <4>1. (IF d + 1 <= 2 THEN 0 ELSE (d + 1) - 2) = (d + 1) - 2 /\ d + 1 \in 1 .. 4
        BY <2>7
      <4>2. /\ got_data = (d + 1) - 2 - 1 <=> got_data = (d + 1) - 3
            /\ got_data = (d + 1) - 2 - 2 <=> got_data = (d + 1) - 4
        BY <2>7, <3>4
      <4>3. /\ pc' = "descriptor" /\ slot_id' = usb_kbd_slot'
            /\ ~ep1_configured' /\ report' = 0
            /\ ep0_ring'[usb_kbd_slot'] = stages /\ ep1'[usb_kbd_slot'] = NewContext
        BY <1>1, <2>3 DEF Describing
      <4> HIDE DEF d
      <4>4. QED
        BY <1>1, <2>5, <3>5, <3>6, <4>1, <4>2, <4>3 DEF Describing
    <3>8. HasKeyboard'
      BY <1>1, <2>1, <2>3, <3>7 DEF HasKeyboard, Describing
    <3>9. QED
      BY <3>8 DEF Phases
  <2>8. QED
    BY <2>4, <2>6, <2>7
<1>4. QED
  BY <1>2, <1>3

(* What was put in the last places of the transfer ring, seen from the     *)
(* endpoint.                                                               *)
LEMMA EndpointPlaces ==
  ASSUME TransferRing
  PROVE  /\ ep1_ring[ep1_enqueue].kind = "none" \/ ep1_ring[ep1_enqueue].cycle # ep1_cycle
         /\ ep1_enqueue # 0 => ep1_ring[ep1_enqueue - 1].kind = "normal"
         /\ ep1_ring[EP_RING_SIZE - 2].kind # "link"
         /\ ep1_ring[EP_RING_SIZE - 1].kind = "link" =>
              ep1_ring[EP_RING_SIZE - 1].cycle = Toggle(ep1_cycle)
<1> DEFINE N == EP_RING_SIZE
           e == ep1_enqueue
           c == ep1_cycle
<1>1. N \in Nat /\ N >= 5 /\ e \in 0 .. N - 2 /\ c \in {0, 1}
  BY EndpointSizes DEF TransferRing
<1>2. /\ \A i \in 0 .. e - 1 : ep1_ring[i] = [kind |-> "normal", cycle |-> c]
      /\ \A i \in e .. N - 2 : ep1_ring[i] \in {NoTRB, [kind |-> "normal", cycle |-> Toggle(c)]}
      /\ ep1_ring[N - 1] = [kind |-> "link", cycle |-> Toggle(c)] \/ ep1_ring[N - 1] = NoTRB
  BY DEF TransferRing
<1> HIDE DEF N, e, c
<1>3. Toggle(c) # c
  BY <1>1 DEF Toggle
<1>4. ep1_ring[e].kind = "none" \/ ep1_ring[e].cycle # c
  <2>1. e \in e .. N - 2
    BY <1>1
  <2>2. QED
    BY <1>2, <1>3, <2>1 DEF NoTRB
<1>5. e # 0 => ep1_ring[e - 1].kind = "normal"
  <2>1. e # 0 => e - 1 \in 0 .. e - 1
    BY <1>1
  <2>2. QED
    BY <1>2, <2>1
<1>6. ep1_ring[N - 2].kind # "link"
  <2>1. N - 2 \in e .. N - 2
    BY <1>1
  <2>2. QED
    BY <1>2, <2>1 DEF NoTRB
<1>7. ep1_ring[N - 1].kind = "link" => ep1_ring[N - 1].cycle = Toggle(c)
  BY <1>2 DEF NoTRB
<1>8. QED
  BY <1>4, <1>5, <1>6, <1>7 DEF N, e, c

(* Where the endpoint is before its transfer and after it.                 *)
LEMMA EndpointCases ==
  ASSUME TransferRing, NEW at, NEW ccs,
         ep1[usb_kbd_slot].at = at, ep1[usb_kbd_slot].ccs = ccs
  PROVE  /\ EndpointAtLast =>
              \/ /\ at = EP_RING_SIZE - 1 /\ ep1_enqueue = 1 /\ ccs = Toggle(ep1_cycle)
                 /\ ep1_ring[at].kind = "link"
              \/ /\ at # EP_RING_SIZE - 1 /\ ep1_ring[at].kind # "link"
                 /\ IF ep1_enqueue = 0
                      THEN /\ at = EP_RING_SIZE - 2 /\ ccs = Toggle(ep1_cycle)
                           /\ ep1_ring[EP_RING_SIZE - 1].kind = "link"
                      ELSE at = ep1_enqueue - 1 /\ ccs = ep1_cycle
         /\ EndpointAt(ep1_enqueue, ep1_cycle) =>
              \/ /\ at = ep1_enqueue /\ ccs = ep1_cycle
                 /\ ep1_ring[at].kind = "none" \/ ep1_ring[at].cycle # ccs
              \/ /\ at = EP_RING_SIZE - 1 /\ ep1_enqueue = 0 /\ ccs = Toggle(ep1_cycle)
                 /\ ep1_ring[at].kind = "link"
<1> DEFINE N == EP_RING_SIZE
           e == ep1_enqueue
           c == ep1_cycle
<1>1. N \in Nat /\ N >= 5 /\ e \in 0 .. N - 2 /\ c \in {0, 1}
  BY EndpointSizes DEF TransferRing
<1>2. /\ ep1_ring[e].kind = "none" \/ ep1_ring[e].cycle # c
      /\ e # 0 => ep1_ring[e - 1].kind = "normal"
      /\ ep1_ring[N - 2].kind # "link"
  BY EndpointPlaces
<1>3. EndpointAt(e, c) => \/ at = e /\ ccs = c
                          \/ at = N - 1 /\ e = 0 /\ ccs = Toggle(c) /\ ep1_ring[N - 1].kind = "link"
  BY DEF EndpointAt
<1>4. ASSUME EndpointAtLast
      PROVE  IF e = 0 THEN at = N - 2 /\ ccs = Toggle(c) /\ ep1_ring[N - 1].kind = "link"
             ELSE \/ at = e - 1 /\ ccs = c
                  \/ e = 1 /\ at = N - 1 /\ ccs = Toggle(c) /\ ep1_ring[N - 1].kind = "link"
  <2>1. CASE e = 0
    <3>1. EndpointAt(N - 2, Toggle(c)) /\ ep1_ring[N - 1].kind = "link"
      BY <1>4, <2>1 DEF EndpointAtLast
    <3>2. N - 2 # 0
      BY <1>1
    <3>3. QED
      BY <2>1, <3>1, <3>2 DEF EndpointAt
  <2>2. CASE e # 0
    <3>1. EndpointAt(e - 1, c)
      BY <1>4, <2>2 DEF EndpointAtLast
    <3>2. e - 1 = 0 => e = 1
      BY <1>1
    <3>3. QED
      BY <2>2, <3>1, <3>2 DEF EndpointAt
  <2>3. QED
    BY <2>1, <2>2
<1> HIDE DEF N, e, c
<1>5. N - 2 # N - 1 /\ e - 1 # N - 1
  BY <1>1
<1>6. ASSUME EndpointAtLast
      PROVE  \/ at = N - 1 /\ e = 1 /\ ccs = Toggle(c) /\ ep1_ring[at].kind = "link"
             \/ /\ at # N - 1 /\ ep1_ring[at].kind # "link"
                /\ IF e = 0 THEN at = N - 2 /\ ccs = Toggle(c) /\ ep1_ring[N - 1].kind = "link"
                            ELSE at = e - 1 /\ ccs = c
  BY <1>2, <1>4, <1>5, <1>6
<1>7. ASSUME EndpointAt(e, c)
      PROVE  \/ at = e /\ ccs = c /\ (ep1_ring[at].kind = "none" \/ ep1_ring[at].cycle # ccs)
             \/ at = N - 1 /\ e = 0 /\ ccs = Toggle(c) /\ ep1_ring[at].kind = "link"
  BY <1>2, <1>3, <1>7
<1>8. QED
  BY <1>6, <1>7 DEF N, e, c

(* The endpoint looks for a transfer.                                      *)
LEMMA FetchPhases ==
  ASSUME Phases, DeviceTypes, NEW s \in Slot, xhc_fetch(s)
  PROVE  Phases'
<1> DEFINE at == ep1[s].at
           ccs == ep1[s].ccs
           trb == ep1_ring[at]
<1>1. /\ ep1[s].on /\ ~ep1[s].busy
      /\ UNCHANGED <<pc, slot_id, got_data, queue, ep0_ring, transfer, keyboard, addressed,
                     ep0_dequeue, report>>
      /\ UNCHANGED <<usb_kbd_slot, ep1_configured, ep1_ring, ep1_enqueue, ep1_cycle>>
  BY DEF xhc_fetch, software, driver, keyboard, transfer
<1>2. TransfersKept /\ (Succeeded' <=> Succeeded) /\ TransferEvents' = TransferEvents
  BY <1>1, QueueUntouched DEF TransferEvents
<1>3. CASE trb.kind = "none" \/ trb.cycle # ccs
  <2>1. ep1' = ep1
    BY <1>3 DEF xhc_fetch
  <2>2. QED
    BY <1>1, <1>2, <2>1, KeyboardAside
<1>4. CASE ~ (trb.kind = "none" \/ trb.cycle # ccs)
  <2>1. HasKeyboard /\ s = usb_kbd_slot
    BY <1>1 DEF Phases, NoKeyboard, NewContext, HasKeyboard
  <2>2. ~Describing
    BY <1>1, <2>1 DEF Describing, NewContext
  <2>3. ~NotConfigured
    <3>1. SUFFICES ASSUME NotConfigured PROVE FALSE
      OBVIOUS
    <3>2. at = 0 /\ ep1_ring = [i \in 0 .. EP_RING_SIZE - 1 |-> NoTRB]
      BY <2>1, <3>1 DEF NotConfigured
    <3>3. trb = NoTRB
      BY <3>2, EndpointSizes
    <3>4. QED
      BY <1>4, <3>3 DEF NoTRB
  <2>4. Described /\ Configured
    BY <2>1, <2>2, <2>3 DEF HasKeyboard
  <2>5. TransferRing /\ OneTransfer /\ ep1_cycle \in {0, 1}
    BY <2>4 DEF Configured, TransferRing
  <2>6. Toggle(Toggle(ep1_cycle)) = ep1_cycle
    BY <2>5 DEF Toggle
  <2>7. /\ ep1'[s].on = ep1[s].on
        /\ IF trb.kind = "link"
             THEN ep1'[s].at = 0 /\ ep1'[s].ccs = Toggle(ccs) /\ ep1'[s].busy = ep1[s].busy
             ELSE ep1'[s].at = at /\ ep1'[s].ccs = ccs /\ ep1'[s].busy = TRUE
        /\ \A t \in Slot \ {s} : ep1'[t] = ep1[t]
    <3>1. ep1' = IF trb.kind = "link"
                   THEN [ep1 EXCEPT ![s].at = 0, ![s].ccs = Toggle(@)]
                   ELSE [ep1 EXCEPT ![s].busy = TRUE]
      BY <1>4 DEF xhc_fetch
    <3>2. ep1 \in [Slot -> Ep1Context] /\ ep1[s] \in Ep1Context
      BY DEF DeviceTypes
    <3> HIDE DEF trb
    <3>3. CASE trb.kind = "link"
      <4>1. ep1' = [ep1 EXCEPT ![s] = [ep1[s] EXCEPT !.at = 0, !.ccs = Toggle(ep1[s].ccs)]]
        BY <3>1, <3>2, <3>3
      <4>2. QED
        BY <3>2, <3>3, <4>1 DEF Ep1Context
    <3>4. CASE trb.kind # "link"
      <4>1. ep1' = [ep1 EXCEPT ![s] = [ep1[s] EXCEPT !.busy = TRUE]]
        BY <3>1, <3>2, <3>4
      <4>2. QED
        BY <3>2, <3>4, <4>1 DEF Ep1Context
    <3>5. QED
      BY <3>3, <3>4
  <2>8. OneTransfer'
    <3>1. CASE EndpointAtLast /\ TransferEvents = {} /\ report = 0
      <4>1. CASE /\ at = EP_RING_SIZE - 1 /\ ep1_enqueue = 1 /\ ccs = Toggle(ep1_cycle)
                 /\ trb.kind = "link"
        <5>1. ep1'[usb_kbd_slot'].at = 0 /\ ep1'[usb_kbd_slot'].ccs = ep1_cycle
          BY <1>1, <2>1, <2>6, <2>7, <4>1
        <5>2. ep1_enqueue' # 0 /\ ep1_enqueue' - 1 = 0 /\ ep1_cycle' = ep1_cycle
          BY <1>1, <4>1
        <5>3. EndpointAtLast'
          BY <5>1, <5>2 DEF EndpointAtLast, EndpointAt
        <5>4. ~ep1'[usb_kbd_slot'].busy
          BY <1>1, <2>1, <2>7, <4>1
        <5>5. QED
          BY <1>1, <1>2, <3>1, <5>3, <5>4 DEF OneTransfer
      <4>2. CASE at # EP_RING_SIZE - 1 /\ trb.kind # "link"
        <5>1. /\ ep1'[usb_kbd_slot'].at = ep1[usb_kbd_slot].at
              /\ ep1'[usb_kbd_slot'].ccs = ep1[usb_kbd_slot].ccs
              /\ ep1'[usb_kbd_slot'].at # EP_RING_SIZE - 1
          BY <1>1, <2>1, <2>7, <4>2
        <5>2. EndpointAtLast'
          BY <1>1, <3>1, <5>1 DEF EndpointAtLast, EndpointAt
        <5>3. QED
          BY <1>1, <1>2, <3>1, <5>1, <5>2 DEF OneTransfer
      <4>3. QED
        BY <2>1, <2>5, <3>1, <4>1, <4>2, EndpointCases
    <3>2. CASE /\ EndpointAt(ep1_enqueue, ep1_cycle)
               /\ \E i \in DOMAIN queue : /\ TransferEvents = {i} /\ queue[i].slot = usb_kbd_slot
                                          /\ report = IF queue[i].ok THEN 1 ELSE 0
      <4>1. /\ at = EP_RING_SIZE - 1 /\ ep1_enqueue = 0 /\ ccs = Toggle(ep1_cycle)
            /\ trb.kind = "link"
        BY <1>4, <2>1, <2>5, <3>2, EndpointCases
      <4>2. ep1'[usb_kbd_slot'].at = 0 /\ ep1'[usb_kbd_slot'].ccs = ep1_cycle
        BY <1>1, <2>1, <2>6, <2>7, <4>1
      <4>3. EndpointAt(ep1_enqueue, ep1_cycle)'
        BY <1>1, <4>1, <4>2 DEF EndpointAt
      <4>4. ~ep1'[usb_kbd_slot'].busy
        BY <1>1, <2>1, <2>7, <4>1
      <4>5. QED
        BY <1>1, <1>2, <3>2, <4>3, <4>4 DEF OneTransfer
    <3>3. QED
      BY <2>5, <3>1, <3>2 DEF OneTransfer
  <2>9. Described' /\ Configured'
    BY <1>1, <2>4, <2>8 DEF Described, Configured, TransferRing
  <2>10. HasKeyboard'
    BY <1>1, <1>2, <2>1, <2>7, <2>9 DEF HasKeyboard
  <2>11. QED
    BY <2>10 DEF Phases
<1>5. QED
  BY <1>3, <1>4

(* A transfer completes.                                                   *)
LEMMA ReportPhases ==
  ASSUME Phases, DeviceTypes, RingInv, NEW s \in Slot, NEW ok \in BOOLEAN, xhc_report(s, ok)
  PROVE  Phases'
<1> DEFINE at == ep1[s].at
           ccs == ep1[s].ccs
<1>1. /\ ep1[s].busy /\ Post("transfer", s, ok, 0) /\ xhc' = Posted
      /\ ep1' = [ep1 EXCEPT ![s].busy = FALSE, ![s].at = @ + 1]
      /\ report' = (IF ok THEN report + 1 ELSE report)
      /\ UNCHANGED <<pc, usb_kbd_slot, ep1_configured, ep0_ring, addressed, ep0_dequeue>>
      /\ UNCHANGED <<ep1_ring, ep1_enqueue, ep1_cycle, event_dequeue, event_cycle, erdp>>
  BY DEF xhc_report, software, events, keyboard, transfer
<1>2. HasKeyboard /\ s = usb_kbd_slot
  BY <1>1 DEF Phases, NoKeyboard, NewContext, HasKeyboard
<1>3. Described /\ Configured
  BY <1>1, <1>2 DEF HasKeyboard, Describing, NotConfigured, NewContext
<1>4. /\ TransferRing /\ EndpointAtLast /\ TransferEvents = {} /\ report = 0
      /\ at # EP_RING_SIZE - 1
  BY <1>1, <1>2, <1>3 DEF Configured, OneTransfer
<1>5. EventRing
  BY DEF RingInv
<1>6. PICK m \in DOMAIN queue' : /\ queue'[m].slot = s /\ queue'[m].ok = ok
                                 /\ TransferEvents' = {m}
                                 /\ Succeeded' <=> Succeeded
  BY <1>1, <1>4, <1>5, PostedTransfers
<1>7. report' = IF ok THEN 1 ELSE 0
  BY <1>1, <1>4
<1>8. /\ ep1'[s].on = ep1[s].on /\ ~ep1'[s].busy
      /\ ep1'[s].at = at + 1 /\ ep1'[s].ccs = ccs
      /\ \A t \in Slot \ {s} : ep1'[t] = ep1[t]
  <2>1. ep1 \in [Slot -> Ep1Context] /\ ep1[s] \in Ep1Context
    BY DEF DeviceTypes
  <2>2. ep1' = [ep1 EXCEPT ![s] = [ep1[s] EXCEPT !.busy = FALSE, !.at = ep1[s].at + 1]]
    BY <1>1, <2>1
  <2>3. QED
    BY <2>1, <2>2 DEF Ep1Context
<1>9. IF ep1_enqueue = 0
        THEN /\ at = EP_RING_SIZE - 2 /\ ccs = Toggle(ep1_cycle)
             /\ ep1_ring[EP_RING_SIZE - 1].kind = "link"
        ELSE at = ep1_enqueue - 1 /\ ccs = ep1_cycle
  <2>1. EndpointAtLast /\ ep1[usb_kbd_slot].at = at /\ ep1[usb_kbd_slot].ccs = ccs
    BY <1>2, <1>4
  <2>2. QED
    BY <1>4, <2>1, EndpointCases
<1>10. EndpointAt(ep1_enqueue, ep1_cycle)'
  <2>1. /\ ep1'[usb_kbd_slot'].at = at + 1 /\ ep1'[usb_kbd_slot'].ccs = ccs
        /\ UNCHANGED <<ep1_ring, ep1_enqueue, ep1_cycle>>
    BY <1>1, <1>2, <1>8
  <2>2. EP_RING_SIZE - 2 + 1 = EP_RING_SIZE - 1 /\ ep1_enqueue - 1 + 1 = ep1_enqueue
    BY <1>4, EndpointSizes DEF TransferRing
  <2> HIDE DEF at, ccs
  <2>3. QED
    BY <1>9, <2>1, <2>2 DEF EndpointAt
<1>11. OneTransfer'
  <2>1. ~ep1'[usb_kbd_slot'].busy /\ queue'[m].slot = usb_kbd_slot'
    BY <1>1, <1>2, <1>6, <1>8
  <2>2. QED
    BY <1>6, <1>7, <1>10, <2>1 DEF OneTransfer
<1>12. Described' /\ Configured'
  BY <1>1, <1>3, <1>11 DEF Described, Configured, TransferRing
<1>13. HasKeyboard'
  BY <1>1, <1>2, <1>6, <1>8, <1>12 DEF HasKeyboard
<1>14. QED
  BY <1>13 DEF Phases

(* A port changes.                                                         *)
LEMMA PortEventPhases ==
  ASSUME Phases, RingInv, xhc_port_event
  PROVE  Phases'
<1>1. PICK ok \in BOOLEAN : Post("port", 0, ok, 0) /\ xhc' = Posted
  BY DEF xhc_port_event
<1>2. /\ EventRing /\ UNCHANGED <<event_dequeue, event_cycle, erdp>>
      /\ UNCHANGED <<pc, slot_id, got_data, ep0_ring, transfer, keyboard, addressed,
                     ep0_dequeue, ep1, report>>
  BY DEF xhc_port_event, software, driver, events, inside, RingInv
<1>3. TransfersKept /\ (Succeeded' <=> Succeeded)
  BY <1>1, <1>2, PostedTransfers
<1>4. QED
  BY <1>2, <1>3, KeyboardAside

(* The phases, action by action.                                           *)
LEMMA KeyboardStep == KeyboardInv /\ RingInv /\ [Next]_vars => KeyboardInv'
<1> SUFFICES ASSUME KeyboardInv, RingInv, [Next]_vars PROVE KeyboardInv'
  OBVIOUS
<1>1. DeviceTypes /\ LastCommand /\ CommandRing
  BY DEF KeyboardInv, RingInv
<1>2. DeviceTypes' /\ LastCommand'
  BY <1>1, DeviceTypesStep, LastCommandStep
<1>3. ASSUME Undisturbed' PROVE Phases'
  <2>1. Undisturbed /\ Phases
    BY <1>1, <1>3, UndisturbedBefore DEF KeyboardInv, Phases
  <2> USE <1>1, <1>3, <2>1
  <2>2. CASE \/ xhci_init_fails \/ xhci_perform_bios_handoff \/ start_reset \/ reset_timeout
             \/ no_memory \/ init_rings \/ start_timeout \/ power_ports
             \/ hc_stop \/ hc_reset \/ hc_start \/ UNCHANGED vars
    BY <2>2, QuietPhases
  <2>3. CASE next_port \/ flush_event \/ enable_slot
    BY <2>3, PortPhases
  <2>4. CASE ignore_event \/ command_failed \/ command_timeout \/ xhci_address_device
    BY <2>4, WaitPhases
  <2>5. CASE xhci_get_device_descriptor
    BY <2>5, GetDescriptorPhases
  <2>6. CASE descriptor_event
    BY <2>6, DescriptorPhases
  <2>7. CASE xhci_configure_kbd_endpoint
    BY <2>7, ConfigurePhases
  <2>8. CASE xhci_set_boot_protocol
    BY <2>8, BootProtocolPhases
  <2>9. CASE poll_report \/ poll_other
    BY <2>9, PollPhases
  <2>10. ASSUME NEW ok \in BOOLEAN, xhc_command(ok) PROVE Phases'
    BY <2>10, CommandPhases
  <2>11. ASSUME NEW s \in Slot, xhc_control(s) PROVE Phases'
    BY <2>11, ControlPhases
  <2>12. ASSUME NEW s \in Slot, xhc_fetch(s) PROVE Phases'
    BY <2>12, FetchPhases
  <2>13. ASSUME NEW s \in Slot, NEW ok \in BOOLEAN, xhc_report(s, ok) PROVE Phases'
    BY <2>13, ReportPhases
  <2>14. CASE xhc_port_event
    BY <2>14, PortEventPhases
  <2>15. QED
    BY <2>2, <2>3, <2>4, <2>5, <2>6, <2>7, <2>8, <2>9, <2>10, <2>11, <2>12, <2>13, <2>14
       DEF Next, Driver, Controller
<1>4. QED
  BY <1>2, <1>3 DEF KeyboardInv, Phases

(* At first there is no device.                                            *)
LEMMA KeyboardInit == Init => KeyboardInv
<1> SUFFICES ASSUME Init PROVE KeyboardInv
  OBVIOUS
<1>1. addressed = {} /\ slots = 0 /\ queue = <<>> /\ pc = "probe"
  BY DEF Init
<1>2. [on |-> FALSE, at |-> 0, ccs |-> 1, busy |-> FALSE] \in Ep1Context
  BY DEF Ep1Context
<1>3. DeviceTypes
  <2>1. /\ ep1 \in [Slot -> Ep1Context] /\ DOMAIN ep0_ring = Slot /\ DOMAIN ep0_dequeue = Slot
        /\ ep1_configured \in BOOLEAN
    BY <1>2 DEF Init
  <2>2. slots \in 0 .. PORTS /\ addressed \subseteq 1 .. slots
    BY <1>1, Sizes
  <2>3. QED
    BY <2>1, <2>2 DEF DeviceTypes
<1>4. LastCommand
  BY <1>1 DEF LastCommand
<1>5. TransferEvents = {}
  <2>1. DOMAIN queue = {}
    BY <1>1
  <2>2. QED
    BY <2>1 DEF TransferEvents
<1>6. NoKeyboard
  BY <1>1, <1>5 DEF Init, NoKeyboard, NoStages, NewContext
<1>7. QED
  BY <1>3, <1>4, <1>6 DEF KeyboardInv

(* The event the driver looks at is the one under way.                     *)
LEMMA ReportsOnce == KeyboardInv /\ EventRing => ReportsProcessedOnce
<1> SUFFICES ASSUME KeyboardInv, EventRing, OneKeyboard, missed = {} PROVE
      /\ report <= 1
      /\ pc = "poll" /\ Pending /\ FromKeyboard /\ Event.ok => report = 1
  BY DEF ReportsProcessedOnce
<1>1. Phases
  BY DEF OneKeyboard, Undisturbed, KeyboardInv, Phases
<1>2. CASE TransferEvents = {}
  <2>1. report = 0
    BY <1>1, <1>2 DEF Phases, NoKeyboard, HasKeyboard, Describing, NotConfigured, Configured,
       OneTransfer
  <2>2. ~ (Pending /\ FromKeyboard)
    <3>1. Pending => queue # <<>> /\ Event = Head(queue)
      BY EventRingInOrder DEF EventsInOrder
    <3>2. PICK S : queue \in Seq(S)
      BY QueueFacts
    <3>3. queue # <<>> => Head(queue) = queue[1] /\ 1 \in DOMAIN queue
      BY <3>2, EmptySeq, LenProperties, HeadTailProperties
    <3>4. QED
      BY <1>2, <3>1, <3>3 DEF FromKeyboard, TransferEvents
  <2>3. QED
    BY <2>1, <2>2
<1>3. CASE TransferEvents # {}
  <2>1. HasKeyboard
    BY <1>1, <1>3 DEF Phases, NoKeyboard
  <2>2. CASE Describing
    BY <2>2 DEF Describing
  <2>3. CASE Configured
    <3>1. PICK i \in DOMAIN queue : /\ TransferEvents = {i}
                                    /\ report = IF queue[i].ok THEN 1 ELSE 0
      BY <1>3, <2>3 DEF Configured, OneTransfer
    <3>2. Pending => queue # <<>> /\ Event = Head(queue)
      BY EventRingInOrder DEF EventsInOrder
    <3>3. PICK S : queue \in Seq(S)
      BY QueueFacts
    <3>4. queue # <<>> => Head(queue) = queue[1] /\ 1 \in DOMAIN queue
      BY <3>3, EmptySeq, LenProperties, HeadTailProperties
    <3>5. Pending /\ FromKeyboard => i = 1 /\ Event = queue[1]
      BY <3>1, <3>2, <3>4 DEF FromKeyboard, TransferEvents
    <3>6. QED
      BY <3>1, <3>5
  <2>4. QED
    BY <1>3, <2>1, <2>2, <2>3 DEF HasKeyboard, NotConfigured
<1>4. QED
  BY <1>2, <1>3

-----------------------------------------------------------------------------
(* The theorems                                                            *)

(* In the beginning the rings are empty and nobody has begun.              *)
LEMMA InitInv == Init => Inv
<1> SUFFICES ASSUME Init PROVE Inv
  OBVIOUS
<1>1. OwnInv
  BY DEF Init, OwnInv, HandedOver, DriverOwns
<1>2. EventRing
  <2>1. /\ event_dequeue = 0 /\ event_cycle = 1 /\ erdp = 0 /\ queue = <<>>
        /\ xhc = [command |-> 0, ccs |-> 1, enqueue |-> 0, cycle |-> 1]
        /\ event_ring = [i \in EventPlaces |-> NoEvent]
    BY DEF Init, EventPlaces
  <2>2. Ahead(0, 0) = 0 /\ 0 \in EventPlaces
    BY Sizes DEF Ahead, EventPlaces
  <2>3. queue = [i \in 1 .. 0 |-> event_ring[Place(event_dequeue + i - 1)]]
    BY <2>1
  <2>4. \A j \in EventPlaces : event_ring[j].cycle = 0 /\ ~(j < 0)
    BY <2>1, Sizes DEF EventPlaces, NoEvent
  <2>5. QED
    BY <2>1, <2>2, <2>3, <2>4 DEF EventRing, Toggle
<1>3. CommandRing
  <2>1. \A i \in 0 .. CMD_RING_SIZE - 2 : cmd_ring[i].cycle = 0
    BY Sizes DEF Init, NoCommand
  <2>2. /\ sent = 0 /\ cmd_enqueue = 0 /\ cmd_cycle = 1
        /\ xhc = [command |-> 0, ccs |-> 1, enqueue |-> 0, cycle |-> 1]
        /\ DOMAIN cmd_ring = 0 .. CMD_RING_SIZE - 1
    BY DEF Init
  <2>3. 0 \in 0 .. CMD_RING_SIZE - 2 /\ 0 .. sent - 1 = {}
    BY <2>2, Sizes
  <2>4. QED
    BY <2>1, <2>2, <2>3 DEF CommandRing
<1>4. OneCommand
  BY DEF Init, OneCommand, Waiting, CommandEvents
<1>5. QED
  BY <1>1, <1>2, <1>3, <1>4, KeyboardInit DEF Inv, RingInv

(* The invariant holds in every reachable state, whatever the driver and   *)
(* the controller do in between each other's steps.                        *)
THEOREM Invariance == Spec => []Inv
<1>1. Inv /\ [Next]_vars => Inv'
  BY RingStep, OwnStep, KeyboardStep DEF Inv
<1>2. QED
  BY InitInv, <1>1, PTL DEF Spec

(* xhci_init looks at ports only when the controller is its own, no reset  *)
(* is still to come, and it works with the rings it was given - unless it  *)
(* was reset before it halted and did not recover.                         *)
THEOREM ControllerIsOwned == Spec => []DriverOwns
<1>1. Inv => DriverOwns
  BY DEF Inv, OwnInv
<1>2. QED
  BY <1>1, Invariance, PTL

(* Comparing the cycle bit of one TRB tells the driver whether there is an *)
(* event, and it takes the events in the order they were posted.           *)
THEOREM EventsAreInOrder == Spec => []EventsInOrder
<1>1. Inv => EventsInOrder
  BY EventRingInOrder DEF Inv, RingInv
<1>2. QED
  BY <1>1, Invariance, PTL

(* xhci_send_command returns the answer to its own command, unless an      *)
(* earlier wait timed out.                                                 *)
THEOREM AnswersAreMatched == Spec => []AnswersMatch
<1>1. ASSUME Inv PROVE AnswersMatch
  <2> SUFFICES ASSUME Waiting, Pending, Event.kind = "command", "command" \notin missed
               PROVE  Event.of = sent
    BY DEF AnswersMatch
  <2>1. EventRing /\ OneCommand
    BY <1>1 DEF Inv, RingInv
  <2>2. queue[1] = Event /\ 1 \in DOMAIN queue
    <3>1. queue # <<>> /\ Event = Head(queue)
      BY <2>1, EventRingInOrder DEF EventsInOrder
    <3>2. PICK S : queue \in Seq(S)
      BY <2>1, QueueFacts
    <3>3. Len(queue) \in Nat /\ Len(queue) > 0 /\ DOMAIN queue = 1 .. Len(queue)
      BY <3>1, <3>2, EmptySeq, LenProperties
    <3>4. QED
      BY <3>1, <3>2, <3>3, HeadTailProperties
  <2>3. 1 \in CommandEvents
    BY <2>2 DEF CommandEvents
  <2>4. \E i \in DOMAIN queue : CommandEvents = {i} /\ queue[i].of = sent
    BY <2>1, <2>3 DEF OneCommand
  <2>5. QED
    BY <2>2, <2>3, <2>4
<1>2. QED
  BY <1>1, Invariance, PTL

(* With one keyboard and nothing missed, usb_kbd_poll looks at each report *)
(* once, before the controller writes the next one into the same buffer.   *)
THEOREM ReportsAreProcessedOnce == Spec => []ReportsProcessedOnce
<1>1. Inv => ReportsProcessedOnce
  BY ReportsOnce DEF Inv, RingInv
<1>2. QED
  BY <1>1, Invariance, PTL
=============================================================================
