--------------------------- MODULE SrtpStreamProofs ---------------------------
(***************************************************************************)
(* Proofs about a stream over a network that loses, doubles and reorders,  *)
(* without the faults: for every width of the sequence numbers, the window *)
(* and the integers, and for a stream of any length.                       *)
(***************************************************************************)
EXTENDS SrtpStream, TLAPS

----------------------------------------------------------------------------
(* Arithmetic of the index.                                                *)

LEMMA SeqNosType ==
  SeqNos \in Nat /\ SeqHalf \in Nat /\ SeqNos = SeqHalf + SeqHalf /\ SeqHalf > 0 /\ SeqNos > 0
BY WidthAssumption DEF SeqNos

(* Packets of one cycle are as far apart as their sequence numbers.        *)
LEMMA SameCycle ==
  ASSUME NEW r \in Nat, NEW a \in SeqNo, NEW b \in SeqNo
  PROVE  Index(r, a) \in Nat /\ Index(r, a) - Index(r, b) = a - b
<1>1. r * SeqNos \in Nat
  BY SeqNosType
<1> DEFINE base == r * SeqNos
<1>2. Index(r, a) = base + a /\ Index(r, b) = base + b
  BY DEF Index
<1>3. a \in Nat /\ b \in Nat
  BY SeqNosType DEF SeqNo
<1> HIDE DEF base
<1> QED BY <1>1, <1>2, <1>3 DEF base

(* A cycle further, and a cycle more than that.                            *)
LEMMA NextCycle ==
  ASSUME NEW r \in Nat, NEW a \in SeqNo, NEW b \in SeqNo
  PROVE  Index(r + 1, a) - Index(r, b) = SeqNos + a - b
<1>1. (r + 1) * SeqNos = r * SeqNos + SeqNos
  BY SeqNosType
<1>2. r * SeqNos \in Nat
  BY SeqNosType
<1>3. a \in Nat /\ b \in Nat
  BY SeqNosType DEF SeqNo
<1> DEFINE base == r * SeqNos
<1>4. Index(r, b) = base + b /\ Index(r + 1, a) = base + SeqNos + a
  BY <1>1 DEF Index
<1>5. base \in Nat
  BY <1>2
<1> HIDE DEF base
<1> QED BY <1>3, <1>4, <1>5, SeqNosType

LEMMA LaterCycle ==
  ASSUME NEW r \in Nat, NEW q \in Nat, q > r, NEW a \in SeqNo, NEW b \in SeqNo
  PROVE  Index(q, a) - Index(r, b) >= (q - r) * SeqNos + a - b
         /\ Index(q, a) > Index(r, b)
<1>1. q * SeqNos = r * SeqNos + (q - r) * SeqNos
  BY SeqNosType
<1>2. r * SeqNos \in Nat
  BY SeqNosType
<1>3. (q - r) * SeqNos >= SeqNos
  <2>1. PICK k \in Nat : q - r = k + 1
    <3>1. q - r - 1 \in Nat /\ q - r = (q - r - 1) + 1
      OBVIOUS
    <3> QED BY <3>1
  <2>2. (k + 1) * SeqNos = k * SeqNos + SeqNos
    BY SeqNosType
  <2>3. k * SeqNos \in Nat
    BY SeqNosType
  <2> QED BY <2>1, <2>2, <2>3, SeqNosType
<1>4. a \in Nat /\ b \in Nat /\ b < SeqNos
  BY SeqNosType DEF SeqNo
<1> DEFINE base == r * SeqNos
           diff == (q - r) * SeqNos
<1>5. Index(r, b) = base + b /\ Index(q, a) = base + diff + a
  BY <1>1 DEF Index
<1>6. base \in Nat /\ diff >= SeqNos /\ diff \in Int
  BY <1>2, <1>3, SeqNosType
<1> HIDE DEF base, diff
<1> QED BY <1>4, <1>5, <1>6, SeqNosType DEF diff

----------------------------------------------------------------------------
(* h is the latest packet that was taken, or its sequence number has given *)
(* way to that of a late one.                                              *)
Holds(ctx, h) == ctx.roc = h.roc /\ h.seq <= ctx.s_l

(* p comes in order after h, and no half cycle is missing.                 *)
ComesAfter(p, h) ==
  /\ IndexOf(p) > IndexOf(h)
  /\ IndexOf(p) - IndexOf(h) < SeqHalf

(* p is not of a cycle before that of h.                                   *)
LEMMA CycleOrder ==
  ASSUME NEW p \in Packet, NEW h \in Packet
  PROVE  /\ IndexOf(p) > IndexOf(h) => p.roc > h.roc \/ (p.roc = h.roc /\ p.seq > h.seq)
         /\ ~(IndexOf(p) > IndexOf(h)) => p.roc < h.roc \/ (p.roc = h.roc /\ p.seq <= h.seq)
<1>1. p.roc \in Nat /\ h.roc \in Nat /\ p.seq \in SeqNo /\ h.seq \in SeqNo
  BY WidthAssumption DEF Packet
<1>2. p.seq \in Nat /\ h.seq \in Nat
  BY <1>1, SeqNosType DEF SeqNo
<1>3. IndexOf(p) \in Nat /\ IndexOf(h) \in Nat
  BY <1>1, SameCycle DEF IndexOf
<1>4. CASE p.roc = h.roc
  <2>1. IndexOf(p) - IndexOf(h) = p.seq - h.seq
    BY <1>1, <1>4, SameCycle DEF IndexOf
  <2> QED BY <1>2, <1>3, <1>4, <2>1
<1>5. CASE p.roc > h.roc
  <2>1. IndexOf(p) > IndexOf(h)
    BY <1>1, <1>5, LaterCycle DEF IndexOf
  <2> QED BY <1>1, <1>5, <2>1
<1>6. CASE p.roc < h.roc
  <2>1. IndexOf(h) > IndexOf(p)
    BY <1>1, <1>6, LaterCycle DEF IndexOf
  <2> QED BY <1>1, <1>3, <1>6, <2>1
<1> QED BY <1>1, <1>4, <1>5, <1>6

(* The receiver guesses right, whatever less than half a cycle is missing, *)
(* unless a late packet misleads it.                                       *)
LEMMA GuessIsRight ==
  ASSUME NEW ctx \in Contexts, NEW h \in Packet, NEW p \in Packet,
         Holds(ctx, h), ComesAfter(p, h), p.roc = ctx.roc => ctx.s_l - SeqHalf <= p.seq
  PROVE  guessed_roc(ctx, p.seq) = p.roc
<1>1. /\ ctx.roc \in Nat /\ ctx.roc < Rocs /\ ctx.s_l \in SeqNo
      /\ p.roc \in Nat /\ p.roc < Rocs /\ p.seq \in SeqNo
      /\ h.roc = ctx.roc /\ h.seq \in SeqNo /\ h.seq <= ctx.s_l
  BY WidthAssumption DEF Contexts, Packet, Holds
<1>2. /\ ctx.s_l \in Nat /\ p.seq \in Nat /\ h.seq \in Nat
      /\ ctx.s_l < SeqNos /\ p.seq < SeqNos /\ h.seq < SeqNos
  BY <1>1, SeqNosType DEF SeqNo
<1> DEFINE i == IndexOf(p)
           l == IndexOf(h)
<1>3. i \in Nat /\ l \in Nat /\ i > l /\ i - l < SeqHalf
  BY <1>1, SameCycle DEF IndexOf, ComesAfter
<1>4. CASE p.roc = ctx.roc
  <2>1. i - l = p.seq - h.seq
    BY <1>1, <1>4, SameCycle DEF IndexOf
  <2> HIDE DEF i, l
  <2>2. p.seq - ctx.s_l < SeqHalf /\ ctx.s_l - SeqHalf <= p.seq
    BY <1>1, <1>2, <1>3, <1>4, <2>1, SeqNosType
  <2> QED BY <1>2, <1>4, <2>2, SeqNosType DEF guessed_roc
<1>5. CASE p.roc = ctx.roc + 1
  <2>1. i - l = SeqNos + p.seq - h.seq
    BY <1>1, <1>5, NextCycle DEF IndexOf
  <2>2. ~(ctx.s_l < SeqHalf) /\ ctx.s_l - SeqHalf > p.seq
    <3> HIDE DEF i, l
    <3> QED BY <1>1, <1>2, <1>3, <2>1, SeqNosType
  <2>3. (ctx.roc + 1) % Rocs = ctx.roc + 1
    BY <1>1, <1>5, WidthAssumption
  <2> QED BY <1>1, <1>5, <2>2, <2>3 DEF guessed_roc
<1>6. CASE p.roc > ctx.roc + 1
  <2> DEFINE m == Index(ctx.roc + 1, SeqNos - 1)
  <2>1. SeqNos - 1 \in SeqNo
    BY SeqNosType DEF SeqNo
  <2>2. i > m /\ m \in Nat
    <3>1. ctx.roc + 1 \in Nat /\ p.roc > ctx.roc + 1
      BY <1>1, <1>6
    <3>2. Index(p.roc, p.seq) > m
      BY <1>1, <2>1, <3>1, LaterCycle
    <3>3. m \in Nat
      BY <2>1, <3>1, SameCycle
    <3> QED BY <3>2, <3>3 DEF IndexOf
  <2>3. m - l = SeqNos + (SeqNos - 1) - h.seq
    BY <1>1, <2>1, NextCycle DEF IndexOf
  <2> HIDE DEF i, l, m
  <2> QED BY <1>2, <1>3, <2>2, <2>3, SeqNosType
<1>7. p.roc >= ctx.roc
  BY <1>1, CycleOrder DEF ComesAfter
<1> QED BY <1>1, <1>4, <1>5, <1>6, <1>7

(* A packet whose tag fits, and that is beyond the highest in the first    *)
(* cycle, is found to be new.                                              *)
LEMMA NewIsTaken ==
  ASSUME NEW ctx \in Contexts, NEW p \in Packet, guessed_roc(ctx, p.seq) = p.roc,
         p.roc = 0 => p.seq > ctx.s_l
  PROVE  ~MayDrop(ctx, p)
<1>1. p.roc \in Nat /\ p.seq \in SeqNo /\ p.seq \in Nat /\ ctx.s_l \in Nat /\ ctx.s_l < SeqNos
  BY WidthAssumption, SeqNosType DEF Contexts, Packet, SeqNo
<1> DEFINE base == p.roc * SeqNos
<1>2. guess_index(ctx, p.seq) = base + p.seq
  BY DEF guess_index, Index
<1>3. base \in Nat /\ (p.roc > 0 => base >= SeqNos) /\ (p.roc = 0 => base = 0)
  <2>1. CASE p.roc = 0
    BY <2>1, SeqNosType
  <2>2. CASE p.roc > 0
    <3>1. PICK k \in Nat : p.roc = k + 1
      <4>1. p.roc - 1 \in Nat /\ p.roc = (p.roc - 1) + 1
        BY <1>1, <2>2
      <4> QED BY <4>1
    <3>2. (k + 1) * SeqNos = k * SeqNos + SeqNos /\ k * SeqNos \in Nat
      BY SeqNosType
    <3> QED BY <2>2, <3>1, <3>2, SeqNosType
  <2> QED BY <1>1, <2>1, <2>2
<1>4. ctx.s_l - guess_index(ctx, p.seq) < 0
  <2> HIDE DEF base
  <2> QED BY <1>1, <1>2, <1>3, SeqNosType
<1>5. check_replay(ctx, p.seq) = {TRUE}
  BY <1>4 DEF check_replay
<1> QED BY <1>5 DEF MayDrop, authentic

----------------------------------------------------------------------------
(* The types.                                                              *)

LEMMA WindowType ==
  ASSUME NEW window \in SUBSET Bits, NEW delta \in Int
  PROVE  /\ \A w \in Advanced(window, delta) : w \in SUBSET Bits
         /\ \A m \in Marked(delta) : m \in SUBSET Bits
         /\ 0 \in Bits
<1>1. 0 \in Bits
  BY WidthAssumption DEF Bits
<1>2. \A w \in Advanced(window, delta) : w \in SUBSET Bits
  BY DEF Advanced, ShiftedLeft
<1>3. \A m \in Marked(delta) : m \in SUBSET Bits
  <2>1. delta % IntBits \in 0 .. IntBits - 1 /\ IntBits <= WindowSize
        /\ IntBits \in Nat /\ WindowSize \in Nat
    BY WidthAssumption
  <2> DEFINE bit == delta % IntBits
  <2>2. bit \in Bits /\ bit .. WindowSize - 1 \in SUBSET Bits
    BY <2>1 DEF Bits
  <2> QED BY <1>1, <2>2 DEF Marked
<1> QED BY <1>1, <1>2, <1>3

LEMMA UpdateType ==
  ASSUME NEW ctx \in Contexts, NEW seq \in SeqNo
  PROVE  \A c \in update(ctx, seq) : c \in Contexts
<1>1. guessed_roc(ctx, seq) \in 0 .. Rocs - 1
  BY WidthAssumption DEF guessed_roc, Contexts
<1> DEFINE delta == guess_index(ctx, seq) - Index(ctx.roc, ctx.s_l)
<1>2. delta \in Int
  <2>1. ctx.roc \in Nat /\ ctx.s_l \in SeqNo /\ guessed_roc(ctx, seq) \in Nat
    BY <1>1, WidthAssumption DEF Contexts
  <2>2. guess_index(ctx, seq) \in Nat /\ Index(ctx.roc, ctx.s_l) \in Nat
    BY <2>1, SameCycle DEF guess_index
  <2> QED BY <2>2
<1> HIDE DEF delta
<1>3. ctx.window \in SUBSET Bits
  BY DEF Contexts
<1>4. \A w \in NextWindows(ctx, delta) : w \in SUBSET Bits
  <2>1. CASE delta > 0
    <3>1. \A w \in Advanced(ctx.window, delta) : w \cup {0} \in SUBSET Bits
      BY <1>2, <1>3, WindowType
    <3> QED BY <2>1, <3>1 DEF NextWindows
  <2>2. CASE ~(delta > 0)
    <3>1. \A m \in Marked(delta) : ctx.window \cup m \in SUBSET Bits
      BY <1>2, <1>3, WindowType
    <3> QED BY <2>2, <3>1 DEF NextWindows
  <2> QED BY <2>1, <2>2
<1>5. ASSUME NEW c \in update(ctx, seq)
      PROVE  c \in Contexts
  <2>1. PICK w \in NextWindows(ctx, delta) :
          c = [roc    |-> IF guessed_roc(ctx, seq) > ctx.roc
                          THEN guessed_roc(ctx, seq) ELSE ctx.roc,
               s_l    |-> IF guessed_roc(ctx, seq) > ctx.roc \/ seq > ctx.s_l
                          THEN seq ELSE ctx.s_l,
               window |-> w]
    BY DEF update, delta
  <2> QED BY <1>1, <1>4, <2>1 DEF Contexts
<1> QED BY <1>5

----------------------------------------------------------------------------
(* The inductive invariant.                                                *)

(* p was taken in order, and is marked as long as it is within the window. *)
Recorded(ctx, p) ==
  /\ p.roc < ctx.roc \/ (p.roc = ctx.roc /\ p.seq <= ctx.s_l)
  /\ ctx.roc = 0 /\ ctx.s_l - p.seq < WindowSize => ctx.s_l - p.seq \in ctx.window

(* The context holds the latest packet h, or a late one of the cycle       *)
(* before has left its sequence number.                                    *)
Fits(ctx, h) ==
  /\ Holds(ctx, h)
  /\ ctx.s_l = h.seq \/ \E q \in late : q.roc + 1 = h.roc /\ q.seq = ctx.s_l

(* The receiver knows nothing of the stream, or what it has taken.         *)
Follows ==
  \/ receiver = {} /\ highest = {} /\ inOrder = {} /\ late = {}
  \/ \E ctx \in Contexts, h \in Packet :
       /\ receiver = {ctx} /\ highest = {h} /\ Fits(ctx, h)
       /\ \A p \in inOrder : Recorded(ctx, p)

IInv == TypeOK /\ Follows

(* The first packet makes a context that takes it.                         *)
LEMMA FirstIsTaken ==
  ASSUME NEW p \in Packet, p.roc = 0
  PROVE  LET ctx == newContext(0, p.seq) IN
         /\ ctx \in Contexts /\ ~MayDrop(ctx, p)
         /\ update(ctx, p.seq) = {[roc |-> 0, s_l |-> p.seq, window |-> {0}]}
<1> DEFINE ctx == newContext(0, p.seq)
<1>1. p.seq \in SeqNo /\ p.seq \in Nat
  BY SeqNosType DEF Packet, SeqNo
<1>2. ctx = [roc |-> 0, s_l |-> p.seq, window |-> {}] /\ ctx \in Contexts
  BY <1>1, WidthAssumption DEF newContext, Contexts
<1>3. guessed_roc(ctx, p.seq) = 0
  BY <1>1, <1>2, SeqNosType DEF guessed_roc
<1>4. Index(0, p.seq) = p.seq
  BY <1>1, SeqNosType DEF Index
<1>5. guess_index(ctx, p.seq) = p.seq
  BY <1>3, <1>4 DEF guess_index
<1>6. check_replay(ctx, p.seq) = {TRUE}
  <2> DEFINE behind == ctx.s_l - guess_index(ctx, p.seq)
  <2>1. behind = 0 /\ ctx.window = {}
    BY <1>1, <1>2, <1>5
  <2> HIDE DEF ctx, behind
  <2>2. ~(behind < 0) /\ ~(behind > WindowSize) /\ behind # WindowSize
    BY <2>1, WidthAssumption
  <2>3. check_replay(ctx, p.seq) = {behind \notin ctx.window}
    BY <2>2 DEF check_replay, behind
  <2>4. (behind \notin ctx.window) = TRUE
    BY <2>1
  <2> QED BY <2>3, <2>4
<1>7. ~MayDrop(ctx, p)
  BY <1>3, <1>6 DEF MayDrop, authentic
<1>8. NextWindows(ctx, 0) = {{0}}
  <2>1. Marked(0) = {{0}}
    BY DEF Marked
  <2> QED BY <1>2, <2>1 DEF NextWindows
<1>9. update(ctx, p.seq) = {[roc |-> 0, s_l |-> p.seq, window |-> {0}]}
  <2>1. guess_index(ctx, p.seq) - Index(ctx.roc, ctx.s_l) = 0
    BY <1>1, <1>2, <1>4, <1>5
  <2>2. ~(0 > ctx.roc) /\ ~(p.seq > ctx.s_l)
    BY <1>1, <1>2
  <2> QED BY <1>2, <1>3, <1>8, <2>1, <2>2 DEF update
<1> QED BY <1>2, <1>7, <1>9

(* What a packet in order leaves.                                          *)
LEMMA NewIsRecorded ==
  ASSUME NEW ctx \in Contexts, NEW h \in Packet, NEW p \in Packet,
         Holds(ctx, h), ctx.roc = 0 => ctx.s_l = h.seq,
         IndexOf(p) > IndexOf(h), authentic(ctx, p), NEW c \in update(ctx, p.seq)
  PROVE  /\ Holds(c, p) /\ Recorded(c, p)
         /\ \/ c.s_l = p.seq
            \/ c.s_l = ctx.s_l /\ p.roc = h.roc /\ ctx.s_l # h.seq
         /\ \A q \in Packet : Recorded(ctx, q) => Recorded(c, q)
<1>1. guessed_roc(ctx, p.seq) = p.roc
  BY DEF authentic
<1>2. (p.roc = ctx.roc /\ p.seq > h.seq) \/ p.roc > ctx.roc
  BY CycleOrder DEF Holds
<1>3. /\ ctx.roc \in Nat /\ ctx.s_l \in SeqNo /\ p.roc \in Nat /\ p.seq \in SeqNo
      /\ ctx.s_l \in Nat /\ p.seq \in Nat
      /\ h.roc = ctx.roc /\ h.seq \in Nat /\ h.seq <= ctx.s_l
  BY WidthAssumption, SeqNosType DEF Contexts, Packet, SeqNo, Holds
<1> DEFINE delta == IndexOf(p) - Index(ctx.roc, ctx.s_l)
<1>4. guess_index(ctx, p.seq) - Index(ctx.roc, ctx.s_l) = delta
  BY <1>1 DEF guess_index, IndexOf
<1>5. PICK w \in NextWindows(ctx, delta) :
        /\ c.roc = IF p.roc > ctx.roc THEN p.roc ELSE ctx.roc
        /\ c.s_l = IF p.roc > ctx.roc \/ p.seq > ctx.s_l THEN p.seq ELSE ctx.s_l
        /\ c.window = w
  BY <1>1, <1>4 DEF update
<1> HIDE DEF delta
<1>6. c.roc = p.roc /\ p.seq <= c.s_l
  BY <1>2, <1>3, <1>5
<1>7. c.s_l = p.seq \/ (c.s_l = ctx.s_l /\ p.roc = h.roc /\ ctx.s_l # h.seq)
  BY <1>2, <1>3, <1>5
<1>8. ASSUME c.roc = 0
      PROVE  /\ p.roc = ctx.roc /\ p.seq > ctx.s_l /\ c.s_l = p.seq
             /\ delta = p.seq - ctx.s_l
             /\ \E v \in Advanced(ctx.window, delta) : c.window = v \cup {0}
  <2>1. p.roc = ctx.roc /\ ctx.roc = 0
    BY <1>2, <1>3, <1>6, <1>8
  <2>2. p.seq > ctx.s_l /\ c.s_l = p.seq
    BY <1>2, <1>3, <1>5, <2>1
  <2>3. delta = p.seq - ctx.s_l
    BY <1>3, <2>1, SameCycle DEF IndexOf, delta
  <2>4. delta > 0
    BY <1>3, <2>2, <2>3
  <2> QED BY <1>5, <2>1, <2>2, <2>3, <2>4 DEF NextWindows
<1>9. Recorded(c, p)
  <2>1. ASSUME c.roc = 0, c.s_l - p.seq < WindowSize
        PROVE  c.s_l - p.seq \in c.window
    BY <1>3, <1>8, <2>1
  <2> QED BY <1>6, <2>1 DEF Recorded
<1>10. ASSUME NEW q \in Packet, Recorded(ctx, q)
       PROVE  Recorded(c, q)
  <2>1. q.roc \in Nat /\ q.seq \in Nat
    BY WidthAssumption, SeqNosType DEF Packet, SeqNo
  <2>2. q.roc < c.roc \/ (q.roc = c.roc /\ q.seq <= c.s_l)
    <3>1. q.roc < ctx.roc \/ (q.roc = ctx.roc /\ q.seq <= ctx.s_l)
      BY <1>10 DEF Recorded
    <3>2. c.roc > ctx.roc \/ (c.roc = ctx.roc /\ c.s_l >= ctx.s_l)
      BY <1>2, <1>3, <1>5
    <3>3. c.roc \in Nat /\ c.s_l \in Nat
      BY <1>3, <1>5
    <3> QED BY <1>3, <2>1, <3>1, <3>2, <3>3
  <2>3. ASSUME c.roc = 0, c.s_l - q.seq < WindowSize
        PROVE  c.s_l - q.seq \in c.window
    <3>1. /\ p.roc = ctx.roc /\ ctx.roc = 0 /\ p.seq > ctx.s_l /\ c.s_l = p.seq
          /\ delta = p.seq - ctx.s_l
      BY <1>6, <1>8, <2>3
    <3>2. PICK v \in Advanced(ctx.window, delta) : c.window = v \cup {0}
      BY <1>8, <2>3
    <3>3. q.seq <= ctx.s_l
      BY <1>10, <2>1, <3>1 DEF Recorded
    <3>4. delta < WindowSize /\ ctx.s_l - q.seq < WindowSize
      BY <1>3, <2>1, <2>3, <3>1, <3>3, WidthAssumption
    <3>5. ctx.s_l - q.seq \in ctx.window
      BY <1>10, <3>1, <3>4 DEF Recorded
    <3>6. v = ShiftedLeft(ctx.window, delta)
      BY <3>2, <3>4 DEF Advanced
    <3>7. (ctx.s_l - q.seq) + delta = c.s_l - q.seq
      BY <1>3, <2>1, <3>1
    <3>8. c.s_l - q.seq \in Bits
      BY <1>3, <2>1, <2>3, <3>1, <3>3, WidthAssumption DEF Bits
    <3> QED BY <3>2, <3>5, <3>6, <3>7, <3>8 DEF ShiftedLeft
  <2> QED BY <2>2, <2>3 DEF Recorded
<1> QED BY <1>6, <1>7, <1>9, <1>10 DEF Holds

(* What a late packet leaves: its sequence number, if it is of the cycle   *)
(* before.                                                                 *)
LEMMA LateIsAdded ==
  ASSUME NEW ctx \in Contexts, NEW h \in Packet, NEW p \in Packet, Holds(ctx, h),
         ~(IndexOf(p) > IndexOf(h)), authentic(ctx, p), NEW c \in update(ctx, p.seq)
  PROVE  /\ Holds(c, h)
         /\ c.s_l = ctx.s_l \/ (p.roc + 1 = h.roc /\ c.s_l = p.seq)
         /\ \A q \in Packet : Recorded(ctx, q) => Recorded(c, q)
<1>1. guessed_roc(ctx, p.seq) = p.roc
  BY DEF authentic
<1>2. p.roc < ctx.roc \/ (p.roc = ctx.roc /\ p.seq <= h.seq)
  BY CycleOrder DEF Holds
<1>3. /\ ctx.roc \in Nat /\ ctx.s_l \in SeqNo /\ p.roc \in Nat /\ p.seq \in SeqNo
      /\ ctx.s_l \in Nat /\ p.seq \in Nat /\ ctx.roc < Rocs
      /\ h.roc = ctx.roc /\ h.seq \in Nat /\ h.seq <= ctx.s_l
  BY WidthAssumption, SeqNosType DEF Contexts, Packet, SeqNo, Holds
<1> DEFINE delta == IndexOf(p) - Index(ctx.roc, ctx.s_l)
<1>4. guess_index(ctx, p.seq) - Index(ctx.roc, ctx.s_l) = delta
  BY <1>1 DEF guess_index, IndexOf
<1>5. PICK w \in NextWindows(ctx, delta) :
        /\ c.roc = IF p.roc > ctx.roc THEN p.roc ELSE ctx.roc
        /\ c.s_l = IF p.roc > ctx.roc \/ p.seq > ctx.s_l THEN p.seq ELSE ctx.s_l
        /\ c.window = w
  BY <1>1, <1>4 DEF update
<1> HIDE DEF delta
<1>6. c.roc = ctx.roc /\ ctx.s_l <= c.s_l /\ c.s_l \in Nat
  BY <1>2, <1>3, <1>5
<1>7. c.s_l = ctx.s_l \/ (p.roc + 1 = h.roc /\ c.s_l = p.seq)
  <2>1. CASE p.seq <= ctx.s_l
    BY <1>2, <1>3, <1>5, <2>1
  <2>2. CASE p.seq > ctx.s_l
    <3>1. p.roc < ctx.roc /\ c.s_l = p.seq
      BY <1>2, <1>3, <1>5, <2>2
    <3>2. guessed_roc(ctx, p.seq) = (ctx.roc - 1) % Rocs
      BY <1>1, <1>3, <2>2, <3>1, SeqNosType DEF guessed_roc
    <3>3. (ctx.roc - 1) % Rocs = ctx.roc - 1
      BY <1>3, <3>1, WidthAssumption
    <3> QED BY <1>1, <1>3, <3>1, <3>2, <3>3
  <2> QED BY <1>3, <2>1, <2>2
<1>8. ASSUME ctx.roc = 0
      PROVE  c.s_l = ctx.s_l /\ ctx.window \subseteq c.window
  <2>1. p.roc = ctx.roc /\ p.seq <= ctx.s_l
    BY <1>2, <1>3, <1>8
  <2>2. delta = p.seq - ctx.s_l
    BY <1>3, <2>1, SameCycle DEF IndexOf, delta
  <2>3. ~(delta > 0)
    BY <1>3, <2>1, <2>2
  <2> QED BY <1>3, <1>5, <2>1, <2>3 DEF NextWindows
<1>9. ASSUME NEW q \in Packet, Recorded(ctx, q)
      PROVE  Recorded(c, q)
  <2>1. q.roc \in Nat /\ q.seq \in Nat
    BY WidthAssumption, SeqNosType DEF Packet, SeqNo
  <2>2. q.roc < c.roc \/ (q.roc = c.roc /\ q.seq <= c.s_l)
    BY <1>3, <1>6, <1>9, <2>1 DEF Recorded
  <2>3. ASSUME c.roc = 0, c.s_l - q.seq < WindowSize
        PROVE  c.s_l - q.seq \in c.window
    BY <1>6, <1>8, <1>9, <2>3 DEF Recorded
  <2> QED BY <2>2, <2>3 DEF Recorded
<1>10. Holds(c, h)
  BY <1>3, <1>6 DEF Holds
<1> QED BY <1>7, <1>9, <1>10

----------------------------------------------------------------------------
(* The steps of a stream without the faults.                               *)

LEMMA NextPacket ==
  ASSUME NEW p \in Packet, protect(p)
  PROVE  sender' \in Packet
<1>1. p.roc \in 0 .. Rocs - 1 /\ p.seq \in SeqNo
  BY DEF Packet
<1>2. (p.roc + 1) % Rocs \in 0 .. Rocs - 1
  BY <1>1, WidthAssumption
<1>3. (p.seq + 1) % SeqNos \in SeqNo
  BY <1>1, SeqNosType DEF SeqNo
<1> QED BY <1>1, <1>2, <1>3 DEF protect, Packet

(* A packet the network brings, and the context that meets it.             *)
LEMMA WhatIsBrought ==
  ASSUME Faults = {}, IInv, NEW p \in sent, Brings(p), NEW ctx \in getCryptoContext(p)
  PROVE  /\ p \in Packet /\ ctx \in Contexts
         /\ \/ /\ receiver = {} /\ highest = {} /\ inOrder = {} /\ late = {}
               /\ p.roc = 0 /\ ctx = newContext(0, p.seq)
            \/ \E h \in Packet :
                 /\ receiver = {ctx} /\ highest = {h} /\ Fits(ctx, h)
                 /\ \A q \in inOrder : Recorded(ctx, q)
                 /\ IndexOf(p) - IndexOf(h) < SeqHalf
                 /\ Newer(p) <=> IndexOf(p) > IndexOf(h)
<1>1. p \in Packet
  BY DEF IInv, TypeOK
<1>2. CASE receiver = {} /\ highest = {} /\ inOrder = {} /\ late = {}
  <2>1. p.roc = 0
    BY <1>2 DEF Brings
  <2>2. ctx = newContext(0, p.seq)
    BY <1>2 DEF getCryptoContext
  <2>3. ctx \in Contexts
    BY <1>1, <2>1, <2>2, FirstIsTaken
  <2> QED BY <1>1, <1>2, <2>1, <2>2, <2>3
<1>3. ASSUME NEW d \in Contexts, NEW h \in Packet, receiver = {d}, highest = {h}
      PROVE  /\ ctx = d
             /\ IndexOf(p) - IndexOf(h) < SeqHalf
             /\ Newer(p) <=> IndexOf(p) > IndexOf(h)
  BY <1>3 DEF getCryptoContext, Brings, Newer
<1>4. CASE \E d \in Contexts, h \in Packet :
             /\ receiver = {d} /\ highest = {h} /\ Fits(d, h)
             /\ \A q \in inOrder : Recorded(d, q)
  BY <1>1, <1>3, <1>4
<1> QED BY <1>2, <1>4 DEF IInv, Follows

(* In the first cycle nothing is late.                                     *)
LEMMA FirstCycle ==
  ASSUME IInv, NEW ctx \in Contexts, NEW h \in Packet, Fits(ctx, h), ctx.roc = 0
  PROVE  ctx.s_l = h.seq
<1>1. \A q \in late : q.roc \in Nat
  BY WidthAssumption DEF IInv, TypeOK, Packet
<1>2. h.roc = 0 /\ \A q \in late : q.roc + 1 # 0
  BY <1>1 DEF Fits, Holds
<1> QED BY <1>2 DEF Fits

LEMMA SendKeeps ==
  ASSUME IInv, send
  PROVE  IInv'
<1>1. sender' \in Packet
  BY NextPacket DEF IInv, TypeOK, send
<1>2. TypeOK'
  BY <1>1 DEF IInv, TypeOK, send
<1>3. Follows'
  BY DEF IInv, Follows, Fits, send
<1> QED BY <1>2, <1>3 DEF IInv

LEMMA UnprotectKeeps ==
  ASSUME Faults = {}, IInv, NEW p \in sent, Brings(p), unprotect(p)
  PROVE  IInv'
<1>1. PICK ctx \in getCryptoContext(p) :
        /\ MayTake(ctx, p)
        /\ \E c \in update(ctx, p.seq) : receiver' = {c}
        /\ IF Newer(p) THEN highest' = {p} /\ inOrder' = inOrder \cup {p}
           ELSE UNCHANGED <<highest, inOrder>>
        /\ late' = IF Crosses(p) THEN late \cup {p} ELSE late
        /\ UNCHANGED <<first, sender, sent>>
  BY DEF unprotect
<1>2. PICK c \in update(ctx, p.seq) : receiver' = {c}
  BY <1>1
<1>3. p \in Packet /\ ctx \in Contexts
  BY WhatIsBrought
<1>4. c \in Contexts
  BY <1>3, UpdateType DEF Packet
<1>5. TypeOK'
  BY <1>1, <1>2, <1>4 DEF IInv, TypeOK
<1>6. /\ \A q \in inOrder : q \in Packet
      /\ late \subseteq late'
  BY <1>1 DEF IInv, TypeOK
<1>7. authentic(ctx, p)
  BY <1>1 DEF MayTake
<1>8. CASE /\ receiver = {} /\ highest = {} /\ inOrder = {} /\ p.roc = 0
           /\ ctx = newContext(0, p.seq)
  <2>1. c = [roc |-> 0, s_l |-> p.seq, window |-> {0}]
    BY <1>2, <1>3, <1>8, FirstIsTaken
  <2>2. highest' = {p} /\ inOrder' = {p}
    BY <1>1, <1>8 DEF Newer
  <2>3. p.seq \in Nat
    BY <1>3, SeqNosType DEF Packet, SeqNo
  <2>4. Fits(c, p)'
    BY <1>8, <2>1, <2>3 DEF Fits, Holds
  <2>5. Recorded(c, p)
    BY <1>8, <2>1, <2>3 DEF Recorded
  <2>6. receiver' = {c} /\ \A q \in inOrder' : Recorded(c, q)
    BY <1>2, <2>2, <2>5
  <2>7. Follows'
    BY <1>3, <1>4, <2>2, <2>4, <2>6 DEF Follows, Fits, Recorded
  <2> QED BY <1>5, <2>7 DEF IInv
<1>9. ASSUME NEW h \in Packet, highest = {h}, Fits(ctx, h),
             \A q \in inOrder : Recorded(ctx, q),
             Newer(p) <=> IndexOf(p) > IndexOf(h)
      PROVE  IInv'
  <2>1. Holds(ctx, h) /\ (ctx.roc = 0 => ctx.s_l = h.seq)
    BY <1>3, <1>9, FirstCycle DEF Fits
  <2>2. CASE Newer(p)
    <3>1. /\ Holds(c, p) /\ Recorded(c, p)
          /\ \/ c.s_l = p.seq
             \/ c.s_l = ctx.s_l /\ p.roc = h.roc /\ ctx.s_l # h.seq
          /\ \A q \in Packet : Recorded(ctx, q) => Recorded(c, q)
      BY <1>3, <1>7, <1>9, <2>1, <2>2, NewIsRecorded
    <3>2. highest' = {p} /\ inOrder' = inOrder \cup {p}
      BY <1>1, <2>2
    <3>3. \A q \in inOrder' : Recorded(c, q)
      BY <1>6, <1>9, <3>1, <3>2
    <3>4. c.s_l = p.seq \/ \E q \in late' : q.roc + 1 = p.roc /\ q.seq = c.s_l
      BY <1>6, <1>9, <3>1 DEF Fits
    <3>5. Follows'
      BY <1>2, <1>3, <1>4, <3>1, <3>2, <3>3, <3>4 DEF Follows, Fits, Holds, Recorded
    <3> QED BY <1>5, <3>5 DEF IInv
  <2>3. CASE ~Newer(p)
    <3>1. /\ Holds(c, h)
          /\ c.s_l = ctx.s_l \/ (p.roc + 1 = h.roc /\ c.s_l = p.seq)
          /\ \A q \in Packet : Recorded(ctx, q) => Recorded(c, q)
      BY <1>3, <1>7, <1>9, <2>1, <2>3, LateIsAdded
    <3>2. highest' = {h} /\ inOrder' = inOrder
      BY <1>1, <1>9, <2>3
    <3>3. \A q \in inOrder' : Recorded(c, q)
      BY <1>6, <1>9, <3>1, <3>2
    <3>4. p.roc + 1 = h.roc => p \in late'
      <4>1. p.roc \in Nat /\ h.roc \in Nat
        BY <1>3, WidthAssumption DEF Packet
      <4>2. p.roc + 1 = h.roc => Crosses(p)
        BY <1>9, <4>1 DEF Crosses
      <4> QED BY <1>1, <4>2
    <3>5. c.s_l = h.seq \/ \E q \in late' : q.roc + 1 = h.roc /\ q.seq = c.s_l
      BY <1>6, <1>9, <3>1, <3>4 DEF Fits
    <3>6. Follows'
      BY <1>2, <1>4, <3>1, <3>2, <3>3, <3>5 DEF Follows, Fits, Holds, Recorded
    <3> QED BY <1>5, <3>6 DEF IInv
  <2> QED BY <2>2, <2>3
<1> QED BY <1>8, <1>9, WhatIsBrought

LEMMA DroppedKeeps ==
  ASSUME Faults = {}, IInv, NEW p \in sent, Brings(p), dropped(p)
  PROVE  IInv'
<1>1. PICK ctx \in getCryptoContext(p) :
        /\ MayDrop(ctx, p) /\ receiver' = {ctx}
        /\ UNCHANGED <<first, sender, sent, highest, inOrder, late>>
  BY DEF dropped
<1>2. p \in Packet /\ ctx \in Contexts
  BY WhatIsBrought
<1>3. receiver = {ctx}
  <2>1. ~(p.roc = 0 /\ ctx = newContext(0, p.seq))
    BY <1>1, <1>2, FirstIsTaken
  <2> QED BY <2>1, WhatIsBrought
<1>4. UNCHANGED vars
  BY <1>1, <1>3 DEF vars
<1> QED BY <1>4 DEF IInv, TypeOK, Follows, Fits, vars

LEMMA InitGives == Init => IInv
<1> SUFFICES ASSUME Init PROVE IInv
  OBVIOUS
<1>1. [roc |-> 0, seq |-> first] \in Packet
  BY WidthAssumption DEF Init, Packet
<1> QED BY <1>1 DEF Init, IInv, TypeOK, Follows

LEMMA StepKeeps ==
  ASSUME Faults = {}, IInv, [Next]_vars
  PROVE  IInv'
<1>1. CASE send
  BY <1>1, SendKeeps
<1>2. ASSUME NEW p \in sent, handleRtpPacket(p)
      PROVE  IInv'
  BY <1>2, UnprotectKeeps, DroppedKeeps DEF handleRtpPacket
<1>3. CASE UNCHANGED vars
  BY <1>3 DEF IInv, TypeOK, Follows, Fits, vars
<1> QED BY <1>1, <1>2, <1>3 DEF Next

(* The context and the history of what was taken agree, always.            *)
THEOREM Invariance ==
  ASSUME Faults = {}
  PROVE  Spec => []IInv
<1>1. Init => IInv
  BY InitGives
<1>2. IInv /\ [Next]_vars => IInv'
  BY StepKeeps
<1> QED BY <1>1, <1>2, PTL DEF Spec

----------------------------------------------------------------------------
(* The highest sequence number that update keeps, together with the        *)
(* roll-over counter, is the latest packet that was taken, or has been     *)
(* left there by a packet of the cycle before that was taken late.         *)
THEOREM HighestIsLatest ==
  ASSUME Faults = {}
  PROVE  Spec => []HighestSequenceNumber
<1>1. IInv => HighestSequenceNumber
  BY DEF IInv, Follows, HighestSequenceNumber, Fits, Holds
<1> QED BY <1>1, Invariance, PTL

(* guess_index and check_replay: a packet that comes in order is not       *)
(* dropped, in whatever cycle it was sent, whatever was lost, doubled or   *)
(* reordered, but for up to half a cycle after a packet that the wrap had  *)
(* overtaken was taken.                                                    *)
THEOREM InOrderAccepted ==
  ASSUME Faults = {}
  PROVE  Spec => []InOrderIsTaken
<1>1. IInv => InOrderIsTaken
  <2> SUFFICES ASSUME IInv, NEW p \in sent, Brings(p), Newer(p), ~Misleads(p),
                      NEW ctx \in getCryptoContext(p)
               PROVE  ~MayDrop(ctx, p)
    BY DEF InOrderIsTaken
  <2>1. p \in Packet /\ ctx \in Contexts
    BY WhatIsBrought
  <2>2. CASE p.roc = 0 /\ ctx = newContext(0, p.seq)
    BY <2>1, <2>2, FirstIsTaken
  <2>3. ASSUME NEW h \in Packet, Fits(ctx, h), ComesAfter(p, h)
        PROVE  ~MayDrop(ctx, p)
    <3>1. p.roc > ctx.roc \/ (p.roc = ctx.roc /\ p.seq > h.seq)
      BY <2>1, <2>3, CycleOrder DEF ComesAfter, Fits, Holds
    <3>2. /\ ctx.roc \in Nat /\ ctx.s_l \in Nat /\ p.roc \in Nat /\ p.seq \in Nat
          /\ h.seq \in Nat /\ h.roc = ctx.roc
      BY <2>1, <2>3, WidthAssumption, SeqNosType DEF Contexts, Packet, SeqNo, Fits, Holds
    <3>3. p.roc = ctx.roc => ctx.s_l - SeqHalf <= p.seq
      <4>1. \A q \in late : q.seq \in Nat
        BY WidthAssumption, SeqNosType DEF IInv, TypeOK, Packet, SeqNo
      <4>2. ctx.s_l = h.seq \/ \E q \in late : q.roc + 1 = h.roc /\ q.seq = ctx.s_l
        BY <2>3 DEF Fits
      <4>3. CASE ctx.s_l = h.seq
        BY <3>1, <3>2, <4>3, SeqNosType
      <4>4. CASE \E q \in late : q.roc + 1 = h.roc /\ q.seq = ctx.s_l
        BY <3>2, <4>1, <4>4, SeqNosType DEF Misleads
      <4> QED BY <4>2, <4>3, <4>4
    <3>4. guessed_roc(ctx, p.seq) = p.roc
      BY <2>1, <2>3, <3>3, GuessIsRight DEF Fits
    <3>5. p.roc = 0 => p.seq > ctx.s_l
      BY <2>1, <2>3, <3>1, <3>2, FirstCycle
    <3> QED BY <2>1, <3>4, <3>5, NewIsTaken
  <2> QED BY <2>2, <2>3, WhatIsBrought DEF ComesAfter
<1> QED BY <1>1, Invariance, PTL

(* check_replay after update: what was taken in order is recognised when   *)
(* it comes again.                                                         *)
THEOREM ReplayRefused ==
  ASSUME Faults = {}
  PROVE  Spec => TakenOnce
<1> DEFINE Once == \A p \in inOrder, ctx \in receiver :
                     unprotect(p) => ctx.roc > 0 \/ ctx.s_l - p.seq = WindowSize
<1>1. IInv => Once
  <2> SUFFICES ASSUME IInv, NEW p \in inOrder, NEW ctx \in receiver, unprotect(p),
                      ~(ctx.roc > 0), ctx.s_l - p.seq # WindowSize
               PROVE  FALSE
    OBVIOUS
  <2>1. receiver = {ctx} /\ ctx \in Contexts /\ Recorded(ctx, p)
    BY DEF IInv, Follows
  <2>2. MayTake(ctx, p)
    BY <2>1 DEF unprotect, getCryptoContext
  <2>3. p \in Packet
    BY DEF IInv, TypeOK
  <2>4. /\ ctx.roc = 0 /\ ctx.s_l \in Nat /\ p.roc \in Nat /\ p.seq \in Nat
        /\ WindowSize \in Nat
    BY <2>1, <2>3, WidthAssumption, SeqNosType DEF Contexts, Packet, SeqNo
  <2>5. p.roc = 0 /\ p.seq <= ctx.s_l
    BY <2>1, <2>4 DEF Recorded
  <2>6. ctx.s_l - p.seq < WindowSize => ctx.s_l - p.seq \in ctx.window
    BY <2>1, <2>4 DEF Recorded
  <2>7. guess_index(ctx, p.seq) = p.seq
    <3>1. guessed_roc(ctx, p.seq) = 0
      BY <2>2, <2>5 DEF MayTake, authentic
    <3> QED BY <2>4, <3>1, SeqNosType DEF guess_index, Index
  <2> DEFINE behind == ctx.s_l - guess_index(ctx, p.seq)
  <2>8. behind = ctx.s_l - p.seq /\ behind \in Nat /\ behind # WindowSize /\ ~(behind < 0)
    BY <2>4, <2>5, <2>7
  <2> HIDE DEF behind
  <2>9. CASE behind > WindowSize
    <3>1. check_replay(ctx, p.seq) = {FALSE}
      BY <2>8, <2>9 DEF check_replay, behind
    <3> QED BY <2>2, <3>1 DEF MayTake
  <2>10. CASE ~(behind > WindowSize)
    <3>1. check_replay(ctx, p.seq) = {behind \notin ctx.window}
      BY <2>8, <2>10 DEF check_replay, behind
    <3>2. behind \in ctx.window
      BY <2>4, <2>6, <2>8, <2>10
    <3> QED BY <2>2, <3>1, <3>2 DEF MayTake
  <2> QED BY <2>9, <2>10
<1>2. IInv /\ [Next]_vars => [Once]_vars
  BY <1>1
<1> QED BY <1>2, Invariance, PTL DEF Spec, TakenOnce
=============================================================================
