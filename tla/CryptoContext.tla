---------------------------- MODULE CryptoContext ----------------------------
(***************************************************************************)
(* What the SRTP context of a stream knows of the packets: the roll-over   *)
(* counter roc, the highest sequence number s_l and the replay window.     *)
(* The window is the set of its bits that are set: bit n stands for the    *)
(* packet n before the highest.  Encryption and tags are not modelled: a   *)
(* tag fits when both sides use the same roc.                              *)
(***************************************************************************)
EXTENDS Integers

CONSTANTS
  SeqHalf,      \* 2^15: half of the sequence numbers
  Rocs,         \* 2^32: roll-over counters are unsigned int
  WindowSize,   \* 64: REPLAY_WINDOW_SIZE, and the bits of replay_window
  IntBits       \* 32: the bits of an int

ASSUME WidthAssumption ==
  /\ SeqHalf \in Nat \ {0} /\ Rocs \in Nat \ {0}
  /\ WindowSize \in Nat \ {0} /\ IntBits \in 1 .. WindowSize

SeqNos == 2 * SeqHalf
SeqNo == 0 .. SeqNos - 1
Bits == 0 .. WindowSize - 1

Index(roc, seq) == roc * SeqNos + seq

----------------------------------------------------------------------------
(* Fault: a packet of the next cycle is not recognised.                    *)
guessed_roc_SameCycle(ctx, seq) ==
  IF ctx.s_l < SeqHalf /\ seq - ctx.s_l > SeqHalf THEN (ctx.roc - 1) % Rocs ELSE ctx.roc

guessed_roc(ctx, seq) ==
  IF ctx.s_l < SeqHalf
  THEN IF seq - ctx.s_l > SeqHalf THEN (ctx.roc - 1) % Rocs ELSE ctx.roc
  ELSE IF ctx.s_l - SeqHalf > seq THEN (ctx.roc + 1) % Rocs ELSE ctx.roc

guess_index(ctx, seq) == Index(guessed_roc(ctx, seq), seq)

(* Whether seq is new.  The roc of the local index is masked away.  A      *)
(* shift by the full width of the window is undefined: the machine shifts  *)
(* by nothing, and finds the bit of the highest, or everything out.        *)
check_replay(ctx, seq) ==
  LET behind == ctx.s_l - guess_index(ctx, seq)
  IN  IF behind < 0 THEN {TRUE}
      ELSE IF behind > WindowSize THEN {FALSE}
      ELSE IF behind = WindowSize THEN {TRUE, 0 \notin ctx.window}
      ELSE {behind \notin ctx.window}

----------------------------------------------------------------------------
ShiftedLeft(window, n) == {b + n : b \in window} \cap Bits

(* replay_window << delta is undefined when delta is not below the width:  *)
(* the machine shifts by the remainder, or clears the window.              *)
Advanced(window, delta) ==
  IF delta < WindowSize THEN {ShiftedLeft(window, delta)}
  ELSE {ShiftedLeft(window, delta % WindowSize), {}}

(* 1 << delta is undefined when delta is negative, as it is for every late *)
(* packet: the machine shifts by the remainder, or the bit is out.  The    *)
(* highest bit of an int is its sign, and fills the bits above it.         *)
Marked(delta) ==
  LET bit == delta % IntBits
  IN  IF delta = 0 THEN {{0}}
      ELSE {{}, IF bit = IntBits - 1 THEN bit .. WindowSize - 1 ELSE {bit}}

(* Fault: the newest packet is not marked.                                 *)
NextWindows_Unmarked(ctx, delta) ==
  IF delta > 0 THEN Advanced(ctx.window, delta)
  ELSE {ctx.window \cup m : m \in Marked(delta)}

NextWindows(ctx, delta) ==
  IF delta > 0 THEN {w \cup {0} : w \in Advanced(ctx.window, delta)}
  ELSE {ctx.window \cup m : m \in Marked(delta)}

(* Fault: the highest sequence number is left alone by a new cycle.        *)
update_KeepsHighest(ctx, seq) ==
  LET guess == guessed_roc(ctx, seq)
      delta == guess_index(ctx, seq) - Index(ctx.roc, ctx.s_l)
  IN  {[roc    |-> IF guess > ctx.roc THEN guess ELSE ctx.roc,
        s_l    |-> IF seq > ctx.s_l THEN seq ELSE ctx.s_l,
        window |-> w] : w \in NextWindows(ctx, delta)}

(* The contexts that an accepted packet may leave.                         *)
update(ctx, seq) ==
  LET guess == guessed_roc(ctx, seq)
      delta == guess_index(ctx, seq) - Index(ctx.roc, ctx.s_l)
      next  == guess > ctx.roc
  IN  {[roc    |-> IF next THEN guess ELSE ctx.roc,
        s_l    |-> IF next \/ seq > ctx.s_l THEN seq ELSE ctx.s_l,
        window |-> w] : w \in NextWindows(ctx, delta)}

newContext(roc, seq) == [roc |-> roc, s_l |-> seq, window |-> {}]

Contexts == [roc : 0 .. Rocs - 1, s_l : SeqNo, window : SUBSET Bits]
=============================================================================
