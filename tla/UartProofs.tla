---------------------------- MODULE UartProofs ----------------------------
(***************************************************************************)
(* The stream never reads beside the ring; the ring, its counter and the   *)
(* stream agree; and the limit of the ring's room cuts a message where it  *)
(* must and nowhere else: for every size of the ring, for all messages,    *)
(* and also when PrintfC races with the interrupt.                         *)
(***************************************************************************)
EXTENDS UartTx, UartRx, NaturalsInduction, WellFoundedInduction, SequenceTheorems, TLAPS

-----------------------------------------------------------------------------
(* Arithmetic, and induction on the pieces of a format.                      *)

LEMMA ModSmall ==
    ASSUME NEW b \in Nat \ {0}, NEW x \in 0 .. b - 1
    PROVE  x % b = x /\ x \div b = 0
  OBVIOUS

LEMMA ModNext ==
    ASSUME NEW b \in Nat \ {0}, NEW x \in b .. 2 * b - 1
    PROVE  x % b = x - b
  OBVIOUS

LEMMA ModBelow ==
    ASSUME NEW b \in Nat \ {0}, NEW x \in Int, -b <= x, x < 0
    PROVE  x % b = x + b
  OBVIOUS

\* A set that holds the first number and with each one the next, up to n, holds
\* them all: otherwise there is a least one that it does not hold.
LEMMA UpTo ==
    ASSUME NEW n \in Nat, NEW S, 0 \in S, \A i \in 0 .. n - 1 : i \in S => i + 1 \in S
    PROVE  \A i \in 0 .. n : i \in S
<1> DEFINE T == {i \in 0 .. n : i \notin S}
<1> SUFFICES ASSUME T # {} PROVE FALSE
  OBVIOUS
<1>1. T \subseteq Nat
  OBVIOUS
<1>2. PICK m \in T : \A i \in T : <<i, m>> \notin OpToRel(<, Nat)
  BY <1>1, NatLessThanWellFounded, WFMin
<1>3. \A i \in T : ~(i < m)
  BY <1>1, <1>2 DEF OpToRel
<1>4. /\ m \in 0 .. n /\ m \notin S /\ m # 0
      /\ m - 1 \in 0 .. n - 1 /\ m - 1 < m /\ (m - 1) + 1 = m
  OBVIOUS
<1>5. m - 1 \notin T
  BY <1>3, <1>4
<1>6. m - 1 \in S
  BY <1>4, <1>5
<1> QED
  BY <1>4, <1>6

\* The functions by which kl_vsprintf and LengthOf are defined, up to piece n.
Runs(f, n, max, fmt) ==
    f = [i \in 0 .. n |-> IF i = 0 THEN Begun ELSE Turn(f[i - 1], fmt[i], max)]
Sums(f, n, fmt) ==
    f = [i \in 0 .. n |-> IF i = 0 THEN 0 ELSE f[i - 1] + Length(fmt[i])]

\* They exist: what there is up to a piece can be continued by one more.
LEMMA RunExists ==
    ASSUME NEW max, NEW fmt, NEW n \in Nat
    PROVE  \E f : Runs(f, n, max, fmt)
<1> DEFINE S == {i \in 0 .. n : \E f : Runs(f, i, max, fmt)}
<1>1. 0 \in S
  <2>1. Runs([i \in 0 .. 0 |-> Begun], 0, max, fmt)
    BY DEF Runs
  <2> QED
    BY <2>1
<1>2. ASSUME NEW i \in 0 .. n - 1, i \in S PROVE i + 1 \in S
  <2>1. PICK g : Runs(g, i, max, fmt)
    BY <1>2
  <2> DEFINE f == [k \in 0 .. i + 1 |-> IF k = i + 1 THEN Turn(g[i], fmt[i + 1], max) ELSE g[k]]
  <2>2. \A k \in 0 .. i : f[k] = g[k]
    OBVIOUS
  <2>3. \A k \in 0 .. i + 1 : f[k] = IF k = 0 THEN Begun ELSE Turn(f[k - 1], fmt[k], max)
    <3> TAKE k \in 0 .. i + 1
    <3>1. CASE k = i + 1
      BY <2>2, <3>1
    <3>2. CASE k # i + 1
      <4>1. k \in 0 .. i /\ f[k] = g[k]
        BY <3>2, <2>2
      <4>2. g[k] = IF k = 0 THEN Begun ELSE Turn(g[k - 1], fmt[k], max)
        BY <2>1, <4>1 DEF Runs
      <4>3. k # 0 => f[k - 1] = g[k - 1]
        BY <2>2, <4>1
      <4> QED
        BY <4>1, <4>2, <4>3
    <3> QED
      BY <3>1, <3>2
  <2>4. f = [k \in 0 .. i + 1 |-> IF k = 0 THEN Begun ELSE Turn(f[k - 1], fmt[k], max)]
    BY <2>3
  <2> HIDE DEF f
  <2>5. Runs(f, i + 1, max, fmt)
    BY <2>4 DEF Runs
  <2> QED
    BY <2>5
<1> HIDE DEF S
<1>3. n \in S
  BY <1>1, <1>2, UpTo
<1> QED
  BY <1>3 DEF S

LEMMA SumExists ==
    ASSUME NEW fmt, NEW n \in Nat
    PROVE  \E f : Sums(f, n, fmt)
<1> DEFINE S == {i \in 0 .. n : \E f : Sums(f, i, fmt)}
<1>1. 0 \in S
  <2>1. Sums([i \in 0 .. 0 |-> 0], 0, fmt)
    BY DEF Sums
  <2> QED
    BY <2>1
<1>2. ASSUME NEW i \in 0 .. n - 1, i \in S PROVE i + 1 \in S
  <2>1. PICK g : Sums(g, i, fmt)
    BY <1>2
  <2> DEFINE f == [k \in 0 .. i + 1 |-> IF k = i + 1 THEN g[i] + Length(fmt[i + 1]) ELSE g[k]]
  <2>2. \A k \in 0 .. i : f[k] = g[k]
    OBVIOUS
  <2>3. \A k \in 0 .. i + 1 : f[k] = IF k = 0 THEN 0 ELSE f[k - 1] + Length(fmt[k])
    <3> TAKE k \in 0 .. i + 1
    <3>1. CASE k = i + 1
      BY <2>2, <3>1
    <3>2. CASE k # i + 1
      <4>1. k \in 0 .. i /\ f[k] = g[k]
        BY <3>2, <2>2
      <4>2. g[k] = IF k = 0 THEN 0 ELSE g[k - 1] + Length(fmt[k])
        BY <2>1, <4>1 DEF Sums
      <4>3. k # 0 => f[k - 1] = g[k - 1]
        BY <2>2, <4>1
      <4> QED
        BY <4>1, <4>2, <4>3
    <3> QED
      BY <3>1, <3>2
  <2>4. f = [k \in 0 .. i + 1 |-> IF k = 0 THEN 0 ELSE f[k - 1] + Length(fmt[k])]
    BY <2>3
  <2> HIDE DEF f
  <2>5. Sums(f, i + 1, fmt)
    BY <2>4 DEF Sums
  <2> QED
    BY <2>5
<1> HIDE DEF S
<1>3. n \in S
  BY <1>1, <1>2, UpTo
<1> QED
  BY <1>3 DEF S

\* The state of the loop after each piece of a format, and what the pieces so far ask for.
LEMMA LoopOf ==
    ASSUME NEW max, NEW fmt \in Seq(Pieces)
    PROVE  \E r, l :
               /\ r[0] = Begun /\ \A i \in 1 .. Len(fmt) : r[i] = Turn(r[i - 1], fmt[i], max)
               /\ l[0] = 0 /\ \A i \in 1 .. Len(fmt) : l[i] = l[i - 1] + Length(fmt[i])
               /\ kl_vsprintf(max, fmt) = r[Len(fmt)] /\ LengthOf(fmt) = l[Len(fmt)]
<1> DEFINE n == Len(fmt)
           r == CHOOSE f : Runs(f, n, max, fmt)
           l == CHOOSE f : Sums(f, n, fmt)
<1>1. kl_vsprintf(max, fmt) = r[n]
  BY DEF kl_vsprintf, Runs
<1>2. LengthOf(fmt) = l[n]
  BY DEF LengthOf, Sums
<1>3. n \in Nat
  OBVIOUS
<1> HIDE DEF n
<1>4. Runs(r, n, max, fmt) /\ Sums(l, n, fmt)
  BY <1>3, RunExists, SumExists
<1> HIDE DEF r, l
<1>5. /\ r[0] = Begun /\ \A i \in 1 .. n : r[i] = Turn(r[i - 1], fmt[i], max)
      /\ l[0] = 0 /\ \A i \in 1 .. n : l[i] = l[i - 1] + Length(fmt[i])
  BY <1>3, <1>4 DEF Runs, Sums
<1> QED
  BY <1>1, <1>2, <1>5 DEF n

-----------------------------------------------------------------------------
(* One turn of the loop.                                                     *)

LEMMA LengthNat ==
    ASSUME NEW p \in Pieces
    PROVE  /\ Length(p) \in Nat /\ p.n \in Nat /\ p.width \in Nat /\ p.kind \in Kinds
           /\ p.kind # "S" => p.n >= 1 /\ Length(p) >= 1
<1>1. /\ p.n \in Nat /\ p.width \in Nat /\ p.kind \in Kinds
      /\ p.kind # "S" => p.n >= 1
  BY PiecesAssumption
<1>2. CASE p.kind = "u"
  BY <1>1, <1>2 DEF Length, Greatest
<1>3. CASE p.kind = "S"
  BY <1>1, <1>3 DEF Length
<1>4. CASE p.kind \in {"plain", "c"}
  BY <1>1, <1>4 DEF Length
<1> QED
  BY <1>1, <1>2, <1>3, <1>4 DEF Kinds

\* What one turn does: it puts n characters and counts m of them, no fewer than it puts
\* and no more than the piece asks for; it puts and counts the whole piece if there is
\* room, and if there is not it goes up to the limit.
Does(r, t, n, m, len, max) ==
    /\ t.put = r.put + n /\ t.count = (r.count + m) % Word
    /\ n <= m /\ m <= len
    /\ t.ended => r.count + m >= max
    /\ r.count + len <= max => n = len /\ m = len
    /\ r.count < max => \/ n = len /\ m = len /\ r.count + n <= max
                        \/ r.count + n >= max

LEMMA TurnCounts ==
    ASSUME NEW max \in 0 .. Word - 1, NEW p \in Pieces, NEW r, r.put \in Nat, r.count \in Nat, ~r.ended
    PROVE  \E n, m \in Nat : Does(r, Turn(r, p, max), n, m, Length(p), max)
<1>0. /\ r.put \in Nat /\ r.count \in Nat /\ max \in Nat /\ Word \in Nat \ {0} /\ max < Word
      /\ Length(p) \in Nat /\ p.n \in Nat /\ p.width \in Nat /\ p.kind \in Kinds
      /\ p.kind # "S" => p.n >= 1 /\ Length(p) >= 1
  BY LengthNat, WordAssumption
<1>1. CASE p.kind = "plain"
  <2>1. Turn(r, p, max) = [put |-> r.put + 1, count |-> (r.count + 1) % Word,
                           ended |-> r.count + 1 >= max]
    BY <1>1 DEF Turn, Plain, Step
  <2>2. Length(p) = 1
    BY <1>1 DEF Length
  <2> DEFINE t == Turn(r, p, max)
  <2>3. /\ t.put = r.put + 1 /\ t.count = (r.count + 1) % Word
        /\ t.ended = (r.count + 1 >= max)
    BY <2>1
  <2> HIDE DEF t
  <2>4. t.ended => r.count + 1 >= max
    BY <2>3
  <2>5. Does(r, t, 1, 1, Length(p), max)
    BY <1>0, <2>2, <2>3, <2>4 DEF Does
  <2> QED
    BY <2>5 DEF t
<1>2. CASE p.kind = "c"
  <2>1. Turn(r, p, max) = [put |-> r.put + 1, count |-> (r.count + 1) % Word, ended |-> FALSE]
    BY <1>2 DEF Turn, Step
  <2>2. Length(p) = 1
    BY <1>2 DEF Length
  <2>3. Does(r, Turn(r, p, max), 1, 1, Length(p), max)
    BY <1>0, <2>1, <2>2 DEF Does
  <2> QED
    BY <2>3
<1>3. CASE p.kind = "S"
  <2> DEFINE fits == IF r.count >= max THEN 0 ELSE Least(p.n, max - r.count)
             m == IF fits < p.n THEN fits + 1 ELSE fits
  <2>1. Turn(r, p, max) = [put |-> r.put + fits, count |-> (r.count + m) % Word,
                           ended |-> FALSE]
    BY <1>3 DEF Turn, String, Step
  <2>2. Length(p) = p.n
    BY <1>3 DEF Length
  <2>3. /\ fits \in Nat /\ fits <= p.n
        /\ r.count + p.n <= max => fits = p.n
        /\ r.count < max => r.count + fits <= max /\ (fits = p.n \/ r.count + fits = max)
    BY <1>0 DEF Least
  <2> HIDE DEF fits
  <2>4. m \in Nat /\ fits <= m /\ m <= p.n /\ (fits = p.n => m = p.n)
    BY <1>0, <2>3
  <2> HIDE DEF m
  <2>5. Does(r, Turn(r, p, max), fits, m, Length(p), max)
    BY <1>0, <2>1, <2>2, <2>3, <2>4 DEF Does
  <2> QED
    BY <2>3, <2>4, <2>5
<1>4. CASE p.kind = "u"
  <2> DEFINE pad == IF p.width > p.n THEN p.width - p.n ELSE 0
             room == Greatest(1, max - r.count)
             left == (max - (r.count + pad)) % Word
             n == IF pad >= room THEN room ELSE pad + Least(p.n, left)
  <2>1. Turn(r, p, max) = [put |-> r.put + n, count |-> (r.count + n) % Word, ended |-> FALSE]
    BY <1>4 DEF Turn, Uint, Step
  <2>2. Length(p) = pad + p.n /\ pad \in Nat
    BY <1>0, <1>4 DEF Length, Greatest
  <2>3. room \in Nat /\ room >= 1 /\ (r.count < max => room = max - r.count)
    BY <1>0 DEF Greatest
  <2>4. left \in Nat
    BY <1>0, <2>2
  <2>5. ASSUME r.count < max, pad < room PROVE left = max - r.count - pad
    <3>1. max - (r.count + pad) \in 0 .. Word - 1
      BY <1>0, <2>2, <2>3, <2>5
    <3> QED
      BY <1>0, <2>2, <3>1, ModSmall
  <2> HIDE DEF pad, room, left
  <2>6. n \in Nat /\ n <= Length(p)
    BY <1>0, <1>4, <2>2, <2>3, <2>4 DEF Least
  <2>7. r.count < max => (n = Length(p) /\ r.count + n <= max) \/ r.count + n >= max
    <3> SUFFICES ASSUME r.count < max
                 PROVE  (n = Length(p) /\ r.count + n <= max) \/ r.count + n >= max
      OBVIOUS
    <3>1. CASE pad >= room
      BY <1>0, <2>2, <2>3, <3>1
    <3>2. CASE pad < room
      BY <1>0, <2>2, <2>3, <2>5, <3>2 DEF Least
    <3> QED
      BY <2>2, <2>3, <3>1, <3>2
  <2>8. r.count + Length(p) <= max => n = Length(p)
    <3> SUFFICES ASSUME r.count + Length(p) <= max PROVE n = Length(p)
      OBVIOUS
    <3>1. r.count < max /\ pad < room
      BY <1>0, <1>4, <2>2, <2>3
    <3>2. p.n <= left
      BY <1>0, <2>2, <2>5, <3>1
    <3> QED
      BY <1>0, <2>2, <2>3, <3>1, <3>2, <2>4 DEF Least
  <2> HIDE DEF n
  <2>9. Does(r, Turn(r, p, max), n, n, Length(p), max)
    BY <1>0, <2>1, <2>6, <2>7, <2>8 DEF Does
  <2> QED
    BY <2>6, <2>9
<1> QED
  BY <1>0, <1>1, <1>2, <1>3, <1>4 DEF Kinds

\* The loop after some pieces, of which l characters are asked for: it counts what it
\* puts; it has put everything while there is room, and with too little room as much as
\* there is.  It ends only at the limit.
Good(r, l, max) ==
    /\ r.put \in Nat /\ r.count \in Nat /\ l \in Nat
    /\ l < Word => r.put <= r.count /\ r.count <= l
    /\ l <= max => r.put = l /\ r.count = l
    /\ r.ended => l >= max
    /\ r.put >= max \/ (r.put = l /\ r.count = l /\ ~r.ended)

LEMMA TurnGood ==
    ASSUME NEW max \in 0 .. Word - 1, NEW p \in Pieces, NEW r, NEW l, Good(r, l, max)
    PROVE  Good(Turn(r, p, max), l + Length(p), max)
<1>0. /\ max \in Nat /\ Word \in Nat \ {0} /\ max < Word /\ Length(p) \in Nat
      /\ r.put \in Nat /\ r.count \in Nat /\ l \in Nat
  BY LengthNat, WordAssumption DEF Good
<1>1. CASE r.ended
  <2>1. Turn(r, p, max) = r
    BY <1>1 DEF Turn
  <2>2. l >= max /\ r.put >= max
    BY <1>0, <1>1 DEF Good
  <2> QED
    BY <1>0, <1>1, <2>1, <2>2 DEF Good
<1>2. CASE ~r.ended
  <2> DEFINE t == Turn(r, p, max)
             len == Length(p)
  <2>1. PICK n \in Nat, m \in Nat : Does(r, t, n, m, len, max)
    BY <1>0, <1>2, TurnCounts
  <2> HIDE DEF t, len
  <2>0. len \in Nat
    BY <1>0 DEF len
  <2>2. /\ t.put = r.put + n /\ t.count = (r.count + m) % Word
        /\ n <= m /\ m <= len
        /\ t.ended => r.count + m >= max
        /\ r.count + len <= max => n = len /\ m = len
    BY <2>1 DEF Does
  <2>3. r.count < max => \/ n = len /\ m = len /\ r.count + n <= max
                         \/ r.count + n >= max
    BY <2>1 DEF Does
  <2>4. t.put \in Nat /\ t.count \in Nat /\ l + len \in Nat
    BY <1>0, <2>0, <2>2
  <2>5. ASSUME r.count + m < Word PROVE t.count = r.count + m
    BY <1>0, <2>2, <2>5, ModSmall
  <2>6. /\ l < Word => r.put <= r.count /\ r.count <= l
        /\ l <= max => r.put = l /\ r.count = l
        /\ r.put >= max \/ (r.put = l /\ r.count = l)
    BY DEF Good
  <2>7. l + len < Word => t.put <= t.count /\ t.count <= l + len
    <3> SUFFICES ASSUME l + len < Word PROVE t.put <= t.count /\ t.count <= l + len
      OBVIOUS
    <3>1. r.put <= r.count /\ r.count <= l
      BY <1>0, <2>0, <2>6
    <3>2. t.count = r.count + m
      BY <1>0, <2>0, <2>2, <2>5, <3>1
    <3> QED
      BY <1>0, <2>0, <2>2, <3>1, <3>2
  <2>8. l + len <= max => t.put = l + len /\ t.count = l + len
    <3> SUFFICES ASSUME l + len <= max PROVE t.put = l + len /\ t.count = l + len
      OBVIOUS
    <3>1. r.put = l /\ r.count = l
      BY <1>0, <2>0, <2>6
    <3>2. n = len /\ m = len
      BY <2>2, <3>1
    <3>3. t.count = r.count + m
      BY <1>0, <2>0, <2>5, <3>1, <3>2
    <3> QED
      BY <2>2, <3>1, <3>2, <3>3
  <2>9. t.ended => l + len >= max
    <3> SUFFICES ASSUME t.ended, l + len < max PROVE FALSE
      BY <1>0, <2>0
    <3>1. r.count = l
      BY <1>0, <2>0, <2>6
    <3> QED
      BY <1>0, <2>0, <2>2, <3>1
  <2>10. t.put >= max \/ (t.put = l + len /\ t.count = l + len /\ ~t.ended)
    <3> SUFFICES ASSUME ~(t.put >= max)
                 PROVE  t.put = l + len /\ t.count = l + len /\ ~t.ended
      OBVIOUS
    <3>1. r.put < max /\ r.put = l /\ r.count = l
      BY <1>0, <2>2, <2>6
    <3>2. n = len /\ m = len /\ r.count + m < max
      BY <1>0, <2>0, <2>2, <2>3, <3>1
    <3> QED
      BY <1>0, <2>2, <2>5, <3>1, <3>2
  <2>11. Good(t, l + len, max)
    BY <2>4, <2>7, <2>8, <2>9, <2>10 DEF Good
  <2> QED
    BY <2>11 DEF t, len
<1> QED
  BY <1>1, <1>2

\* The whole call.
LEMMA Call ==
    ASSUME NEW max \in 0 .. Word - 1, NEW fmt \in Seq(Pieces)
    PROVE  Good(kl_vsprintf(max, fmt), LengthOf(fmt), max)
<1>1. PICK r, l :
          /\ r[0] = Begun /\ \A i \in 1 .. Len(fmt) : r[i] = Turn(r[i - 1], fmt[i], max)
          /\ l[0] = 0 /\ \A i \in 1 .. Len(fmt) : l[i] = l[i - 1] + Length(fmt[i])
          /\ kl_vsprintf(max, fmt) = r[Len(fmt)] /\ LengthOf(fmt) = l[Len(fmt)]
  BY LoopOf
<1> DEFINE S == {i \in 0 .. Len(fmt) : Good(r[i], l[i], max)}
<1>2. 0 \in S
  <2>1. Begun.put = 0 /\ Begun.count = 0 /\ ~Begun.ended
    BY DEF Begun
  <2>2. Good(Begun, 0, max)
    BY <2>1, WordAssumption DEF Good
  <2> QED
    BY <1>1, <2>2
<1>3. ASSUME NEW i \in 0 .. Len(fmt) - 1, i \in S PROVE i + 1 \in S
  <2>1. i + 1 \in 1 .. Len(fmt) /\ (i + 1) - 1 = i /\ fmt[i + 1] \in Pieces
    OBVIOUS
  <2>2. Good(r[i], l[i], max)
    BY <1>3
  <2>3. Good(Turn(r[i], fmt[i + 1], max), l[i] + Length(fmt[i + 1]), max)
    BY <2>1, <2>2, TurnGood
  <2> QED
    BY <1>1, <2>1, <2>3
<1> HIDE DEF S
<1>4. Len(fmt) \in S
  <2> DEFINE n == Len(fmt)
  <2>1. n \in Nat /\ n \in 0 .. n
    OBVIOUS
  <2>2. \A i \in 0 .. n - 1 : i \in S => i + 1 \in S
    BY <1>3
  <2> HIDE DEF n
  <2>3. \A i \in 0 .. n : i \in S
    BY <2>1, <2>2, <1>2, UpTo
  <2>4. n \in S
    BY <2>1, <2>3
  <2> QED
    BY <2>4 DEF n
<1> QED
  BY <1>1, <1>4 DEF S

\* The room that there is for a message is a number the limit can hold.
LEMMA Room ==
    ASSUME IFullSlotsCount \in Nat
    PROVE  /\ MaxLength \in 0 .. Word - 1
           /\ IFullSlotsCount <= Size => MaxLength = Size - IFullSlotsCount
<1>1. Size \in Nat \ {0} /\ Word \in Nat \ {0} /\ Word > Size
  BY SizeAssumption, WordAssumption
<1>2. MaxLength \in 0 .. Word - 1
  BY <1>1 DEF MaxLength
<1>3. ASSUME IFullSlotsCount <= Size PROVE MaxLength = Size - IFullSlotsCount
  <2>1. Size - IFullSlotsCount \in 0 .. Word - 1
    BY <1>1, <1>3
  <2> QED
    BY <1>1, <2>1, ModSmall DEF MaxLength
<1> QED
  BY <1>2, <1>3

LEMMA Answers ==
    ASSUME IFullSlotsCount \in Nat, NEW fmt \in Formats \cup FormatsC
    PROVE  Good(kl_vsprintf(MaxLength, fmt), LengthOf(fmt), MaxLength)
BY Call, Room, FormatsAssumption

-----------------------------------------------------------------------------
(* The stream stays in the ring.                                            *)

\* The counters and the stream.  While a piece is sent, the stream is inside
\* it, the piece is inside the ring, and the counter is at least the piece's
\* size; what PrintfC has loaded is never less than what it should be.
Inv ==
    /\ PRead \in Slots
    /\ IFullSlotsCount \in Nat /\ ITransSize \in Nat /\ IDmaIsIdle \in BOOLEAN
    /\ dmaAt \in Nat /\ dmaLeft \in Nat /\ dmaAt + dmaLeft <= Size
    /\ pc \in {"none", "load", "store", "start"} /\ printed \in Nat /\ loaded \in Nat
    /\ ~IDmaIsIdle =>
           /\ ITransSize >= 1 /\ PRead + ITransSize <= Size
           /\ dmaAt + dmaLeft = PRead + ITransSize /\ dmaLeft <= ITransSize
           /\ IFullSlotsCount >= ITransSize
    /\ IDmaIsIdle => dmaLeft = 0
    /\ pc = "store" => loaded >= IFullSlotsCount

\* Starting a piece that begins inside the ring keeps the stream inside.
LEMMA PieceInside ==
    ASSUME NEW read \in Slots, NEW full \in Nat, ISendViaDMA(read, full),
           IDmaIsIdle \in BOOLEAN, dmaAt \in Nat, dmaLeft \in Nat, dmaAt + dmaLeft <= Size
    PROVE  /\ ITransSize' \in Nat /\ ITransSize' <= full
           /\ dmaAt' \in Nat /\ dmaLeft' \in Nat /\ dmaAt' + dmaLeft' <= Size
           /\ full = 0 => UNCHANGED <<IDmaIsIdle, dmaAt, dmaLeft>>
           /\ full # 0 => /\ IDmaIsIdle' = FALSE
                          /\ ITransSize' >= 1 /\ read + ITransSize' <= Size
                          /\ dmaAt' + dmaLeft' = read + ITransSize' /\ dmaLeft' = ITransSize'
BY SizeAssumption DEF ISendViaDMA, Least, Slots, dmaVars

LEMMA InitInv == Init => Inv
BY SizeAssumption DEF Init, Inv, Slots

\* Printing adds to the counter and starts the stream when it is idle.
LEMMA StartKeepsInv ==
    ASSUME Inv, SendIfIdle(IFullSlotsCount'), IFullSlotsCount' \in Nat,
           IFullSlotsCount' >= IFullSlotsCount \/ IDmaIsIdle, UNCHANGED PRead,
           pc' = "none", printed' \in Nat, loaded' \in Nat
    PROVE  Inv'
<1>1. CASE IDmaIsIdle
    <2>1. ISendViaDMA(PRead, IFullSlotsCount')
        BY <1>1 DEF SendIfIdle
    <2>2. /\ PRead \in Slots /\ IDmaIsIdle \in BOOLEAN /\ dmaAt \in Nat /\ dmaLeft = 0
          /\ dmaAt + dmaLeft <= Size /\ ITransSize \in Nat
        BY <1>1 DEF Inv
    <2>3. CASE IFullSlotsCount' = 0
        <3>1. ITransSize' \in Nat /\ UNCHANGED <<IDmaIsIdle, dmaAt, dmaLeft>>
            BY <2>1, <2>2, <2>3, PieceInside
        <3> QED
            BY <1>1, <2>2, <3>1 DEF Inv
    <2>4. CASE IFullSlotsCount' # 0
        <3>1. /\ ITransSize' \in Nat /\ ITransSize' <= IFullSlotsCount'
              /\ dmaAt' \in Nat /\ dmaLeft' \in Nat /\ dmaAt' + dmaLeft' <= Size
              /\ IDmaIsIdle' = FALSE /\ ITransSize' >= 1 /\ PRead + ITransSize' <= Size
              /\ dmaAt' + dmaLeft' = PRead + ITransSize' /\ dmaLeft' = ITransSize'
            BY <2>1, <2>2, <2>4, PieceInside
        <3>2. /\ PRead' \in Slots /\ IFullSlotsCount' >= ITransSize'
              /\ dmaLeft' <= ITransSize'
              /\ PRead' + ITransSize' <= Size /\ dmaAt' + dmaLeft' = PRead' + ITransSize'
            BY <2>2, <3>1
        <3>3. pc' \in {"none", "load", "store", "start"} /\ pc' # "store"
            OBVIOUS
        <3> QED
            BY ONLY <3>1, <3>2, <3>3, IFullSlotsCount' \in Nat, printed' \in Nat,
                loaded' \in Nat DEF Inv
    <2> QED
        BY <2>3, <2>4
<1>2. CASE ~IDmaIsIdle
    BY <1>2 DEF Inv, SendIfIdle, dmaVars
<1> QED
    BY <1>1, <1>2

LEMMA NextInv == Inv /\ [Next]_vars => Inv'
<1> SUFFICES ASSUME Inv, [Next]_vars PROVE Inv'
    OBVIOUS
<1>1. CASE Printf
    <2>1. PICK fmt \in Formats :
              /\ MayPrint(fmt)
              /\ IFullSlotsCount' = IFullSlotsCount + kl_vsprintf(MaxLength, fmt).count
              /\ SendIfIdle(IFullSlotsCount')
              /\ UNCHANGED <<PRead, cVars>>
        BY <1>1 DEF Printf
    <2>2. IFullSlotsCount' \in Nat /\ IFullSlotsCount' >= IFullSlotsCount
        BY <2>1, Answers DEF Inv, Good
    <2> QED
        BY <2>1, <2>2, StartKeepsInv DEF Inv, cVars, MayPrint
<1>2. CASE PrintfC
    <2>1. PICK fmt \in FormatsC :
              /\ pc' = "load" /\ printed' = kl_vsprintf(MaxLength, fmt).count
              /\ UNCHANGED <<PRead, countVars, dmaVars, loaded>>
        BY <1>2 DEF PrintfC
    <2>2. printed' \in Nat
        BY <2>1, Answers DEF Inv, Good
    <2> QED
        BY <2>1, <2>2 DEF Inv, countVars, dmaVars
<1>3. CASE LoadCount
    BY <1>3 DEF Inv, LoadCount, ringVars, countVars, dmaVars
<1>4. CASE StoreCount
    BY <1>4 DEF Inv, StoreCount, ringVars, dmaVars
<1>5. CASE StartC
    <2>1. SendIfIdle(IFullSlotsCount') /\ UNCHANGED PRead /\ IFullSlotsCount' = IFullSlotsCount
        BY <1>5 DEF StartC, ringVars
    <2> QED
        BY <1>5, <2>1, StartKeepsInv DEF Inv, StartC
<1>6. CASE DmaSends
    BY <1>6 DEF Inv, DmaSends, ringVars, countVars, cVars
<1>7. CASE IRQDmaTxHandler
    <2>1. /\ dmaLeft = 0 /\ ~IDmaIsIdle
          /\ IFullSlotsCount' = IFullSlotsCount - ITransSize
          /\ PRead' = IF PRead + ITransSize >= Size THEN 0 ELSE PRead + ITransSize
          /\ UNCHANGED <<pc, printed, loaded>>
        BY <1>7 DEF IRQDmaTxHandler, cVars
    <2>2. PRead' \in Slots
        BY <2>1, SizeAssumption DEF Inv, Slots
    <2>3. IFullSlotsCount' \in Nat /\ IFullSlotsCount' <= IFullSlotsCount
        BY <2>1 DEF Inv
    <2>4. CASE IFullSlotsCount' = 0
        <3>1. IDmaIsIdle' = TRUE /\ UNCHANGED <<ITransSize, dmaAt, dmaLeft>>
            BY <1>7, <2>4 DEF IRQDmaTxHandler, dmaVars
        <3> QED
            BY <2>1, <2>2, <2>3, <2>4, <3>1 DEF Inv
    <2>5. CASE IFullSlotsCount' # 0
        <3>1. ISendViaDMA(PRead', IFullSlotsCount')
            BY <1>7, <2>5 DEF IRQDmaTxHandler
        <3>2. PICK read \in Slots, full \in Nat :
                  read = PRead' /\ full = IFullSlotsCount' /\ ISendViaDMA(read, full)
            BY <2>2, <2>3, <3>1
        <3>3. /\ ITransSize' \in Nat /\ ITransSize' <= full
              /\ dmaAt' \in Nat /\ dmaLeft' \in Nat /\ dmaAt' + dmaLeft' <= Size
              /\ IDmaIsIdle' = FALSE /\ ITransSize' >= 1 /\ read + ITransSize' <= Size
              /\ dmaAt' + dmaLeft' = read + ITransSize' /\ dmaLeft' = ITransSize'
            BY <2>5, <3>2, PieceInside DEF Inv
        <3>4. /\ PRead' + ITransSize' <= Size /\ dmaAt' + dmaLeft' = PRead' + ITransSize'
              /\ dmaLeft' <= ITransSize' /\ IFullSlotsCount' >= ITransSize'
            BY ONLY <2>2, <2>3, <3>2, <3>3 DEF Slots
        <3>5. /\ pc' \in {"none", "load", "store", "start"} /\ printed' \in Nat /\ loaded' \in Nat
              /\ pc' = "store" => loaded' >= IFullSlotsCount'
            BY <2>1, <2>3 DEF Inv
        <3> QED
            BY ONLY <2>2, <2>3, <3>3, <3>4, <3>5 DEF Inv
    <2> QED
        BY <2>4, <2>5
<1>8. CASE UNCHANGED vars
    BY <1>8 DEF Inv, vars, ringVars, countVars, dmaVars, cVars
<1> QED
    BY <1>1, <1>2, <1>3, <1>4, <1>5, <1>6, <1>7, <1>8 DEF Next

-----------------------------------------------------------------------------
(* The counter tells what lies in the ring, and the ring holds it in order.  *)

Promised == IF pc \in {"load", "store"} THEN printed ELSE 0
Sent == IF IDmaIsIdle THEN 0 ELSE ITransSize - dmaLeft
Slot(x) == IF x >= Size THEN x - Size ELSE x

Typed ==
    /\ TXBuf \in [Slots -> Tags] /\ PWrite \in Slots /\ ITransSize <= Size
    /\ tag \in Tags /\ owed \in Seq(Tags)
Flags == garbled \in BOOLEAN /\ upset \in BOOLEAN

\* Whatever PrintfC and the interrupt do to each other, the counter, with what PrintfC is
\* about to add, is never less than what is owed: so nothing is forgotten.
Counted ==
    /\ IFullSlotsCount + Promised >= Len(owed) + Sent
    /\ IDmaIsIdle /\ pc # "start" => IFullSlotsCount = 0

\* The characters owed lie in the ring from the read mark, after those that are sent.
InRing(read) ==
    \A k \in 1 .. Len(owed) : owed[k] = TXBuf[Slot(read + k - 1)]

\* While the counter is not upset it is exact, and the ring holds what is owed.
Exact ==
    /\ IFullSlotsCount + Promised = Len(owed) + Sent
    /\ IFullSlotsCount + Promised <= Size
    /\ PWrite = Slot(PRead + IFullSlotsCount + Promised)
    /\ InRing(PRead + Sent)

RingInv == Inv /\ Typed /\ Flags /\ Counted /\ (upset \/ (Exact /\ ~garbled))

-----------------------------------------------------------------------------
\* Characters that are put into the ring have the type of the ring's.
LEMMA PutTyped ==
    ASSUME NEW n \in Nat, Typed, PutChars(n)
    PROVE  /\ TXBuf' \in [Slots -> Tags] /\ PWrite' \in Slots /\ tag' \in Tags
           /\ owed' \in Seq(Tags) /\ Len(owed') = Len(owed) + n
<1>1. /\ Size \in Nat \ {0} /\ Tags = 0 .. 2 /\ Slots = 0 .. Size - 1
      /\ TXBuf \in [Slots -> Tags] /\ PWrite \in Slots /\ tag \in Tags /\ owed \in Seq(Tags)
  BY SizeAssumption DEF Typed, Tags, Slots
<1>2. \A x \in Int : x % 3 \in Tags /\ x % Size \in Slots
  BY <1>1
<1>3. PWrite' \in Slots /\ tag' \in Tags
  <2>1. PWrite + n \in Int /\ tag + n \in Int
    BY <1>1
  <2>2. PWrite' = (PWrite + n) % Size /\ tag' = (tag + n) % 3
    BY DEF PutChars
  <2> QED
    BY <1>2, <2>1, <2>2
<1>4. owed' \in Seq(Tags) /\ Len(owed') = Len(owed) + n
  <2> DEFINE more == [i \in 1 .. n |-> (tag + i - 1) % 3]
  <2>1. more \in Seq(Tags) /\ Len(more) = n
    BY <1>1, <1>2
  <2>2. owed' = owed \o more
    BY DEF PutChars
  <2> HIDE DEF more
  <2>3. owed \in Seq(Tags)
    BY <1>1
  <2>4. owed \o more \in Seq(Tags) /\ Len(owed \o more) = Len(owed) + Len(more)
    BY ONLY <2>1, <2>3
  <2> QED
    BY <2>1, <2>2, <2>4
<1>5. TXBuf' \in [Slots -> Tags]
  <2>1. ASSUME NEW i \in Slots
        PROVE  LET first == (i - PWrite) % Size
               IN (IF first >= n THEN TXBuf[i]
                   ELSE (tag + first + Size * ((n - 1 - first) \div Size)) % 3) \in Tags
    <3> DEFINE first == (i - PWrite) % Size
               over == (n - 1 - first) \div Size
    <3>1. first \in Nat /\ TXBuf[i] \in Tags
      BY <1>1
    <3> HIDE DEF first
    <3>2. n - 1 - first \in Int
      BY <3>1
    <3>3. over \in Int
      BY <1>1, <3>2
    <3> HIDE DEF over
    <3>4. Size * over \in Int
      BY <1>1, <3>3
    <3>5. tag + first + Size * over \in Int
      BY <1>1, <3>1, <3>4
    <3>6. (tag + first + Size * over) % 3 \in Tags
      BY <1>2, <3>5
    <3> QED
      BY <3>1, <3>6 DEF first, over
  <2> QED
    BY <2>1 DEF PutChars
<1> QED
  BY <1>3, <1>4, <1>5

\* Characters for which there is room are put behind those that are owed.
LEMMA PutBehind ==
    ASSUME NEW n \in Nat, Typed, PutChars(n), NEW read \in Nat, NEW base \in Slots,
           NEW full \in Nat, full + n <= Size, base <= read,
           read + Len(owed) = base + full, PWrite = Slot(base + full), InRing(read)
    PROVE  /\ PWrite' = Slot(base + full + n)
           /\ InRing(read)'
<1>1. /\ Size \in Nat \ {0} /\ Slots = 0 .. Size - 1 /\ PWrite \in Slots
      /\ TXBuf \in [Slots -> Tags] /\ Tags = 0 .. 2 /\ tag \in Tags /\ owed \in Seq(Tags)
      /\ base \in 0 .. Size - 1 /\ Len(owed) \in Nat
  BY SizeAssumption DEF Typed, Tags, Slots
<1>2. PWrite' = Slot(base + full + n)
  <2>1. PWrite' = (PWrite + n) % Size
    BY DEF PutChars
  <2>2. CASE PWrite + n < Size
    <3>0. PWrite + n \in 0 .. Size - 1
      BY <1>1, <2>2
    <3>1. PWrite' = PWrite + n
      BY <1>1, <2>1, <3>0, ModSmall
    <3> QED
      BY <1>1, <2>2, <3>1 DEF Slot
  <2>3. CASE PWrite + n >= Size
    <3>1. PWrite + n \in Size .. 2 * Size - 1
      BY <1>1, <2>3
    <3>2. PWrite' = PWrite + n - Size
      BY <1>1, <2>1, <3>1, ModNext
    <3> QED
      BY <1>1, <2>3, <3>2 DEF Slot
  <2> QED
    BY <1>1, <2>2, <2>3
<1> DEFINE more == [i \in 1 .. n |-> (tag + i - 1) % 3]
<1>3. owed' = owed \o more /\ more \in Seq(Int) /\ Len(more) = n
  BY <1>1 DEF PutChars
<1>4. \A i \in 1 .. n : more[i] = (tag + i - 1) % 3
  OBVIOUS
<1> HIDE DEF more
<1>5. Len(owed') = Len(owed) + n /\ owed \in Seq(Int)
  <2>1. owed \in Seq(Int)
    BY <1>1
  <2>2. Len(owed \o more) = Len(owed) + Len(more)
    BY ONLY <2>1, <1>3
  <2> QED
    BY <1>3, <2>1, <2>2
<1>6. ASSUME NEW k \in 1 .. Len(owed') PROVE owed'[k] = TXBuf'[Slot(read + k - 1)]
  <2> DEFINE x == Slot(read + k - 1)
             first == (x - PWrite) % Size
  <2>0. Len(owed') = Len(owed) + n /\ k \in 1 .. Len(owed) + n
    BY <1>1, <1>5
  <2>1. /\ x \in Slots
        /\ x = read + k - 1 \/ x = read + k - 1 - Size
    BY <1>1, <2>0 DEF Slot
  <2>2. PWrite = base + full \/ PWrite = base + full - Size
    BY <1>1 DEF Slot
  <2>3. TXBuf'[x] = IF first >= n THEN TXBuf[x]
                    ELSE (tag + first + Size * ((n - 1 - first) \div Size)) % 3
    BY <2>1 DEF PutChars
  <2> HIDE DEF first, x
  <2>4. CASE k <= Len(owed)
    <3>1. first >= n
      <4>1. CASE x >= PWrite
        <5>1. x - PWrite \in 0 .. Size - 1
          BY <1>1, <2>1, <4>1
        <5>2. first = x - PWrite
          BY <1>1, <5>1, ModSmall DEF first
        <5> QED
          BY <1>1, <2>0, <2>1, <2>2, <2>4, <4>1, <5>2
      <4>2. CASE x < PWrite
        <5>1. x - PWrite \in Int /\ -Size <= x - PWrite /\ x - PWrite < 0
          BY <1>1, <2>1, <4>2
        <5>2. first = x - PWrite + Size
          BY <1>1, <5>1, ModBelow DEF first
        <5> QED
          BY <1>1, <2>0, <2>1, <2>2, <2>4, <4>2, <5>2
      <4> QED
        BY <1>1, <2>1, <4>1, <4>2
    <3>2. owed'[k] = owed[k]
      BY <1>5, <1>3, <2>0, <2>4
    <3>3. owed[k] = TXBuf[x]
      BY <1>1, <2>0, <2>4 DEF InRing, x
    <3> QED
      BY <2>3, <3>1, <3>2, <3>3 DEF x
  <2>5. CASE k > Len(owed)
    <3> DEFINE i == k - Len(owed)
    <3>1. i \in 1 .. n /\ owed'[k] = more[i]
      BY <1>5, <1>3, <2>0, <2>5
    <3>2. first = i - 1
      <4>1. CASE x >= PWrite
        <5>1. x - PWrite \in 0 .. Size - 1
          BY <1>1, <2>1, <4>1
        <5>2. first = x - PWrite
          BY <1>1, <5>1, ModSmall DEF first
        <5> QED
          BY <1>1, <2>0, <2>1, <2>2, <3>1, <4>1, <5>2
      <4>2. CASE x < PWrite
        <5>1. x - PWrite \in Int /\ -Size <= x - PWrite /\ x - PWrite < 0
          BY <1>1, <2>1, <4>2
        <5>2. first = x - PWrite + Size
          BY <1>1, <5>1, ModBelow DEF first
        <5> QED
          BY <1>1, <2>0, <2>1, <2>2, <3>1, <4>2, <5>2
      <4> QED
        BY <1>1, <2>1, <4>1, <4>2
    <3> HIDE DEF i
    <3>3. n - 1 - first \in 0 .. Size - 1
      BY <1>1, <3>1, <3>2
    <3>4. (n - 1 - first) \div Size = 0
      BY <1>1, <3>3, ModSmall
    <3>5. TXBuf'[x] = (tag + (i - 1) + Size * 0) % 3
      BY <1>1, <2>3, <3>1, <3>2, <3>4
    <3>6. tag + (i - 1) + Size * 0 = tag + i - 1
      BY <1>1, <3>1
    <3> QED
      BY <1>4, <3>1, <3>5, <3>6 DEF x
  <2> QED
    BY <1>1, <2>0, <2>4, <2>5
<1> QED
  BY <1>2, <1>6 DEF InRing

\* Starting the stream changes nothing of what is sent and freed; it stays idle only if
\* there is nothing to send.
LEMMA Starts ==
    ASSUME Inv, NEW full \in Nat, SendIfIdle(full)
    PROVE  /\ Sent' = Sent
           /\ ITransSize <= Size => ITransSize' <= Size
           /\ IDmaIsIdle' => full = 0
<1>1. IDmaIsIdle \in BOOLEAN /\ ITransSize \in Nat /\ dmaLeft \in Nat /\ PRead \in 0 .. Size - 1
  BY DEF Inv, Slots
<1>2. CASE IDmaIsIdle /\ full # 0
  <2>1. /\ ITransSize' = Least(full, Size - PRead) /\ ITransSize' # 0
        /\ IDmaIsIdle' = FALSE /\ dmaLeft' = ITransSize'
    <3>1. ISendViaDMA(PRead, full)
      BY <1>2 DEF SendIfIdle
    <3>2. Least(full, Size - PRead) >= 1
      BY <1>1, <1>2, SizeAssumption DEF Least
    <3> QED
      BY <3>1, <3>2 DEF ISendViaDMA
  <2>2. ITransSize' <= Size /\ ITransSize' \in Nat
    BY <1>1, <2>1, SizeAssumption DEF Least
  <2>3. Sent = 0
    BY <1>2 DEF Sent
  <2>4. Sent' = 0
    BY <2>1, <2>2 DEF Sent
  <2> QED
    BY <2>1, <2>2, <2>3, <2>4
<1>3. CASE IDmaIsIdle /\ full = 0
  <2>1. ITransSize' = 0 /\ IDmaIsIdle' = IDmaIsIdle
    <3>1. ISendViaDMA(PRead, full)
      BY <1>3 DEF SendIfIdle
    <3>2. Least(full, Size - PRead) = 0
      BY <1>1, <1>3, SizeAssumption DEF Least
    <3> QED
      BY <3>1, <3>2 DEF ISendViaDMA
  <2> QED
    BY <1>1, <1>3, <2>1, SizeAssumption DEF Sent
<1>4. CASE ~IDmaIsIdle
  BY <1>1, <1>4 DEF SendIfIdle, Sent, dmaVars
<1> QED
  BY <1>1, <1>2, <1>3, <1>4

\* A message is counted as long as what is put of it, or longer.  Unless the counter is
\* upset by it, it is counted exactly and lies in the ring behind the others.
LEMMA Prints ==
    ASSUME RingInv, NEW fmt \in Formats \cup FormatsC, MayPrint(fmt),
           PutChars(kl_vsprintf(MaxLength, fmt).put), upset' = (upset \/ ~Fits(fmt))
    PROVE  LET r == kl_vsprintf(MaxLength, fmt)
           IN /\ r.put \in Nat /\ r.count \in Nat /\ r.put <= r.count
              /\ TXBuf' \in [Slots -> Tags] /\ PWrite' \in Slots /\ tag' \in Tags
              /\ owed' \in Seq(Tags) /\ Len(owed') = Len(owed) + r.put
              /\ upset' \in BOOLEAN
              /\ ~upset' => /\ ~upset /\ r.put = r.count /\ IFullSlotsCount + r.count <= Size
                            /\ PWrite' = Slot(PRead + IFullSlotsCount + r.count)
                            /\ \A k \in 1 .. Len(owed') : owed'[k] = TXBuf'[Slot(PRead + Sent + k - 1)]
<1> DEFINE r == kl_vsprintf(MaxLength, fmt)
           l == LengthOf(fmt)
<1>1. /\ IFullSlotsCount \in Nat /\ PRead \in Slots /\ pc = "none" /\ owed \in Seq(Tags) /\ Typed
      /\ Size \in Nat \ {0} /\ Word \in Nat /\ MaxOwed \in Nat /\ MaxOwed < Word
      /\ Len(owed) + l <= MaxOwed
  BY SizeAssumption, WordAssumption, OwedAssumption DEF RingInv, Inv, Typed, MayPrint
<1>2. Good(r, l, MaxLength)
  BY <1>1, Answers
<1>3. /\ r.put \in Nat /\ r.count \in Nat /\ l \in Nat
      /\ l < Word => r.put <= r.count /\ r.count <= l
      /\ l <= MaxLength => r.put = l /\ r.count = l
  BY <1>2 DEF Good
<1>4. Fits(fmt) <=> l <= Size - IFullSlotsCount
  BY DEF Fits
<1>5. PutChars(r.put)
  OBVIOUS
<1> HIDE DEF r, l
<1>6. r.put <= r.count
  <2>1. Len(owed) \in Nat
    BY <1>1
  <2>2. l < Word
    BY <1>1, <1>3, <2>1
  <2> QED
    BY <1>3, <2>2
<1>7. /\ TXBuf' \in [Slots -> Tags] /\ PWrite' \in Slots /\ tag' \in Tags
      /\ owed' \in Seq(Tags) /\ Len(owed') = Len(owed) + r.put
  BY <1>1, <1>3, <1>5, PutTyped
<1>8. upset' \in BOOLEAN
  BY Zenon
<1>9. ASSUME ~upset'
      PROVE  /\ ~upset /\ r.put = r.count /\ IFullSlotsCount + r.count <= Size
             /\ PWrite' = Slot(PRead + IFullSlotsCount + r.count)
             /\ \A k \in 1 .. Len(owed') : owed'[k] = TXBuf'[Slot(PRead + Sent + k - 1)]
  <2>1. ~upset /\ Fits(fmt)
    BY <1>9
  <2>2. Exact /\ l <= Size - IFullSlotsCount
    BY <1>4, <2>1 DEF RingInv
  <2>3. MaxLength = Size - IFullSlotsCount
    BY <1>1, <1>3, <2>2, Room
  <2>4. r.put = l /\ r.count = l /\ IFullSlotsCount + r.put <= Size
    BY <1>1, <1>3, <2>2, <2>3
  <2>5. Sent \in Nat /\ IFullSlotsCount = Len(owed) + Sent
        /\ PWrite = Slot(PRead + IFullSlotsCount) /\ InRing(PRead + Sent)
    <3>1. Promised = 0
      BY <1>1 DEF Promised
    <3>2. Sent \in Int
      BY DEF Sent, RingInv, Inv
    <3>3. PRead \in Nat
      BY <1>1 DEF Slots
    <3>4. Sent >= 0
      BY DEF Sent, RingInv, Inv, Slots
    <3> QED
      BY <1>1, <2>2, <3>1, <3>2, <3>3, <3>4 DEF Exact
  <2>6. PICK read \in Nat, base \in Slots, full \in Nat :
            read = PRead + Sent /\ base = PRead /\ full = IFullSlotsCount
    <3>1. PRead + Sent \in Nat
      BY <1>1, <2>5 DEF Slots
    <3> QED
      BY <1>1, <3>1
  <2>7. /\ full + r.put <= Size /\ base <= read /\ read + Len(owed) = base + full
        /\ PWrite = Slot(base + full) /\ InRing(read)
    <3>1. base \in Nat /\ Len(owed) \in Nat
      BY <1>1 DEF Slots
    <3> QED
      BY <2>4, <2>5, <2>6, <3>1
  <2>8. PICK n \in Nat : n = r.put
    BY <1>3
  <2>9. PWrite' = Slot(base + full + n) /\ InRing(read)'
    BY <1>1, <1>5, <2>7, <2>8, PutBehind
  <2> QED
    BY <2>1, <2>4, <2>6, <2>8, <2>9 DEF InRing
<1> QED
  BY <1>3, <1>6, <1>7, <1>8, <1>9 DEF r

LEMMA InitRing == Init => RingInv
<1> SUFFICES ASSUME Init PROVE RingInv
  OBVIOUS
<1>1. Inv
  BY InitInv
<1>2. Typed /\ Flags
  <2>1. 0 \in Slots /\ 0 \in Tags /\ 0 <= Size
    BY SizeAssumption DEF Slots, Tags
  <2>2. <<>> \in Seq(Tags)
    OBVIOUS
  <2> QED
    BY <2>1, <2>2 DEF Init, Typed, Flags
<1>3. Promised = 0 /\ Sent = 0 /\ Len(owed) = 0
  BY DEF Init, Promised, Sent
<1>4. Counted
  BY <1>3 DEF Init, Counted
<1>5. Exact /\ ~garbled
  <2>1. Slot(0) = 0
    BY SizeAssumption DEF Slot
  <2> QED
    BY <1>3, <2>1, SizeAssumption DEF Init, Exact, InRing
<1> QED
  BY <1>1, <1>2, <1>4, <1>5 DEF RingInv

\* One lemma per action.
LEMMA PrintfKeeps == RingInv /\ Inv' /\ Printf => RingInv'
<1> SUFFICES ASSUME RingInv, Inv', Printf PROVE RingInv'
  OBVIOUS
<1>1. PICK fmt \in Formats :
          /\ MayPrint(fmt) /\ PutChars(kl_vsprintf(MaxLength, fmt).put)
          /\ upset' = (upset \/ ~Fits(fmt))
          /\ IFullSlotsCount' = IFullSlotsCount + kl_vsprintf(MaxLength, fmt).count
          /\ SendIfIdle(IFullSlotsCount')
          /\ UNCHANGED <<PRead, cVars, garbled>>
  BY DEF Printf
<1> DEFINE r == kl_vsprintf(MaxLength, fmt)
<1>2. /\ r.put \in Nat /\ r.count \in Nat /\ r.put <= r.count
      /\ TXBuf' \in [Slots -> Tags] /\ PWrite' \in Slots /\ tag' \in Tags
      /\ owed' \in Seq(Tags) /\ Len(owed') = Len(owed) + r.put
      /\ upset' \in BOOLEAN
      /\ ~upset' => /\ ~upset /\ r.put = r.count /\ IFullSlotsCount + r.count <= Size
                    /\ PWrite' = Slot(PRead + IFullSlotsCount + r.count)
                    /\ \A k \in 1 .. Len(owed') : owed'[k] = TXBuf'[Slot(PRead + Sent + k - 1)]
  BY <1>1, Prints
<1>3. IFullSlotsCount' = IFullSlotsCount + r.count
  BY <1>1
<1> HIDE DEF r
<1>4. /\ Inv /\ IFullSlotsCount \in Nat /\ IFullSlotsCount' \in Nat /\ PRead \in Nat
      /\ pc = "none" /\ pc' = "none" /\ PRead' = PRead /\ garbled' = garbled
      /\ ITransSize <= Size /\ garbled \in BOOLEAN /\ Len(owed) \in Nat
      /\ Sent \in Int
  BY <1>1, <1>2, <1>3 DEF RingInv, Inv, Slots, Typed, Flags, cVars, MayPrint, Sent
<1>5. Sent' = Sent /\ ITransSize' <= Size /\ (IDmaIsIdle' => IFullSlotsCount' = 0)
  <2>1. PICK full \in Nat : full = IFullSlotsCount' /\ SendIfIdle(full)
    BY <1>1, <1>4
  <2> QED
    BY <1>4, <2>1, Starts
<1>6. Promised = 0 /\ Promised' = 0
  BY <1>4 DEF Promised
<1>7. Typed' /\ Flags'
  BY <1>2, <1>4, <1>5 DEF Typed, Flags
<1>8. Counted'
  <2>1. IFullSlotsCount + 0 >= Len(owed) + Sent
    BY <1>6 DEF RingInv, Counted
  <2> QED
    BY <1>2, <1>3, <1>4, <1>5, <1>6, <2>1 DEF Counted
<1>9. ASSUME ~upset' PROVE Exact' /\ ~garbled'
  <2>1. IFullSlotsCount + 0 = Len(owed) + Sent /\ ~garbled
    BY <1>2, <1>6, <1>9 DEF RingInv, Exact
  <2>2. InRing(PRead + Sent)'
    BY <1>2, <1>4, <1>5, <1>9 DEF InRing
  <2> QED
    BY <1>2, <1>3, <1>4, <1>5, <1>6, <1>9, <2>1, <2>2 DEF Exact
<1> QED
  BY <1>7, <1>8, <1>9 DEF RingInv

LEMMA PrintfCKeeps == RingInv /\ Inv' /\ PrintfC => RingInv'
<1> SUFFICES ASSUME RingInv, Inv', PrintfC PROVE RingInv'
  OBVIOUS
<1>1. PICK fmt \in FormatsC :
          /\ MayPrint(fmt) /\ PutChars(kl_vsprintf(MaxLength, fmt).put)
          /\ upset' = (upset \/ ~Fits(fmt))
          /\ pc' = "load" /\ printed' = kl_vsprintf(MaxLength, fmt).count
          /\ UNCHANGED <<PRead, countVars, dmaVars, loaded, garbled>>
  BY DEF PrintfC
<1> DEFINE r == kl_vsprintf(MaxLength, fmt)
<1>2. /\ r.put \in Nat /\ r.count \in Nat /\ r.put <= r.count
      /\ TXBuf' \in [Slots -> Tags] /\ PWrite' \in Slots /\ tag' \in Tags
      /\ owed' \in Seq(Tags) /\ Len(owed') = Len(owed) + r.put
      /\ upset' \in BOOLEAN
      /\ ~upset' => /\ ~upset /\ r.put = r.count /\ IFullSlotsCount + r.count <= Size
                    /\ PWrite' = Slot(PRead + IFullSlotsCount + r.count)
                    /\ \A k \in 1 .. Len(owed') : owed'[k] = TXBuf'[Slot(PRead + Sent + k - 1)]
  BY <1>1, Prints
<1>3. printed' = r.count /\ pc' = "load"
  BY <1>1
<1> HIDE DEF r
<1>4. /\ IFullSlotsCount \in Nat /\ IFullSlotsCount' = IFullSlotsCount /\ PRead \in Nat
      /\ pc = "none" /\ PRead' = PRead /\ garbled' = garbled
      /\ IDmaIsIdle' = IDmaIsIdle /\ ITransSize' = ITransSize /\ dmaLeft' = dmaLeft
      /\ ITransSize <= Size /\ garbled \in BOOLEAN /\ Len(owed) \in Nat
      /\ Sent \in Int
  BY <1>1 DEF RingInv, Inv, Slots, Typed, Flags, countVars, dmaVars, MayPrint, Sent
<1>5. Sent' = Sent
  BY <1>4 DEF Sent
<1>6. Promised = 0 /\ Promised' = r.count
  BY <1>3, <1>4 DEF Promised
<1>7. Typed' /\ Flags'
  BY <1>2, <1>4 DEF Typed, Flags
<1>8. Counted'
  <2>1. IFullSlotsCount + 0 >= Len(owed) + Sent /\ (IDmaIsIdle => IFullSlotsCount = 0)
    BY <1>4, <1>6 DEF RingInv, Counted
  <2> QED
    BY <1>2, <1>4, <1>5, <1>6, <2>1 DEF Counted
<1>9. ASSUME ~upset' PROVE Exact' /\ ~garbled'
  <2>1. IFullSlotsCount + 0 = Len(owed) + Sent /\ ~garbled
    BY <1>2, <1>6, <1>9 DEF RingInv, Exact
  <2>2. InRing(PRead + Sent)'
    BY <1>2, <1>4, <1>5, <1>9 DEF InRing
  <2> QED
    BY <1>2, <1>4, <1>5, <1>6, <1>9, <2>1, <2>2 DEF Exact
<1> QED
  BY <1>7, <1>8, <1>9 DEF RingInv

\* The two accesses of PrintfC's sum: what the interrupt frees in between is counted twice.
LEMMA LoadKeeps == RingInv /\ Inv' /\ LoadCount => RingInv'
<1> SUFFICES ASSUME RingInv, Inv', LoadCount PROVE RingInv'
  OBVIOUS
<1>1. /\ pc = "load" /\ pc' = "store" /\ printed' = printed /\ UNCHANGED <<TXBuf, PRead, PWrite>>
      /\ UNCHANGED <<IFullSlotsCount, ITransSize, IDmaIsIdle, dmaLeft, tag, owed, garbled, upset>>
  BY DEF LoadCount, ringVars, countVars, dmaVars
<1>2. Promised' = Promised /\ Sent' = Sent
  BY <1>1 DEF Promised, Sent
<1> QED
  BY <1>1, <1>2 DEF RingInv, Typed, Flags, Counted, Exact, InRing

LEMMA StoreKeeps == RingInv /\ Inv' /\ StoreCount => RingInv'
<1> SUFFICES ASSUME RingInv, Inv', StoreCount PROVE RingInv'
  OBVIOUS
<1>1. /\ pc = "store" /\ pc' = "start" /\ UNCHANGED <<TXBuf, PRead, PWrite>>
      /\ IFullSlotsCount' = loaded + printed
      /\ UNCHANGED <<ITransSize, IDmaIsIdle, dmaLeft, tag, owed, garbled>>
  BY DEF StoreCount, ringVars, dmaVars
<1>2. upset' = (upset \/ loaded # IFullSlotsCount)
  BY DEF StoreCount
<1>3. Promised = printed /\ Promised' = 0 /\ Sent' = Sent
  BY <1>1 DEF Promised, Sent
<1>4. /\ loaded \in Nat /\ printed \in Nat /\ IFullSlotsCount \in Nat /\ loaded >= IFullSlotsCount
      /\ Len(owed) \in Nat /\ Sent \in Int /\ PRead \in Nat
  BY <1>1 DEF RingInv, Inv, Slots, Typed, Sent
<1>5. Typed' /\ garbled' \in BOOLEAN
  BY <1>1 DEF RingInv, Typed, Flags
<1>6. upset' \in BOOLEAN
  BY <1>2, Zenon
<1>7. Counted'
  BY <1>1, <1>3, <1>4 DEF RingInv, Counted
<1>8. ASSUME ~upset' PROVE Exact' /\ ~garbled'
  <2>1. ~upset /\ loaded = IFullSlotsCount
    BY <1>2, <1>8
  <2>2. Exact /\ ~garbled
    BY <2>1 DEF RingInv
  <2>3. InRing(PRead + Sent)'
    BY <1>1, <1>3, <2>2 DEF Exact, InRing
  <2> QED
    BY <1>1, <1>3, <1>4, <2>1, <2>2, <2>3 DEF Exact
<1> QED
  BY <1>5, <1>6, <1>7, <1>8 DEF RingInv, Flags

LEMMA StartKeeps == RingInv /\ Inv' /\ StartC => RingInv'
<1> SUFFICES ASSUME RingInv, Inv', StartC PROVE RingInv'
  OBVIOUS
<1>1. /\ pc = "start" /\ pc' = "none" /\ UNCHANGED <<TXBuf, PRead, PWrite>>
      /\ SendIfIdle(IFullSlotsCount)
      /\ UNCHANGED <<IFullSlotsCount, tag, owed, garbled, upset>>
  BY DEF StartC, ringVars
<1>2. Promised' = 0 /\ Promised = 0
  BY <1>1 DEF Promised
<1>3. Sent' = Sent /\ ITransSize' <= Size /\ (IDmaIsIdle' => IFullSlotsCount = 0)
  BY Starts DEF RingInv, Inv, Typed, StartC
<1>4. Typed' /\ Flags'
  BY <1>1, <1>3 DEF RingInv, Typed, Flags
<1>5. Counted'
  BY <1>1, <1>2, <1>3 DEF RingInv, Counted
<1>6. ASSUME ~upset' PROVE Exact' /\ ~garbled'
  BY <1>1, <1>2, <1>3, <1>6 DEF RingInv, Exact, InRing
<1> QED
  BY <1>4, <1>5, <1>6 DEF RingInv

\* A byte that is sent is the first that is owed.
LEMMA SendKeeps == RingInv /\ Inv' /\ DmaSends => RingInv'
<1> SUFFICES ASSUME RingInv, Inv', DmaSends PROVE RingInv'
  OBVIOUS
<1>1. /\ dmaLeft > 0 /\ dmaAt' = dmaAt + 1 /\ dmaLeft' = dmaLeft - 1
      /\ UNCHANGED <<TXBuf, PRead, PWrite, IFullSlotsCount, ITransSize, IDmaIsIdle>>
      /\ UNCHANGED <<pc, printed, tag, upset>>
  BY DEF DmaSends, ringVars, countVars, cVars
<1>2. garbled' = (garbled \/ owed = <<>> \/ dmaAt \notin Slots \/ TXBuf[dmaAt] # owed[1])
  BY DEF DmaSends
<1>3. owed' = IF owed = <<>> THEN owed ELSE Tail(owed)
  BY DEF DmaSends
<1>4. /\ IDmaIsIdle = FALSE /\ ITransSize \in Nat /\ dmaLeft \in Nat /\ dmaAt \in Nat
      /\ dmaAt + dmaLeft = PRead + ITransSize /\ PRead + ITransSize <= Size
      /\ dmaLeft <= ITransSize /\ IFullSlotsCount >= ITransSize
      /\ IFullSlotsCount \in Nat /\ PRead \in 0 .. Size - 1 /\ printed \in Nat
      /\ owed \in Seq(Tags) /\ Len(owed) \in Nat /\ Size \in Nat
  BY <1>1, SizeAssumption DEF RingInv, Inv, Typed, Slots
<1>5. Sent = ITransSize - dmaLeft /\ Sent' = ITransSize - dmaLeft + 1 /\ Promised' = Promised
  BY <1>1, <1>4 DEF Sent, Promised
<1>6. Promised \in Nat /\ Sent \in Nat
  BY <1>4, <1>5 DEF Promised
<1>7. Typed' /\ upset' \in BOOLEAN
  <2>1. owed' \in Seq(Tags)
    BY <1>3, <1>4
  <2> QED
    BY <1>1, <2>1 DEF RingInv, Typed, Flags
<1>8. garbled' \in BOOLEAN
  BY <1>2, Zenon
<1>9. Counted'
  <2>1. IFullSlotsCount + Promised >= Len(owed) + Sent
    BY DEF RingInv, Counted
  <2>2. CASE owed = <<>>
    BY <1>1, <1>3, <1>4, <1>5, <1>6, <2>2 DEF Counted
  <2>3. CASE owed # <<>>
    <3>1. Len(owed') = Len(owed) - 1
      BY <1>3, <1>4, <2>3
    <3> QED
      BY <1>1, <1>4, <1>5, <1>6, <2>1, <3>1 DEF Counted
  <2> QED
    BY <2>2, <2>3
<1>10. ASSUME ~upset' PROVE Exact' /\ ~garbled'
  <2>1. Exact /\ ~garbled
    BY <1>1, <1>10 DEF RingInv
  <2>2. Len(owed) >= 1
    BY <1>1, <1>4, <1>5, <1>6, <2>1 DEF Exact
  <2>3. /\ owed # <<>> /\ Len(owed') = Len(owed) - 1
        /\ \A k \in 1 .. Len(owed) - 1 : owed'[k] = owed[k + 1]
    BY <1>3, <1>4, <2>2
  <2>4. dmaAt = PRead + Sent /\ dmaAt \in Slots /\ Slot(PRead + Sent + 1 - 1) = dmaAt
    <3>1. /\ dmaAt = PRead + Sent /\ dmaAt \in 0 .. Size - 1
          /\ PRead + Sent + 1 - 1 = dmaAt
      BY <1>1, <1>4, <1>5
    <3>2. Slot(dmaAt) = dmaAt
      BY <1>4, <3>1 DEF Slot
    <3> QED
      BY <3>1, <3>2 DEF Slots
  <2>5. owed[1] = TXBuf[dmaAt]
    <3>1. 1 \in 1 .. Len(owed)
      BY <1>4, <2>2
    <3> QED
      BY <2>1, <2>4, <3>1 DEF Exact, InRing
  <2>6. ~garbled'
    BY <1>2, <2>1, <2>3, <2>4, <2>5
  <2>7. InRing(PRead + Sent)'
    <3>1. ASSUME NEW k \in 1 .. Len(owed') PROVE owed'[k] = TXBuf'[Slot(PRead' + Sent' + k - 1)]
      <4>1. k \in 1 .. Len(owed) - 1 /\ k + 1 \in 1 .. Len(owed)
        BY <1>4, <2>3
      <4>2. owed[k + 1] = TXBuf[Slot(PRead + Sent + (k + 1) - 1)]
        BY <2>1, <4>1 DEF Exact, InRing
      <4>3. PRead + Sent + (k + 1) - 1 = PRead' + Sent' + k - 1
        BY <1>1, <1>4, <1>5, <4>1
      <4> QED
        BY <1>1, <2>3, <4>1, <4>2, <4>3
    <3> QED
      BY <3>1 DEF InRing
  <2> QED
    <3>1. IFullSlotsCount' + Promised' = Len(owed') + Sent'
      <4>1. IFullSlotsCount + Promised = Len(owed) + Sent
        BY <2>1 DEF Exact
      <4>2. IFullSlotsCount' = IFullSlotsCount /\ Sent' = Sent + 1 /\ Promised' = Promised
        BY <1>1, <1>4, <1>5
      <4>3. Len(owed') = Len(owed) - 1 /\ Len(owed) \in Nat
        BY <1>4, <2>3
      <4> QED
        BY ONLY <1>6, <4>1, <4>2, <4>3
    <3>2. IFullSlotsCount' + Promised' <= Size /\ PWrite' = Slot(PRead' + IFullSlotsCount' + Promised')
      BY <1>1, <1>5, <2>1 DEF Exact
    <3> QED
      BY <2>6, <2>7, <3>1, <3>2 DEF Exact
<1> QED
  BY <1>7, <1>8, <1>9, <1>10 DEF RingInv, Flags

\* The interrupt frees what is sent and starts what is left.
LEMMA HandlerKeeps == RingInv /\ Inv' /\ IRQDmaTxHandler => RingInv'
<1> SUFFICES ASSUME RingInv, Inv', IRQDmaTxHandler PROVE RingInv'
  OBVIOUS
<1>1. /\ dmaLeft = 0 /\ ~IDmaIsIdle
      /\ IFullSlotsCount' = IFullSlotsCount - ITransSize
      /\ PRead' = IF PRead + ITransSize >= Size THEN 0 ELSE PRead + ITransSize
      /\ UNCHANGED <<TXBuf, PWrite, pc, printed, tag, owed, garbled, upset>>
  BY DEF IRQDmaTxHandler, cVars
<1>2. /\ ITransSize \in Nat /\ PRead + ITransSize <= Size /\ IFullSlotsCount >= ITransSize
      /\ IFullSlotsCount \in Nat /\ PRead \in 0 .. Size - 1 /\ printed \in Nat
      /\ owed \in Seq(Tags) /\ Len(owed) \in Nat /\ ITransSize <= Size /\ ITransSize >= 1
      /\ PRead' \in 0 .. Size - 1 /\ IFullSlotsCount' \in Nat /\ Size \in Nat \ {0}
  BY <1>1, SizeAssumption DEF RingInv, Inv, Typed, Slots
<1>3. Sent = ITransSize /\ Promised' = Promised
  BY <1>1, <1>2 DEF Sent, Promised
<1>4. Promised \in Nat
  BY <1>2 DEF Promised
<1>5. Sent' = 0 /\ ITransSize' <= Size /\ (IDmaIsIdle' => IFullSlotsCount' = 0)
  <2>1. CASE IFullSlotsCount' = 0
    <3>1. IDmaIsIdle' = TRUE /\ ITransSize' = ITransSize
      BY <2>1 DEF IRQDmaTxHandler
    <3> QED
      BY <1>2, <2>1, <3>1 DEF Sent
  <2>2. CASE IFullSlotsCount' # 0
    <3>1. PICK read \in 0 .. Size - 1, full \in Nat :
              read = PRead' /\ full = IFullSlotsCount' /\ ISendViaDMA(read, full)
      BY <1>2, <2>2 DEF IRQDmaTxHandler
    <3>2. Least(full, Size - read) \in 1 .. Size
      <4>1. full # 0 /\ Size \in Nat
        BY <1>2, <2>2, <3>1
      <4>2. full >= 1 /\ Size - read \in 1 .. Size
        BY <4>1
      <4> QED
        BY <4>1, <4>2 DEF Least
    <3>3. /\ ITransSize' = Least(full, Size - read) /\ ITransSize' # 0
          /\ IDmaIsIdle' = FALSE /\ dmaLeft' = ITransSize'
      BY <3>1, <3>2 DEF ISendViaDMA
    <3>4. ITransSize' \in Int /\ ITransSize' <= Size
      BY <3>2, <3>3
    <3> QED
      BY <3>3, <3>4 DEF Sent
  <2> QED
    BY <2>1, <2>2
<1>6. Typed' /\ Flags'
  BY <1>1, <1>5 DEF RingInv, Typed, Flags
<1>7. Counted'
  <2>1. IFullSlotsCount + Promised >= Len(owed) + Sent
    BY DEF RingInv, Counted
  <2> QED
    BY <1>1, <1>2, <1>3, <1>4, <1>5, <2>1 DEF Counted
<1>8. ASSUME ~upset' PROVE Exact' /\ ~garbled'
  <2>1. Exact /\ ~garbled
    BY <1>1, <1>8 DEF RingInv
  <2>2. IFullSlotsCount' + Promised = Len(owed) /\ IFullSlotsCount' + Promised <= Size - ITransSize
    BY <1>1, <1>2, <1>3, <1>4, <2>1 DEF Exact
  <2>3. \A x \in Nat : x < Size \/ x = 0 => Slot(PRead + ITransSize + x) = Slot(PRead' + x)
    BY <1>1, <1>2 DEF Slot
  <2>4. PWrite' = Slot(PRead' + IFullSlotsCount' + Promised')
    <3>1. PWrite = Slot(PRead + IFullSlotsCount + Promised)
      BY <2>1 DEF Exact
    <3>2. IFullSlotsCount' + Promised \in Nat /\ IFullSlotsCount' + Promised < Size
      <4>1. IFullSlotsCount' \in Nat /\ ITransSize \in Nat /\ ITransSize >= 1 /\ Size \in Nat
        BY <1>2
      <4>2. IFullSlotsCount' + Promised <= Size - ITransSize
        BY <2>2
      <4> QED
        <5>1. PICK left \in Nat : left = IFullSlotsCount'
          BY <4>1
        <5>2. left + Promised <= Size - ITransSize
          BY <4>2, <5>1
        <5>3. left + Promised \in Nat /\ left + Promised < Size
          <6>1. ITransSize \in Nat /\ ITransSize >= 1 /\ Size \in Nat
            BY <4>1
          <6> QED
            BY ONLY <6>1, <5>2, <1>4, left \in Nat
        <5> QED
          BY <5>1, <5>3
    <3>3. /\ PRead + IFullSlotsCount + Promised = PRead + ITransSize + (IFullSlotsCount' + Promised)
          /\ PRead' + IFullSlotsCount' + Promised = PRead' + (IFullSlotsCount' + Promised)
      BY <1>1, <1>2, <1>4
    <3> QED
      BY <1>1, <1>3, <2>3, <3>1, <3>2, <3>3
  <2>5. InRing(PRead + Sent)'
    <3>1. ASSUME NEW k \in 1 .. Len(owed') PROVE owed'[k] = TXBuf'[Slot(PRead' + Sent' + k - 1)]
      <4>1. k \in 1 .. Len(owed) /\ k - 1 \in Nat /\ k - 1 < Size
        BY <1>1, <1>2, <2>2
      <4>2. owed[k] = TXBuf[Slot(PRead + Sent + k - 1)]
        BY <2>1, <4>1 DEF Exact, InRing
      <4>3. /\ PRead + Sent + k - 1 = PRead + ITransSize + (k - 1)
            /\ PRead' + Sent' + k - 1 = PRead' + (k - 1)
        BY <1>2, <1>3, <1>5, <4>1
      <4>4. Slot(PRead + Sent + k - 1) = Slot(PRead' + Sent' + k - 1)
        BY <2>3, <4>1, <4>3
      <4> QED
        BY <1>1, <4>2, <4>4
    <3> QED
      BY <3>1 DEF InRing
  <2> QED
    BY <1>1, <1>2, <1>3, <1>4, <1>5, <2>1, <2>2, <2>4, <2>5 DEF Exact
<1> QED
  BY <1>6, <1>7, <1>8 DEF RingInv

LEMMA NextRing == RingInv /\ [Next]_vars => RingInv'
<1> SUFFICES ASSUME RingInv, [Next]_vars PROVE RingInv'
  OBVIOUS
<1>1. Inv'
  BY NextInv DEF RingInv
<1>2. CASE UNCHANGED vars
  BY <1>1, <1>2 DEF vars, ringVars, countVars, dmaVars, cVars, RingInv, Typed, Flags, Counted,
     Exact, InRing, Promised, Sent
<1> QED
  BY <1>1, <1>2, PrintfKeeps, PrintfCKeeps, LoadKeeps, StoreKeeps, StartKeeps, SendKeeps,
     HandlerKeeps DEF Next

-----------------------------------------------------------------------------
\* IRQDmaTxHandler and ISendViaDMA never let the stream read past TXBuf.
THEOREM DmaStaysInside == Spec => []DmaInside
<1>1. Inv => DmaInside
  BY DEF Inv, DmaInside
<1> QED
  BY InitInv, NextInv, <1>1, PTL DEF Spec

\* The ring, its counter and the stream agree on what is still to be sent: nothing is
\* forgotten whatever PrintfC and the interrupt do, and what is sent is what was printed,
\* in that order, while no message lacks room and no interrupt hits PrintfC's sum.
THEOREM RingTrueHolds == Spec => []RingTrue
<1>1. RingInv => RingTrue
  <2> SUFFICES ASSUME RingInv PROVE RingTrue
    OBVIOUS
  <2>1. TypeOK
    <3>1. Inv /\ Typed /\ Flags /\ Size \in Nat
      BY SizeAssumption DEF RingInv
    <3>2. dmaAt \in 0 .. Size /\ dmaLeft \in 0 .. Size /\ ITransSize \in 0 .. Size
      BY <3>1 DEF Inv, Typed
    <3> QED
      BY <3>1, <3>2 DEF Inv, Typed, Flags, TypeOK
  <2>2. SentAsPrinted
    BY DEF RingInv, SentAsPrinted
  <2>3. NothingForgotten
    <3> SUFFICES ASSUME IDmaIsIdle, pc = "none" PROVE owed = <<>>
      BY DEF NothingForgotten
    <3>1. Promised = 0 /\ Sent = 0 /\ IFullSlotsCount = 0
      BY DEF Promised, Sent, RingInv, Counted
    <3>2. owed \in Seq(Tags) /\ Len(owed) <= 0
      BY <3>1 DEF RingInv, Counted, Typed
    <3> QED
      BY <3>2
  <2>4. CountIsTrue
    <3> SUFFICES ASSUME pc = "none", ~upset PROVE IFullSlotsCount = Len(owed) + Sent
      BY DEF CountIsTrue, Sent
    <3>1. Promised = 0 /\ IFullSlotsCount \in Nat
      BY DEF Promised, RingInv, Inv
    <3> QED
      BY <3>1 DEF RingInv, Exact
  <2> QED
    BY <2>1, <2>2, <2>3, <2>4 DEF RingTrue
<1> QED
  BY InitRing, NextRing, <1>1, PTL DEF Spec

\* kl_vsprintf, given the room of the ring as its limit, puts a message that fits whole
\* and counts it true, and loses nothing of one that is cut for which there was room:
\* whatever the pieces of the message are.
THEOREM CutsRightHolds == Spec => []CutsRight
<1>1. Inv => CutsRight
  <2> SUFFICES ASSUME Inv PROVE CutsRight
    OBVIOUS
  <2>1. IFullSlotsCount \in Nat /\ Size \in Nat
    BY SizeAssumption DEF Inv
  <2>2. ASSUME NEW fmt \in Formats \cup FormatsC
        PROVE  /\ Fits(fmt) => /\ kl_vsprintf(MaxLength, fmt).put = LengthOf(fmt)
                               /\ kl_vsprintf(MaxLength, fmt).count = kl_vsprintf(MaxLength, fmt).put
               /\ kl_vsprintf(MaxLength, fmt).put >= Least(LengthOf(fmt), MaxLength)
    <3> DEFINE r == kl_vsprintf(MaxLength, fmt)
               l == LengthOf(fmt)
    <3>1. Good(r, l, MaxLength)
      BY <2>1, Answers
    <3>2. MaxLength \in Nat /\ (IFullSlotsCount <= Size => MaxLength = Size - IFullSlotsCount)
      <4>1. Word \in Nat
        BY WordAssumption
      <4> QED
        BY <2>1, <4>1, Room
    <3>3. Fits(fmt) <=> l <= Size - IFullSlotsCount
      BY DEF Fits
    <3> HIDE DEF r, l
    <3>4. ASSUME Fits(fmt) PROVE r.put = l /\ r.count = r.put
      BY <2>1, <3>1, <3>2, <3>3, <3>4 DEF Good
    <3>5. r.put >= Least(l, MaxLength)
      BY <3>1, <3>2 DEF Good, Least
    <3> QED
      BY <3>4, <3>5 DEF r, l
  <2> QED
    BY <2>2 DEF CutsRight, FitsWhole, CutsLate
<1> QED
  BY InitInv, NextInv, <1>1, PTL DEF Spec

-----------------------------------------------------------------------------
(* The receive side. The thread is always some bytes behind the stream; the  *)
(* invariant replays those bytes from where the thread is to where the       *)
(* sender is.                                                                *)

\* The slot n bytes after slot i, for n below Size.
Ahead(i, n) == IF i + n < RxSize THEN i + n ELSE i + n - RxSize

\* The n-th byte that has come and is not read.
Pending(n) == IRxBuf[Ahead(RIndx, n - 1)]

\* The stream writes recent bytes after the thread's place, the thread has seen
\* toDo of them.
RingKept ==
    /\ recent <= Burst /\ toDo <= recent
    /\ RxSize - NDTR = Ahead(RIndx, recent)
    /\ SzOld = Ahead(RIndx, toDo)

\* The thread reads what it has seen, and stands still while App has the command.
TurnsTaken ==
    /\ rxPc = "sleeps" => toDo = 0
    /\ rxPc = "reads" => toDo > 0
    /\ newCmd <=> rxPc = "suspended"
    /\ newCmd => Completed

\* After n of the pending bytes the line is part[n] and App has been owed ends[n]
\* lines of due: from the thread's place to what the sender has typed.
Replays(part, ends) ==
    /\ part \in [0 .. recent -> Seq(Chars)] /\ ends \in [0 .. recent -> Nat]
    /\ part[0] = Line /\ part[recent] = line
    /\ ends[0] = (IF newCmd THEN 1 ELSE 0) /\ ends[recent] = Len(due)
    /\ newCmd => Len(due) > 0 /\ due[1] = IString
    /\ \A n \in 1 .. recent :
         IF Pending(n) = "eol"
         THEN /\ part[n] = <<>>
              /\ IF part[n - 1] = <<>> THEN ends[n] = ends[n - 1]
                 ELSE /\ ends[n] = ends[n - 1] + 1 /\ ends[n] <= Len(due)
                      /\ due[ends[n]] = part[n - 1]
         ELSE part[n] = Edited(part[n - 1], Pending(n)) /\ ends[n] = ends[n - 1]
    /\ \A m, n \in 0 .. recent : m <= n => ends[m] <= ends[n]

LineInv ==
    /\ RxTypeOK /\ RingKept /\ TurnsTaken
    /\ \E part \in [0 .. recent -> Seq(Chars)], ends \in [0 .. recent -> Nat] :
           Replays(part, ends)

-----------------------------------------------------------------------------
\* Differences of two slots as the code reduces them.
LEMMA Reduced ==
    ASSUME NEW i \in RxSlots, NEW n \in RxSlots
    PROVE  Ahead(i, n) \in RxSlots /\ (Ahead(i, n) - i) % RxSize = n
<1>1. CASE i + n < RxSize
  <2>1. Ahead(i, n) - i = n /\ Ahead(i, n) \in RxSlots
    BY <1>1, RxSizeAssumption DEF Ahead, RxSlots
  <2>2. n % RxSize = n
    BY RxSizeAssumption DEF RxSlots
  <2> QED
    BY <2>1, <2>2
<1>2. CASE ~(i + n < RxSize)
  <2>1. Ahead(i, n) - i = n - RxSize /\ Ahead(i, n) \in RxSlots
    BY <1>2, RxSizeAssumption DEF Ahead, RxSlots
  <2>2. (n - RxSize) % RxSize = n
    BY RxSizeAssumption DEF RxSlots
  <2> QED
    BY <2>1, <2>2
<1> QED
  BY <1>1, <1>2

\* Slots one after the other, and none twice in less than a round.
LEMMA NextSlot ==
    ASSUME NEW i \in RxSlots
    PROVE  /\ Ahead(i, 0) = i /\ Ahead(i, 1) \in RxSlots
           /\ \A n \in 0 .. RxSize - 2 : Ahead(Ahead(i, 1), n) = Ahead(i, n + 1)
           /\ \A m, n \in RxSlots : Ahead(i, m) = Ahead(i, n) => m = n
BY RxSizeAssumption DEF Ahead, RxSlots

\* An edited line is a line (Cmd_t::PutChar, shell.h).
LEMMA EditedLine ==
    ASSUME NEW s \in Seq(Chars), NEW c \in Bytes
    PROVE  /\ Edited(s, c) \in Seq(Chars)
           /\ Len(s) < LineSize => Len(Edited(s, c)) < LineSize
           /\ c = "eol" => Edited(s, c) = s
<1>1. CASE c = "bs"
  <2>1. CASE s = <<>>
    BY <1>1, <2>1, CharsAssumption DEF Edited
  <2>2. CASE s # <<>>
    <3> DEFINE n == Len(s) - 1
               t == SubSeq(s, 1, n)
    <3>1. n \in Nat
      BY <2>2
    <3>2. \A i \in 1 .. n : s[i] \in Chars
      BY <3>1
    <3> HIDE DEF n
    <3>3. t \in Seq(Chars) /\ Len(t) = IF 1 <= n THEN n - 1 + 1 ELSE 0
      BY <3>1, <3>2, SubSeqProperties
    <3> HIDE DEF t
    <3>4. Len(t) = n
      BY <3>1, <3>3
    <3>5. Edited(s, c) = t /\ (Len(s) < LineSize => n < LineSize)
      BY <1>1, <2>2, CharsAssumption, LineAssumption DEF Edited, t, n
    <3> QED
      BY <1>1, <3>3, <3>4, <3>5, CharsAssumption
  <2> QED
    BY <2>1, <2>2
<1>2. CASE c \in Chars
  BY <1>2, CharsAssumption, LineAssumption DEF Edited
<1>3. CASE c = "eol"
  BY <1>3, CharsAssumption DEF Edited
<1> QED
  BY <1>1, <1>2, <1>3 DEF Bytes

LEMMA LineTyped == RxTypeOK => Line \in Seq(Chars) /\ Len(Line) < LineSize
BY LineAssumption DEF RxTypeOK, Line

-----------------------------------------------------------------------------
LEMMA LineInit == ASSUME Burst < RxSize PROVE RxInit => LineInv
<1> SUFFICES ASSUME RxInit PROVE LineInv
  OBVIOUS
<1> USE DEF RxInit
<1>1. RxTypeOK
  BY RxSizeAssumption, LineAssumption DEF RxTypeOK, RxSlots, Bytes
<1>2. RingKept
  BY RxSizeAssumption, BurstAssumption DEF RingKept, Ahead
<1>3. TurnsTaken
  BY DEF TurnsTaken
<1> DEFINE part == [n \in 0 .. 0 |-> <<>>]
           ends == [n \in 0 .. 0 |-> 0]
<1>4. Replays(part, ends)
  BY DEF Replays, Line
<1> QED
  BY <1>1, <1>2, <1>3, <1>4 DEF LineInv, Replays

\* A byte comes: it is the last of the pending ones.
LEMMA ReceiveStep == ASSUME Burst < RxSize, LineInv, Receive PROVE LineInv'
<1> USE RxSizeAssumption, BurstAssumption
<1>1. PICK c \in Bytes :
        /\ recent < Burst /\ recent' = recent + 1
        /\ IRxBuf' = [IRxBuf EXCEPT ![RxSize - NDTR] = c]
        /\ NDTR' = IF NDTR = 1 THEN RxSize ELSE NDTR - 1
        /\ line' = IF c = "eol" THEN <<>> ELSE Edited(line, c)
        /\ due' = IF c = "eol" /\ line # <<>> THEN Append(due, line) ELSE due
        /\ SzOld' = SzOld /\ RIndx' = RIndx /\ toDo' = toDo /\ rxPc' = rxPc
        /\ IString' = IString /\ Completed' = Completed /\ newCmd' = newCmd
  BY DEF Receive, readVars, cmdVars
<1>2. RxTypeOK /\ RingKept /\ TurnsTaken
  BY DEF LineInv
<1>3. PICK part \in [0 .. recent -> Seq(Chars)], ends \in [0 .. recent -> Nat] :
        Replays(part, ends)
  BY DEF LineInv
<1>4. /\ IRxBuf \in [RxSlots -> Bytes] /\ NDTR \in 1 .. RxSize /\ recent \in Nat
      /\ RIndx \in RxSlots /\ toDo \in RxSlots /\ line \in Seq(Chars) /\ due \in Seq(Seq(Chars))
  BY <1>2 DEF RxTypeOK
<1>5. Line' = Line
  BY <1>1 DEF Line
<1>6. line' \in Seq(Chars) /\ due' \in Seq(Seq(Chars))
  <2>1. Edited(line, c) \in Seq(Chars)
    BY <1>4, EditedLine
  <2> QED
    BY <1>1, <1>4, <2>1
<1>7. RxTypeOK'
  BY <1>1, <1>2, <1>4, <1>6 DEF RxTypeOK, RxSlots
<1>8. RingKept'
  BY <1>1, <1>2, <1>4 DEF RingKept, Ahead, RxSlots
<1>9. TurnsTaken'
  BY <1>1, <1>2 DEF TurnsTaken
<1>10. \A n \in 1 .. recent + 1 : Pending(n)' = IF n <= recent THEN Pending(n) ELSE c
  <2>1. RxSize - NDTR = Ahead(RIndx, recent) /\ recent \in RxSlots /\ Ahead(RIndx, recent) \in RxSlots
    BY <1>1, <1>2, <1>4, Reduced DEF RingKept, RxSlots
  <2>2. \A n \in 1 .. recent : Ahead(RIndx, n - 1) # Ahead(RIndx, recent)
    BY <1>4, <2>1, NextSlot DEF RxSlots
  <2> TAKE n \in 1 .. recent + 1
  <2>3. Pending(n)' = IRxBuf'[Ahead(RIndx, n - 1)]
    BY <1>1 DEF Pending, Ahead
  <2>4. CASE n <= recent
    <3>1. n \in 1 .. recent /\ n - 1 \in RxSlots
      BY <1>1, <1>4, <2>4 DEF RxSlots
    <3>2. Ahead(RIndx, n - 1) \in RxSlots
      BY <1>4, <3>1, Reduced
    <3> QED
      BY <1>1, <1>4, <2>1, <2>2, <2>3, <2>4, <3>1, <3>2 DEF Pending
  <2>5. CASE n = recent + 1
    BY <1>1, <1>4, <2>1, <2>3, <2>5
  <2> QED
    BY <1>4, <2>4, <2>5
<1>11. /\ Len(due') \in Nat /\ Len(due') >= Len(due)
       /\ \A i \in 1 .. Len(due) : due'[i] = due[i]
       /\ IF c = "eol" /\ line # <<>> THEN Len(due') = Len(due) + 1 /\ due'[Len(due')] = line
          ELSE due' = due
  BY <1>1, <1>4
<1>12. PICK p \in [0 .. recent + 1 -> Seq(Chars)], e \in [0 .. recent + 1 -> Nat] :
         /\ p[0] = part[0] /\ e[0] = ends[0]
         /\ p[recent + 1] = line' /\ e[recent + 1] = Len(due')
         /\ \A n \in 0 .. recent : p[n] = part[n] /\ e[n] = ends[n]
  <2> DEFINE P == [n \in 0 .. recent + 1 |-> IF n <= recent THEN part[n] ELSE line']
             E == [n \in 0 .. recent + 1 |-> IF n <= recent THEN ends[n] ELSE Len(due')]
  <2>1. /\ P \in [0 .. recent + 1 -> Seq(Chars)] /\ E \in [0 .. recent + 1 -> Nat]
        /\ P[0] = part[0] /\ E[0] = ends[0]
        /\ P[recent + 1] = line' /\ E[recent + 1] = Len(due')
        /\ \A n \in 0 .. recent : P[n] = part[n] /\ E[n] = ends[n]
    BY <1>3, <1>4, <1>6, <1>11
  <2> HIDE DEF P, E
  <2> QED
    BY <2>1
<1>13. /\ p[0] = Line' /\ e[0] = (IF newCmd' THEN 1 ELSE 0)
       /\ newCmd' => Len(due') > 0 /\ due'[1] = IString'
  BY <1>1, <1>3, <1>4, <1>5, <1>11, <1>12 DEF Replays
<1>14. \A n \in 1 .. recent + 1 :
         IF Pending(n)' = "eol"
         THEN /\ p[n] = <<>>
              /\ IF p[n - 1] = <<>> THEN e[n] = e[n - 1]
                 ELSE /\ e[n] = e[n - 1] + 1 /\ e[n] <= Len(due')
                      /\ due'[e[n]] = p[n - 1]
         ELSE p[n] = Edited(p[n - 1], Pending(n)') /\ e[n] = e[n - 1]
  <2> TAKE n \in 1 .. recent + 1
  <2>1. CASE n <= recent
    <3>1. n \in 1 .. recent /\ n - 1 \in 0 .. recent /\ n \in 0 .. recent
      BY <1>4, <2>1
    <3>2. p[n] = part[n] /\ p[n - 1] = part[n - 1] /\ e[n] = ends[n] /\ e[n - 1] = ends[n - 1]
      BY <1>12, <3>1
    <3>3. Pending(n)' = Pending(n)
      BY <1>10, <2>1, <3>1
    <3>4. ends[n] \in Nat /\ ends[n - 1] \in Nat /\ Len(due) \in Nat
      BY <1>4, <3>1
    <3> QED
      BY <1>3, <1>11, <3>1, <3>2, <3>3, <3>4 DEF Replays
  <2>2. CASE n = recent + 1
    <3>1. p[n] = line' /\ e[n] = Len(due') /\ p[n - 1] = line /\ e[n - 1] = Len(due)
      BY <1>3, <1>4, <1>12, <2>2 DEF Replays
    <3>2. Pending(n)' = c
      BY <1>4, <1>10, <2>2
    <3> QED
      BY <1>1, <1>11, <3>1, <3>2
  <2> QED
    BY <1>4, <2>1, <2>2
<1>15. \A m, n \in 0 .. recent + 1 : m <= n => e[m] <= e[n]
  <2> TAKE m, n \in 0 .. recent + 1
  <2> HAVE m <= n
  <2>1. \A k \in 0 .. recent : e[k] = ends[k] /\ ends[k] \in Nat /\ ends[k] <= Len(due)
    <3> TAKE k \in 0 .. recent
    <3>1. k <= recent /\ recent \in 0 .. recent
      BY <1>4
    <3> QED
      BY <1>3, <1>12, <3>1 DEF Replays
  <2>2. CASE n <= recent
    <3>1. m \in 0 .. recent /\ n \in 0 .. recent
      BY <1>4, <2>2
    <3>2. ends[m] <= ends[n]
      BY <1>3, <3>1 DEF Replays
    <3> QED
      BY <2>1, <3>1, <3>2
  <2>3. CASE n = recent + 1 /\ m <= recent
    <3>1. e[n] = Len(due') /\ e[m] <= Len(due) /\ e[m] \in Nat /\ Len(due) \in Nat
      BY <1>4, <1>12, <2>1, <2>3
    <3> QED
      BY <1>11, <3>1
  <2>4. CASE n = recent + 1 /\ m = recent + 1
    BY <1>11, <1>12, <2>4
  <2> QED
    BY <1>4, <2>2, <2>3, <2>4
<1>16. Replays(p, e)'
  BY <1>1, <1>12, <1>13, <1>14, <1>15 DEF Replays
<1> QED
  BY <1>1, <1>7, <1>8, <1>9, <1>12, <1>16 DEF LineInv

\* The thread looks: it sees all that is pending (IRxTask, uart.cpp).
LEMMA LookStep == ASSUME Burst < RxSize, LineInv, Look PROVE LineInv'
<1> USE RxSizeAssumption, BurstAssumption
<1>1. RxTypeOK /\ RingKept /\ TurnsTaken /\ toDo = 0
  BY DEF LineInv, Look, TurnsTaken
<1>2. SzOld = RIndx /\ recent \in RxSlots /\ RIndx \in RxSlots
  BY <1>1, NextSlot DEF RingKept, RxTypeOK, RxSlots
<1>3. (RxSize - NDTR - SzOld) % RxSize = recent /\ RxSize - NDTR \in RxSlots
  BY <1>1, <1>2, Reduced DEF RingKept
<1>4. (RxSize - NDTR) # SzOld <=> recent > 0
  <2>1. Ahead(RIndx, recent) = Ahead(RIndx, 0) <=> recent = 0
    BY <1>2, NextSlot DEF RxSlots
  <2> QED
    BY <1>1, <1>2, <2>1, NextSlot DEF RingKept, RxSlots
<1>5. toDo' = recent /\ SzOld' = RxSize - NDTR /\ rxPc' = (IF recent > 0 THEN "reads" ELSE "sleeps")
  BY <1>3, <1>4 DEF Look
<1>6. UNCHANGED <<IRxBuf, NDTR, RIndx, IString, Completed, newCmd, recent, line, due>>
  BY DEF Look, streamVars, cmdVars
<1>7. RxTypeOK'
  BY <1>1, <1>2, <1>3, <1>5, <1>6 DEF RxTypeOK
<1>8. RingKept'
  BY <1>1, <1>2, <1>5, <1>6 DEF RingKept, Ahead, RxSlots
<1>9. TurnsTaken'
  BY <1>1, <1>2, <1>5, <1>6 DEF TurnsTaken, Look, RxSlots
<1>10. PICK part \in [0 .. recent -> Seq(Chars)], ends \in [0 .. recent -> Nat] :
         Replays(part, ends)
  BY DEF LineInv
<1>11. Replays(part, ends)'
  BY <1>6, <1>10 DEF Replays, Pending, Line, Ahead
<1> QED
  BY <1>6, <1>7, <1>8, <1>9, <1>11 DEF LineInv

\* The thread reads: the first of the pending bytes is done.
LEMMA ReadStep == ASSUME Burst < RxSize, LineInv, ReadByte PROVE LineInv'
<1> USE RxSizeAssumption, BurstAssumption
<1> DEFINE c == Pending(1)
<1>1. RxTypeOK /\ RingKept /\ TurnsTaken
  BY DEF LineInv
<1>2. /\ RIndx \in RxSlots /\ toDo \in 1 .. RxSize - 1 /\ recent \in 1 .. RxSize - 1 /\ ~newCmd
      /\ line \in Seq(Chars) /\ due \in Seq(Seq(Chars)) /\ IRxBuf \in [RxSlots -> Bytes]
  BY <1>1 DEF RxTypeOK, RingKept, TurnsTaken, ReadByte, RxSlots
<1>3. IRxBuf[RIndx] = c /\ c \in Bytes
  BY <1>2, NextSlot DEF Pending
<1>4. /\ IString' = Edited(Line, c) /\ Completed' = EndsCmd(c)
      /\ RIndx' = Ahead(RIndx, 1) /\ toDo' = toDo - 1 /\ recent' = recent - 1
      /\ rxPc' = CASE EndsCmd(c) -> "suspended"
                 [] ~EndsCmd(c) /\ toDo = 1 -> "sleeps"
                 [] OTHER -> "reads"
      /\ newCmd' = (newCmd \/ EndsCmd(c))
      /\ UNCHANGED <<IRxBuf, NDTR, SzOld, line, due>>
  BY <1>2, <1>3 DEF ReadByte, PutChar, streamVars, Ahead, RxSlots
<1> HIDE DEF c
<1>5. EndsCmd(c) \in BOOLEAN /\ (newCmd' <=> EndsCmd(c))
  BY <1>2, <1>4 DEF EndsCmd
<1>6. Line \in Seq(Chars) /\ Len(Line) < LineSize
  BY <1>1, LineTyped
<1>7. Edited(Line, c) \in Seq(Chars) /\ Len(Edited(Line, c)) < LineSize
      /\ (c = "eol" => Edited(Line, c) = Line)
  BY <1>3, <1>6, EditedLine
<1>8. RxTypeOK'
  <2>1. RIndx' \in RxSlots /\ toDo' \in RxSlots /\ recent' \in 0 .. RxSize
    BY <1>2, <1>4, NextSlot DEF RxSlots
  <2>2. newCmd' \in BOOLEAN /\ Completed' \in BOOLEAN
    BY <1>4, <1>5, Zenon
  <2>3. rxPc' \in {"sleeps", "reads", "suspended"}
    BY <1>4
  <2> QED
    BY <1>1, <1>4, <1>7, <2>1, <2>2, <2>3 DEF RxTypeOK
<1>9. RingKept'
  BY <1>1, <1>2, <1>4 DEF RingKept, Ahead, RxSlots
<1>10. TurnsTaken'
  BY <1>2, <1>4, <1>5 DEF TurnsTaken
<1>11. Line' = IF c = "eol" THEN <<>> ELSE Edited(Line, c)
  BY <1>4, <1>7 DEF Line, EndsCmd
<1>12. PICK part \in [0 .. recent -> Seq(Chars)], ends \in [0 .. recent -> Nat] :
         Replays(part, ends)
  BY DEF LineInv
<1>13. PICK p \in [0 .. recent - 1 -> Seq(Chars)], e \in [0 .. recent - 1 -> Nat] :
         \A n \in 0 .. recent - 1 : p[n] = part[n + 1] /\ e[n] = ends[n + 1]
  <2> DEFINE P == [n \in 0 .. recent - 1 |-> part[n + 1]]
             E == [n \in 0 .. recent - 1 |-> ends[n + 1]]
  <2>1. /\ P \in [0 .. recent - 1 -> Seq(Chars)] /\ E \in [0 .. recent - 1 -> Nat]
        /\ \A n \in 0 .. recent - 1 : P[n] = part[n + 1] /\ E[n] = ends[n + 1]
    BY <1>2, <1>12
  <2> HIDE DEF P, E
  <2> QED
    BY <2>1
<1>14. \A n \in 1 .. recent - 1 : Pending(n)' = Pending(n + 1)
  <2> TAKE n \in 1 .. recent - 1
  <2>1. Ahead(Ahead(RIndx, 1), n - 1) = Ahead(RIndx, n)
    BY <1>2, NextSlot DEF RxSlots
  <2> QED
    BY <1>2, <1>4, <2>1 DEF Pending, Ahead
<1>15. /\ part[0] = Line /\ ends[0] = 0 /\ 1 \in 1 .. recent
       /\ IF c = "eol"
          THEN /\ part[1] = <<>>
               /\ IF Line = <<>> THEN ends[1] = 0
                  ELSE ends[1] = 1 /\ 1 <= Len(due) /\ due[1] = Line
          ELSE part[1] = Edited(Line, c) /\ ends[1] = 0
  <2>1. part[0] = Line /\ ends[0] = 0 /\ 1 \in 1 .. recent /\ 1 - 1 = 0
    BY <1>2, <1>12 DEF Replays
  <2>2. IF Pending(1) = "eol"
        THEN /\ part[1] = <<>>
             /\ IF part[0] = <<>> THEN ends[1] = ends[0]
                ELSE ends[1] = ends[0] + 1 /\ ends[1] <= Len(due) /\ due[ends[1]] = part[0]
        ELSE part[1] = Edited(part[0], Pending(1)) /\ ends[1] = ends[0]
    BY <1>12, <2>1 DEF Replays
  <2> QED
    BY <2>1, <2>2 DEF c
<1>16. /\ p[0] = Line' /\ e[0] = (IF newCmd' THEN 1 ELSE 0)
       /\ newCmd' => Len(due) > 0 /\ due[1] = IString'
       /\ p[recent - 1] = line /\ e[recent - 1] = Len(due)
  <2>1. p[0] = part[1] /\ e[0] = ends[1]
    BY <1>2, <1>13
  <2>2. p[recent - 1] = part[recent] /\ e[recent - 1] = ends[recent]
    BY <1>2, <1>13
  <2>3. p[recent - 1] = line /\ e[recent - 1] = Len(due)
    BY <1>12, <2>2 DEF Replays
  <2>4. CASE EndsCmd(c)
    BY <1>2, <1>4, <1>5, <1>7, <1>11, <1>15, <2>1, <2>3, <2>4 DEF EndsCmd
  <2>5. CASE ~EndsCmd(c)
    BY <1>4, <1>5, <1>11, <1>15, <2>1, <2>3, <2>5 DEF EndsCmd
  <2> QED
    BY <1>5, <2>4, <2>5
<1>17. \A n \in 1 .. recent - 1 :
         IF Pending(n)' = "eol"
         THEN /\ p[n] = <<>>
              /\ IF p[n - 1] = <<>> THEN e[n] = e[n - 1]
                 ELSE /\ e[n] = e[n - 1] + 1 /\ e[n] <= Len(due)
                      /\ due[e[n]] = p[n - 1]
         ELSE p[n] = Edited(p[n - 1], Pending(n)') /\ e[n] = e[n - 1]
  <2> TAKE n \in 1 .. recent - 1
  <2>1. n + 1 \in 1 .. recent /\ n \in 0 .. recent - 1 /\ n - 1 \in 0 .. recent - 1
        /\ (n + 1) - 1 = n /\ (n - 1) + 1 = n
    BY <1>2
  <2>2. p[n] = part[n + 1] /\ p[n - 1] = part[n] /\ e[n] = ends[n + 1] /\ e[n - 1] = ends[n]
    BY <1>13, <2>1
  <2>3. Pending(n)' = Pending(n + 1)
    BY <1>14
  <2>4. IF Pending(n + 1) = "eol"
        THEN /\ part[n + 1] = <<>>
             /\ IF part[n] = <<>> THEN ends[n + 1] = ends[n]
                ELSE /\ ends[n + 1] = ends[n] + 1 /\ ends[n + 1] <= Len(due)
                     /\ due[ends[n + 1]] = part[n]
        ELSE part[n + 1] = Edited(part[n], Pending(n + 1)) /\ ends[n + 1] = ends[n]
    BY <1>12, <2>1 DEF Replays
  <2> QED
    BY <2>2, <2>3, <2>4
<1>18. \A m, n \in 0 .. recent - 1 : m <= n => e[m] <= e[n]
  <2> TAKE m, n \in 0 .. recent - 1
  <2>1. m + 1 \in 0 .. recent /\ n + 1 \in 0 .. recent /\ (m <= n => m + 1 <= n + 1)
    BY <1>2
  <2> QED
    BY <1>12, <1>13, <2>1 DEF Replays
<1>19. Replays(p, e)'
  BY <1>4, <1>13, <1>16, <1>17, <1>18 DEF Replays
<1> QED
  BY <1>4, <1>8, <1>9, <1>10, <1>13, <1>19 DEF LineInv

\* App is done with the command: the line is due no more.
LEMMA OnCmdStep == ASSUME Burst < RxSize, LineInv, OnCmd PROVE LineInv'
<1> USE RxSizeAssumption, BurstAssumption
<1>1. RxTypeOK /\ RingKept /\ TurnsTaken /\ newCmd /\ newCmd' = FALSE
  BY DEF LineInv, OnCmd
<1>2. PICK part \in [0 .. recent -> Seq(Chars)], ends \in [0 .. recent -> Nat] :
         Replays(part, ends)
  BY DEF LineInv
<1>3. /\ due \in Seq(Seq(Chars)) /\ due # <<>> /\ due' = Tail(due) /\ recent \in Nat
      /\ UNCHANGED <<IRxBuf, NDTR, SzOld, RIndx, toDo, IString, Completed, recent, line>>
  BY <1>1, <1>2 DEF RxTypeOK, Replays, OnCmd, streamVars, readVars, cmdVars
<1>4. /\ due' \in Seq(Seq(Chars)) /\ Len(due') = Len(due) - 1 /\ Len(due) \in Nat
      /\ \A i \in 1 .. Len(due) - 1 : due'[i] = due[i + 1]
  BY <1>3
<1>5. rxPc' = IF toDo > 0 THEN "reads" ELSE "sleeps"
  BY <1>1 DEF OnCmd, TurnsTaken, RxTypeOK, RxSlots
<1>6. RxTypeOK'
  BY <1>1, <1>3, <1>4, <1>5 DEF RxTypeOK
<1>7. RingKept'
  BY <1>1, <1>3 DEF RingKept, Ahead
<1>8. TurnsTaken'
  BY <1>1, <1>3, <1>5 DEF TurnsTaken, RxTypeOK, RxSlots
<1>9. \A n \in 0 .. recent : ends[n] \in Nat /\ 1 <= ends[n] /\ ends[n] <= Len(due)
  <2> TAKE n \in 0 .. recent
  <2>1. 0 \in 0 .. recent /\ recent \in 0 .. recent /\ 0 <= n /\ n <= recent
    BY <1>3
  <2>2. ends[0] <= ends[n] /\ ends[n] <= ends[recent]
    BY <1>2, <2>1 DEF Replays
  <2> QED
    BY <1>1, <1>2, <2>2 DEF Replays
<1>10. PICK e \in [0 .. recent -> Nat] : \A n \in 0 .. recent : e[n] = ends[n] - 1
  <2> DEFINE E == [n \in 0 .. recent |-> ends[n] - 1]
  <2>1. E \in [0 .. recent -> Nat] /\ \A n \in 0 .. recent : E[n] = ends[n] - 1
    BY <1>9
  <2> HIDE DEF E
  <2> QED
    BY <2>1
<1>11. Line' = Line
  BY <1>3 DEF Line
<1>12. \A n : Pending(n)' = Pending(n)
  BY <1>3 DEF Pending, Ahead
<1>13. \A n \in 1 .. recent :
         IF Pending(n)' = "eol"
         THEN /\ part[n] = <<>>
              /\ IF part[n - 1] = <<>> THEN e[n] = e[n - 1]
                 ELSE /\ e[n] = e[n - 1] + 1 /\ e[n] <= Len(due')
                      /\ due'[e[n]] = part[n - 1]
         ELSE part[n] = Edited(part[n - 1], Pending(n)') /\ e[n] = e[n - 1]
  <2> TAKE n \in 1 .. recent
  <2>1. n \in 0 .. recent /\ n - 1 \in 0 .. recent
    BY <1>3
  <2>2. e[n] = ends[n] - 1 /\ e[n - 1] = ends[n - 1] - 1
    BY <1>10, <2>1
  <2>3. /\ ends[n] \in Nat /\ 1 <= ends[n] /\ ends[n - 1] \in Nat /\ 1 <= ends[n - 1]
        /\ ends[n] <= Len(due)
    BY <1>9, <2>1
  <2>4. IF Pending(n) = "eol"
        THEN /\ part[n] = <<>>
             /\ IF part[n - 1] = <<>> THEN ends[n] = ends[n - 1]
                ELSE /\ ends[n] = ends[n - 1] + 1 /\ ends[n] <= Len(due)
                     /\ due[ends[n]] = part[n - 1]
        ELSE part[n] = Edited(part[n - 1], Pending(n)) /\ ends[n] = ends[n - 1]
    BY <1>2 DEF Replays
  <2>5. e[n - 1] + 1 = e[n] => due'[e[n]] = due[ends[n]] /\ e[n] <= Len(due')
    <3> HAVE e[n - 1] + 1 = e[n]
    <3>1. ends[n] - 1 \in 1 .. Len(due) - 1 /\ (ends[n] - 1) + 1 = ends[n]
      BY <1>4, <2>2, <2>3
    <3> QED
      BY <1>4, <2>2, <3>1
  <2>6. Pending(n)' = Pending(n)
    BY <1>12
  <2> QED
    BY <2>2, <2>3, <2>4, <2>5, <2>6
<1>14. \A m, n \in 0 .. recent : m <= n => e[m] <= e[n]
  BY <1>2, <1>9, <1>10 DEF Replays
<1>15. e[0] = 0 /\ e[recent] = Len(due')
  <2>1. 0 \in 0 .. recent /\ recent \in 0 .. recent
    BY <1>3
  <2> QED
    BY <1>1, <1>2, <1>4, <1>10, <2>1 DEF Replays
<1>16. Replays(part, e)'
  BY <1>1, <1>2, <1>3, <1>10, <1>11, <1>13, <1>14, <1>15 DEF Replays
<1> QED
  BY <1>3, <1>6, <1>7, <1>8, <1>10, <1>16 DEF LineInv

LEMMA LineStep == ASSUME Burst < RxSize PROVE LineInv /\ [RxNext]_rxVars => LineInv'
<1> SUFFICES ASSUME LineInv, [RxNext]_rxVars PROVE LineInv'
  OBVIOUS
<1>1. CASE Receive
  BY <1>1, ReceiveStep
<1>2. CASE Look
  BY <1>2, LookStep
<1>3. CASE ReadByte
  BY <1>3, ReadStep
<1>4. CASE OnCmd
  BY <1>4, OnCmdStep
<1>5. CASE UNCHANGED rxVars
  <2>1. PICK part \in [0 .. recent -> Seq(Chars)], ends \in [0 .. recent -> Nat] :
          Replays(part, ends)
    BY DEF LineInv
  <2>2. UNCHANGED <<streamVars, readVars, rxPc, cmdVars, newCmd, recent, line, due>>
    BY <1>5 DEF rxVars
  <2>3. Replays(part, ends)'
    BY <2>1, <2>2 DEF streamVars, readVars, cmdVars, Replays, Pending, Line, Ahead
  <2>4. RxTypeOK' /\ RingKept' /\ TurnsTaken'
    BY <2>2 DEF streamVars, readVars, cmdVars, LineInv, RxTypeOK, RingKept, TurnsTaken, Ahead
  <2> QED
    BY <2>2, <2>3, <2>4 DEF LineInv
<1> QED
  BY <1>1, <1>2, <1>3, <1>4, <1>5 DEF RxNext

\* What App handles is the oldest line that was typed and not yet handled, and a
\* sleeping thread has overlooked nothing: for every ring, and bursts that are
\* shorter than it.
THEOREM LineTrueHolds == ASSUME Burst < RxSize PROVE RxSpec => []LineTrue
<1>1. LineInv => LineTrue
  <2> SUFFICES ASSUME LineInv PROVE LineTrue
    OBVIOUS
  <2>1. RxTypeOK /\ RingKept /\ TurnsTaken
    BY DEF LineInv
  <2>2. CommandAsTyped
    <3> SUFFICES ASSUME newCmd PROVE due # <<>> /\ IString = Head(due)
      BY DEF CommandAsTyped
    <3> QED
      BY <2>1 DEF LineInv, Replays, RxTypeOK
  <2>3. NothingOverlooked
    <3> SUFFICES ASSUME rxPc = "sleeps" PROVE (RxSize - NDTR - SzOld) % RxSize = recent
      BY DEF NothingOverlooked
    <3>1. toDo = 0 /\ RIndx \in RxSlots /\ recent \in RxSlots
      BY <2>1, RxSizeAssumption, BurstAssumption DEF RingKept, TurnsTaken, RxTypeOK, RxSlots
    <3>2. SzOld = RIndx
      BY <2>1, <3>1, NextSlot DEF RingKept
    <3> QED
      BY <2>1, <3>1, <3>2, Reduced DEF RingKept
  <2> QED
    BY <2>1, <2>2, <2>3 DEF LineTrue
<1>2. RxInit => LineInv
  BY LineInit
<1>3. LineInv /\ [RxNext]_rxVars => LineInv'
  BY LineStep
<1> QED
  BY <1>1, <1>2, <1>3, PTL DEF RxSpec
=============================================================================
