--------------------------- MODULE KE11Arithmetic ---------------------------
(***************************************************************************)
(* The KE11 extended arithmetic element: a write to one of its registers    *)
(* executes an operation on AC and MQ, in the adapter's thread.  Words have *)
(* KEBits bits (16 in the code), the pair AC, MQ has twice as many.  SR is  *)
(* N, N exclusive-or V, and C; its other bits only repeat what AC and MQ    *)
(* are.  Left out: writes of single bytes, and the register NOR on reads.   *)
(***************************************************************************)
EXTENDS Integers

CONSTANT KEBits

ASSUME KEAssumption == KEBits \in Nat /\ KEBits > 1

VARIABLE ke   \* ke11_c: _ac, _mq, _sc, _sr (n, nxv, c)

KEWords == 0 .. 2 ^ KEBits - 1
KECounts == 0 .. 4 * KEBits - 1   \* the low bits of a shift count

-----------------------------------------------------------------------------
\* get_sign_word(), the sign extension of a word, and the value of AC, MQ.
get_sign_word(w) == w >= 2 ^ (KEBits - 1)

KESigned(w) == IF get_sign_word(w) THEN w - 2 ^ KEBits ELSE w

t32(ac, mq) == KESigned(ac) * 2 ^ KEBits + mq

KEAbs(x) == IF x < 0 THEN -x ELSE x

\* C's division: toward zero.
KEQuotient(a, b) == (IF (a < 0) = (b < 0) THEN 1 ELSE -1) * (KEAbs(a) \div KEAbs(b))

\* Results go to AC and MQ; a negative word w sets N and complements N xor V.
KEResult(double) == [ac |-> (double \div 2 ^ KEBits) % 2 ^ KEBits, mq |-> double % 2 ^ KEBits]

KEDone(r, sc, nxv, c, w) ==
  ke' = [ac |-> r.ac, mq |-> r.mq, sc |-> sc, n |-> get_sign_word(w),
         nxv |-> nxv # get_sign_word(w), c |-> c]

\* DIV: a quotient that is far too large stops after the first step of the division.
DIV(w) ==
  LET dividend == t32(ke.ac, ke.mq)
      div == KESigned(w)
      same == get_sign_word(ke.ac) = get_sign_word(w)
      shifted == 2 * ke.ac + ke.mq \div 2 ^ (KEBits - 1)
      first == [ac |-> (IF same THEN shifted - div ELSE shifted + div) % 2 ^ KEBits,
                mq |-> (2 * ke.mq + (IF same THEN 1 ELSE 0)) % 2 ^ KEBits]
      quo == KEQuotient(dividend, div)
      r == [ac |-> (dividend - quo * div) % 2 ^ KEBits, mq |-> quo % 2 ^ KEBits]
  IN  IF KEAbs(dividend) \div 2 ^ KEBits >= KEAbs(div)
      THEN KEDone(first, KEBits - 1, TRUE, get_sign_word(first.ac) = get_sign_word(w), first.mq)
      ELSE KEDone(r, 0, quo \notin -(2 ^ (KEBits - 1)) .. 2 ^ (KEBits - 1) - 1, FALSE, r.mq)

\* The registers AC and MQ; MQ is sign extended into AC.
KE_AC(w) == ke' = [ke EXCEPT !.ac = w]

KE_MQ(w) == ke' = [ke EXCEPT !.mq = w, !.ac = IF get_sign_word(w) THEN 2 ^ KEBits - 1 ELSE 0]

MUL(w) ==
  LET r == KEResult(KESigned(ke.mq) * KESigned(w))
  IN  KEDone(r, 0, FALSE, FALSE, r.ac)

SCSR(sc, n, nxv, c) == ke' = [ke EXCEPT !.sc = sc, !.n = n, !.nxv = nxv, !.c = c]

\* NOR: shifts left until the two upper bits of AC differ, at most the width less one.
\* The pair -2^(2 * KEBits - 2) is left alone.
Normalized(double) ==
  \/ double = -(2 ^ (2 * KEBits - 2))
  \/ double \notin -(2 ^ (2 * KEBits - 2)) .. 2 ^ (2 * KEBits - 2) - 1

NOR ==
  LET double == t32(ke.ac, ke.mq)
      sc == CHOOSE n \in 0 .. 2 * KEBits - 1 :
              /\ n = 2 * KEBits - 1 \/ Normalized(double * 2 ^ n)
              /\ \A m \in 0 .. n - 1 : ~Normalized(double * 2 ^ m)
      r == KEResult(double * 2 ^ sc)
  IN  KEDone(r, sc, FALSE, FALSE, r.ac)

\* LSH: left by 1 .. 2 * KEBits - 1, or right by 4 * KEBits less the count, with zeros.
\* sout are the bits that get lost on the left, sign extended.
LSH(count) ==
  LET double == t32(ke.ac, ke.mq)
      left == count < 2 * KEBits
      sout == double \div 2 ^ (2 * KEBits - count)
      unsigned == double % 2 ^ (2 * KEBits)
      right == 4 * KEBits - count
      shifted == IF left THEN double * 2 ^ count ELSE unsigned \div 2 ^ right
      r == IF count = 0 THEN [ac |-> ke.ac, mq |-> ke.mq] ELSE KEResult(shifted)
      v == count # 0 /\ left /\ sout # (IF get_sign_word(r.ac) THEN -1 ELSE 0)
      c == /\ count # 0
           /\ IF left THEN sout % 2 = 1 ELSE (double \div 2 ^ (right - 1)) % 2 = 1
  IN  KEDone(r, 0, v, c, r.ac)

\* Mutant: the overflow of a left shift looks at the last bit only.
ASH_last_bit(count) ==
  LET double == t32(ke.ac, ke.mq)
      left == count < 2 * KEBits
      sout == double \div 2 ^ (2 * KEBits - 1 - count)
      low == (double * 2 ^ count) % 2 ^ (2 * KEBits - 1)
      right == 4 * KEBits - count
      shifted == IF left THEN (IF double < 0 THEN low - 2 ^ (2 * KEBits - 1) ELSE low)
                 ELSE double \div 2 ^ right
      r == IF count = 0 THEN [ac |-> ke.ac, mq |-> ke.mq] ELSE KEResult(shifted)
      v == count # 0 /\ left /\ sout % 2 # (IF get_sign_word(r.ac) THEN 1 ELSE 0)
  IN  KEDone(r, 0, v, FALSE, r.ac)

\* ASH: the sign stays, the other bits are shifted; right with copies of the sign.
ASH(count) ==
  LET double == t32(ke.ac, ke.mq)
      left == count < 2 * KEBits
      sout == double \div 2 ^ (2 * KEBits - 1 - count)
      low == (double * 2 ^ count) % 2 ^ (2 * KEBits - 1)
      right == 4 * KEBits - count
      shifted == IF left THEN (IF double < 0 THEN low - 2 ^ (2 * KEBits - 1) ELSE low)
                 ELSE double \div 2 ^ right
      r == IF count = 0 THEN [ac |-> ke.ac, mq |-> ke.mq] ELSE KEResult(shifted)
      v == count # 0 /\ left /\ sout # (IF get_sign_word(r.ac) THEN -1 ELSE 0)
      c == /\ count # 0
           /\ IF left THEN sout % 2 = 1 ELSE (double \div 2 ^ (right - 1)) % 2 = 1
  IN  KEDone(r, 0, v, c, r.ac)

\* INIT and power on: reset_controller().
KEReset == ke' = [ac |-> 0, mq |-> 0, sc |-> 0, n |-> FALSE, nxv |-> FALSE, c |-> FALSE]

-----------------------------------------------------------------------------
KEInit == ke = [ac |-> 0, mq |-> 0, sc |-> 0, n |-> FALSE, nxv |-> FALSE, c |-> FALSE]

KENext ==
  \/ \E w \in KEWords : DIV(w) \/ KE_AC(w) \/ KE_MQ(w) \/ MUL(w)
  \/ \E count \in KECounts : LSH(count) \/ ASH(count)
  \/ \E sc \in {0, 4 * KEBits} : \E flags \in BOOLEAN : SCSR(sc, flags, flags, flags)
  \/ NOR
  \/ KEReset

KESpec == KEInit /\ [][KENext]_ke

-----------------------------------------------------------------------------
\* What the operations must compute, in integers: V is N xor NXV.
KEV(k) == k.n # k.nxv

\* DIV: without V, the dividend is quotient times divisor plus a remainder of its own
\* sign; V is set exactly if no word is the quotient.
KEDivides ==
  [][ke' # ke => \A w \in KEWords : DIV(w) =>
       LET a == t32(ke.ac, ke.mq)
           b == KESigned(w)
           q == KESigned(ke'.mq)
           rem == KESigned(ke'.ac)
           fits(x, y) == KEAbs(x - y * b) < KEAbs(b) /\ (x = y * b \/ (x < y * b) = (x < 0))
       IN  /\ ~KEV(ke') => a = q * b + rem /\ fits(a, q)
           /\ KEV(ke') => \A y \in KEWords : ~fits(a, KESigned(y))]_ke

\* MUL is the product, NOR keeps the number: AC and MQ are it times 2 to the power SC, and
\* no further shift is possible.
KEProducts ==
  [][ke' # ke =>
     /\ \A w \in KEWords : MUL(w) =>
          t32(ke'.ac, ke'.mq) = KESigned(ke.mq) * KESigned(w) /\ ~KEV(ke')
     /\ NOR => /\ t32(ke'.ac, ke'.mq) = t32(ke.ac, ke.mq) * 2 ^ ke'.sc
               /\ \/ t32(ke.ac, ke.mq) = 0
                  \/ Normalized(t32(ke'.ac, ke'.mq))]_ke

\* ASH multiplies by a power of two as long as V is clear and sets V exactly if the
\* product does not fit; to the right it divides, rounding down.
KEShifts ==
  [][ke' # ke => \A count \in KECounts : ASH(count) =>
       LET a == t32(ke.ac, ke.mq)
           b == t32(ke'.ac, ke'.mq)
       IN  IF count < 2 * KEBits
           THEN KEV(ke') <=> b # a * 2 ^ count
           ELSE /\ ~KEV(ke')
                /\ b * 2 ^ (4 * KEBits - count) <= a /\ a < (b + 1) * 2 ^ (4 * KEBits - count)]_ke
=============================================================================
