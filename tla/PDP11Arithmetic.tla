--------------------------- MODULE PDP11Arithmetic ---------------------------
(***************************************************************************)
(* What the instructions of the two CPU cores compute: the operand and      *)
(* condition codes part of step() in ka11.c, and of step() in kd11ea.c,      *)
(* which has the same code for these instructions and adds the EIS: MUL,     *)
(* DIV, ASH, ASHC, XOR and SOB.  A word has WordBits bits (16 in the code)   *)
(* and a byte half of them; shift counts have the sign bit and value bits    *)
(* for twice a word.  Bytes come from fetchop() sign extended.               *)
(***************************************************************************)
EXTENDS Integers, Bitwise

CONSTANT WordBits

ASSUME WordBitsAssumption == WordBits \in Nat /\ WordBits > 2 /\ WordBits % 2 = 0

VARIABLE alu   \* the last instruction: op, by, its operands, and what step() made of them

-----------------------------------------------------------------------------
WordRange == 2 ^ WordBits
Words == 0 .. WordRange - 1
SignBit == 2 ^ (WordBits - 1)
ByteRange == 2 ^ (WordBits \div 2)
ByteSign == ByteRange \div 2
W(x) == x % WordRange

complement(w) == WordRange - 1 - w

sgn(w) == w >= SignBit

sxt(b) == IF b % ByteRange >= ByteSign THEN WordRange - ByteRange + (b % ByteRange) ELSE b % ByteRange

\* BXT: the result of a byte instruction is sign extended.
BXT(by, b) == IF by THEN sxt(b) ELSE W(b)

bit(flag) == IF flag THEN 1 ELSE 0

\* setnz(), with the V and C that the instruction has found.
setnz(b, v, c) == [b |-> b, n |-> sgn(b), z |-> b = 0, v |-> v, c |-> c]

-----------------------------------------------------------------------------
(* Double operand instructions: f are the condition codes before.           *)
MOV(by, SR, DR, f) == setnz(SR, FALSE, f.c)

CMP(by, SR, DR, f) ==
  LET sum == SR + complement(DR) + 1
      b == BXT(by, sum)
  IN  setnz(b, sgn(SR ^^ DR) /\ ~sgn(DR ^^ b), sum < WordRange)

BIT(by, SR, DR, f) == setnz(DR & SR, FALSE, f.c)

BIC(by, SR, DR, f) == setnz(DR & complement(SR), FALSE, f.c)

BIS(by, SR, DR, f) == setnz(DR | SR, FALSE, f.c)

ADD(by, SR, DR, f) ==
  LET b == W(SR + DR)
  IN  setnz(b, ~sgn(SR ^^ DR) /\ sgn(DR ^^ b), SR + DR >= WordRange)

SUB(by, SR, DR, f) ==
  LET sum == DR + complement(SR) + 1
  IN  setnz(W(sum), sgn(SR ^^ DR) /\ sgn(DR ^^ W(sum)), sum < WordRange)

(* Single operand instructions: the operand is in SR and DR.                *)
COM(by, SR, DR, f) == setnz(complement(SR), FALSE, TRUE)

INC(by, SR, DR, f) ==
  LET b == BXT(by, SR + 1)
  IN  setnz(b, ~sgn(SR) /\ sgn(b), f.c)

DEC(by, SR, DR, f) ==
  LET b == BXT(by, SR + WordRange - 1)
  IN  setnz(b, sgn(SR) /\ ~sgn(b), f.c)

NEG(by, SR, DR, f) ==
  LET b == BXT(by, complement(SR) + 1)
  IN  setnz(b, sgn(b) /\ sgn(SR), b # 0)

ADC(by, SR, DR, f) ==
  LET b == BXT(by, SR + bit(f.c))
  IN  setnz(b, ~sgn(SR) /\ sgn(b), SR + bit(f.c) >= WordRange)

SBC(by, SR, DR, f) ==
  LET b == BXT(by, SR + WordRange - bit(f.c))
  IN  setnz(b, sgn(SR) /\ ~sgn(b), f.c /\ SR = 0)

TST(by, SR, DR, f) == setnz(SR, FALSE, FALSE)

\* The shifts by one set V to the exclusive-or of N and C.
shifted(b, c) == setnz(b, sgn(b) # c, c)

ROR(by, SR, DR, f) ==
  LET half == (IF by THEN SR % ByteRange ELSE SR) \div 2
      sign == IF by THEN ByteSign ELSE SignBit
  IN  shifted(BXT(by, half + sign * bit(f.c)), SR % 2 = 1)

ROL(by, SR, DR, f) == shifted(BXT(by, 2 * SR + bit(f.c)), sgn(SR))

ASR(by, SR, DR, f) == shifted(BXT(by, SR \div 2 + (IF sgn(SR) THEN SignBit ELSE 0)), SR % 2 = 1)

ASL(by, SR, DR, f) == shifted(BXT(by, 2 * SR), sgn(SR))

\* SWAB: N and Z of the low byte; the KA11 keeps V if it is so configured.
SWAB(by, SR, DR, f) ==
  LET b == (DR % ByteRange) * ByteRange + DR \div ByteRange
  IN  [b |-> b, n |-> b % ByteRange >= ByteSign, z |-> b % ByteRange = 0, v |-> FALSE, c |-> FALSE]

Single == {"COM", "INC", "DEC", "NEG", "ADC", "SBC", "TST", "ROR", "ROL", "ASR", "ASL", "SWAB"}
Double == {"MOV", "CMP", "BIT", "BIC", "BIS", "ADD", "SUB"}
WordOnly == {"ADD", "SUB", "SWAB"}

Compute(op, by, SR, DR, f) ==
  CASE op = "MOV" -> MOV(by, SR, DR, f) [] op = "CMP" -> CMP(by, SR, DR, f)
    [] op = "BIT" -> BIT(by, SR, DR, f) [] op = "BIC" -> BIC(by, SR, DR, f)
    [] op = "BIS" -> BIS(by, SR, DR, f) [] op = "ADD" -> ADD(by, SR, DR, f)
    [] op = "SUB" -> SUB(by, SR, DR, f) [] op = "COM" -> COM(by, SR, DR, f)
    [] op = "INC" -> INC(by, SR, DR, f) [] op = "DEC" -> DEC(by, SR, DR, f)
    [] op = "NEG" -> NEG(by, SR, DR, f) [] op = "ADC" -> ADC(by, SR, DR, f)
    [] op = "SBC" -> SBC(by, SR, DR, f) [] op = "TST" -> TST(by, SR, DR, f)
    [] op = "ROR" -> ROR(by, SR, DR, f) [] op = "ROL" -> ROL(by, SR, DR, f)
    [] op = "ASR" -> ASR(by, SR, DR, f) [] op = "ASL" -> ASL(by, SR, DR, f)
    [] op = "SWAB" -> SWAB(by, SR, DR, f)

-----------------------------------------------------------------------------
(* Conditional branches: CBR() takes the bit of a mask that the condition    *)
(* codes select.  The masks are given by their set bits.                     *)
Masks ==
  [BNE |-> 0..3 \cup 8..11,             BEQ |-> 4..7 \cup 12..15,
   BGE |-> {0, 1, 4, 5, 10, 11, 14, 15}, BLT |-> {2, 3, 6, 7, 8, 9, 12, 13},
   BGT |-> {0, 1, 10, 11},              BLE |-> 2..9 \cup 12..15,
   BPL |-> 0..7,                        BMI |-> 8..15,
   BHI |-> {0, 2, 8, 10},               BLOS |-> {1, 9} \cup 3..7 \cup 11..15,
   BVC |-> {0, 1, 4, 5, 8, 9, 12, 13},  BVS |-> {2, 3, 6, 7, 10, 11, 14, 15},
   BCC |-> {0, 2, 4, 6, 8, 10, 12, 14}, BCS |-> {1, 3, 5, 7, 9, 11, 13, 15}]

CBR(branch, f) == 8 * bit(f.n) + 4 * bit(f.z) + 2 * bit(f.v) + bit(f.c) \in Masks[branch]

-----------------------------------------------------------------------------
(* EIS of the KD11-EA: R is the register and R1 its pair, the same one if    *)
(* the register is odd; then the result that is kept is the low word.        *)
Signed(w) == IF sgn(w) THEN w - WordRange ELSE w

Pair(R, R1) == Signed(R) * WordRange + R1

high(x) == W(x \div WordRange)

MUL_EIS(R, R1, DR, f) ==
  LET prod == Signed(DR) * Signed(R)
  IN  [r |-> high(prod), r1 |-> W(prod), n |-> prod < 0, z |-> prod = 0, v |-> FALSE,
       c |-> prod \notin -SignBit .. SignBit - 1]

abs(x) == IF x < 0 THEN -x ELSE x

\* ldiv() rounds toward zero.
ldiv(x, y) == (IF (x < 0) = (y < 0) THEN 1 ELSE -1) * (abs(x) \div abs(y))

DIV_EIS(R, R1, DR, f) ==
  LET prod == Pair(R, R1)
      quot == ldiv(prod, Signed(DR))
      kept == quot \in -SignBit .. SignBit - 1
  IN  IF DR = 0
      THEN [r |-> R, r1 |-> R1, n |-> FALSE, z |-> FALSE, v |-> TRUE, c |-> TRUE]
      ELSE [r |-> IF kept THEN W(quot) ELSE R,
            r1 |-> IF kept THEN W(prod - quot * Signed(DR)) ELSE R1,
            n |-> sgn(W(quot)), z |-> W(quot) = 0, v |-> ~kept, c |-> FALSE]

\* The loop that shifts to the left by one: C is the bit that goes, and V is set by
\* every change of the sign.  range is that of a word or of a pair.
ShiftLeft(x, n, range, f) ==
  LET at == [k \in 0 .. n |-> (x * 2 ^ k) % range]
      sign(k) == at[k] >= range \div 2
  IN  [x |-> at[n], c |-> IF n = 0 THEN f.c ELSE sign(n - 1),
       v |-> \E k \in 1 .. n : sign(k) # sign(k - 1)]

\* A shift to the right, with a mask of copies of the sign.
ShiftRight(x, n, range) ==
  LET mask == IF x >= range \div 2 THEN range - 1 ELSE 0
  IN  [x |-> (x \div 2 ^ n) | ((mask * (range \div 2 ^ n)) % range),
       c |-> (x \div 2 ^ (n - 1)) % 2 = 1, v |-> FALSE]

\* Shifts that leave nothing of the operand: right (all copies of the sign) and left.
SignOnly(x, range) ==
  LET sign == x >= range \div 2
  IN  [x |-> IF sign THEN range - 1 ELSE 0, c |-> sign, v |-> FALSE]

Nothing(x) == [x |-> 0, c |-> FALSE, v |-> x # 0]

ASH_EIS(R, R1, DR, f) ==
  LET sh == DR % (4 * WordBits)
      right == 4 * WordBits - sh
      s == IF sh >= 2 * WordBits
           THEN IF right > WordBits THEN SignOnly(R, WordRange) ELSE ShiftRight(R, right, WordRange)
           ELSE IF sh > WordBits THEN Nothing(R) ELSE ShiftLeft(R, sh, WordRange, f)
  IN  [r |-> s.x, r1 |-> R1, n |-> sgn(s.x), z |-> s.x = 0, v |-> s.v, c |-> s.c]

ASHC_EIS(R, R1, DR, f) ==
  LET val == R * WordRange + R1
      range == WordRange * WordRange
      sh == DR % (4 * WordBits)
      right == 4 * WordBits - sh
      s == IF sh >= 2 * WordBits
           THEN IF right >= 2 * WordBits THEN SignOnly(val, range) ELSE ShiftRight(val, right, range)
           ELSE ShiftLeft(val, sh, range, f)
  IN  [r |-> s.x \div WordRange, r1 |-> W(s.x), n |-> s.x >= range \div 2, z |-> s.x = 0,
       v |-> s.v, c |-> s.c]

Eis == {"MUL", "DIV", "ASH", "ASHC"}

ComputeEis(op, R, R1, DR, f) ==
  CASE op = "MUL" -> MUL_EIS(R, R1, DR, f) [] op = "DIV" -> DIV_EIS(R, R1, DR, f)
    [] op = "ASH" -> ASH_EIS(R, R1, DR, f) [] op = "ASHC" -> ASHC_EIS(R, R1, DR, f)

-----------------------------------------------------------------------------
NoCodes == [n |-> FALSE, z |-> FALSE, v |-> FALSE, c |-> FALSE]

Codes(r) == [n |-> r.n, z |-> r.z, v |-> r.v, c |-> r.c]

AluInit == alu = [op |-> "none"]

\* An instruction with one or two operands, which are words or sign extended bytes.
Instruction(op, by, SR, DR, c) ==
  /\ by => op \notin WordOnly /\ SR = sxt(SR) /\ DR = sxt(DR)
  /\ op \in Single => SR = DR
  /\ alu' = [op |-> op, by |-> by, SR |-> SR, DR |-> DR, c |-> c,
             res |-> Compute(op, by, SR, DR, [NoCodes EXCEPT !.c = c])]

EisInstruction(op, R, R1, DR) ==
  alu' = [op |-> op, R |-> R, R1 |-> R1, DR |-> DR, res |-> ComputeEis(op, R, R1, DR, NoCodes)]

Fetch == alu.op # "none" /\ alu' = [op |-> "none"]

AluNext ==
  \/ /\ alu.op = "none"
     /\ \E op \in Single \cup Double, by \in BOOLEAN, SR, DR \in Words, c \in BOOLEAN :
          Instruction(op, by, SR, DR, c)
  \/ /\ alu.op = "none"
     /\ \E op \in Eis, R, R1, DR \in Words : EisInstruction(op, R, R1, DR)
  \/ Fetch

AluSpec == AluInit /\ [][AluNext]_alu

-----------------------------------------------------------------------------
(* What a program relies on, in integers.                                   *)
Unsigned(by, w) == IF by THEN w % ByteRange ELSE w
OperandRange(by) == IF by THEN ByteRange ELSE WordRange
Fits(by, x) == x \in -(OperandRange(by) \div 2) .. OperandRange(by) \div 2 - 1

\* CMP followed by a conditional branch compares: the signed branches the operands as
\* signed, the others as unsigned numbers, for words and for bytes.
CompareAndBranch ==
  alu.op = "CMP" =>
    LET s == Signed(alu.SR)
        d == Signed(alu.DR)
        us == Unsigned(alu.by, alu.SR)
        ud == Unsigned(alu.by, alu.DR)
        taken(branch) == CBR(branch, alu.res)
    IN  /\ taken("BEQ") = (s = d) /\ taken("BNE") = (s # d)
        /\ taken("BLT") = (s < d) /\ taken("BGE") = (s >= d)
        /\ taken("BGT") = (s > d) /\ taken("BLE") = (s <= d)
        /\ taken("BHI") = (us > ud) /\ taken("BLOS") = (us <= ud)
        /\ taken("BCS") = (us < ud) /\ taken("BCC") = (us >= ud)
        /\ taken("BVS") = ~Fits(alu.by, s - d) /\ taken("BVC") = Fits(alu.by, s - d)
        /\ taken("BMI") = ~taken("BPL")

\* INC, DEC, NEG, ADC, SBC, ADD and SUB give the sum or difference, V says that it does not
\* fit as a signed number, and C is the carry or borrow.
SumsExact ==
  LET s == Signed(alu.SR)
      d == Signed(alu.DR)
      c == bit(alu.c)
      value == CASE alu.op = "INC" -> d + 1 [] alu.op = "DEC" -> d - 1 [] alu.op = "NEG" -> -d
                 [] alu.op = "ADC" -> d + c [] alu.op = "SBC" -> d - c
                 [] alu.op = "ADD" -> d + s [] alu.op = "SUB" -> d - s
      u == Unsigned(alu.by, alu.DR)
      carry == CASE alu.op = "NEG" -> u # 0 [] alu.op = "ADC" -> u + c >= OperandRange(alu.by)
                 [] alu.op = "SBC" -> u - c < 0 [] alu.op = "ADD" -> u + alu.SR >= WordRange
                 [] alu.op = "SUB" -> u - alu.SR < 0 [] OTHER -> alu.c
  IN  alu.op \in {"INC", "DEC", "NEG", "ADC", "SBC", "ADD", "SUB"} =>
        /\ Unsigned(alu.by, alu.res.b) = value % OperandRange(alu.by)
        /\ alu.res.v = ~Fits(alu.by, value)
        /\ alu.res.c = carry

\* Arithmetic of double words, as programs do it: ADD and ADC, NEG and SBC, ASL and ROL,
\* ASR and ROR pass the right carry.
DoubleWords ==
  LET lo == alu.DR
      codes(r) == Codes(r)
      double(h, l) == h * WordRange + l
      all == WordRange * WordRange
  IN  /\ alu.op = "ADD" =>
           \A h1, h2 \in Words :
             LET adc == ADC(FALSE, h2, h2, codes(alu.res))
                 add == ADD(FALSE, h1, adc.b, codes(adc))
             IN  double(add.b, alu.res.b) = (double(h1, alu.SR) + double(h2, lo)) % all
      /\ alu.op = "NEG" /\ ~alu.by =>
           \A h \in Words :
             LET neg == NEG(FALSE, h, h, NoCodes)
                 sbc == SBC(FALSE, neg.b, neg.b, codes(alu.res))
             IN  double(sbc.b, alu.res.b) = (-double(h, lo)) % all
      /\ alu.op = "ASL" /\ ~alu.by =>
           \A h \in Words :
             LET rol == ROL(FALSE, h, h, codes(alu.res))
                 x == Signed(h) * WordRange + lo
             IN  /\ double(rol.b, alu.res.b) = (2 * x) % all
                 /\ rol.v = (2 * x \notin -(all \div 2) .. all \div 2 - 1)
      /\ alu.op = "ASR" /\ ~alu.by =>
           \A l \in Words :
             LET ror == ROR(FALSE, l, l, codes(alu.res))
             IN  double(alu.res.b, ror.b) = ((Signed(lo) * WordRange + l) \div 2) % all

\* MUL and DIV are exact, and say when the result does not fit; ASH and ASHC multiply by
\* a power of two, and V says exactly that the product does not fit.
EisExact ==
  alu.op \in Eis =>
    LET pair == Pair(alu.R, alu.R1)
        dr == Signed(alu.DR)
        to == Pair(alu.res.r, alu.res.r1)
        sh == alu.DR % (4 * WordBits)
        count == IF sh >= 2 * WordBits THEN sh - 4 * WordBits ELSE sh
        scaled(x, y) == IF count >= 0 THEN y = x * 2 ^ count
                        ELSE y * 2 ^ (-count) <= x /\ x < (y + 1) * 2 ^ (-count)
        q == Signed(alu.res.r)
        rem == Signed(alu.res.r1)
    IN  CASE alu.op = "MUL" -> to = Signed(alu.R) * dr /\ (alu.res.c = ~Fits(FALSE, to))
          [] alu.op = "DIV" ->
               /\ ~alu.res.v =>
                    /\ pair = q * dr + rem /\ abs(rem) < abs(dr) /\ (rem = 0 \/ (rem < 0) = (pair < 0))
                    /\ alu.res.n = (q < 0) /\ alu.res.z = (q = 0)
               /\ alu.res.v => dr = 0 \/ ~Fits(FALSE, ldiv(pair, dr))
          [] alu.op = "ASH" -> alu.res.v = ~scaled(Signed(alu.R), q)
          [] alu.op = "ASHC" -> alu.res.v = ~scaled(pair, to)

\* The instructions are exact: compares and branches, sums, double words and the EIS.
InstructionsExact == CompareAndBranch /\ SumsExact /\ DoubleWords /\ EisExact
=============================================================================
