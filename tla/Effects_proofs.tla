---------------------------- MODULE Effects_proofs ----------------------------
(***************************************************************************)
(* The filters, for samples of 2 to 24 bits, every shift and form, every   *)
(* setting of the registers and whatever the distortions deliver: the low  *)
(* pass stays between its input and its previous output, and high pass and *)
(* all pass go straight to their rest while their input stays, so that the *)
(* resize at the end of these steps changes nothing.                       *)
(*                                                                         *)
(* That the sum of the FIR filter is a number at all, for every number of  *)
(* taps, needs an induction: Climb provides it, for sets of numbers.       *)
(***************************************************************************)
EXTENDS Effects, FiniteSetTheorems, TLAPS

EffectsInv ==
  /\ cfg \in Settings
  /\ mem \in [0 .. (MEMORY_NUM - 1) -> Int] /\ hpIn \in Int
  /\ hpOut \in Signed(Width) /\ distorted \in Signed(Width) /\ lpOut \in Signed(Width)
  /\ apIn \in Signed(Width) /\ apOut \in Signed(Width)

(* What FiltersSettle says of a step.                                        *)
Settles ==
  /\ Between(lpOut', lpOut, distorted')
  /\ hpIn' = hpIn => Between(hpOut', hpOut, 0)
  /\ apIn' = apIn => Between(apOut', apOut, apIn)

(* The shifts of the filters, as divisors.                                   *)
Powers == {1, 2, 4, 8, 16, 32, 64, 128, 256, 512, 1024, 2048, 4096, 8192, 16384, 32768}

-----------------------------------------------------------------------------
(* Numbers.                                                                  *)

(* The powers of two that occur, one by one: that of an exponent not known   *)
(* is nothing the provers compute.                                           *)
LEMMA PowersOfTwo ==
  ASSUME NEW k \in 0 .. 27
  PROVE  2 ^ k \in Nat \ {0} /\ 2 ^ (k + 1) = 2 * 2 ^ k /\ (k <= 15 => 2 ^ k \in Powers)
<1>0. k = 0 => 2 ^ k = 1 /\ 2 ^ (k + 1) = 2 * 2 ^ k
  BY SMT
<1>1. k = 1 => 2 ^ k = 2 /\ 2 ^ (k + 1) = 2 * 2 ^ k
  BY SMT
<1>2. k = 2 => 2 ^ k = 4 /\ 2 ^ (k + 1) = 2 * 2 ^ k
  BY SMT
<1>3. k = 3 => 2 ^ k = 8 /\ 2 ^ (k + 1) = 2 * 2 ^ k
  BY SMT
<1>4. k = 4 => 2 ^ k = 16 /\ 2 ^ (k + 1) = 2 * 2 ^ k
  BY SMT
<1>5. k = 5 => 2 ^ k = 32 /\ 2 ^ (k + 1) = 2 * 2 ^ k
  BY SMT
<1>6. k = 6 => 2 ^ k = 64 /\ 2 ^ (k + 1) = 2 * 2 ^ k
  BY SMT
<1>7. k = 7 => 2 ^ k = 128 /\ 2 ^ (k + 1) = 2 * 2 ^ k
  BY SMT
<1>8. k = 8 => 2 ^ k = 256 /\ 2 ^ (k + 1) = 2 * 2 ^ k
  BY SMT
<1>9. k = 9 => 2 ^ k = 512 /\ 2 ^ (k + 1) = 2 * 2 ^ k
  BY SMT
<1>10. k = 10 => 2 ^ k = 1024 /\ 2 ^ (k + 1) = 2 * 2 ^ k
  BY SMT
<1>11. k = 11 => 2 ^ k = 2048 /\ 2 ^ (k + 1) = 2 * 2 ^ k
  BY SMT
<1>12. k = 12 => 2 ^ k = 4096 /\ 2 ^ (k + 1) = 2 * 2 ^ k
  BY SMT
<1>13. k = 13 => 2 ^ k = 8192 /\ 2 ^ (k + 1) = 2 * 2 ^ k
  BY SMT
<1>14. k = 14 => 2 ^ k = 16384 /\ 2 ^ (k + 1) = 2 * 2 ^ k
  BY SMT
<1>15. k = 15 => 2 ^ k = 32768 /\ 2 ^ (k + 1) = 2 * 2 ^ k
  BY SMT
<1>16. k = 16 => 2 ^ k = 65536 /\ 2 ^ (k + 1) = 2 * 2 ^ k
  BY SMT
<1>17. k = 17 => 2 ^ k = 131072 /\ 2 ^ (k + 1) = 2 * 2 ^ k
  BY SMT
<1>18. k = 18 => 2 ^ k = 262144 /\ 2 ^ (k + 1) = 2 * 2 ^ k
  BY SMT
<1>19. k = 19 => 2 ^ k = 524288 /\ 2 ^ (k + 1) = 2 * 2 ^ k
  BY SMT
<1>20. k = 20 => 2 ^ k = 1048576 /\ 2 ^ (k + 1) = 2 * 2 ^ k
  BY SMT
<1>21. k = 21 => 2 ^ k = 2097152 /\ 2 ^ (k + 1) = 2 * 2 ^ k
  BY SMT
<1>22. k = 22 => 2 ^ k = 4194304 /\ 2 ^ (k + 1) = 2 * 2 ^ k
  BY SMT
<1>23. k = 23 => 2 ^ k = 8388608 /\ 2 ^ (k + 1) = 2 * 2 ^ k
  BY SMT
<1>24. k = 24 => 2 ^ k = 16777216 /\ 2 ^ (k + 1) = 2 * 2 ^ k
  BY SMT
<1>25. k = 25 => 2 ^ k = 33554432 /\ 2 ^ (k + 1) = 2 * 2 ^ k
  BY SMT
<1>26. k = 26 => 2 ^ k = 67108864 /\ 2 ^ (k + 1) = 2 * 2 ^ k
  BY SMT
<1>27. k = 27 => 2 ^ k = 134217728 /\ 2 ^ (k + 1) = 2 * 2 ^ k
  BY SMT
<1>28. CASE k \in 0 .. 7
  BY <1>0, <1>1, <1>2, <1>3, <1>4, <1>5, <1>6, <1>7, <1>28, SMT DEF Powers
<1>29. CASE k \in 8 .. 15
  BY <1>8, <1>9, <1>10, <1>11, <1>12, <1>13, <1>14, <1>15, <1>29, SMT DEF Powers
<1>30. CASE k \in 16 .. 23
  BY <1>16, <1>17, <1>18, <1>19, <1>20, <1>21, <1>22, <1>23, <1>30, SMT
<1>31. CASE k \in 24 .. 27
  BY <1>24, <1>25, <1>26, <1>27, <1>31, SMT
<1> QED
  BY <1>28, <1>29, <1>30, <1>31, SMT

(* Half of a sample's range is a positive number.                            *)
LEMMA HalfIsPositive ==
  Half(Width) \in Nat \ {0}
<1>1. Width - 1 \in 0 .. 27
  BY EffectsAssumption
<1> QED
  BY <1>1, PowersOfTwo DEF Half

(* What resize delivers is a sample, and a sample is delivered as it is.     *)
LEMMA ResizeToSample ==
  ASSUME NEW v \in Int
  PROVE  Resize(v, Width) \in Signed(Width) /\ (v \in Signed(Width) => Resize(v, Width) = v)
<1> DEFINE h == Half(Width)
<1>1. h \in Nat \ {0}
  BY HalfIsPositive
<1>2. v % h \in 0 .. (h - 1)
  BY <1>1, SMT
<1>3. v \in 0 .. (h - 1) => v % h = v
  BY <1>1, SMT
<1>4. v \in -h .. -1 => v % h = v + h
  BY <1>1, SMT
<1> HIDE DEF h
<1>5. Resize(v, Width) = IF v >= 0 THEN v % h ELSE (v % h) - h
  BY DEF Resize, h
<1>6. Signed(Width) = -h .. (h - 1)
  BY DEF Signed, h
<1> QED
  BY <1>1, <1>2, <1>3, <1>4, <1>5, <1>6, SMT

(* Arithmetic modulo the width and shifts deliver numbers.                   *)
LEMMA Numbers ==
  ASSUME NEW v \in Int, NEW k \in 0 .. 15
  PROVE  Shr(v, k) \in Int /\ Shl(v, k) \in Int /\ Abs(v) \in Int /\ Wrap(v, Width) \in Int
<1>0. k \in 0 .. 27
  OBVIOUS
<1>1. 2 ^ k \in Nat \ {0}
  BY <1>0, PowersOfTwo
<1>2. \A w \in Int : Wrap(w, Width) \in Int
  BY HalfIsPositive DEF Wrap
<1>3. v * 2 ^ k \in Int /\ v \div 2 ^ k \in Int
  BY <1>1
<1> QED
  BY <1>2, <1>3 DEF Shr, Shl, Abs

(* A value that does not move is between itself and any goal.                *)
LEMMA BetweenItself ==
  ASSUME NEW v \in Signed(Width), NEW goal \in Signed(Width)
  PROVE  Between(v, v, goal)
<1>1. v \in Int /\ goal \in Int
  BY HalfIsPositive DEF Signed
<1> QED
  BY <1>1 DEF Between

-----------------------------------------------------------------------------
(* The low pass.                                                             *)

(* A filter's three bits of shift divide by one of them.                     *)
LEMMA ShiftDivides ==
  ASSUME NEW a \in 0 .. 15
  PROVE  Shift(a) \in 0 .. 7 /\ 2 ^ Shift(a) \in Powers
<1>1. Shift(a) \in 0 .. 7
  BY DEF Shift
<1>2. Shift(a) \in 0 .. 27 /\ Shift(a) <= 15
  BY <1>1
<1> QED
  BY <1>1, <1>2, PowersOfTwo

(* shift_right is monotone and never moves two values further apart.         *)
LEMMA ShrContracts ==
  ASSUME NEW p \in Powers, NEW x \in Int, NEW y \in Int, x <= y
  PROVE  x \div p <= y \div p /\ (y \div p) - (x \div p) <= y - x
  BY DEF Powers

(* In both forms the low pass stays between its arguments, so its resize     *)
(* changes nothing.                                                          *)
LEMMA LowPass ==
  ASSUME NEW a \in 0 .. 15, NEW x \in Signed(Width), NEW y \in Signed(Width)
  PROVE  Between(lp_filter(x, y, a), y, x) /\ lp_filter(x, y, a) \in Signed(Width)
<1> DEFINE p == 2 ^ Shift(a)
           v == IF Form(a) THEN x \div p + y - y \div p ELSE x - x \div p + y \div p
<1>1. Half(Width) \in Nat \ {0} /\ x \in Int /\ y \in Int
  BY HalfIsPositive DEF Signed
<1>2. p \in Powers
  BY ShiftDivides
<1>3. x \div p \in Int /\ y \div p \in Int
  BY <1>1, <1>2 DEF Powers
<1>4. lp_filter(x, y, a) = Resize(v, Width)
  BY DEF lp_filter, Shr
<1> HIDE DEF p
<1>5. v \in Int /\ Between(v, y, x)
  <2>1. CASE x <= y
    BY <1>1, <1>2, <1>3, <2>1, ShrContracts DEF Between
  <2>2. CASE y <= x
    BY <1>1, <1>2, <1>3, <2>2, ShrContracts DEF Between
  <2> QED
    BY <1>1, <2>1, <2>2
<1> HIDE DEF v
<1>6. v \in Signed(Width)
  BY <1>1, <1>5 DEF Between, Signed
<1> QED
  BY <1>4, <1>5, <1>6, ResizeToSample

-----------------------------------------------------------------------------
(* The high pass and the all pass.                                           *)

(* The high pass ends in a resize.                                           *)
LEMMA HighPass ==
  ASSUME NEW a \in 0 .. 15, NEW x \in Int, NEW xPrev \in Int, NEW y \in Int
  PROVE  hp_filter(x, xPrev, y, a) \in Signed(Width)
<1>1. Shift(a) \in 0 .. 15 /\ x - xPrev \in Int
  BY ShiftDivides
<1>2. Shr(x - xPrev, Shift(a)) \in Int /\ Shr(y, Shift(a)) \in Int
  BY <1>1, Numbers
<1> QED
  BY <1>1, <1>2, ResizeToSample DEF hp_filter

(* While its input stays, both forms decay towards 0.                        *)
LEMMA HighPassDecays ==
  ASSUME NEW a \in 0 .. 15, NEW x \in Int, NEW y \in Signed(Width)
  PROVE  Between(hp_filter(x, x, y, a), y, 0)
<1> DEFINE p == 2 ^ Shift(a)
           v == IF Form(a) THEN y - y \div p ELSE y \div p
<1>1. Half(Width) \in Nat \ {0} /\ y \in Int
  BY HalfIsPositive DEF Signed
<1>2. p \in Powers
  BY ShiftDivides
<1>3. y \div p \in Int /\ 0 \div p = 0
  BY <1>1, <1>2 DEF Powers
<1>4. hp_filter(x, x, y, a) = Resize(v, Width)
  <2>1. x - x = 0 /\ Shr(x - x, Shift(a)) = 0
    BY <1>3 DEF Shr
  <2>2. hp_filter(x, x, y, a)
          = Resize(IF Form(a) THEN 0 - 0 + y - y \div p ELSE 0 + y \div p, Width)
    BY <2>1, Zenon DEF hp_filter, Shr
  <2>3. v = IF Form(a) THEN 0 - 0 + y - y \div p ELSE 0 + y \div p
    BY <1>1, <1>3
  <2> QED
    BY <2>2, <2>3, Zenon
<1> HIDE DEF p
<1>5. v \in Int /\ Between(v, y, 0)
  <2>1. CASE 0 <= y
    BY <1>1, <1>2, <1>3, <2>1, ShrContracts DEF Between
  <2>2. CASE y <= 0
    BY <1>1, <1>2, <1>3, <2>2, ShrContracts DEF Between
  <2> QED
    BY <1>1, <2>1, <2>2
<1> HIDE DEF v
<1>6. v \in Signed(Width)
  BY <1>1, <1>5 DEF Between, Signed
<1> QED
  BY <1>4, <1>5, <1>6, ResizeToSample

(* The range of a sum of samples is twice that of a sample.                  *)
LEMMA WiderHalf == Half(Width + 1) = 2 * Half(Width)
<1>1. Width - 1 \in 0 .. 27 /\ Width - 1 <= 26
  BY EffectsAssumption
<1>2. (Width - 1) + 1 = (Width + 1) - 1
  BY EffectsAssumption
<1> QED
  BY <1>1, <1>2, PowersOfTwo DEF Half

(* The all pass delivers samples, and approaches an input that stays.        *)
LEMMA AllPass ==
  ASSUME NEW s \in 0 .. 15, NEW x \in Signed(Width), NEW xPrev \in Signed(Width),
         NEW y \in Signed(Width)
  PROVE  /\ ap_filter(x, xPrev, y, s) \in Signed(Width)
         /\ x = xPrev => Between(ap_filter(x, xPrev, y, s), y, x)
<1> DEFINE p == 2 ^ s
           t == y - x
           v == t - t \div p + xPrev
           w == Wrap(v, Width + 1)
<1>1. Half(Width) \in Nat \ {0} /\ x \in Int /\ y \in Int /\ xPrev \in Int /\ t \in Int
  BY HalfIsPositive DEF Signed
<1>2. p \in Powers
  <2>1. s \in 0 .. 27 /\ s <= 15
    OBVIOUS
  <2> QED
    BY <2>1, PowersOfTwo
<1>3. t \div p \in Int /\ 0 \div p = 0
  BY <1>1, <1>2 DEF Powers
<1>4. ap_filter(x, xPrev, y, s) = Resize(w, Width)
  BY DEF ap_filter, Shr
<1> HIDE DEF p
<1>5. v \in Int /\ w \in Int
  BY <1>1, <1>3, WiderHalf DEF Wrap
<1>6. ASSUME x = xPrev PROVE Between(v, y, x)
  <2>1. CASE 0 <= t
    BY <1>1, <1>2, <1>3, <1>6, <2>1, ShrContracts DEF Between
  <2>2. CASE t <= 0
    BY <1>1, <1>2, <1>3, <1>6, <2>2, ShrContracts DEF Between
  <2> QED
    BY <1>1, <2>1, <2>2
<1>7. ASSUME x = xPrev PROVE w = v /\ w \in Signed(Width)
  <2> DEFINE h == Half(Width)
  <2>1. v \in -h .. (h - 1)
    BY <1>1, <1>5, <1>6, <1>7 DEF Between, Signed
  <2>2. w = ((v + 2 * h) % (2 * (2 * h))) - 2 * h
    BY WiderHalf DEF Wrap
  <2>3. h \in Nat \ {0}
    BY <1>1
  <2> HIDE DEF h, v, w
  <2>4. (v + 2 * h) % (2 * (2 * h)) = v + 2 * h
    BY <2>1, <2>3
  <2>5. w = v
    BY <2>1, <2>2, <2>3, <2>4
  <2> QED
    BY <2>1, <2>5 DEF Signed, h
<1> HIDE DEF v, w
<1> QED
  BY <1>4, <1>5, <1>6, <1>7, ResizeToSample

-----------------------------------------------------------------------------
(* The FIR filter.                                                           *)

(* Induction over 0 .. n: a set that holds 0 and with each number the next   *)
(* holds them all.  For if not, the numbers below one that is missing, in    *)
(* the well-founded order of finite sets, would have no least.               *)
LEMMA Climb ==
  ASSUME NEW n \in Nat, NEW T \in SUBSET (0 .. n), 0 \in T, \A i \in T : i < n => i + 1 \in T
  PROVE  T = 0 .. n
<1> DEFINE S == 0 .. n
           Below(i) == {j \in S : j < i}
           Gaps == {Below(i) : i \in S \ T}
<1>1. SUFFICES ASSUME S \ T # {} PROVE FALSE
  OBVIOUS
<1>2. FiniteSubsetsOf(S) = SUBSET S
  <2>1. 0 \in Int /\ n \in Int
    OBVIOUS
  <2>2. IsFiniteSet(0 .. n)
    BY <2>1, FS_Interval
  <2> QED
    BY <2>2, FS_FiniteSubsetsOfFinite
<1>3. IsWellFoundedOn(StrictSubsetOrdering(S), SUBSET S)
  BY <1>2, FS_StrictSubsetOrderingWellFounded
<1>4. Gaps \subseteq SUBSET S /\ Gaps # {}
  BY <1>1
<1> HIDE DEF Gaps
<1>5. PICK g \in Gaps : \A h \in Gaps : ~(<<h, g>> \in StrictSubsetOrdering(S))
  BY <1>3, <1>4, WFMin
<1>6. PICK i \in S \ T : g = Below(i)
  BY <1>5 DEF Gaps
<1>7. i - 1 \in S \ T
  <2>1. i # 0
    BY <1>6
  <2> QED
    BY <1>6, <2>1
<1>8. Below(i - 1) \in Gaps
  BY <1>7 DEF Gaps
<1>9. Below(i - 1) \subseteq Below(i)
  BY <1>6, <1>7
<1>10. i - 1 \in Below(i) /\ i - 1 \notin Below(i - 1)
  BY <1>6, <1>7
<1>11. <<Below(i - 1), Below(i)>> \in StrictSubsetOrdering(S)
  BY <1>9, <1>10 DEF StrictSubsetOrdering
<1> QED
  BY <1>5, <1>6, <1>8, <1>11

(* The partial sums of fir_filter up to tap k.                               *)
FirSums(x, k) ==
  {f \in [0 .. k -> Int] :
     \A i \in 0 .. k : f[i] = IF i = 0 THEN x * FIR_COEFF[MEMORY_NUM]
                               ELSE f[i - 1] + mem[i - 1] * FIR_COEFF[i - 1]}

(* fir_filter delivers a number for every number of taps: partial sums exist *)
(* up to each tap, so its recursive sum is one of the functions they are.    *)
LEMMA FirDelivers ==
  ASSUME NEW x \in Int, mem \in [0 .. (MEMORY_NUM - 1) -> Int]
  PROVE  fir_filter(x) \in Int
<1> DEFINE n == MEMORY_NUM
           T == {k \in 0 .. n : FirSums(x, k) # {}}
           G(f) == [i \in 0 .. n |-> IF i = 0 THEN x * FIR_COEFF[MEMORY_NUM]
                               ELSE f[i - 1] + mem[i - 1] * FIR_COEFF[i - 1]]
           sum == CHOOSE f : f = G(f)
<1>1. n \in Nat \ {0} /\ FIR_COEFF \in [0 .. n -> Int]
  BY EffectsAssumption
<1>2. 0 \in T
  <2>1. [i \in 0 .. 0 |-> x * FIR_COEFF[MEMORY_NUM]] \in FirSums(x, 0)
    BY <1>1 DEF FirSums
  <2> QED
    BY <1>1, <2>1
<1>3. ASSUME NEW k \in T, k < n PROVE k + 1 \in T
  <2>1. PICK f : f \in FirSums(x, k)
    OBVIOUS
  <2> DEFINE g == [i \in 0 .. (k + 1) |-> IF i <= k THEN f[i] ELSE f[k] + mem[k] * FIR_COEFF[k]]
  <2>2. k \in 0 .. n /\ k \in 0 .. k /\ f[k] \in Int /\ mem[k] \in Int /\ FIR_COEFF[k] \in Int
    BY <1>1, <1>3, <2>1 DEF FirSums
  <2>3. f[k] + mem[k] * FIR_COEFF[k] \in Int
    BY <2>2
  <2>4. g \in [0 .. (k + 1) -> Int]
    BY <2>1, <2>2, <2>3 DEF FirSums
  <2>5. ASSUME NEW i \in 0 .. (k + 1)
        PROVE  g[i] = IF i = 0 THEN x * FIR_COEFF[MEMORY_NUM]
                               ELSE g[i - 1] + mem[i - 1] * FIR_COEFF[i - 1]
    <3>1. CASE i <= k
      BY <2>1, <2>2, <3>1 DEF FirSums
    <3>2. CASE i = k + 1
      <4>1. g[i] = f[k] + mem[k] * FIR_COEFF[k] /\ g[k] = f[k] /\ i - 1 = k /\ i # 0
        BY <2>2, <3>2
      <4> QED
        BY <4>1
    <3> QED
      BY <2>2, <3>1, <3>2
  <2>6. g \in FirSums(x, k + 1)
    BY <2>4, <2>5 DEF FirSums
  <2> QED
    BY <1>1, <1>3, <2>2, <2>6
<1>4. n \in T
  <2>1. T \in SUBSET (0 .. n) /\ \A k \in T : k < n => k + 1 \in T
    BY <1>3
  <2> HIDE DEF T
  <2>2. T = 0 .. n
    BY <1>1, <1>2, <2>1, Climb
  <2> QED
    BY <1>1, <2>2
<1>5. PICK f : f \in FirSums(x, n)
  BY <1>4
<1>6. f = G(f)
  BY <1>5 DEF FirSums
<1>7. sum = G(sum)
  BY <1>6
<1> DEFINE U == {k \in 0 .. n : sum[k] \in Int}
<1> HIDE DEF sum
<1>8. 0 \in U
  <2>1. sum[0] = x * FIR_COEFF[MEMORY_NUM]
    BY <1>1, <1>7
  <2> QED
    BY <1>1, <2>1
<1>9. ASSUME NEW k \in U, k < n PROVE k + 1 \in U
  <2>1. k + 1 \in 0 .. n /\ k + 1 # 0 /\ (k + 1) - 1 = k
    BY <1>1, <1>9
  <2>2. sum[k + 1] = sum[k] + mem[k] * FIR_COEFF[k]
    BY <1>7, <2>1
  <2>3. sum[k] \in Int /\ mem[k] \in Int /\ FIR_COEFF[k] \in Int
    BY <1>1, <1>9
  <2> QED
    BY <2>1, <2>2, <2>3
<1>10. sum[n] \in Int
  <2>1. U \in SUBSET (0 .. n) /\ \A k \in U : k < n => k + 1 \in U
    BY <1>9
  <2>2. n \in U
    <3> HIDE DEF U
    <3>1. U = 0 .. n
      BY <1>1, <1>8, <2>1, Climb
    <3> QED
      BY <1>1, <3>1
  <2> QED
    BY <2>2
<1>11. fir_filter(x) = Resize(Shr(Wrap(sum[n], Width + 4), 3), Width)
  BY Zenon DEF fir_filter, sum
<1>12. Width - 1 \in 0 .. 27 /\ (Width + 4) - 1 \in 0 .. 27 /\ 3 \in 0 .. 27
  BY EffectsAssumption
<1>13. Half(Width) \in Nat \ {0} /\ Half(Width + 4) \in Nat \ {0} /\ 2 ^ 3 \in Nat \ {0}
  BY <1>12, PowersOfTwo DEF Half
<1>14. Wrap(sum[n], Width + 4) \in Int
  BY <1>10, <1>13 DEF Wrap
<1>15. Shr(Wrap(sum[n], Width + 4), 3) \in Int
  BY <1>13, <1>14 DEF Shr
<1> QED
  BY <1>11, <1>13, <1>15, ResizeToSample DEF Signed

-----------------------------------------------------------------------------
(* The distortions.                                                          *)

(* The distortions end in the thresholds, which are samples.                 *)
LEMMA Distortion ==
  ASSUME NEW c \in Settings, NEW x \in Signed(Width)
  PROVE  Distort(x, c) \in Signed(Width)
<1>1. Half(Width) \in Nat \ {0} /\ x \in Int
  BY HalfIsPositive DEF Signed
<1>2. Legal(c)
  BY EffectsAssumption
<1>3. \A v \in Int : Clip(v, c) \in Signed(Width)
  BY <1>1, <1>2 DEF Clip, Legal, Signed
<1>4. /\ c.gain \in 0 .. 15 /\ c.normalizer \in 0 .. 15 /\ c.qubic_shift \in 0 .. 15
      /\ 1 \in 0 .. 15
  BY <1>2 DEF Legal
<1>5. apply_gain_clip(x, c) \in Signed(Width)
  <2> DEFINE compressed == IF Abs(x) > c.compThresh THEN x - Shr(x, 1) ELSE Wrap(x + Shr(x, 1), Width)
  <2>1. Shr(x, 1) \in Int /\ x + Shr(x, 1) \in Int /\ x - Shr(x, 1) \in Int
    <3>1. Shr(x, 1) \in Int
      BY <1>1, <1>4, Numbers
    <3> QED
      BY <1>1, <3>1
  <2>2. compressed \in Int
    BY <1>1, <1>4, <2>1, Numbers
  <2> HIDE DEF compressed
  <2>3. Shl(compressed, c.gain) \in Int
    BY <1>4, <2>2, Numbers
  <2> QED
    BY <1>3, <2>3 DEF apply_gain_clip, compressed
<1>6. apply_soft_clip(x, c) \in Signed(Width)
  <2> DEFINE compressed == IF Abs(x) > c.compThresh THEN Shr(x, 1) ELSE Shl(x, 1)
             gained == Shr(Shl(compressed, 1) * 2 ^ c.gain, c.normalizer)
             shaped == gained - Shr(gained * gained * gained, c.qubic_shift)
             mixed == (Shr(shaped, 1) + Shr(gained, 1)) * 2 ^ c.normalizer
  <2>1. compressed \in Int
    BY <1>1, <1>4, Numbers
  <2>2. 2 ^ c.gain \in Int /\ 2 ^ c.normalizer \in Int
    BY <1>4, PowersOfTwo
  <2> HIDE DEF compressed
  <2>3. Shl(compressed, 1) * 2 ^ c.gain \in Int
    <3>1. Shl(compressed, 1) \in Int
      BY <1>4, <2>1, Numbers
    <3> QED
      BY <2>2, <3>1
  <2>4. gained \in Int
    BY <1>4, <2>3, Numbers
  <2> HIDE DEF gained
  <2>5. gained * gained * gained \in Int
    BY <2>4
  <2>6. shaped \in Int
    <3>1. Shr(gained * gained * gained, c.qubic_shift) \in Int
      BY <1>4, <2>5, Numbers
    <3> QED
      BY <2>4, <3>1
  <2> HIDE DEF shaped
  <2>7. mixed \in Int
    <3>1. Shr(shaped, 1) \in Int /\ Shr(gained, 1) \in Int
      BY <1>4, <2>4, <2>6, Numbers
    <3> QED
      BY <2>2, <3>1
  <2> HIDE DEF mixed
  <2> QED
    BY <1>3, <2>7 DEF apply_soft_clip, compressed, gained, shaped, mixed
<1> QED
  BY <1>5, <1>6, SMTT(30) DEF Distort

-----------------------------------------------------------------------------
(* The whole chain.                                                          *)

(* A sample keeps the invariant, and no filter rings at it.                  *)
LEMMA SampleStep ==
  ASSUME EffectsInv, NEW x \in Inputs, NEW s \in Coefficients, Sample(x, s)
  PROVE  EffectsInv' /\ Settles
<1>1. cfg \in Settings /\ Legal(cfg) /\ cfg' = cfg
  BY EffectsAssumption DEF EffectsInv, Sample
<1>2. cfg.highPass \in 0 .. 15 /\ cfg.lowPass \in 0 .. 15
  BY <1>1 DEF Legal
<1>3. hpIn \in Int /\ hpOut \in Int /\ lpOut \in Signed(Width)
  BY HalfIsPositive DEF EffectsInv, Signed
<1>4. x \in Int /\ mem \in [0 .. (MEMORY_NUM - 1) -> Int] /\ MEMORY_NUM \in Nat \ {0}
  BY HalfIsPositive, EffectsAssumption DEF Signed, EffectsInv
<1>5. mem' \in [0 .. (MEMORY_NUM - 1) -> Int]
  BY <1>4 DEF Sample
<1>6. hpIn' \in Int
  BY <1>4, FirDelivers DEF Sample
<1>7. hpOut' \in Signed(Width)
  BY <1>2, <1>3, <1>6, HighPass DEF Sample
<1>8. hpIn' = hpIn => Between(hpOut', hpOut, 0)
  BY <1>2, <1>3, HighPassDecays DEF Sample, EffectsInv
<1>9. distorted' \in Signed(Width)
  BY <1>1, <1>7, Distortion DEF Sample
<1>10. Between(lpOut', lpOut, distorted') /\ lpOut' \in Signed(Width)
  BY <1>2, <1>3, <1>9, LowPass DEF Sample
<1>11. s \in 0 .. 15 /\ apIn \in Signed(Width) /\ apOut \in Signed(Width)
  BY EffectsAssumption DEF EffectsInv
<1>12. /\ apIn' \in Signed(Width) /\ apOut' \in Signed(Width)
       /\ apIn' = apIn => Between(apOut', apOut, apIn)
  <2>1. CASE cfg.phaser
    <3>1. apIn' = lpOut' /\ apOut' = ap_filter(lpOut', apIn, apOut, s)
      BY <2>1 DEF Sample
    <3> QED
      BY <1>10, <1>11, <3>1, AllPass
  <2>2. CASE ~cfg.phaser
    <3>1. UNCHANGED <<apIn, apOut>>
      BY <2>2 DEF Sample
    <3> QED
      BY <1>11, <3>1, BetweenItself
  <2> QED
    BY <2>1, <2>2
<1> QED
  BY <1>1, <1>5, <1>6, <1>7, <1>8, <1>9, <1>10, <1>12 DEF EffectsInv, Settles

(* At rest, and when only the registers change, nothing moves.               *)
LEMMA OtherStep ==
  ASSUME EffectsInv, cfg' \in Settings, UNCHANGED filterVars
  PROVE  EffectsInv' /\ Settles
<1>1. EffectsInv'
  BY DEF EffectsInv, filterVars
<1>2. Between(lpOut, lpOut, distorted) /\ Between(hpOut, hpOut, 0) /\ Between(apOut, apOut, apIn)
  <2>1. hpOut \in Signed(Width) /\ 0 \in Signed(Width)
    BY HalfIsPositive DEF EffectsInv, Signed
  <2> QED
    BY <2>1, BetweenItself DEF EffectsInv
<1> QED
  BY <1>1, <1>2 DEF Settles, filterVars

(* No filter rings: each goes straight to its rest while its input stays,    *)
(* and the low pass always lies between what comes in and what went out last *)
(* (hp_filter, lp_filter, ap_filter, I2sTypes.vhd).                          *)
THEOREM FiltersDoNotRing == EffectsSpec => FiltersSettle
<1>1. EffectsInit => EffectsInv
  <2>1. 0 \in Signed(Width)
    BY HalfIsPositive DEF Signed
  <2> QED
    BY <2>1 DEF EffectsInit, EffectsInv
<1>2. EffectsInv /\ [EffectsNext]_effectVars => EffectsInv' /\ Settles
  <2> SUFFICES ASSUME EffectsInv, [EffectsNext]_effectVars PROVE EffectsInv' /\ Settles
    OBVIOUS
  <2>1. CASE Samples
    BY <2>1, SampleStep DEF Samples
  <2>2. CASE SetRegisters
    BY <2>2, OtherStep DEF SetRegisters
  <2>3. CASE UNCHANGED effectVars
    BY <2>3, OtherStep DEF effectVars, EffectsInv
  <2> QED
    BY <2>1, <2>2, <2>3 DEF EffectsNext
<1> QED
  BY <1>1, <1>2, PTL DEF EffectsSpec, FiltersSettle, Settles
=============================================================================
