------------------------------- MODULE Bignum -------------------------------
(***************************************************************************)
(* bignum.c: unsigned integers of BIGNUM_LIMBS limbs, least significant    *)
(* limb first, and modular exponentiation by squaring.  The width of a     *)
(* limb and of a byte are constants; a product of two limbs keeps twice    *)
(* the width of a limb, as u64 does for u32.                               *)
(***************************************************************************)
EXTENDS Integers, FiniteSets, FiniteSetsExt

CONSTANTS
  LimbBits,       \* 32 in the code
  ByteBits,       \* 8
  BIGNUM_LIMBS,   \* 128
  Moduli          \* the moduli tried

VARIABLES
  num,    \* the arguments of bignum_modexp(): [base, exp, mod], limb arrays
  acc,    \* its accumulator
  bit     \* and the bit of the exponent it looks at next

bnvars == <<num, acc, bit>>

BASE == 2 ^ LimbBits
WIDE_LIMBS == 2 * BIGNUM_LIMBS

\* What a limb array stands for, and the array that stands for a number.
Value(a, n) == MapThenSumSet(LAMBDA k : a[k] * BASE ^ k, 0 .. n - 1)
Number(v, n) == [k \in 0 .. n - 1 |-> (v \div BASE ^ k) % BASE]

-----------------------------------------------------------------------------
cmp_limbs(a, b, n) ==
  LET differ == {k \in 0 .. n - 1 : a[k] # b[k]}
  IN  IF differ = {} THEN 0 ELSE IF a[Max(differ)] > b[Max(differ)] THEN 1 ELSE -1

sub_limbs(a, b, n) ==
  LET borrow[k \in 0 .. n] ==
        IF k = 0 THEN 0 ELSE IF a[k - 1] - b[k - 1] - borrow[k - 1] < 0 THEN 1 ELSE 0
  IN  [k \in 0 .. n - 1 |-> (a[k] - b[k] - borrow[k]) % BASE]

shr1_limbs(a, n) ==
  [k \in 0 .. n - 1 |->
     (a[k] \div 2) + (IF k = n - 1 THEN 0 ELSE (a[k + 1] % 2) * 2 ^ (LimbBits - 1))]

shl_limbs(a, n, bits) ==
  LET limb_shift == bits \div LimbBits
      bit_shift == bits % LimbBits
      moved == [k \in 0 .. n - 1 |-> IF k >= limb_shift THEN a[k - limb_shift] ELSE 0]
  IN  [k \in 0 .. n - 1 |->
         ((moved[k] * 2 ^ bit_shift) % BASE)
         + (IF k = 0 THEN 0 ELSE moved[k - 1] \div 2 ^ (LimbBits - bit_shift))]

highest_bit_index(a, n) ==
  LET set == {b \in 0 .. n * LimbBits - 1 : (a[b \div LimbBits] \div 2 ^ (b % LimbBits)) % 2 = 1}
  IN  IF set = {} THEN -1 ELSE Max(set)

\* (Mutant.) The sum is kept in the width of a limb and its carry is lost.
WideNarrow(prod) == prod % BASE
Wide(prod) == prod % (BASE * BASE)

\* One round of the outer loop: a[r] * b is added to out from limb r on, and the
\* carry runs on through the limbs above.
AddRow(out, an, bn, ar, b, r) ==
  LET prod[k \in 0 .. an + bn - 1 - r] ==
        Wide((IF k < bn THEN ar * b[k] ELSE 0) + out[r + k]
             + (IF k = 0 THEN 0 ELSE prod[k - 1] \div BASE))
  IN  [k \in 0 .. an + bn - 1 |-> IF k < r THEN out[k] ELSE prod[k - r] % BASE]

mul_limbs(a, an, b, bn) ==
  LET rows[r \in 0 .. an] ==
        IF r = 0 THEN [k \in 0 .. an + bn - 1 |-> 0]
        ELSE AddRow(rows[r - 1], an, bn, a[r - 1], b, r - 1)
  IN  rows[an]

\* (Mutant.) A remainder equal to the shifted modulus is left alone.
SubtractsStrictly(wide, shifted_mod, n) == cmp_limbs(wide, shifted_mod, n) > 0
Subtracts(wide, shifted_mod, n) == cmp_limbs(wide, shifted_mod, n) >= 0

\* Restoring division: the modulus, shifted under the highest bit of the
\* dividend, comes down one bit at a time and is subtracted where it fits.
mod_reduce_wide(wide, wide_n, mod, mod_n) ==
  LET top_rem == highest_bit_index(wide, wide_n)
      top_mod == highest_bit_index(mod, mod_n)
      shift == top_rem - top_mod
      padded == [k \in 0 .. wide_n - 1 |-> IF k < mod_n THEN mod[k] ELSE 0]
      step[s \in 0 .. shift + 1] ==
        IF s = 0 THEN [wide |-> wide, shifted_mod |-> shl_limbs(padded, wide_n, shift)]
        ELSE LET w == step[s - 1].wide
                 m == step[s - 1].shifted_mod
             IN  [wide |-> IF Subtracts(w, m, wide_n) THEN sub_limbs(w, m, wide_n) ELSE w,
                  shifted_mod |-> IF s <= shift THEN shr1_limbs(m, wide_n) ELSE m]
      rest == IF top_rem < 0 \/ top_rem < top_mod THEN wide ELSE step[shift + 1].wide
  IN  [k \in 0 .. mod_n - 1 |-> rest[k]]

bignum_mulmod(a, b, mod) ==
  mod_reduce_wide(mul_limbs(a, BIGNUM_LIMBS, b, BIGNUM_LIMBS), WIDE_LIMBS, mod, BIGNUM_LIMBS)

bignum_set_u32(value) == [k \in 0 .. BIGNUM_LIMBS - 1 |-> IF k = 0 THEN value ELSE 0]
bignum_test_bit(n, b) == (n[b \div LimbBits] \div 2 ^ (b % LimbBits)) % 2 = 1

-----------------------------------------------------------------------------
(***************************************************************************)
(* The way through big-endian bytes: x509.c reads a modulus with the first *)
(* operator, tls.c writes a ciphertext with the second.                    *)
(***************************************************************************)
PerLimb == LimbBits \div ByteBits

bignum_from_bytes_be(bytes, len) ==
  [k \in 0 .. BIGNUM_LIMBS - 1 |->
     MapThenSumSet(LAMBDA j : bytes[len - 1 - j] * 2 ^ ((j % PerLimb) * ByteBits),
                   {j \in 0 .. len - 1 : j \div PerLimb = k})]

bignum_to_bytes_be(n, len) ==
  [p \in 0 .. len - 1 |->
     LET j == len - 1 - p
     IN  (n[j \div PerLimb] \div 2 ^ ((j % PerLimb) * ByteBits)) % 2 ^ ByteBits]

\* (bignum_bit_length(n) + 7) / 8 of send_client_key_exchange().
bignum_bit_length(n) == highest_bit_index(n, BIGNUM_LIMBS) + 1
ByteLength(n) == (bignum_bit_length(n) + ByteBits - 1) \div ByteBits

-----------------------------------------------------------------------------
\* A message between 0 and the modulus, as PKCS#1 padding makes it, and any
\* exponent of one limb.
BignumInit ==
  /\ \E m \in Moduli : \E v \in 1 .. m - 1 : \E e \in 0 .. BASE - 1 :
       num = [base |-> Number(v, BIGNUM_LIMBS), exp |-> bignum_set_u32(e),
              mod |-> Number(m, BIGNUM_LIMBS)]
  /\ acc = bignum_set_u32(1)
  /\ bit = highest_bit_index(num.exp, BIGNUM_LIMBS)

\* One round of the loop of bignum_modexp().
bignum_modexp ==
  /\ bit >= 0
  /\ LET squared == bignum_mulmod(acc, acc, num.mod)
     IN  acc' = IF bignum_test_bit(num.exp, bit) THEN bignum_mulmod(squared, num.base, num.mod)
                ELSE squared
  /\ bit' = bit - 1
  /\ UNCHANGED num

-----------------------------------------------------------------------------
Power(b, e, m) ==
  LET p[k \in 0 .. e] == IF k = 0 THEN 1 % m ELSE (p[k - 1] * b) % m IN p[e]

\* After each round of bignum_modexp() the accumulator is the base to the power
\* of the exponent's bits seen so far, modulo the modulus, whatever carries,
\* borrows and shifts cross the limbs; and the result survives the way through
\* as many big-endian bytes as the modulus has.
PowerExact ==
  LET n == BIGNUM_LIMBS
      m == Value(num.mod, n)
      seen == Value(num.exp, n) \div 2 ^ (bit + 1)
      len == ByteLength(num.mod)
  IN  /\ Value(acc, n) = Power(Value(num.base, n), seen, m)
      /\ bignum_from_bytes_be(bignum_to_bytes_be(acc, len), len) = acc
=============================================================================
