---------------------------- MODULE SizeT_proofs ----------------------------
(***************************************************************************)
(* The conversions lose nothing, whatever the widths.                      *)
(***************************************************************************)
EXTENDS SizeT, TLAPS

LEMMA ModSmall ==
    ASSUME NEW m \in Nat \ {0}, NEW r \in 0 .. m - 1
    PROVE  r % m = r
  BY SMT

LEMMA ModWrapped ==
    ASSUME NEW m \in Nat \ {0}, NEW r \in 0 .. m - 1
    PROVE  (r - m) % m = r
  BY SMT

\* A size_t that went to Kotlin in a Long comes back as itself.
THEOREM RoundTrip ==
    ASSUME NEW n \in Size_t
    PROVE  ToSizeT(ToLong(n)) = n
<1>1. CASE 2 * n < LongModulus
  BY <1>1, ModSmall, SizeTAssumption DEF Size_t, ToLong, ToSizeT
<1>2. CASE ~(2 * n < LongModulus)
  <2>1. LongModulus = SizeModulus
    BY <1>2, SizeTAssumption DEF Size_t
  <2>2. ToLong(n) = n - SizeModulus
    BY <1>2, <2>1 DEF ToLong
  <2>3. QED
    BY <2>2, ModWrapped, SizeTAssumption DEF Size_t, ToSizeT
<1>3. QED
  BY <1>1, <1>2

\* Zero, which tells a loop that it is finished, stays zero, and nothing else becomes it.
THEOREM ZeroSurvives ==
    ASSUME NEW n \in Size_t
    PROVE  ToLong(n) = 0 <=> n = 0
BY SizeTAssumption DEF Size_t, ToLong

\* getErrorName gives every error its own name, and a result that is none no name.
THEOREM ErrorSurvives ==
    /\ \A code \in 1 .. MaxCode - 1 : ErrorName(ToLong(Error(code))) = code
    /\ \A n \in 0 .. SizeModulus - MaxCode : ErrorName(ToLong(n)) = NoName
<1>1. ASSUME NEW code \in 1 .. MaxCode - 1
      PROVE  ErrorName(ToLong(Error(code))) = code
  <2>1. Error(code) \in Size_t /\ IsError(Error(code))
    BY SizeTAssumption DEF Error, Size_t, IsError
  <2>2. ToSizeT(ToLong(Error(code))) = Error(code)
    BY <2>1, RoundTrip
  <2>3. SizeModulus - Error(code) = code
    BY SizeTAssumption DEF Error
  <2>4. QED
    BY <2>1, <2>2, <2>3 DEF ErrorName
<1>2. ASSUME NEW n \in 0 .. SizeModulus - MaxCode
      PROVE  ErrorName(ToLong(n)) = NoName
  <2>1. n \in Size_t /\ ~IsError(n)
    BY SizeTAssumption DEF Size_t, IsError
  <2>2. ToSizeT(ToLong(n)) = n
    BY <2>1, RoundTrip
  <2>3. QED
    BY <2>1, <2>2 DEF ErrorName
<1>3. QED
  BY <1>1, <1>2

\* Both ways of counting how far zstd moved in an array give the same number.
THEOREM CountsExact ==
    ASSUME NEW start \in Nat, NEW pos \in Nat, start =< pos, 2 * pos < IntModulus
    PROVE  CountJni(pos, start) = pos - start /\ CountNative(pos, start) = pos - start
<1>1. ASSUME NEW n \in Nat, 2 * n < IntModulus
      PROVE  ToInt(n) = n
  <2>1. n \in 0 .. IntModulus - 1 /\ n % IntModulus = n
    BY <1>1, ModSmall, SizeTAssumption
  <2>2. QED
    BY <1>1, <2>1 DEF ToInt
<1>2. ToInt(pos) = pos /\ ToInt(pos - start) = pos - start
  <2>1. pos - start \in Nat /\ 2 * (pos - start) < IntModulus
    BY SizeTAssumption
  <2>2. QED
    BY <1>1, <2>1
<1>3. ToSizeT(start) = start /\ (pos - start) % SizeModulus = pos - start
  <2>1. start \in 0 .. SizeModulus - 1 /\ pos - start \in 0 .. SizeModulus - 1
    BY SizeTAssumption
  <2>2. QED
    BY <2>1, ModSmall, SizeTAssumption DEF ToSizeT
<1>4. QED
  BY <1>2, <1>3 DEF CountJni, CountNative
=============================================================================
