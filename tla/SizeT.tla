------------------------------- MODULE SizeT --------------------------------
(***************************************************************************)
(* The integers that cross the bindings.  zstd speaks size_t: a result     *)
(* counts bytes, is 0, or is an error, which is one of the greatest        *)
(* numbers of the type.  Kotlin speaks Int and Long.  Widths are constants *)
(* here: 2^32 and 2^64 in the program, a few bits in a run.                *)
(***************************************************************************)
EXTENDS Integers

CONSTANTS
    IntModulus,     \* 2^32: jint and Int
    LongModulus,    \* 2^64: jlong and Long
    SizeModulus,    \* 2^32 or 2^64: size_t of the platform
    MaxCode         \* ZSTD_error_maxCode

ASSUME SizeTAssumption ==
    /\ IntModulus \in Nat \ {0}
    /\ LongModulus \in Nat \ {0}
    /\ SizeModulus \in Nat \ {0}
    /\ MaxCode \in Nat \ {0, 1} /\ MaxCode < SizeModulus
    /\ IntModulus =< SizeModulus
    /\ LongModulus = SizeModulus \/ 2 * SizeModulus =< LongModulus

Size_t == 0 .. SizeModulus - 1

\* A conversion to jint or Int keeps the low bits, the highest of them as the sign.
ToInt(n) ==
    LET low == n % IntModulus IN IF 2 * low < IntModulus THEN low ELSE low - IntModulus

\* The values of jlong and Long.
Long == {i \in Int : -LongModulus =< 2 * i /\ 2 * i < LongModulus}

\* Mutant: no sign.
Unsigned(n) == n

\* size_t to jlong or Long: a size_t as wide as the jlong may turn negative, a narrower
\* one does not.
ToLong(n) == IF 2 * n < LongModulus THEN n ELSE n - LongModulus

\* jlong, jint, Long or Int to size_t: sign-extended, then cut to the width.
ToSizeT(i) == i % SizeModulus

\* ZSTD_isError: the MaxCode - 1 greatest numbers are errors.
IsError(n) == n > SizeModulus - MaxCode

\* What a function returns for the error of this code.
Error(code) == SizeModulus - code

\* ZSTD_error_GENERIC is the code 1.
GenericError == Error(1)

NoName == 0

\* Mutant: errors are taken for the negative Longs, without a conversion back.
NameOfNegative(long) == IF long < 0 THEN -long ELSE NoName

\* getErrorName of a result that Kotlin got as a Long: no name, or that of a code.
ErrorName(long) ==
    IF IsError(ToSizeT(long)) THEN SizeModulus - ToSizeT(long) ELSE NoName

\* How far a position moved.  C++ narrows it and then subtracts, Kotlin/Native subtracts
\* in 64 bits and then narrows.
CountJni(pos, start) == ToInt(pos) - start
CountNative(pos, start) == ToInt((pos - ToSizeT(start)) % SizeModulus)
=============================================================================
