----------------------------- MODULE MagicEnum -----------------------------
(***************************************************************************)
(* magic_enum: the names of an enumeration's members, which the log lines  *)
(* show.  An enumeration E is the function from the values of its members  *)
(* to their names; the compiler spells the name of a member in             *)
(* __PRETTY_FUNCTION__, and a cast for any other value.  An enumeration is *)
(* of int, without a specialisation of enum_range, and so of the subtype   *)
(* common: MAGIC_ENUM_AUTO_IS_FLAGS is not defined.                        *)
(***************************************************************************)
EXTENDS Integers, Sequences

RangeMin == -128
RangeMax == 127

NumericMin == -2147483647 - 1
NumericMax == 2147483647

IsValid(E, v) == v \in DOMAIN E

ReflectedMin == IF NumericMin < RangeMin THEN RangeMin ELSE NumericMin

ReflectedMax == IF RangeMax < NumericMax THEN RangeMax ELSE NumericMax

(* The value at index i of a range that begins with O. *)
Ualue(O, i) == i + O

(* Every value of the range is tried; the valid ones, in their order. *)
EnumValues(E) ==
    SelectSeq([i \in 1..(ReflectedMax - ReflectedMin + 1) |-> Ualue(ReflectedMin, i - 1)],
              LAMBDA v : IsValid(E, v))

EnumCount(E) == Len(EnumValues(E))

EnumNames(E) == [i \in 1..EnumCount(E) |-> E[EnumValues(E)[i]]]

MinV(E) == EnumValues(E)[1]

MaxV(E) == EnumValues(E)[EnumCount(E)]

IsSparse(E) == MaxV(E) - MinV(E) + 1 # EnumCount(E)

EnumValue(E, i) == IF IsSparse(E) THEN EnumValues(E)[i + 1] ELSE Ualue(MinV(E), i)

(* An optional is a set of at most one index.  A value between the least and *)
(* the greatest is found by subtraction when there are no gaps.              *)
EnumIndex(E, v) ==
    IF EnumCount(E) = 0 THEN {}
    ELSE IF IsSparse(E) THEN {i \in 0..(EnumCount(E) - 1) : EnumValue(E, i) = v}
    ELSE IF v >= MinV(E) /\ v <= MaxV(E) THEN {v - MinV(E)}
    ELSE {}

(* No name is an empty string, which the log prints as it is. *)
EnumName(E, v) ==
    IF EnumIndex(E, v) # {}
    THEN EnumNames(E)[(CHOOSE i \in EnumIndex(E, v) : TRUE) + 1]
    ELSE ""
=============================================================================
