---------------------------- MODULE NumeralText ----------------------------
(***************************************************************************)
(* The texts behind the numerals of TxTypes, character by character: what  *)
(* is_non_neg_int accepts, and what str::parse and ruint's from_str_radix  *)
(* read, on every text that can be typed.  The other modules know a        *)
(* numeral by its form; this one shows that the form tells apart what the  *)
(* three parsers tell apart.                                               *)
(***************************************************************************)
EXTENDS Validate, Texts

CONSTANT MAX_DECIMAL_LEN    \* 78 in the code

Pow10[n \in Nat] == IF n = 0 THEN 1 ELSE 10 * Pow10[n - 1]

ASSUME NumeralTextAssumption ==
  MAX_DECIMAL_LEN \in Nat \ {0} /\ DecimalCap = Pow10[MAX_DECIMAL_LEN]

----------------------------------------------------------------------------
(* Characters and the numbers they spell.                                  *)

Digits == <<"0", "1", "2", "3", "4", "5", "6", "7", "8", "9">>
Digit == {Digits[i] : i \in DOMAIN Digits}
DigitVal(c) == (CHOOSE i \in DOMAIN Digits : Digits[i] = c) - 1
AllDigits(t) == \A i \in DOMAIN t : t[i] \in Digit
Value(t) ==
  LET upto[k \in 0..Len(t)] == IF k = 0 THEN 0 ELSE upto[k - 1] * 10 + DigitVal(t[k])
  IN upto[Len(t)]

(* to_string of an unsigned integer *)
to_string(n) ==
  LET write[m \in Nat] ==
        IF m < 10 THEN <<Digits[m + 1]>> ELSE Append(write[m \div 10], Digits[(m % 10) + 1])
  IN write[n]

----------------------------------------------------------------------------
(* The parsers.  Each gives the number it reads, or Refused.               *)

Refused == -1

MutAcceptsLeadingZero(t) == t # << >> /\ Len(t) <= MAX_DECIMAL_LEN /\ AllDigits(t)
is_non_neg_int_text(t) ==
  /\ t # << >> /\ Len(t) <= MAX_DECIMAL_LEN
  /\ \/ t = <<"0">>
     \/ Head(t) \in Digit \ {"0"} /\ AllDigits(Tail(t))

(* str::parse of a uN: one "+" may precede the digits *)
parse_text(t, max) ==
  LET digits == IF t # << >> /\ Head(t) = "+" THEN Tail(t) ELSE t
  IN IF digits # << >> /\ AllDigits(digits) /\ Value(digits) <= max
     THEN Value(digits) ELSE Refused

(* ruint: "_" is skipped wherever it stands *)
Ungrouped(t) ==
  LET kept[k \in 0..Len(t)] ==
        IF k = 0 THEN << >>
        ELSE IF t[k] = "_" THEN kept[k - 1] ELSE Append(kept[k - 1], t[k])
  IN kept[Len(t)]
from_str_radix_text(t) ==
  LET digits == Ungrouped(t)
  IN IF AllDigits(digits) /\ Value(digits) <= U256Max THEN Value(digits) ELSE Refused

----------------------------------------------------------------------------
(* The numeral of TxTypes that a text is.                                  *)

NumeralOf(t) ==
  IF t # << >> /\ AllDigits(t)
  THEN [form |-> IF t = <<"0">> \/ Head(t) # "0" THEN "canon" ELSE "padded", val |-> Value(t)]
  ELSE IF Len(t) > 1 /\ Head(t) = "+" /\ AllDigits(Tail(t))
  THEN [form |-> "signed", val |-> Value(Tail(t))]
  ELSE IF \A i \in DOMAIN t : t[i] \in Digit \cup {"_"}
  THEN [form |-> "grouped", val |-> Value(Ungrouped(t))]
  ELSE [form |-> "junk", val |-> 0]

----------------------------------------------------------------------------
(* Properties.                                                             *)

Widths == {U64Max, U128Max}

(* A text that validate accepts is the one way to write its number, and    *)
(* the parsers of compile and review, which know other ways, read that     *)
(* number or refuse it for its width alone: no accepted text is one number *)
(* to review and another, or none, to compile                              *)
(* (validate.rs:641-654, evm.rs:215-243, review.rs:158-167).               *)
AcceptedReadAlike ==
  is_non_neg_int_text(text) =>
    LET n == from_str_radix_text(text)
    IN /\ n = IF Value(text) <= U256Max THEN Value(text) ELSE Refused
       /\ \A max \in Widths :
            parse_text(text, max) = IF Value(text) <= max THEN n ELSE Refused
       /\ n # Refused => to_string(n) = text
       /\ Value(text) < DecimalCap

(* The forms of TxTypes lose nothing: on every text, the checks of the     *)
(* other modules decide on its numeral what the code decides on its        *)
(* characters, and with the same number (validate.rs:641, evm.rs:215-243). *)
NumeralsAreFaithful ==
  LET s == NumeralOf(text)
  IN /\ is_non_neg_int(s) <=> is_non_neg_int_text(text)
     /\ \A max \in Widths :
          parse_text(text, max) = IF FitsUint(s, max) THEN s.val ELSE Refused
     /\ from_str_radix_text(text) = IF FitsU256(s) THEN s.val ELSE Refused
============================================================================
