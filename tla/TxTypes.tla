------------------------------ MODULE TxTypes ------------------------------
(***************************************************************************)
(* The data of the transaction compiler: src/src/types.rs, constants.rs    *)
(* and the error codes of error.rs.                                        *)
(*                                                                         *)
(* Texts are abstracted to what the code's parsers tell apart, numbers to  *)
(* integers whose machine widths are constants (U64Max stands for 2^64-1   *)
(* and so on), so that TLC can reach every boundary with small numbers and *)
(* the theorems hold for the real widths.                                  *)
(***************************************************************************)
EXTENDS Integers

CONSTANTS
  Accounts,      \* the 20-byte account identities an address text can name
  BlockIds,      \* the 32-byte Tron block identifiers
  SafeMax,       \* MAX_SAFE_JS_INT, 2^53 - 1
  U32Max, I64Max, U64Max, U128Max, U256Max,
  DecimalCap,    \* 10^MAX_DECIMAL_LEN: the first number of 79 digits
  RefBlockMod,   \* 2^16: header.n & 0xffff is header.n % RefBlockMod
  ExpirationMs   \* EXPIRATION_MS, the Tron expiration window

ASSUME WidthAssumption ==
  /\ {SafeMax, U32Max, I64Max, U64Max, U128Max, U256Max, DecimalCap} \subseteq Nat
  /\ 0 < SafeMax /\ SafeMax <= I64Max /\ U32Max <= I64Max
  /\ I64Max < U64Max /\ U64Max < U128Max /\ U128Max < U256Max
  /\ U256Max < DecimalCap
  /\ U64Max * U128Max <= U256Max
  /\ RefBlockMod \in Nat \ {0}
  /\ ExpirationMs \in 1..U64Max

----------------------------------------------------------------------------
(* Results.  A Rust Result is a record whose field "code" is OK or the     *)
(* error's code; PANIC is the outcome of a slice out of range.             *)

OK == "OK"
PANIC == "PANIC"

ErrorCodes ==
  { "INVALID_PAYLOAD", "UNSUPPORTED_CHAIN", "UNSUPPORTED_TX_TYPE",
    "UNSUPPORTED_FEE_MODE", "INVALID_ADDRESS", "INVALID_AMOUNT",
    "MISSING_FEE_PARAMS", "INVALID_BLOCK_HEADER", "INVALID_CALLDATA",
    "COMPILATION_FAILED" }

Codes == {OK, PANIC} \cup ErrorCodes

Require(cond, error) == IF cond THEN OK ELSE error   \* if !cond { return Err }
Slice(inRange) == Require(inRange, PANIC)            \* &s[a..b]
a ?? b == IF a = OK THEN b ELSE a                    \* a?; b

----------------------------------------------------------------------------
(* Enumerations.                                                           *)

Chain == {"ethereum", "tron"}
FeeMode == {"EIP1559", "LEGACY", "TRON"}
TxType == {"TRANSFER_NATIVE", "TRANSFER_TOKEN"}

TRON_CONTRACT_TYPE_TRANSFER == 1
TRON_CONTRACT_TYPE_TRIGGER_SMART == 31
EVM_TX_TYPE_EIP1559 == 2
EVM_TX_TYPE_LEGACY == 0
ERC20_TRANSFER_CALLDATA_HEX_LEN == 136
BLOCK_ID_HEX_LEN == 64

----------------------------------------------------------------------------
(* Numerals.  An Option<String> that should hold a decimal number:         *)
(*   "none"     None                                                       *)
(*   "canon"    "0", or digits with no leading zero                        *)
(*   "padded"   digits with a leading zero, such as "007"                  *)
(*   "signed"   digits after a "+"                                         *)
(*   "grouped"  digits and "_" ("" is the grouped form of 0)               *)
(*   "junk"     a text that no parser of numbers reads                     *)
(* An Option<i64> or Option<u64> is "none" or "canon".                     *)

NumeralForms == {"none", "canon", "padded", "signed", "grouped", "junk"}
None == [form |-> "none", val |-> 0]
StringNumeral == [form : NumeralForms \ {"none"}, val : Nat]
Numeral == {None} \cup StringNumeral
Dec(n) == [form |-> "canon", val |-> n]
IsSome(x) == x.form # "none"
or(x, y) == IF IsSome(x) THEN x ELSE y   \* Option::or
OptI64 == {None} \cup {Dec(i) : i \in (-I64Max - 1)..I64Max}
OptU64 == {None} \cup {Dec(i) : i \in 0..U64Max}

(* str::parse of uN takes a leading "+" and leading zeros; ruint's         *)
(* from_str_radix takes leading zeros and skips "_".                       *)
FitsUint(s, max) == s.form \in {"canon", "padded", "signed"} /\ s.val <= max
FitsU256(s) == s.form \in {"canon", "padded", "grouped"} /\ s.val <= U256Max

----------------------------------------------------------------------------
(* Address texts: an encoding of an account identity.                      *)

AddressForms ==
  { "none", "empty", "blank", "junk",
    "0xhex40", "0xHEX40",   \* 42 characters, lower and mixed case
    "hex40",                \* the same without the 0x
    "41hex40", "0x41hex40", \* Tron hex
    "base58",               \* T..., good checksum, prefix byte 0x41
    "base58Foreign",        \* T..., good checksum, another prefix byte
    "base58BadSum" }        \* T..., wrong checksum
AddressText == [form : AddressForms, acct : Accounts]
StringAddress == [form : AddressForms \ {"none"}, acct : Accounts]

LowerCase(a) == IF a.form = "0xHEX40" THEN [a EXCEPT !.form = "0xhex40"] ELSE a

----------------------------------------------------------------------------
(* Calldata texts.  "call" is any text but "" and "0x": its characters     *)
(* after an optional 0x are hex or not, "len" many of them; "selector" and *)
(* "padded" say whether the first 8 spell transfer(address,uint256) and    *)
(* whether the 24 after them are '0'; "to" and "amount" are the account    *)
(* and the number in the two argument words.                               *)

Calldata == [ form : {"none", "empty", "0x", "call"}, hex : BOOLEAN, len : Nat,
              selector : BOOLEAN, padded : BOOLEAN,
              to : Accounts, amount : 0..U256Max ]

Carries(d) == d.form = "call"   \* Some(d) with d neither "" nor "0x"

----------------------------------------------------------------------------
(* The Tron block header; h is a text of "len" bytes, hex or not, that     *)
(* spells the block id "id" when it is 64 hex digits; "info" is the worst  *)
(* of the three informational fields p, r and w.                           *)

HashText == [hex : BOOLEAN, len : Nat, id : BlockIds]
InfoField == {"none", "short", "long"}
TronBlockHeader ==
  [ form : {"object"}, h : HashText, n : 0..U64Max, t : 0..U64Max,
    v : 0..U32Max, info : InfoField ]
  \cup
  [form : {"none"}, h : HashText, n : {0}, t : {0}, v : {0}, info : InfoField]

FeeParams ==
  [ mode : FeeMode, gasLimit : Numeral, baseFeePerGas : Numeral,
    maxPriorityFeePerGas : Numeral, maxFeePerGas : Numeral,
    gasPrice : Numeral, el : Numeral, rp : TronBlockHeader ]

PreparedTransaction ==
  [ chain : Chain, chainId : OptI64, from : StringAddress, to : StringAddress,
    valueWei : StringNumeral, data : Calldata, txType : TxType,
    tokenContract : AddressText, nonce : Numeral, fee : FeeParams ]
============================================================================
