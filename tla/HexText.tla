------------------------------ MODULE HexText ------------------------------
(***************************************************************************)
(* Calldata and address texts, byte by byte: three parsers of the calldata *)
(* in validate.rs, review.rs and evm.rs, two of EVM addresses and the Tron *)
(* decoder, on every text that can be typed.  A Rust str is UTF-8, so a    *)
(* text is a sequence of bytes and a slice that cuts a character panics.   *)
(*                                                                         *)
(* The lengths are constants (8, 24, 40, 64 and 34 in the code), so that   *)
(* TLC reaches texts on both sides of each.  Hex digits are themselves;    *)
(* a decoded byte is a pair of digits in lower case.                       *)
(***************************************************************************)
EXTENDS CompileTron, Validate, Review, Texts

CONSTANTS
  Selector,                        \* ERC20_TRANSFER_SELECTOR_HEX
  PadLen, HashLen, AmountLen,      \* hex digits of a transfer call after it
  Base58Len,                       \* bytes of a T... address
  Bs58(_)        \* the bytes that bs58 decodes a text to, or Undecodable

Lower == [ A |-> "a", B |-> "b", C |-> "c", D |-> "d", E |-> "e", F |-> "f" ]
LowerChar(c) == IF c \in DOMAIN Lower THEN Lower[c] ELSE c
to_ascii_lowercase(t) == [i \in DOMAIN t |-> LowerChar(t[i])]
LowerHexDigit == {"0", "1", "2", "3", "4", "5", "6", "7", "8", "9",
                  "a", "b", "c", "d", "e", "f"}
HexDigit == LowerHexDigit \cup DOMAIN Lower
AllHex(t) == \A i \in DOMAIN t : t[i] \in HexDigit
Undecodable == <<"none">>

ASSUME HexTextAssumption ==
  /\ PadLen \in Nat /\ HashLen \in Nat \ {0} /\ AmountLen \in Nat
  /\ Selector \in Seq(LowerHexDigit)
  /\ (Len(Selector) + PadLen + HashLen + AmountLen) % 2 = 0
  /\ Base58Len \in Nat
  /\ \A t \in [1..Base58Len -> Byte] : Bs58(t) \in {Undecodable} \cup Seq(LowerHexDigit)

----------------------------------------------------------------------------
(* &t[a..b] of a str: it panics outside the text and inside a character.   *)

SliceStr(t, a, b) ==
  Slice(a <= b /\ b <= Len(t) /\ Boundary(t, a) /\ Boundary(t, b))
Part(t, a, b) == SubSeq(t, a + 1, IF b <= Len(t) THEN b ELSE Len(t))

is_hex(t) == t # << >> /\ AllHex(t)

(* hex::decode *)
hex_decode(t) == Require(Len(t) % 2 = 0 /\ AllHex(t), "INVALID_CALLDATA")
Nibbles(t) == to_ascii_lowercase(t)   \* the digits of the bytes

----------------------------------------------------------------------------
(* EVM addresses.                                                          *)

EVM_ADDRESS_LEN == 2 + HashLen

MutAddressCharsOnly(t) ==
  Require(Len(t) = EVM_ADDRESS_LEN, "INVALID_ADDRESS")
  ?? SliceStr(t, 2, Len(t))
  ?? Require(AllHex(Part(t, 2, Len(t))), "INVALID_ADDRESS")
validate_evm_address_text(t) ==
  Require(Len(t) = EVM_ADDRESS_LEN, "INVALID_ADDRESS")
  ?? Require(IsPrefix(ZeroX, t), "INVALID_ADDRESS")
  ?? SliceStr(t, 2, Len(t))
  ?? Require(AllHex(Part(t, 2, Len(t))), "INVALID_ADDRESS")

(* alloy's parser: the 0x is optional *)
parse_address_text(t) ==
  Require(Len(strip_0x(t)) = HashLen /\ AllHex(strip_0x(t)), "INVALID_ADDRESS")
EvmHash(t) == Nibbles(strip_0x(t))

eq_ignore_ascii_case(t, w) == to_ascii_lowercase(t) = to_ascii_lowercase(w)

----------------------------------------------------------------------------
(* Tron addresses.                                                         *)

TronHexLen == 2 + HashLen
Prefix41 == <<"4", "1">>

MutHexPrefixUnstripped(t) == IF IsPrefix(Prefix41, t) /\ AllHex(t) THEN t ELSE << >>
(* the hex payload, or the empty text *)
strip_hex_prefix_text(t) ==
  LET unprefixed == strip_0x(t)
  IN IF Len(unprefixed) = TronHexLen /\ IsPrefix(Prefix41, unprefixed)
        /\ AllHex(Part(unprefixed, 2, Len(unprefixed)))
     THEN unprefixed ELSE << >>

strip_hex_prefix_slices(t) ==
  LET unprefixed == strip_0x(t)
  IN IF Len(unprefixed) = TronHexLen /\ IsPrefix(Prefix41, unprefixed)
     THEN SliceStr(unprefixed, 2, Len(unprefixed)) ELSE OK

MutShapeByPrefix(b) == Require(IsPrefix(Prefix41, b), "INVALID_ADDRESS")
enforce_shape_text(b) ==
  Require(Len(b) = TronHexLen /\ IsPrefix(Prefix41, b), "INVALID_ADDRESS")

TronTextBytes(t) ==
  IF strip_hex_prefix_text(t) # << >> THEN Nibbles(strip_hex_prefix_text(t))
  ELSE IF IsPrefix(<<"T">>, t) /\ Len(t) = Base58Len THEN Bs58(t)
  ELSE Undecodable

tron_address_to_bytes_text(t) ==
  strip_hex_prefix_slices(t)
  ?? Require(TronTextBytes(t) # Undecodable, "INVALID_ADDRESS")
  ?? enforce_shape_text(TronTextBytes(t))

----------------------------------------------------------------------------
(* Calldata.                                                               *)

SelectorLen == Len(Selector)
CallLen == SelectorLen + PadLen + HashLen + AmountLen
WordEnd == SelectorLen + PadLen + HashLen      \* 72
NoCalldata(t) == t \in {<< >>, ZeroX}
IsZeros(t) == \A i \in DOMAIN t : t[i] = "0"

RecipientText(hex) == ZeroX \o Part(hex, SelectorLen + PadLen, WordEnd)

validate_call_text(t) ==
  LET hex == strip_0x(t)
  IN Require(~NoCalldata(t), "INVALID_PAYLOAD")
     ?? Require(is_hex(hex), "INVALID_CALLDATA")
     ?? Require(Len(hex) = CallLen, "INVALID_CALLDATA")
     ?? SliceStr(hex, 0, SelectorLen)
     ?? Require(to_ascii_lowercase(Part(hex, 0, SelectorLen)) = Selector, "INVALID_CALLDATA")
     ?? SliceStr(hex, SelectorLen, WordEnd)
     ?? Require(IsZeros(Part(hex, SelectorLen, SelectorLen + PadLen)), "INVALID_CALLDATA")
     ?? validate_evm_address_text(RecipientText(hex))

MutReviewSliceFirst(t) ==
  LET hex == strip_0x(t)
  IN Require(Len(hex) = CallLen, "INVALID_CALLDATA")
     ?? SliceStr(hex, 0, SelectorLen)
     ?? Require(to_ascii_lowercase(Part(hex, 0, SelectorLen)) = Selector, "INVALID_CALLDATA")
     ?? SliceStr(hex, SelectorLen, WordEnd)
     ?? Require(IsZeros(Part(hex, SelectorLen, SelectorLen + PadLen)), "INVALID_CALLDATA")
     ?? SliceStr(hex, WordEnd, CallLen)
     ?? Require(is_hex(hex), "INVALID_CALLDATA")
review_call_text(t) ==
  LET hex == strip_0x(t)
  IN Require(is_hex(hex), "INVALID_CALLDATA")
     ?? Require(Len(hex) = CallLen, "INVALID_CALLDATA")
     ?? SliceStr(hex, 0, SelectorLen)
     ?? Require(to_ascii_lowercase(Part(hex, 0, SelectorLen)) = Selector, "INVALID_CALLDATA")
     ?? SliceStr(hex, SelectorLen, WordEnd)
     ?? Require(IsZeros(Part(hex, SelectorLen, SelectorLen + PadLen)), "INVALID_CALLDATA")
     ?? SliceStr(hex, WordEnd, CallLen)
MutReviewWordTooLow(t) == Part(strip_0x(t), WordEnd - 1, CallLen - 1)
ReviewAmount(t) == Part(strip_0x(t), WordEnd, CallLen)   \* the digits, base 16

MutDecodeUnstripped(t) == IF NoCalldata(t) THEN OK ELSE hex_decode(t)
decode_calldata_text(t) ==
  IF NoCalldata(t) THEN OK ELSE hex_decode(strip_0x(t))

(* What a token contract executes, by the digits of the bytes it is given. *)
ExecutedCall(t) ==
  LET d == Nibbles(strip_0x(t))
  IN [ selector |-> Part(d, 0, SelectorLen),
       pad |-> Part(d, SelectorLen, SelectorLen + PadLen),
       to |-> Part(d, SelectorLen + PadLen, WordEnd),
       amount |-> Part(d, WordEnd, Len(d)) ]

----------------------------------------------------------------------------
(* The records of TxTypes that a text is.                                  *)

(* Only the length 136 and its parity matter. *)
AbstractLen(n) ==
  IF n = CallLen THEN ERC20_TRANSFER_CALLDATA_HEX_LEN
  ELSE (ERC20_TRANSFER_CALLDATA_HEX_LEN + 2) + ((n - CallLen) % 2)

CalldataOf(t) ==
  LET hex == strip_0x(t)
      e == ExecutedCall(t)
  IN [ form |-> IF t = << >> THEN "empty" ELSE IF t = ZeroX THEN "0x" ELSE "call",
       hex |-> AllHex(hex), len |-> AbstractLen(Len(hex)),
       selector |-> e.selector = Selector, padded |-> IsZeros(e.pad),
       to |-> e.to, amount |-> 0 ]

HexOf(t, n) == Len(t) = n /\ AllHex(t)
AddressOf(t) ==
  LET h == strip_0x(t)
      b == Bs58(t)
  IN [ form |->
         IF t = << >> THEN "empty"
         ELSE IF HexOf(h, HashLen)
         THEN IF h = t THEN "hex40" ELSE IF h = Nibbles(h) THEN "0xhex40" ELSE "0xHEX40"
         ELSE IF HexOf(h, TronHexLen) /\ IsPrefix(Prefix41, h)
         THEN IF h = t THEN "41hex40" ELSE "0x41hex40"
         ELSE IF Head(t) = "T" /\ Len(t) = Base58Len
         THEN IF b = Undecodable THEN "base58BadSum"
              ELSE IF HexOf(b, TronHexLen) /\ IsPrefix(Prefix41, b) THEN "base58"
              ELSE "base58Foreign"
         ELSE "junk",
       acct |-> h ]

----------------------------------------------------------------------------
(* Properties.                                                             *)

(* No slice of a text leaves it or cuts a character, on any UTF-8 text:    *)
(* the checks that come first leave only texts with a boundary there       *)
(* (validate.rs:203,268,285, review.rs:69,88,98, tron_address.rs:70).      *)
SlicesInRange ==
  PANIC \notin {validate_call_text(text), review_call_text(text),
                validate_evm_address_text(text), tron_address_to_bytes_text(text)}

(* validate, review and compile read one transfer in a calldata text: what *)
(* one accepts all accept, the recipient and the amount that review shows  *)
(* are those of the bytes that compile signs, and no digit of the two      *)
(* words is left over (validate.rs:229-293, review.rs:45-106,              *)
(* evm.rs:121-134).                                                        *)
CalldataReadAlike ==
  LET e == ExecutedCall(text)
  IN /\ validate_call_text(text) = OK <=> review_call_text(text) = OK
     /\ review_call_text(text) = OK =>
          /\ decode_calldata_text(text) = OK
          /\ e = [ selector |-> Selector, pad |-> [i \in 1..PadLen |-> "0"],
                   to |-> EvmHash(RecipientText(strip_0x(text))),
                   amount |-> Nibbles(ReviewAmount(text)) ]

(* The record that the other modules have for a calldata text decides      *)
(* every check on it as its bytes do (validate.rs:235-293, review.rs:46,   *)
(* evm.rs:121).                                                            *)
CalldataIsFaithful ==
  LET d == CalldataOf(text)
      p == [ data |-> d, to |-> [form |-> "0xhex40", acct |-> 0],
             tokenContract |-> [form |-> "0xhex40", acct |-> 0], valueWei |-> Dec(0) ]
  IN /\ validate_evm_token_transfer(p) = validate_call_text(text)
     /\ decode_erc20_transfer_data(d) = review_call_text(text)
     /\ decode_calldata(d) = decode_calldata_text(text)

EvmTexts == {ZeroX \o h : h \in [1..HashLen -> Alphabet \cap HexDigit]}

(* An address text names one account on one chain: no text is an address   *)
(* of both chains; what validate accepts, alloy parses; two accepted texts *)
(* are equal in eq_ignore_ascii_case exactly when they name one account;   *)
(* and all spellings of a Tron address give its one 21-byte form           *)
(* (validate.rs:196-213,295, tron_address.rs:26-75).                       *)
AddressesReadAlike ==
  /\ parse_address_text(text) = OK => tron_address_to_bytes_text(text) # OK
  /\ validate_evm_address_text(text) = OK =>
       /\ parse_address_text(text) = OK
       /\ \A w \in EvmTexts : eq_ignore_ascii_case(text, w) <=> EvmHash(text) = EvmHash(w)
  /\ tron_address_to_bytes_text(text) = OK =>
       LET bytes == TronTextBytes(text)
       IN \A w \in {bytes, ZeroX \o bytes} :
            tron_address_to_bytes_text(w) = OK /\ TronTextBytes(w) = bytes

(* The forms of TxTypes decide on an address text what the code decides on *)
(* its bytes (validate.rs:196, tron_address.rs:26, evm.rs:205).            *)
AddressFormsAreFaithful ==
  LET a == AddressOf(text)
  IN /\ validate_evm_address(a) = validate_evm_address_text(text)
     /\ parse_address(a) = parse_address_text(text)
     /\ tron_address_to_bytes(a) = tron_address_to_bytes_text(text)
============================================================================
