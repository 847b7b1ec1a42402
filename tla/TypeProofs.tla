---------------------------- MODULE TypeProofs ----------------------------
(***************************************************************************)
(* What validate guarantees of a payload it accepts, and the type          *)
(* correctness of every session, for every choice of the constants.        *)
(***************************************************************************)
EXTENDS TxProperties, TLAPS

----------------------------------------------------------------------------
(* What validate guarantees.                                               *)

(* A sequence of checks passes when each check passes. *)
LEMMA ThenOK == ASSUME NEW a, NEW b PROVE (a ?? b = OK) <=> (a = OK /\ b = OK)
  BY DEF ??

(* A sequence of checks returns one of the codes. *)
LEMMA ThenCode ==
  ASSUME NEW a \in Codes, NEW b, a = OK => b \in Codes PROVE (a ?? b) \in Codes
  BY DEF ??

(* A check passes exactly when its condition holds. *)
LEMMA RequireOK ==
  ASSUME NEW c \in BOOLEAN, NEW e \in ErrorCodes
  PROVE (Require(c, e) = OK) <=> c
  BY DEF Require, ErrorCodes, OK

(* A check returns one of the codes. *)
LEMMA RequireCode ==
  ASSUME NEW c, NEW e \in ErrorCodes PROVE Require(c, e) \in Codes
  BY DEF Require, Codes

(* A required amount that passes is a decimal text (validate.rs:525). *)
LEMMA IntStringOK ==
  ASSUME NEW j \in Json, require_int_string(j) = OK
  PROVE  /\ coerce_to_string(j) \in StringNumeral
         /\ Decimal(coerce_to_string(j))
  BY WidthAssumption
     DEF require_int_string, is_non_neg_int, coerce_to_string, Decimal, Require,
         OK, Json, StringNumeral, NumeralForms, None, Dec, AsU64

(* An optional amount that passes is None or a decimal (validate.rs:537). *)
LEMMA OptIntStringOK ==
  ASSUME NEW j \in Json, optional_int_string(j) = OK
  PROVE  /\ coerce_to_string(j) \in Numeral
         /\ OptDecimal(coerce_to_string(j))
  BY IntStringOK
     DEF optional_int_string, coerce_to_string, OptDecimal, IsSome, Json, None, Dec,
         Numeral, StringNumeral, NumeralForms, AsU64

(* A block header that passes is typed and canonical (validate.rs:406). *)
LEMMA HeaderOK ==
  ASSUME NEW rp \in RawHeader, optional_block_header(rp) = OK
  PROVE  /\ HeaderOf(rp) \in TronBlockHeader
         /\ CanonicalHeader(HeaderOf(rp))
  <1>1. CASE rp.form = "none"
    BY <1>1, WidthAssumption
       DEF HeaderOf, TronBlockHeader, CanonicalHeader, RawHeader, IsSome
  <1>2. CASE rp.form # "none"
    <2>1. /\ rp.form = "object" /\ rp.h.len = BLOCK_ID_HEX_LEN /\ rp.h.hex
          /\ rp.info # "long"
          /\ AsU64(rp.n) /\ rp.n.s.val > 0
          /\ AsU64(rp.t) /\ rp.t.s.val > 0
          /\ AsU64(rp.v) /\ rp.v.s.val <= U32Max
      BY <1>2 DEF optional_block_header, ??, Require, OK, require_positive_int,
                  require_non_neg_int
    <2> QED
      BY <2>1, WidthAssumption
         DEF HeaderOf, TronBlockHeader, CanonicalHeader, RawHeader, AsU64
  <1> QED
    BY <1>1, <1>2

(* A fee object that passes is typed, canonical and of a mode that the *)
(* chain has (validate.rs:318).                                        *)
LEMMA FeeOK ==
  ASSUME NEW fee \in RawFee, NEW chain, validate_fee(fee, chain) = OK
  PROVE  /\ FeeOf(fee) \in FeeParams
         /\ CanonicalFee(FeeOf(fee))
         /\ chain = "tron" <=> FeeOf(fee).mode = "TRON"
  <1>1. /\ fee.mode \in FeeMode
        /\ chain = "tron" <=> fee.mode = "TRON"
        /\ optional_int_string(fee.gasLimit) = OK
        /\ optional_int_string(fee.baseFeePerGas) = OK
        /\ optional_int_string(fee.maxPriorityFeePerGas) = OK
        /\ optional_int_string(fee.maxFeePerGas) = OK
        /\ optional_int_string(fee.gasPrice) = OK
        /\ optional_int_string(fee.el) = OK
        /\ optional_block_header(fee.rp) = OK
        /\ mode_requires(FeeOf(fee)) = OK
    BY ZenonT(60) DEF validate_fee, ??, Require, OK
  <1>2. /\ fee.gasLimit \in Json /\ fee.baseFeePerGas \in Json
        /\ fee.maxPriorityFeePerGas \in Json /\ fee.maxFeePerGas \in Json
        /\ fee.gasPrice \in Json /\ fee.el \in Json /\ fee.rp \in RawHeader
    BY DEF RawFee
  <1>3. FeeOf(fee) \in FeeParams
    BY <1>1, <1>2, OptIntStringOK, HeaderOK DEF FeeOf, FeeParams
  <1>4. CanonicalFee(FeeOf(fee))
    <2>1. /\ FeeOf(fee).mode = "EIP1559" =>
               /\ IsSome(FeeOf(fee).gasLimit) /\ IsSome(FeeOf(fee).maxFeePerGas)
               /\ IsSome(FeeOf(fee).maxPriorityFeePerGas)
          /\ FeeOf(fee).mode = "LEGACY" =>
               /\ IsSome(FeeOf(fee).gasLimit)
               /\ IsSome(FeeOf(fee).gasPrice) \/ IsSome(FeeOf(fee).maxFeePerGas)
          /\ FeeOf(fee).mode = "TRON" => IsSome(FeeOf(fee).rp)
      BY <1>1 DEF mode_requires, ??, Require, OK
    <2>2. /\ OptDecimal(FeeOf(fee).gasLimit) /\ OptDecimal(FeeOf(fee).baseFeePerGas)
          /\ OptDecimal(FeeOf(fee).maxPriorityFeePerGas)
          /\ OptDecimal(FeeOf(fee).maxFeePerGas)
          /\ OptDecimal(FeeOf(fee).gasPrice) /\ OptDecimal(FeeOf(fee).el)
          /\ CanonicalHeader(FeeOf(fee).rp)
      BY <1>1, <1>2, OptIntStringOK, HeaderOK DEF FeeOf
    <2> QED
      BY <2>1, <2>2 DEF CanonicalFee
  <1> QED
    BY SMTT(60), <1>1, <1>3, <1>4 DEF FeeOf

(* What validate builds is a PreparedTransaction (validate.rs:80). *)
LEMMA PreparedTyped ==
  ASSUME NEW raw \in RawPayload, validate(raw) = OK
  PROVE  PreparedOf(raw) \in PreparedTransaction
  <1>1. /\ raw.chain \in Chain /\ raw.txType \in TxType
        /\ IsSome(raw.from) /\ IsSome(raw.to)
        /\ require_int_string(raw.valueWei) = OK
        /\ optional_int_string(raw.nonce) = OK
        /\ validate_fee(raw.fee, raw.chain) = OK
    BY DEF validate, ??, Require, OK, require_non_empty_string, IsSome
  <1>2. /\ raw.valueWei \in Json /\ raw.nonce \in Json /\ raw.chainId \in Json
        /\ raw.fee \in RawFee
        /\ raw.data \in Calldata /\ raw.tokenContract \in AddressText
        /\ raw.from \in AddressText /\ raw.to \in AddressText
    BY DEF RawPayload
  <1>3. optional_number(raw.chainId) \in OptI64
    BY <1>2, WidthAssumption DEF optional_number, OptI64, AsI64, Json, Dec, None
  <1>4. optional_string(raw.data) \in Calldata
    BY <1>2 DEF optional_string, Calldata
  <1>5. optional_string(raw.tokenContract) \in AddressText
    BY <1>2 DEF optional_string, AddressText, AddressForms
  <1>6. raw.from \in StringAddress /\ raw.to \in StringAddress
    BY <1>1, <1>2 DEF StringAddress, AddressText, IsSome
  <1>7. FeeOf(raw.fee) \in FeeParams
    BY <1>1, <1>2, FeeOK
  <1>8. /\ coerce_to_string(raw.valueWei) \in StringNumeral
        /\ coerce_to_string(raw.nonce) \in Numeral
    BY <1>1, <1>2, IntStringOK, OptIntStringOK
  <1> QED
    BY <1>1, <1>3, <1>4, <1>5, <1>6, <1>7, <1>8 DEF PreparedOf, PreparedTransaction

(* The address checks accept exactly the address texts of the chain. *)
LEMMA AddressOK ==
  ASSUME NEW a
  PROVE  /\ validate_evm_address(a) = OK <=> EvmAddress(a)
         /\ validate_tron_address(a) = OK <=> TronAddressText(a)
         /\ tron_address_to_bytes(a) = OK <=> TronAddressText(a)
  <1>1. tron_address_to_bytes(a) = OK <=> TronAddressText(a)
    BY DEF tron_address_to_bytes, strip_hex_prefix, Base58Decodes, TronBytes, enforce_shape,
           TronAddressText, ??, Require, OK
  <1> QED
    BY <1>1 DEF validate_evm_address, validate_tron_address, EvmAddress, Require, OK

(* The checks over a whole payload make it canonical (validate.rs:44-78). *)
LEMMA IntentOK ==
  ASSUME NEW p \in PreparedTransaction, intent_checks(p) = OK,
         Decimal(p.valueWei), OptDecimal(p.nonce), CanonicalFee(p.fee),
         p.chain = "tron" <=> p.fee.mode = "TRON"
  PROVE  Canonical(p)
  <1>1. /\ p.chain = "ethereum" => validate_evm_fields(p) = OK
        /\ p.chain # "ethereum" => validate_tron_fields(p) = OK
        /\ p.txType = "TRANSFER_NATIVE" /\ p.chain = "ethereum" => ~Carries(p.data)
        /\ p.txType = "TRANSFER_TOKEN" => IsSome(p.tokenContract)
        /\ p.txType = "TRANSFER_TOKEN" /\ p.chain = "ethereum" =>
             validate_evm_token_transfer(p) = OK
    BY DEF intent_checks, ??, Require, OK
  <1>2. p.chain \in Chain /\ p.fee.mode \in FeeMode
    BY DEF PreparedTransaction, FeeParams
  <1>3. ASSUME p.chain = "ethereum" PROVE CanonicalEvm(p)
    <2>1. /\ IsSome(p.chainId) /\ p.chainId.val >= 1
          /\ IsSome(p.nonce) /\ p.nonce.val <= SafeMax
          /\ EvmAddress(p.from) /\ EvmAddress(p.to)
          /\ IsSome(p.tokenContract) => EvmAddress(p.tokenContract)
      BY <1>1, <1>3, AddressOK DEF validate_evm_fields, ??, Require, OK
    <2>2. ASSUME p.txType = "TRANSFER_TOKEN" PROVE CanonicalTransferCall(p)
      <3>1. /\ Carries(p.data) /\ p.data.hex /\ p.data.selector /\ p.data.padded
            /\ p.data.len = ERC20_TRANSFER_CALLDATA_HEX_LEN
            /\ LowerCase(p.to) = LowerCase(p.tokenContract)
            /\ p.valueWei = Dec(0)
        BY <1>1, <1>3, <2>2 DEF validate_evm_token_transfer, ??, Require, Slice, OK, PANIC
      <3>2. p.to.acct = LowerCase(p.to).acct
        BY DEF LowerCase, PreparedTransaction, StringAddress
      <3>3. p.tokenContract.acct = LowerCase(p.tokenContract).acct
        BY DEF LowerCase, PreparedTransaction, AddressText
      <3> QED
        BY SMTT(60), <3>1, <3>2, <3>3 DEF CanonicalTransferCall, Dec
    <2> QED
      BY <1>1, <1>2, <1>3, <2>1, <2>2 DEF CanonicalEvm, OptDecimal, FeeMode
  <1>4. ASSUME p.chain # "ethereum" PROVE CanonicalTron(p)
    <2>1. validate_tron_fields(p) = OK
      BY <1>1, <1>4
    <2>2. /\ TronAddressText(p.from) /\ TronAddressText(p.to)
          /\ IsSome(p.tokenContract) => TronAddressText(p.tokenContract)
      BY <2>1, AddressOK DEF validate_tron_fields, ??, OK
    <2> QED
      BY <1>2, <1>4, <2>2 DEF CanonicalTron, Chain
  <1> QED
    BY <1>1, <1>3, <1>4 DEF Canonical

(* What validate accepts is canonical (validate.rs:28). *)
LEMMA ValidateOK ==
  ASSUME NEW raw \in RawPayload, validate(raw) = OK
  PROVE  Canonical(PreparedOf(raw))
  <1>1. /\ require_int_string(raw.valueWei) = OK
        /\ optional_int_string(raw.nonce) = OK
        /\ validate_fee(raw.fee, raw.chain) = OK
        /\ intent_checks(PreparedOf(raw)) = OK
    BY DEF validate, ??, OK
  <1>2. /\ raw.valueWei \in Json /\ raw.nonce \in Json /\ raw.fee \in RawFee
    BY DEF RawPayload
  <1>3. /\ CanonicalFee(FeeOf(raw.fee))
        /\ raw.chain = "tron" <=> FeeOf(raw.fee).mode = "TRON"
    BY <1>1, <1>2, FeeOK
  <1>4. /\ Decimal(coerce_to_string(raw.valueWei))
        /\ OptDecimal(coerce_to_string(raw.nonce))
    BY <1>1, <1>2, IntStringOK, OptIntStringOK
  <1>5. PreparedOf(raw) \in PreparedTransaction
    BY PreparedTyped
  <1>6. /\ PreparedOf(raw).valueWei = coerce_to_string(raw.valueWei)
        /\ PreparedOf(raw).nonce = coerce_to_string(raw.nonce)
        /\ PreparedOf(raw).fee = FeeOf(raw.fee)
        /\ PreparedOf(raw).chain = raw.chain
    BY DEF PreparedOf
  <1> QED
    BY SMTT(60), <1>1, <1>3, <1>4, <1>5, <1>6, IntentOK

(* The field helpers return codes. *)
LEMMA FieldCodes ==
  /\ \A j : require_int_string(j) \in Codes /\ optional_int_string(j) \in Codes
  /\ \A a : tron_address_to_bytes(a) \in Codes /\ validate_evm_address(a) \in Codes
            /\ validate_tron_address(a) \in Codes /\ require_non_empty_string(a) \in Codes
  /\ \A rp : optional_block_header(rp) \in Codes
  BY SMTT(60) DEF require_int_string, optional_int_string, tron_address_to_bytes, enforce_shape,
         validate_evm_address, validate_tron_address, require_non_empty_string,
         optional_block_header, require_positive_int, require_non_neg_int,
         ??, Require, Codes, ErrorCodes, OK

(* validate returns one of the codes. *)
LEMMA ValidateCodes == ASSUME NEW raw PROVE validate(raw) \in Codes
  <1>1. ASSUME NEW fee, fee.mode \in FeeMode PROVE mode_requires(fee) \in Codes
    BY <1>1 DEF mode_requires, FeeMode, ??, Require, Codes, ErrorCodes, OK
  <1>2. ASSUME NEW fee, NEW chain PROVE validate_fee(fee, chain) \in Codes
    <2>1. CASE fee.form = "object" /\ fee.mode \in FeeMode
      <3>1. FeeOf(fee).mode \in FeeMode
        BY <2>1 DEF FeeOf
      <3> QED
        BY ZenonT(60), <2>1, <3>1, <1>1, FieldCodes
           DEF validate_fee, ??, Require, Codes, ErrorCodes, OK
    <2>2. CASE ~(fee.form = "object" /\ fee.mode \in FeeMode)
      BY ZenonT(60), <2>2 DEF validate_fee, ??, Require, Codes, ErrorCodes, OK
    <2> QED
      BY SMTT(60), <2>1, <2>2
  <1>3. ASSUME NEW p PROVE intent_checks(p) \in Codes
    <2>1. validate_evm_fields(p) \in Codes /\ validate_tron_fields(p) \in Codes
      BY FieldCodes DEF validate_evm_fields, validate_tron_fields, ??, Require, Codes,
                        ErrorCodes, OK
    <2>2. validate_evm_token_transfer(p) \in Codes
      BY DEF validate_evm_token_transfer, ??, Require, Slice, Codes, ErrorCodes, OK, PANIC
    <2> QED
      BY <2>1, <2>2 DEF intent_checks, ??, Require, Codes, ErrorCodes, OK
  <1> QED
    BY <1>2, <1>3, FieldCodes DEF validate, ??, Require, Codes, ErrorCodes, OK

----------------------------------------------------------------------------
(* Types of what review and compile return.                                *)

(* A number in decimal is a numeral. *)
LEMMA DecTyped == ASSUME NEW n \in Nat PROVE Dec(n) \in Numeral /\ Dec(n).val = n
  BY DEF Dec, Numeral, StringNumeral, NumeralForms

(* None is a numeral. *)
LEMMA NoneTyped == None \in Numeral
  BY DEF Numeral

(* The number of a numeral is a natural. *)
LEMMA NumeralVal == \A x \in Numeral : x.val \in Nat
  BY DEF Numeral, StringNumeral, None

(* multiply_decimal returns a numeral (review.rs:158). *)
LEMMA MultiplyTyped ==
  ASSUME NEW a \in Numeral, NEW b \in Numeral PROVE multiply_decimal(a, b) \in Numeral
  <1>1. a.val \in Nat /\ b.val \in Nat
    BY NumeralVal
  <1>2. a.val * b.val \in Nat
    BY <1>1
  <1>3. U256Max \in Nat
    BY WidthAssumption
  <1> QED
    BY <1>2, <1>3, DecTyped DEF multiply_decimal, U256Text

(* build_fee_review returns a FeeReview (review.rs:109). *)
LEMMA FeeReviewTyped ==
  ASSUME NEW fee \in FeeParams PROVE build_fee_review(fee) \in FeeReview
  <1>1. /\ fee.mode \in FeeMode
        /\ fee.gasLimit \in Numeral /\ fee.baseFeePerGas \in Numeral
        /\ fee.maxPriorityFeePerGas \in Numeral /\ fee.maxFeePerGas \in Numeral
        /\ fee.gasPrice \in Numeral /\ fee.el \in Numeral
    BY DEF FeeParams
  <1>2. ASSUME NEW x \in Numeral PROVE unwrap_or_0(x) \in Numeral
    BY DecTyped DEF unwrap_or_0
  <1>3. or(fee.gasPrice, fee.maxFeePerGas) \in Numeral
    BY <1>1 DEF or
  <1>4. ASSUME NEW m \in FeeMode PROVE EmptyFeeReview(m) \in FeeReview
    BY NoneTyped DEF EmptyFeeReview, FeeReview
  <1>5. CASE fee.mode = "EIP1559"
    <2>1. multiply_decimal(unwrap_or_0(fee.gasLimit), unwrap_or_0(fee.maxFeePerGas)) \in Numeral
      BY <1>1, <1>2, MultiplyTyped
    <2> QED
      BY <1>1, <1>2, <1>4, <1>5, <2>1 DEF build_fee_review, FeeReview, FeeMode
  <1>6. CASE fee.mode = "LEGACY"
    <2>1. multiply_decimal(unwrap_or_0(fee.gasLimit),
                           unwrap_or_0(or(fee.gasPrice, fee.maxFeePerGas))) \in Numeral
      BY <1>1, <1>2, <1>3, MultiplyTyped
    <2> QED
      BY <1>1, <1>2, <1>3, <1>4, <1>6, <2>1 DEF build_fee_review, FeeReview, FeeMode
  <1>7. CASE fee.mode = "TRON"
    BY <1>1, <1>4, <1>7 DEF build_fee_review, FeeReview, FeeMode
  <1> QED
    BY <1>1, <1>5, <1>6, <1>7 DEF FeeMode

(* review returns its Result (review.rs:16). *)
LEMMA ReviewTyped ==
  ASSUME NEW p \in PreparedTransaction PROVE review(p) \in ReviewResult
  <1>1. /\ p.chain \in Chain /\ p.txType \in TxType /\ p.from \in AddressText
        /\ p.to \in AddressText /\ p.valueWei \in Numeral /\ p.data \in Calldata
        /\ p.tokenContract \in AddressText /\ p.nonce \in Numeral
        /\ p.chainId \in OptI64 /\ p.fee \in FeeParams
    BY DEF PreparedTransaction, StringAddress, AddressText, StringNumeral, Numeral
  <1>2. TransactionReview(p) \in Summary
    <2>1. U256Text(p.data.amount) \in Numeral
      BY <1>1, WidthAssumption, DecTyped DEF U256Text, Calldata
    <2>2. [form |-> "0xhex40", acct |-> p.data.to] \in AddressText
      BY <1>1 DEF Calldata, AddressText, AddressForms
    <2> QED
      BY <1>1, <2>1, <2>2, FeeReviewTyped DEF TransactionReview, Summary
  <1>3. decode_erc20_transfer_data(p.data) \in Codes
    BY DEF decode_erc20_transfer_data, ??, Require, Slice, Codes, ErrorCodes, OK, PANIC
  <1> QED
    BY <1>2, <1>3 DEF review, ReviewResult, Codes

(* The compilers return codes, and never panic (evm.rs:46, tron.rs:40). *)
LEMMA CompileCodes ==
  ASSUME NEW p \in PreparedTransaction, NEW ts
  PROVE  /\ compile_evm_code(p) \in Codes \ {PANIC}
         /\ compile_tron_code(p, ts) \in Codes \ {PANIC}
  <1>1. p.fee.mode \in FeeMode
    BY SMTT(60) DEF PreparedTransaction, FeeParams
  <1>2. compile_evm_code(p) \in Codes \ {PANIC}
    <2>1. derive_common(p) \in Codes \ {PANIC}
      BY ZenonT(60) DEF derive_common, decode_calldata, parse_u64, parse_u256, parse_address,
                      ??, Require, Codes, ErrorCodes, OK, PANIC
    <2>2. encode_eip1559(p) \in Codes \ {PANIC} /\ encode_legacy(p) \in Codes \ {PANIC}
      BY SMTT(60) DEF encode_eip1559, encode_legacy, parse_u64, parse_u128,
                      ??, Require, Codes, ErrorCodes, OK, PANIC
    <2> QED
      BY SMTT(60), <1>1, <2>1, <2>2
         DEF compile_evm_code, FeeMode, ??, Require, Codes, ErrorCodes, OK, PANIC
  <1>3. derive_block_ref(p.fee.rp) \in Codes \ {PANIC}
    BY DEF derive_block_ref, ??, Require, Slice, Codes, ErrorCodes, OK, PANIC, BLOCK_ID_HEX_LEN
  <1>4. build_contract(p) \in Codes \ {PANIC}
    BY DEF build_contract, build_trc20_transfer_data, tron_address_to_bytes, enforce_shape,
           TronBytes, TRON_ADDRESS_LEN, ??, Require, Slice, Codes, ErrorCodes, OK, PANIC
  <1> QED
    BY <1>2, <1>3, <1>4 DEF compile_tron_code, parse_fee_limit, checked_expiration,
                            ??, Require, Codes, ErrorCodes, OK, PANIC

(* What compile_evm has checked when it returns a pre-image. *)
LEMMA EvmChecked ==
  ASSUME NEW p \in PreparedTransaction, compile_evm_code(p) = OK
  PROVE  /\ IsSome(p.chainId) /\ p.chainId.val > 0
         /\ p.valueWei.val <= U256Max
         /\ p.nonce.val <= U64Max
         /\ p.fee.gasLimit.val <= U64Max
         /\ p.fee.mode \in {"EIP1559", "LEGACY"}
         /\ p.fee.mode = "EIP1559" =>
              p.fee.maxFeePerGas.val <= U128Max /\ p.fee.maxPriorityFeePerGas.val <= U128Max
         /\ p.fee.mode = "LEGACY" => legacy_gas_price(p.fee).val <= U128Max
  <1>1. derive_common(p) = OK
    BY SMTT(60) DEF compile_evm_code, ??
  <1>2. /\ IsSome(p.chainId) /\ p.chainId.val >= 0 /\ p.chainId.val # 0
        /\ FitsU256(p.valueWei) /\ FitsUint(p.nonce, U64Max)
        /\ FitsUint(p.fee.gasLimit, U64Max)
    BY <1>1 DEF derive_common, parse_u256, parse_u64, ??, Require, OK
  <1>3. p.chainId.val \in Int
    BY WidthAssumption DEF PreparedTransaction, OptI64, None, Dec
  <1>4. /\ p.fee.mode \in {"EIP1559", "LEGACY"}
        /\ p.fee.mode = "EIP1559" =>
             FitsUint(p.fee.maxFeePerGas, U128Max) /\ FitsUint(p.fee.maxPriorityFeePerGas, U128Max)
        /\ p.fee.mode = "LEGACY" => FitsUint(legacy_gas_price(p.fee), U128Max)
    BY <1>1 DEF compile_evm_code, encode_eip1559, encode_legacy, parse_u128, PreparedTransaction,
                FeeParams, FeeMode, ??, Require, OK
  <1> QED
    BY <1>2, <1>3, <1>4 DEF FitsU256, FitsUint

(* compile_evm returns its Result: every number fits its field *)
(* (evm.rs:46).                                                *)
LEMMA CompileEvmTyped ==
  ASSUME NEW p \in PreparedTransaction PROVE compile_evm(p) \in CompilationResult
  <1>1. CASE compile_evm_code(p) # OK
    BY <1>1, CompileCodes DEF compile_evm, CompilationResult
  <1>2. CASE compile_evm_code(p) = OK
    <2>1. /\ p.chainId \in OptI64 /\ p.to.acct \in Accounts /\ p.valueWei.val \in Nat
          /\ p.nonce.val \in Nat /\ p.data \in Calldata /\ p.fee.gasLimit.val \in Nat
          /\ p.fee.maxFeePerGas.val \in Nat /\ p.fee.maxPriorityFeePerGas.val \in Nat
          /\ p.fee.gasPrice.val \in Nat /\ p.txType \in TxType
      BY NumeralVal DEF PreparedTransaction, StringAddress, FeeParams, StringNumeral
    <2>2. p.chainId.val \in 1..I64Max
      BY <1>2, <2>1, EvmChecked, WidthAssumption DEF OptI64, IsSome, None, Dec
    <2>3. EvmCommon(p) \in EvmTx
      <3>1. InputOf(p.data) \in {NoInput} \cup Calldata
        BY <2>1 DEF InputOf
      <3>2. /\ p.valueWei.val \in 0..U256Max /\ p.nonce.val \in 0..U64Max
            /\ p.fee.gasLimit.val \in 0..U64Max
        BY <1>2, <2>1, EvmChecked, WidthAssumption
      <3> QED
        BY <2>1, <2>2, <3>1, <3>2 DEF EvmCommon, EvmTx
    <2>4. CASE p.fee.mode = "EIP1559"
      <3>1. /\ p.fee.maxFeePerGas.val \in 0..U128Max
            /\ p.fee.maxPriorityFeePerGas.val \in 0..U128Max
        BY <1>2, <2>1, <2>4, EvmChecked, WidthAssumption
      <3>2. Eip1559PreImage(p) \in Eip1559
        BY <2>3, <3>1 DEF Eip1559PreImage, Eip1559
      <3> QED
        BY <1>2, <2>1, <2>4, <3>2
           DEF compile_evm, CompilationResult, Metadata, FeeMode, OptU64
    <2>5. CASE p.fee.mode = "LEGACY"
      <3>1. legacy_gas_price(p.fee).val \in 0..U128Max
        BY <1>2, <2>1, <2>5, EvmChecked, WidthAssumption DEF legacy_gas_price, or
      <3>2. LegacyPreImage(p) \in Legacy
        BY <2>3, <3>1 DEF LegacyPreImage, Legacy
      <3> QED
        BY <1>2, <2>1, <2>5, <3>2
           DEF compile_evm, CompilationResult, Metadata, FeeMode, OptU64
    <2> QED
      BY <1>2, <2>4, <2>5, EvmChecked
  <1> QED
    BY <1>1, <1>2

(* What compile_tron has checked when it returns raw_data. *)
LEMMA TronChecked ==
  ASSUME NEW p \in PreparedTransaction, NEW ts, compile_tron_code(p, ts) = OK
  PROVE  /\ p.txType = "TRANSFER_NATIVE" => p.valueWei.val <= U64Max
         /\ p.txType = "TRANSFER_TOKEN" => p.valueWei.val <= U256Max
         /\ IsSome(p.fee.el) => p.fee.el.val <= U64Max
         /\ ts + ExpirationMs <= U64Max
  <1>1. /\ build_contract(p) = OK /\ parse_fee_limit(p.fee.el) = OK
        /\ checked_expiration(ts) = OK
    BY DEF compile_tron_code, ??
  <1>2. /\ p.txType = "TRANSFER_NATIVE" => FitsUint(p.valueWei, U64Max)
        /\ p.txType = "TRANSFER_TOKEN" => FitsU256(p.valueWei)
    BY <1>1 DEF build_contract, build_trc20_transfer_data, ??, Require, Slice, OK, PANIC
  <1> QED
    BY <1>1, <1>2 DEF parse_fee_limit, checked_expiration, FitsUint, FitsU256, Require, OK

(* compile_tron returns its Result: every number fits its field *)
(* (tron.rs:40).                                                *)
LEMMA CompileTronTyped ==
  ASSUME NEW p \in PreparedTransaction, NEW now \in OptU64, NEW clock \in 0..U64Max
  PROVE  compile_tron(p, now, clock) \in CompilationResult
  <1> DEFINE ts == timestamp_ms(now, clock)
  <1>1. ts \in 0..U64Max
    BY WidthAssumption DEF timestamp_ms, OptU64, IsSome, Dec, None
  <1> HIDE DEF ts
  <1>2. CASE compile_tron_code(p, ts) # OK
    BY <1>2, CompileCodes DEF compile_tron, CompilationResult, ts
  <1>3. CASE compile_tron_code(p, ts) = OK
    <2>1. /\ p.from.acct \in Accounts /\ p.to.acct \in Accounts
          /\ p.tokenContract.acct \in Accounts
          /\ p.valueWei.val \in Nat /\ p.fee.el.val \in Nat
          /\ p.fee.rp.n \in 0..U64Max /\ p.fee.rp.h.id \in BlockIds
          /\ p.txType \in TxType
      <3>1. p.fee.el \in Numeral /\ p.fee.rp \in TronBlockHeader
        BY DEF PreparedTransaction, FeeParams
      <3>2. p.fee.rp.n \in 0..U64Max /\ p.fee.rp.h.id \in BlockIds
        BY <3>1, WidthAssumption DEF TronBlockHeader, HashText
      <3> QED
        BY <3>1, <3>2, NumeralVal
           DEF PreparedTransaction, StringAddress, AddressText, StringNumeral
    <2>2. ts + ExpirationMs \in 0..U64Max
      BY <1>1, <1>3, TronChecked, WidthAssumption
    <2>3. ContractOf(p) \in Contract
      BY <1>3, <2>1, TronChecked, WidthAssumption
         DEF ContractOf, Contract, TransferContract, TriggerSmartContract, TxType
    <2>4. ref_block_bytes(p.fee.rp) \in 0..(RefBlockMod - 1)
      BY <2>1, WidthAssumption DEF ref_block_bytes
    <2>5. FeeLimitField(p.fee.el) \in {None} \cup {Dec(i) : i \in 1..U64Max}
      BY <1>3, <2>1, TronChecked, WidthAssumption DEF FeeLimitField
    <2>6. encode_raw_data(p, ts) \in RawData
      BY <1>1, <2>1, <2>2, <2>3, <2>4, <2>5 DEF encode_raw_data, RawData, ref_block_hash
    <2>7. ContractOf(p).type \in {TRON_CONTRACT_TYPE_TRANSFER, TRON_CONTRACT_TYPE_TRIGGER_SMART}
      BY DEF ContractOf, TransferContract, TriggerSmartContract
    <2> QED
      BY <1>3, <2>1, <2>2, <2>6, <2>7
         DEF compile_tron, CompilationResult, Metadata, FeeMode, OptU64, ts
  <1> QED
    BY <1>2, <1>3

(* compile returns its Result (compile.rs:15). *)
LEMMA CompileTyped ==
  ASSUME NEW p \in PreparedTransaction, NEW now \in OptU64, NEW clock \in 0..U64Max
  PROVE  compile(p, now, clock) \in CompilationResult
  BY CompileEvmTyped, CompileTronTyped DEF compile

(* The serialised form of a transaction is a payload (types.rs:130). *)
LEMMA ToJsonTyped ==
  ASSUME NEW p \in PreparedTransaction PROVE to_json(p) \in RawPayload
  <1>1. ASSUME NEW x \in Numeral PROVE OrNull(x) \in Json /\ OrAbsent(x) \in Json
    BY DEF OrNull, OrAbsent, Null, Absent, Str, Json, Numeral, StringNumeral, IsSome, None, Dec
  <1>2. ASSUME NEW i \in (-I64Max - 1)..U64Max PROVE Num(i) \in Json
    BY DEF Num, Dec, Json
  <1>3. p.chainId.val \in (-I64Max - 1)..U64Max
    BY WidthAssumption DEF PreparedTransaction, OptI64, None, Dec
  <1>4. header_to_json(p.fee.rp) \in RawHeader
    <2>1. p.fee.rp \in TronBlockHeader
      BY DEF PreparedTransaction, FeeParams
    <2>2. /\ p.fee.rp.n \in (-I64Max - 1)..U64Max /\ p.fee.rp.t \in (-I64Max - 1)..U64Max
          /\ p.fee.rp.v \in (-I64Max - 1)..U64Max
      BY <2>1, WidthAssumption DEF TronBlockHeader
    <2> QED
      BY <1>2, <2>1, <2>2 DEF header_to_json, RawHeader, TronBlockHeader
  <1>5. fee_to_json(p.fee) \in RawFee
    BY <1>1, <1>4 DEF fee_to_json, RawFee, PreparedTransaction, FeeParams
  <1>6. Str(p.valueWei) \in Json /\ Null \in Json
    BY DEF Str, Null, Json, PreparedTransaction
  <1> QED
    BY <1>1, <1>2, <1>3, <1>5, <1>6
       DEF to_json, RawPayload, PreparedTransaction, StringAddress, AddressText

----------------------------------------------------------------------------
(* Type correctness.                                                       *)

(* The initial state is typed. *)
LEMMA TypeInit == Init => TypeOK
  BY DEF Init, TypeOK, ReviewResult, NoResult

(* Every step keeps the types. *)
LEMMA TypeStep == TypeOK /\ [Next]_vars => TypeOK'
  <1> SUFFICES ASSUME TypeOK, [Next]_vars PROVE TypeOK'
    OBVIOUS
  <1>1. ASSUME NEW raw \in Payloads, ValidatePayload(raw) PROVE TypeOK'
    <2>1. raw \in RawPayload
      BY SessionAssumption
    <2>2. prepared' \in PreparedTransaction \cup {NoPrepared}
      BY <1>1, <2>1, PreparedTyped DEF ValidatePayload
    <2> QED
      BY <1>1, <2>2, ValidateCodes DEF ValidatePayload, TypeOK
  <1>2. ASSUME NEW p \in Foreign, Deserialize(p) PROVE TypeOK'
    BY <1>2, SessionAssumption DEF Deserialize, TypeOK
  <1>3. ASSUME Revalidate PROVE TypeOK'
    <2>1. prepared \in PreparedTransaction
      BY <1>3 DEF Revalidate, held, TypeOK
    <2>2. prepared' \in PreparedTransaction \cup {NoPrepared}
      BY <1>3, <2>1, ToJsonTyped, PreparedTyped DEF Revalidate
    <2>3. verdict' \in Codes \cup {"none"}
      BY <1>3, ValidateCodes DEF Revalidate
    <2>4. reviewed' \in ReviewResult
      BY <1>3 DEF Revalidate, TypeOK, ReviewResult, NoResult
    <2>5. outputs' \in Seq([now : OptU64, result : CompilationResult])
      <3>1. CASE verdict' = OK
        BY <1>3, <3>1 DEF Revalidate, TypeOK
      <3>2. CASE verdict' # OK
        BY <1>3, <3>2 DEF Revalidate
      <3> QED
        BY <3>1, <3>2
    <2> QED
      BY <2>2, <2>3, <2>4, <2>5 DEF TypeOK
  <1>4. ASSUME ReviewPrepared PROVE TypeOK'
    <2>1. prepared \in PreparedTransaction
      BY <1>4 DEF ReviewPrepared, held, TypeOK
    <2> QED
      BY <1>4, <2>1, ReviewTyped DEF ReviewPrepared, TypeOK
  <1>5. ASSUME NEW now \in Pins, NEW clock \in Clock, CompilePrepared(now, clock)
        PROVE TypeOK'
    <2>1. prepared \in PreparedTransaction
      BY <1>5 DEF CompilePrepared, held, TypeOK
    <2>2. now \in OptU64 /\ clock \in 0..U64Max
      BY SessionAssumption
    <2>3. compile(prepared, now, clock) \in CompilationResult
      BY <2>1, <2>2, CompileTyped
    <2> QED
      BY <1>5, <2>2, <2>3 DEF CompilePrepared, TypeOK
  <1>6. ASSUME Drop PROVE TypeOK'
    BY <1>6 DEF Drop, TypeOK, ReviewResult, NoResult
  <1>7. ASSUME UNCHANGED vars PROVE TypeOK'
    BY <1>7 DEF vars, TypeOK
  <1> QED
    BY <1>1, <1>2, <1>3, <1>4, <1>5, <1>6, <1>7 DEF Next

(* Every value of a session has its type; in a compiled pre-image every    *)
(* number fits the machine width of its field, so that no conversion of    *)
(* evm.rs or tron.rs truncated it.                                         *)
THEOREM TypeCorrect == Spec => []TypeOK
  BY TypeInit, TypeStep, PTL DEF Spec
============================================================================
