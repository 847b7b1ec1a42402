------------------------------ MODULE Validate ------------------------------
(***************************************************************************)
(* src/src/validate.rs: from raw JSON to a PreparedTransaction.  Each      *)
(* operator named after a function is the code of its Result, in the order *)
(* of the function's checks; PreparedOf, FeeOf and HeaderOf are the values *)
(* the functions return when that code is OK.                              *)
(***************************************************************************)
EXTENDS TronAddress

(* A JSON value where the code expects a number or a text of one.  A       *)
(* number is a JSON integer of i64 or u64 width; floats, larger integers   *)
(* and values of another type are "other".                                 *)
Json ==
  [k : {"absent", "null", "other"}, s : {Dec(0)}]
  \cup [k : {"num"}, s : [form : {"canon"}, val : (-I64Max - 1)..U64Max]]
  \cup [k : {"str"}, s : StringNumeral]
Absent == [k |-> "absent", s |-> Dec(0)]
Null == [k |-> "null", s |-> Dec(0)]
Num(n) == [k |-> "num", s |-> Dec(n)]
Str(t) == [k |-> "str", s |-> t]

RawHeader == [ form : {"none", "other", "object"}, h : HashText,
               n : Json, t : Json, v : Json, info : InfoField ]
RawFee ==
  [ form : {"other", "object"}, mode : FeeMode \cup {"other"},
    gasLimit : Json, baseFeePerGas : Json, maxPriorityFeePerGas : Json,
    maxFeePerGas : Json, gasPrice : Json, el : Json, rp : RawHeader ]
RawPayload ==
  [ form : {"other", "object"}, chain : Chain \cup {"other"}, chainId : Json,
    from : AddressText, to : AddressText, valueWei : Json, data : Calldata,
    txType : TxType \cup {"other"}, tokenContract : AddressText,
    nonce : Json, fee : RawFee ]

----------------------------------------------------------------------------
(* Field helpers.                                                          *)

(* as_u64 and as_i64 of serde_json *)
AsU64(j) == j.k = "num" /\ j.s.val \in 0..U64Max
AsI64(j) == j.k = "num" /\ j.s.val \in (-I64Max - 1)..I64Max

coerce_to_string(j) == IF j.k = "str" \/ AsU64(j) THEN j.s ELSE None

MutIsNonNegIntTakesSign(s) == s.form \in {"canon", "signed"} /\ s.val < DecimalCap
is_non_neg_int(s) == s.form = "canon" /\ s.val < DecimalCap

require_int_string(j) ==
  Require(is_non_neg_int(coerce_to_string(j)), "INVALID_AMOUNT")
MutNullIsNotAbsent(j) == IF j.k = "absent" THEN OK ELSE require_int_string(j)
optional_int_string(j) ==
  IF j.k \in {"absent", "null"} THEN OK ELSE require_int_string(j)

optional_number(j) == IF AsI64(j) THEN j.s ELSE None
optional_string(x) == IF x.form = "empty" THEN [x EXCEPT !.form = "none"] ELSE x

require_non_empty_string(a) ==
  Require(a.form \notin {"none", "empty", "blank"}, "INVALID_PAYLOAD")

require_positive_int(j) == Require(AsU64(j) /\ j.s.val > 0, "INVALID_BLOCK_HEADER")
require_non_neg_int(j) ==
  Require(AsU64(j) /\ j.s.val <= U32Max, "INVALID_BLOCK_HEADER")

----------------------------------------------------------------------------
(* Addresses and chain-specific fields.                                    *)

validate_evm_address(a) ==
  Require(a.form \in {"0xhex40", "0xHEX40"}, "INVALID_ADDRESS")
validate_tron_address(a) ==
  Require(tron_address_to_bytes(a) = OK, "INVALID_ADDRESS")

validate_evm_fields(p) ==
  Require(IsSome(p.chainId) /\ p.chainId.val >= 1, "INVALID_PAYLOAD")
  ?? Require(IsSome(p.nonce), "INVALID_PAYLOAD")
  ?? Require(FitsUint(p.nonce, U64Max) /\ p.nonce.val <= SafeMax, "INVALID_PAYLOAD")
  ?? validate_evm_address(p.from)
  ?? validate_evm_address(p.to)
  ?? (IF IsSome(p.tokenContract) THEN validate_evm_address(p.tokenContract) ELSE OK)

validate_tron_fields(p) ==
  validate_tron_address(p.from)
  ?? validate_tron_address(p.to)
  ?? (IF IsSome(p.tokenContract) THEN validate_tron_address(p.tokenContract) ELSE OK)

MutTokenTransferAnyTarget(p) ==
  Require(Carries(p.data), "INVALID_PAYLOAD")
  ?? Require(p.data.hex /\ p.data.len = ERC20_TRANSFER_CALLDATA_HEX_LEN, "INVALID_CALLDATA")
  ?? Require(p.data.selector /\ p.data.padded, "INVALID_CALLDATA")
  ?? Require(p.valueWei = Dec(0), "INVALID_PAYLOAD")

validate_evm_token_transfer(p) ==
  Require(Carries(p.data), "INVALID_PAYLOAD")
  ?? Require(p.data.hex, "INVALID_CALLDATA")
  ?? Require(p.data.len = ERC20_TRANSFER_CALLDATA_HEX_LEN, "INVALID_CALLDATA")
  ?? Slice(p.data.len >= 8)
  ?? Require(p.data.selector, "INVALID_CALLDATA")
  ?? Slice(p.data.len >= 72)
  ?? Require(p.data.padded, "INVALID_CALLDATA")
  ?? Require(LowerCase(p.to) = LowerCase(p.tokenContract), "INVALID_PAYLOAD")
  ?? Require(p.valueWei = Dec(0), "INVALID_PAYLOAD")

----------------------------------------------------------------------------
(* Fees and the Tron block header.                                         *)

MutBlockHeaderAnyHash(rp) ==
  IF rp.form = "none" THEN OK
  ELSE Require(rp.form = "object" /\ rp.h.len = BLOCK_ID_HEX_LEN, "INVALID_BLOCK_HEADER")
       ?? require_positive_int(rp.n)
       ?? require_positive_int(rp.t)
       ?? require_non_neg_int(rp.v)
       ?? Require(rp.info # "long", "INVALID_BLOCK_HEADER")

optional_block_header(rp) ==
  IF rp.form = "none" THEN OK
  ELSE Require(rp.form = "object", "INVALID_BLOCK_HEADER")
       ?? Require(rp.h.len > 0, "INVALID_BLOCK_HEADER")
       ?? require_positive_int(rp.n)
       ?? require_positive_int(rp.t)
       ?? require_non_neg_int(rp.v)
       ?? Require(rp.h.len = BLOCK_ID_HEX_LEN, "INVALID_BLOCK_HEADER")
       ?? Require(rp.h.hex, "INVALID_BLOCK_HEADER")
       ?? Require(rp.info # "long", "INVALID_BLOCK_HEADER")

HeaderOf(rp) ==
  LET Number(j) == IF rp.form = "object" THEN j.s.val ELSE 0
  IN [ form |-> rp.form, h |-> rp.h, n |-> Number(rp.n), t |-> Number(rp.t),
       v |-> Number(rp.v), info |-> rp.info ]

FeeOf(fee) ==
  [ mode |-> fee.mode,
    gasLimit |-> coerce_to_string(fee.gasLimit),
    baseFeePerGas |-> coerce_to_string(fee.baseFeePerGas),
    maxPriorityFeePerGas |-> coerce_to_string(fee.maxPriorityFeePerGas),
    maxFeePerGas |-> coerce_to_string(fee.maxFeePerGas),
    gasPrice |-> coerce_to_string(fee.gasPrice),
    el |-> coerce_to_string(fee.el),
    rp |-> HeaderOf(fee.rp) ]

(* validate.rs:362-389: what the mode needs of the other fields *)
MutModeRequiresNoTip(fee) ==
  CASE fee.mode = "EIP1559" ->
         Require(IsSome(fee.gasLimit) /\ IsSome(fee.maxFeePerGas), "MISSING_FEE_PARAMS")
    [] fee.mode = "LEGACY" ->
         Require(IsSome(fee.gasLimit), "MISSING_FEE_PARAMS")
         ?? Require(IsSome(fee.gasPrice) \/ IsSome(fee.maxFeePerGas), "MISSING_FEE_PARAMS")
    [] fee.mode = "TRON" -> Require(IsSome(fee.rp), "INVALID_BLOCK_HEADER")

mode_requires(fee) ==
  CASE fee.mode = "EIP1559" ->
         Require(IsSome(fee.gasLimit), "MISSING_FEE_PARAMS")
         ?? Require(IsSome(fee.maxFeePerGas) /\ IsSome(fee.maxPriorityFeePerGas),
                    "MISSING_FEE_PARAMS")
    [] fee.mode = "LEGACY" ->
         Require(IsSome(fee.gasLimit), "MISSING_FEE_PARAMS")
         ?? Require(IsSome(fee.gasPrice) \/ IsSome(fee.maxFeePerGas), "MISSING_FEE_PARAMS")
    [] fee.mode = "TRON" -> Require(IsSome(fee.rp), "INVALID_BLOCK_HEADER")

validate_fee(fee, chain) ==
  Require(fee.form = "object", "MISSING_FEE_PARAMS")
  ?? Require(fee.mode \in FeeMode, "UNSUPPORTED_FEE_MODE")
  ?? Require(chain = "tron" <=> fee.mode = "TRON", "UNSUPPORTED_FEE_MODE")
  ?? optional_int_string(fee.gasLimit)
  ?? optional_int_string(fee.baseFeePerGas)
  ?? optional_int_string(fee.maxPriorityFeePerGas)
  ?? optional_int_string(fee.maxFeePerGas)
  ?? optional_int_string(fee.gasPrice)
  ?? optional_int_string(fee.el)
  ?? optional_block_header(fee.rp)
  ?? mode_requires(FeeOf(fee))

----------------------------------------------------------------------------
(* The entry point.                                                        *)

PreparedOf(raw) ==
  [ chain |-> raw.chain,
    chainId |-> optional_number(raw.chainId),
    from |-> raw.from,
    to |-> raw.to,
    valueWei |-> coerce_to_string(raw.valueWei),
    data |-> optional_string(raw.data),
    txType |-> raw.txType,
    tokenContract |-> optional_string(raw.tokenContract),
    nonce |-> coerce_to_string(raw.nonce),
    fee |-> FeeOf(raw.fee) ]

(* the checks over a whole payload, once its fields are typed *)
intent_checks(p) ==
  (IF p.chain = "ethereum" THEN validate_evm_fields(p) ELSE validate_tron_fields(p))
  ?? Require(p.txType = "TRANSFER_NATIVE" /\ p.chain = "ethereum" => ~Carries(p.data),
             "INVALID_PAYLOAD")
  ?? Require(p.txType = "TRANSFER_TOKEN" => IsSome(p.tokenContract), "INVALID_PAYLOAD")
  ?? (IF p.txType = "TRANSFER_TOKEN" /\ p.chain = "ethereum"
      THEN validate_evm_token_transfer(p) ELSE OK)

validate(raw) ==
  Require(raw.form = "object", "INVALID_PAYLOAD")
  ?? Require(raw.chain \in Chain, "UNSUPPORTED_CHAIN")
  ?? Require(raw.txType \in TxType, "UNSUPPORTED_TX_TYPE")
  ?? require_non_empty_string(raw.from)
  ?? require_non_empty_string(raw.to)
  ?? require_int_string(raw.valueWei)
  ?? optional_int_string(raw.nonce)
  ?? validate_fee(raw.fee, raw.chain)
  ?? intent_checks(PreparedOf(raw))
=============================================================================
