----------------------------- MODULE CompileEvm -----------------------------
(***************************************************************************)
(* src/src/evm.rs: the EIP-2718 signing pre-image of an EVM transaction.   *)
(* A pre-image is the record of the fields alloy encodes (the encoding is  *)
(* injective); tx_hash is its keccak256 and stands or falls with it.       *)
(***************************************************************************)
EXTENDS TxTypes

NoPreImage == [envelope |-> "none"]
NoMetadata == [feeMode |-> "none"]
Failed(code) == [code |-> code, unsigned |-> NoPreImage, metadata |-> NoMetadata]

parse_u64(s) == Require(FitsUint(s, U64Max), "INVALID_AMOUNT")
parse_u128(s) == Require(FitsUint(s, U128Max), "INVALID_AMOUNT")
parse_u256(s) == Require(FitsU256(s), "INVALID_AMOUNT")

(* alloy's Address::from_str: 40 hex digits, 0x optional, any case *)
parse_address(a) ==
  Require(a.form \in {"0xhex40", "0xHEX40", "hex40"}, "INVALID_ADDRESS")

decode_calldata(d) ==
  Require(Carries(d) => d.hex /\ d.len % 2 = 0, "INVALID_CALLDATA")

NoInput == [form |-> "empty"]
InputOf(d) == IF Carries(d) THEN d ELSE NoInput

derive_common(p) ==
  Require(IsSome(p.chainId), "MISSING_FEE_PARAMS")
  ?? Require(p.chainId.val >= 0, "INVALID_PAYLOAD")
  ?? Require(p.chainId.val # 0, "INVALID_PAYLOAD")
  ?? parse_address(p.to)
  ?? parse_u256(p.valueWei)
  ?? Require(IsSome(p.nonce), "INVALID_PAYLOAD")
  ?? parse_u64(p.nonce)
  ?? Require(IsSome(p.fee.gasLimit), "MISSING_FEE_PARAMS")
  ?? parse_u64(p.fee.gasLimit)
  ?? decode_calldata(p.data)

EvmCommon(p) ==
  [ chainId |-> p.chainId.val, to |-> p.to.acct, value |-> p.valueWei.val,
    nonce |-> p.nonce.val, gasLimit |-> p.fee.gasLimit.val,
    input |-> InputOf(p.data) ]

encode_eip1559(p) ==
  Require(IsSome(p.fee.maxFeePerGas), "MISSING_FEE_PARAMS")
  ?? parse_u128(p.fee.maxFeePerGas)
  ?? Require(IsSome(p.fee.maxPriorityFeePerGas), "MISSING_FEE_PARAMS")
  ?? parse_u128(p.fee.maxPriorityFeePerGas)

Eip1559PreImage(p) ==
  [ envelope |-> "eip1559", tx |-> EvmCommon(p),
    maxFeePerGas |-> p.fee.maxFeePerGas.val,
    maxPriorityFeePerGas |-> p.fee.maxPriorityFeePerGas.val ]

MutLegacyPriceMaxFeeFirst(fee) == or(fee.maxFeePerGas, fee.gasPrice)
legacy_gas_price(fee) == or(fee.gasPrice, fee.maxFeePerGas)

encode_legacy(p) ==
  Require(IsSome(legacy_gas_price(p.fee)), "MISSING_FEE_PARAMS")
  ?? parse_u128(legacy_gas_price(p.fee))

LegacyPreImage(p) ==
  [ envelope |-> "legacy", tx |-> EvmCommon(p),
    gasPrice |-> legacy_gas_price(p.fee).val ]

compile_evm_code(p) ==
  derive_common(p)
  ?? (CASE p.fee.mode = "EIP1559" -> encode_eip1559(p)
        [] p.fee.mode = "LEGACY" -> encode_legacy(p)
        [] p.fee.mode = "TRON" -> "UNSUPPORTED_FEE_MODE")

compile_evm(p) ==
  IF compile_evm_code(p) # OK THEN Failed(compile_evm_code(p))
  ELSE [ code |-> OK,
         unsigned |-> IF p.fee.mode = "EIP1559" THEN Eip1559PreImage(p)
                      ELSE LegacyPreImage(p),
         metadata |-> [ txType |-> p.txType, feeMode |-> p.fee.mode,
                        evmTxType |-> IF p.fee.mode = "EIP1559"
                                      THEN Dec(EVM_TX_TYPE_EIP1559)
                                      ELSE Dec(EVM_TX_TYPE_LEGACY),
                        tronContractType |-> None, expiration |-> None ] ]
=============================================================================
