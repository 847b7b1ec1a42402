------------------------------- MODULE Review -------------------------------
(***************************************************************************)
(* src/src/review.rs: the summary a human approves before signing.         *)
(***************************************************************************)
EXTENDS TxTypes

U256Text(n) == Dec(n)   \* U256::to_string

MutDecodeNoLength(d) ==
  Require(d.hex, "INVALID_CALLDATA")
  ?? Slice(d.len >= 8)
  ?? Require(d.selector, "INVALID_CALLDATA")
  ?? Slice(d.len >= 72)
  ?? Require(d.padded, "INVALID_CALLDATA")
  ?? Slice(d.len >= ERC20_TRANSFER_CALLDATA_HEX_LEN)
MutDecodeNoSelector(d) ==
  Require(d.form = "call" /\ d.hex, "INVALID_CALLDATA")
  ?? Require(d.len = ERC20_TRANSFER_CALLDATA_HEX_LEN, "INVALID_CALLDATA")
  ?? Require(d.padded, "INVALID_CALLDATA")

decode_erc20_transfer_data(d) ==
  Require(d.form = "call" /\ d.hex, "INVALID_CALLDATA")
  ?? Require(d.len = ERC20_TRANSFER_CALLDATA_HEX_LEN, "INVALID_CALLDATA")
  ?? Slice(d.len >= 8)
  ?? Require(d.selector, "INVALID_CALLDATA")
  ?? Slice(d.len >= 72)
  ?? Require(d.padded, "INVALID_CALLDATA")
  ?? Slice(d.len >= ERC20_TRANSFER_CALLDATA_HEX_LEN)

(* U256 x U256, saturating; "0" when either text is not a uint256 *)
multiply_decimal(a, b) ==
  IF ~FitsU256(a) \/ ~FitsU256(b) THEN U256Text(0)
  ELSE IF a.val * b.val <= U256Max THEN U256Text(a.val * b.val)
  ELSE U256Text(U256Max)

unwrap_or_0(x) == IF IsSome(x) THEN x ELSE Dec(0)

EmptyFeeReview(mode) ==
  [ mode |-> mode, estimatedMaxCost |-> None, gasLimit |-> None,
    gasPrice |-> None, maxFeePerGas |-> None, maxPriorityFeePerGas |-> None,
    baseFeePerGas |-> None, tronFeeLimit |-> None ]

build_fee_review(fee) ==
  LET gasLimit == unwrap_or_0(fee.gasLimit)
      maxFee == unwrap_or_0(fee.maxFeePerGas)
      gasPrice == unwrap_or_0(or(fee.gasPrice, fee.maxFeePerGas))
  IN CASE fee.mode = "EIP1559" ->
            [ EmptyFeeReview("EIP1559") EXCEPT
                !.estimatedMaxCost = multiply_decimal(gasLimit, maxFee),
                !.gasLimit = gasLimit,
                !.maxFeePerGas = maxFee,
                !.maxPriorityFeePerGas = fee.maxPriorityFeePerGas,
                !.baseFeePerGas = fee.baseFeePerGas ]
       [] fee.mode = "LEGACY" ->
            [ EmptyFeeReview("LEGACY") EXCEPT
                !.estimatedMaxCost = multiply_decimal(gasLimit, gasPrice),
                !.gasLimit = gasLimit,
                !.gasPrice = gasPrice ]
       [] fee.mode = "TRON" ->
            [ EmptyFeeReview("TRON") EXCEPT
                !.estimatedMaxCost = fee.el, !.tronFeeLimit = fee.el ]

DecodesCalldata(p) == p.txType = "TRANSFER_TOKEN" /\ p.chain = "ethereum"

TransactionReview(p) ==
  [ chain |-> p.chain, txType |-> p.txType, from |-> p.from,
    recipient |-> IF DecodesCalldata(p)
                  THEN [form |-> "0xhex40", acct |-> p.data.to] ELSE p.to,
    amount |-> IF DecodesCalldata(p) THEN U256Text(p.data.amount) ELSE p.valueWei,
    tokenContract |-> p.tokenContract, nonce |-> p.nonce, chainId |-> p.chainId,
    fee |-> build_fee_review(p.fee) ]

NoReview == [chain |-> "none"]

(* the Result of review: its code, and the summary when the code is OK *)
review(p) ==
  LET code == IF DecodesCalldata(p) THEN decode_erc20_transfer_data(p.data) ELSE OK
  IN [code |-> code, summary |-> IF code = OK THEN TransactionReview(p) ELSE NoReview]
=============================================================================
