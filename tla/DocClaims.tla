----------------------------- MODULE DocClaims -----------------------------
(***************************************************************************)
(* What the documentation comments of types.rs say of an accepted          *)
(* transaction and of its review, and validate.rs and review.rs do not do. *)
(***************************************************************************)
EXTENDS TxProperties

(* "Exactly one of the three mode-specific subsets is populated; the       *)
(* others are None" (types.rs:96-97).  validate_fee keeps every field of   *)
(* the fee object whatever the mode (validate.rs:351-401).                 *)
FeeSubsetsExclusive ==
  trusted =>
    LET fee == prepared.fee
        NoTronFields == ~IsSome(fee.el) /\ ~IsSome(fee.rp)
    IN CASE fee.mode = "EIP1559" -> NoTronFields /\ ~IsSome(fee.gasPrice)
         [] fee.mode = "LEGACY" ->
              NoTronFields /\ ~IsSome(fee.baseFeePerGas) /\ ~IsSome(fee.maxPriorityFeePerGas)
         [] fee.mode = "TRON" ->
              /\ ~IsSome(fee.gasLimit) /\ ~IsSome(fee.gasPrice)
              /\ ~IsSome(fee.maxFeePerGas) /\ ~IsSome(fee.maxPriorityFeePerGas)
              /\ ~IsSome(fee.baseFeePerGas)

(* "Chain ID (EVM only, None for Tron)" (types.rs:138).  validate copies   *)
(* chainId whatever the chain (validate.rs:40,82).                         *)
ChainIdOnlyOnEvm ==
  trusted /\ prepared.chain = "tron" => ~IsSome(prepared.chainId)

(* "Token contract (token transfers only)" of TransactionReview            *)
(* (types.rs:225).  review copies tokenContract, which validate keeps, on  *)
(* a native transfer too (review.rs:38).                                   *)
ReviewTokenOnlyOnTokenTransfers ==
  trusted /\ reviewed.code = OK /\ reviewed.summary.txType = "TRANSFER_NATIVE" =>
    ~IsSome(reviewed.summary.tokenContract)
=============================================================================
