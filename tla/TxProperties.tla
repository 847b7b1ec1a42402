---------------------------- MODULE TxProperties ----------------------------
(***************************************************************************)
(* What validate, review and compile promise each other, over every order  *)
(* of calls of a session.                                                  *)
(***************************************************************************)
EXTENDS TxSession

----------------------------------------------------------------------------
(* What a canonical PreparedTransaction is: the reading of types.rs and    *)
(* README.md's payload tables, written without the order of the checks.    *)

Decimal(s) == s.form = "canon" /\ s.val \in 0..(DecimalCap - 1)
OptDecimal(s) == IsSome(s) => Decimal(s)
EvmAddress(a) == a.form \in {"0xhex40", "0xHEX40"}
TronAddressText(a) == a.form \in {"41hex40", "0x41hex40", "base58"}

CanonicalHeader(rp) ==
  IsSome(rp) => /\ rp.h.hex /\ rp.h.len = BLOCK_ID_HEX_LEN
                /\ rp.n > 0 /\ rp.t > 0
                /\ rp.info # "long"

CanonicalFee(fee) ==
  /\ OptDecimal(fee.gasLimit) /\ OptDecimal(fee.baseFeePerGas)
  /\ OptDecimal(fee.maxPriorityFeePerGas) /\ OptDecimal(fee.maxFeePerGas)
  /\ OptDecimal(fee.gasPrice) /\ OptDecimal(fee.el)
  /\ CanonicalHeader(fee.rp)
  /\ fee.mode = "EIP1559" =>
       IsSome(fee.gasLimit) /\ IsSome(fee.maxFeePerGas) /\ IsSome(fee.maxPriorityFeePerGas)
  /\ fee.mode = "LEGACY" =>
       IsSome(fee.gasLimit) /\ (IsSome(fee.gasPrice) \/ IsSome(fee.maxFeePerGas))
  /\ fee.mode = "TRON" => IsSome(fee.rp)

CanonicalTransferCall(p) ==
  /\ Carries(p.data) /\ p.data.hex /\ p.data.selector /\ p.data.padded
  /\ p.data.len = ERC20_TRANSFER_CALLDATA_HEX_LEN
  /\ p.to.acct = p.tokenContract.acct
  /\ p.valueWei.val = 0

CanonicalEvm(p) ==
  /\ p.fee.mode \in {"EIP1559", "LEGACY"}
  /\ IsSome(p.chainId) /\ p.chainId.val >= 1
  /\ Decimal(p.nonce) /\ p.nonce.val <= SafeMax
  /\ EvmAddress(p.from) /\ EvmAddress(p.to)
  /\ IsSome(p.tokenContract) => EvmAddress(p.tokenContract)
  /\ p.txType = "TRANSFER_NATIVE" => ~Carries(p.data)
  /\ p.txType = "TRANSFER_TOKEN" => CanonicalTransferCall(p)

CanonicalTron(p) ==
  /\ p.fee.mode = "TRON"
  /\ TronAddressText(p.from) /\ TronAddressText(p.to)
  /\ IsSome(p.tokenContract) => TronAddressText(p.tokenContract)

Canonical(p) ==
  /\ Decimal(p.valueWei)
  /\ OptDecimal(p.nonce)
  /\ CanonicalFee(p.fee)
  /\ p.txType = "TRANSFER_TOKEN" => IsSome(p.tokenContract)
  /\ IF p.chain = "ethereum" THEN CanonicalEvm(p) ELSE CanonicalTron(p)

(* the Option<String> fields that validate turns from Some("") to None *)
WithTexts(p, d, t) == [[p EXCEPT !.data = d] EXCEPT !.tokenContract = t]
DropEmpty(p) == WithTexts(p, optional_string(p.data), optional_string(p.tokenContract))

----------------------------------------------------------------------------
(* What the networks do with a signed pre-image: the transfers it makes.   *)

TransferOf(asset, to, amount) == [asset |-> asset, to |-> to, amount |-> amount]
CoinTransfer(to, amount) ==
  IF amount = 0 THEN {} ELSE {TransferOf("coin", to, amount)}
IsTransferCall(d) ==
  d.selector /\ d.padded /\ d.len = ERC20_TRANSFER_CALLDATA_HEX_LEN
CallEffect(u) ==
  IF u.input = NoInput THEN {}
  ELSE IF IsTransferCall(u.input) THEN {TransferOf(u.to, u.input.to, u.input.amount)}
  ELSE {TransferOf("any", u.to, 0)}

Effects(u) ==
  IF u.envelope \in {"eip1559", "legacy"}
  THEN CoinTransfer(u.tx.to, u.tx.value) \cup CallEffect(u.tx)
  ELSE IF u.contract.type = TRON_CONTRACT_TYPE_TRANSFER
  THEN CoinTransfer(u.contract.to, u.contract.amount)
  ELSE {TransferOf(u.contract.contract, u.contract.data.to, u.contract.data.amount)}

(* the transfer a reviewer approves *)
Approved(s) ==
  IF s.txType = "TRANSFER_NATIVE" THEN CoinTransfer(s.recipient.acct, s.amount.val)
  ELSE {TransferOf(s.tokenContract.acct, s.recipient.acct, s.amount.val)}

(* the fields beside the transfer that decide which account pays, on which *)
(* chain and in which order                                                *)
SameEnvelope(s, u) ==
  IF s.chain = "ethereum"
  THEN u.tx.chainId = s.chainId.val /\ u.tx.nonce = s.nonce.val
  ELSE u.contract.owner = s.from.acct

(* the ceiling that u sets on its cost, in the smallest unit: on Tron, its fee_limit *)
FeeCeiling(u) ==
  CASE u.envelope = "eip1559" -> u.tx.gasLimit * u.maxFeePerGas
    [] u.envelope = "legacy" -> u.tx.gasLimit * u.gasPrice
    [] u.envelope = "raw_data" -> u.feeLimit.val

Compiled == {i \in DOMAIN outputs : outputs[i].result.code = OK}
Unsigned(i) == outputs[i].result.unsigned

----------------------------------------------------------------------------
(* The numbers of p that its pre-image needs fit their machine widths.     *)
NumbersFit(p) ==
  IF p.chain = "ethereum"
  THEN /\ p.valueWei.val <= U256Max
       /\ p.fee.gasLimit.val <= U64Max
       /\ p.fee.mode = "EIP1559" =>
            p.fee.maxFeePerGas.val <= U128Max /\ p.fee.maxPriorityFeePerGas.val <= U128Max
       /\ p.fee.mode = "LEGACY" => legacy_gas_price(p.fee).val <= U128Max
  ELSE /\ p.txType = "TRANSFER_NATIVE" => p.valueWei.val <= U64Max
       /\ p.txType = "TRANSFER_TOKEN" => p.valueWei.val <= U256Max
       /\ IsSome(p.fee.el) => p.fee.el.val <= U64Max

(* No call panics, wherever the transaction came from: the slices of       *)
(* validate.rs:268,285, review.rs:69,88,97 and tron.rs:134,203 are always  *)
(* in range (tron.rs:103-107, review.rs:81-87).                            *)
NeverPanics ==
  /\ verdict # PANIC
  /\ reviewed.code # PANIC
  /\ \A i \in DOMAIN outputs : outputs[i].result.code # PANIC

(* A transaction that validate accepted, at once or late, can be reviewed, *)
(* and compile refuses it only for a number too wide for its field or a    *)
(* time too close to u64::MAX: all other checks of evm.rs and tron.rs are  *)
(* "enforced upstream by validate" (evm.rs:98-187, validate.rs:4-7).       *)
UpstreamEnforced ==
  trusted =>
    /\ reviewed.code \in {"none", OK}
    /\ \A i \in DOMAIN outputs :
         LET now == outputs[i].now
             code == outputs[i].result.code
         IN \/ code = OK /\ NumbersFit(prepared)
            \/ code = "INVALID_AMOUNT" /\ ~NumbersFit(prepared)
            \/ /\ code = "INVALID_PAYLOAD" /\ prepared.chain = "tron"
               /\ IsSome(now) => now.val + ExpirationMs > U64Max

(* What is signed is what was approved: the transfers that a compiled      *)
(* pre-image of an accepted transaction makes are exactly the one that     *)
(* review showed, from the account, on the chain and with the nonce it     *)
(* showed (review.rs:12-15).                                               *)
SignedIsReviewed ==
  trusted /\ reviewed.code = OK =>
    \A i \in Compiled :
      /\ Effects(Unsigned(i)) = Approved(reviewed.summary)
      /\ SameEnvelope(reviewed.summary, Unsigned(i))

(* Even for a transaction that never saw validate, the recipient and the   *)
(* amount that review decodes from EVM token calldata are those of the     *)
(* transfer call in the compiled bytes: the two parsers of the calldata    *)
(* agree (review.rs:81-87, evm.rs:121).                                    *)
TokenReviewDecodesCalldata ==
  reviewed.code = OK /\ DecodesCalldata(reviewed.summary) =>
    \A i \in Compiled :
      TransferOf(Unsigned(i).tx.to, reviewed.summary.recipient.acct,
                 reviewed.summary.amount.val) \in Effects(Unsigned(i))

(* The cost shown to the reviewer is the ceiling that the compiled bytes   *)
(* set: gas limit times price on EVM, on Tron the fee_limit in the bytes;  *)
(* a Tron transaction with no limit shows no cost                          *)
(* (review.rs:109-156, evm.rs:136-203, tron_proto.rs:119).                 *)
CostCeiling ==
  trusted /\ reviewed.code = OK =>
    \A i \in Compiled :
      unwrap_or_0(reviewed.summary.fee.estimatedMaxCost).val = FeeCeiling(Unsigned(i))

Untimed(u) == [[u EXCEPT !.expiration = 0] EXCEPT !.timestamp = 0]
SameTime(i, j) == IsSome(outputs[i].now) /\ outputs[i].now = outputs[j].now
(* Compiling again gives the same bytes when the time is pinned, and on an *)
(* EVM chain always; an unpinned retry on Tron changes the two times and   *)
(* nothing else (types.rs:275-282, tron.rs:56-68).                         *)
Deterministic ==
  \A i, j \in DOMAIN outputs :
    /\ (prepared.chain = "ethereum" \/ SameTime(i, j)) =>
         outputs[i].result = outputs[j].result
    /\ (prepared.chain = "tron" /\ {i, j} \subseteq Compiled) =>
         Untimed(Unsigned(i)) = Untimed(Unsigned(j))

(* A transaction that was validated survives its own serialisation: a      *)
(* second validate accepts it and gives back the same value (types.rs:69). *)
ReloadStable ==
  [][Revalidate /\ trusted => verdict' = OK /\ prepared' = prepared]_vars

(* Late validation of a foreign transaction accepts the canonical ones and *)
(* no other, and changes nothing but Some("") to None.                     *)
AdmitExact ==
  [][Revalidate =>
       /\ verdict' = OK <=> Canonical(DropEmpty(prepared))
       /\ verdict' = OK => prepared' = DropEmpty(prepared)]_vars

----------------------------------------------------------------------------
(* The inductive invariant.                                                *)

(* p as it may have been before a late validation dropped empty texts *)
Refill(x) == IF x.form = "none" THEN {x, [x EXCEPT !.form = "empty"]} ELSE {x}
Drafts(p) ==
  {WithTexts(p, d, t) : d \in Refill(p.data), t \in Refill(p.tokenContract)}

(* the transaction as it may have been when it was reviewed or compiled *)
Sources == IF verdict = OK THEN Drafts(prepared) ELSE {prepared}

ReviewedFromDraft ==
  reviewed # NoResult => held /\ \E q \in Sources : reviewed = review(q)
CompiledFromDraft ==
  \A i \in DOMAIN outputs :
    held /\ \E q \in Sources, clock \in 0..U64Max :
              outputs[i].result = compile(q, outputs[i].now, clock)

(* An accepted transaction is canonical and keeps no Some(""), and what    *)
(* was reviewed and compiled, even before a late validation, came from the *)
(* transaction that is held, up to the empty texts that validation drops   *)
(* (validate.rs:28-92,503-508).                                            *)
SessionInv ==
  /\ TypeOK
  /\ verdict # PANIC
  /\ verdict = OK => held /\ Canonical(prepared) /\ prepared.data.form # "empty"
  /\ ReviewedFromDraft
  /\ CompiledFromDraft
=============================================================================
