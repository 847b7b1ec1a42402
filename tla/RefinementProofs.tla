-------------------------- MODULE RefinementProofs --------------------------
(***************************************************************************)
(* Validation of a serialised transaction accepts the canonical ones and   *)
(* no other, and gives an accepted transaction back unchanged; and with    *)
(* that a session implements SigningRequest, for every choice of the       *)
(* constants.  The argument: in every state, the summary and the bytes of  *)
(* an accepted transaction are what SigningRequest allows for its request; *)
(* a step that changes whether the transaction is accepted is then Admit   *)
(* or Forget by that fact alone, and a step that does not keeps the        *)
(* transaction.                                                            *)
(***************************************************************************)
EXTENDS TxSessionProofs, TxRefinement

----------------------------------------------------------------------------
(* The checks accept what is canonical.                                    *)

(* The JSON form of a decimal text passes the checks of an amount. *)
LEMMA AmountAccepted ==
  /\ \A s : Decimal(s) => require_int_string(Str(s)) = OK
  /\ \A x : OptDecimal(x) => /\ optional_int_string(OrNull(x)) = OK
                             /\ optional_int_string(OrAbsent(x)) = OK
  <1>1. ASSUME NEW s, Decimal(s) PROVE require_int_string(Str(s)) = OK
    <2>1. coerce_to_string(Str(s)) = s
      BY DEF coerce_to_string, Str
    <2>2. is_non_neg_int(s)
      BY <1>1, WidthAssumption DEF is_non_neg_int, Decimal
    <2> QED
      BY <2>1, <2>2 DEF require_int_string, Require
  <1>2. ASSUME NEW x, OptDecimal(x)
        PROVE  /\ optional_int_string(OrNull(x)) = OK
               /\ optional_int_string(OrAbsent(x)) = OK
    <2>1. CASE IsSome(x)
      BY <1>1, <1>2, <2>1 DEF OptDecimal, optional_int_string, OrNull, OrAbsent, Str
    <2>2. CASE ~IsSome(x)
      BY <2>2 DEF optional_int_string, OrNull, OrAbsent, Null, Absent
    <2> QED
      BY <2>1, <2>2
  <1> QED
    BY <1>1, <1>2

(* The JSON form of a canonical block header passes (validate.rs:406). *)
LEMMA HeaderAccepted ==
  ASSUME NEW rp \in TronBlockHeader, CanonicalHeader(rp)
  PROVE  optional_block_header(header_to_json(rp)) = OK
  <1> DEFINE raw == header_to_json(rp)
  <1>1. CASE rp.form = "none"
    BY <1>1 DEF optional_block_header, header_to_json
  <1>2. CASE rp.form = "object"
    <2>1. /\ rp.n \in 0..U64Max /\ rp.t \in 0..U64Max /\ rp.v \in 0..U32Max
      BY <1>2 DEF TronBlockHeader
    <2>2. /\ rp.h.hex /\ rp.h.len = BLOCK_ID_HEX_LEN /\ rp.n > 0 /\ rp.t > 0
          /\ rp.info # "long"
      BY <1>2 DEF CanonicalHeader, IsSome
    <2>3. require_positive_int(Num(rp.n)) = OK /\ require_positive_int(Num(rp.t)) = OK
      BY <2>1, <2>2 DEF require_positive_int, Num, Dec, AsU64, Require
    <2>4. require_non_neg_int(Num(rp.v)) = OK
      BY <2>1, WidthAssumption DEF require_non_neg_int, Num, Dec, AsU64, Require
    <2>5. /\ raw.form = "object" /\ raw.h = rp.h /\ raw.info = rp.info
          /\ raw.n = Num(rp.n) /\ raw.t = Num(rp.t) /\ raw.v = Num(rp.v)
      BY <1>2 DEF header_to_json
    <2> HIDE DEF raw
    <2>6. optional_block_header(raw) = OK
      BY <2>2, <2>3, <2>4, <2>5
         DEF optional_block_header, ??, Require, BLOCK_ID_HEX_LEN
    <2> QED
      BY <2>6 DEF raw
  <1> QED
    BY <1>1, <1>2 DEF TronBlockHeader

(* The JSON form of a canonical fee object passes (validate.rs:318). *)
LEMMA FeeAccepted ==
  ASSUME NEW fee \in FeeParams, CanonicalFee(fee), NEW chain,
         chain = "tron" <=> fee.mode = "TRON"
  PROVE  validate_fee(fee_to_json(fee), chain) = OK
  <1> DEFINE raw == fee_to_json(fee)
  <1>1. /\ raw.form = "object" /\ raw.mode = fee.mode
        /\ optional_int_string(raw.gasLimit) = OK
        /\ optional_int_string(raw.baseFeePerGas) = OK
        /\ optional_int_string(raw.maxPriorityFeePerGas) = OK
        /\ optional_int_string(raw.maxFeePerGas) = OK
        /\ optional_int_string(raw.gasPrice) = OK
        /\ optional_int_string(raw.el) = OK
    BY AmountAccepted DEF fee_to_json, CanonicalFee
  <1>2. optional_block_header(raw.rp) = OK
    <2>1. fee.rp \in TronBlockHeader /\ CanonicalHeader(fee.rp)
      BY DEF FeeParams, CanonicalFee
    <2> QED
      BY <2>1, HeaderAccepted DEF fee_to_json
  <1>3. mode_requires(FeeOf(raw)) = OK
    <2>1. mode_requires(fee) = OK
      BY DEF mode_requires, CanonicalFee, FeeParams, FeeMode, ??, Require, OK
    <2> QED
      BY <2>1, FeeRoundTrip
  <1>4. fee.mode \in FeeMode
    BY SMTT(60) DEF FeeParams
  <1> HIDE DEF raw
  <1>5. validate_fee(raw, chain) = OK
    BY <1>1, <1>2, <1>3, <1>4 DEF validate_fee, ??, Require
  <1> QED
    BY <1>5 DEF raw

(* A canonical transaction passes the checks over a whole payload *)
(* (validate.rs:44-78).                                           *)
LEMMA IntentAccepted ==
  ASSUME NEW p \in PreparedTransaction, Canonical(p)
  PROVE  intent_checks(p) = OK
  <1>1. p.txType \in TxType /\ p.chain \in Chain
    BY DEF PreparedTransaction
  <1>2. CASE p.chain = "ethereum"
    <2>1. CanonicalEvm(p)
      BY <1>2 DEF Canonical
    <2>2. validate_evm_fields(p) = OK
      <3>1. FitsUint(p.nonce, U64Max) /\ p.nonce.val <= SafeMax /\ IsSome(p.nonce)
        BY <2>1, WidthAssumption DEF CanonicalEvm, Decimal, FitsUint, IsSome
      <3>2. /\ validate_evm_address(p.from) = OK /\ validate_evm_address(p.to) = OK
            /\ IsSome(p.tokenContract) => validate_evm_address(p.tokenContract) = OK
        BY <2>1, AddressOK DEF CanonicalEvm
      <3> QED
        BY <2>1, <3>1, <3>2 DEF CanonicalEvm, validate_evm_fields, ??, Require
    <2>3. CASE p.txType = "TRANSFER_NATIVE"
      BY <1>2, <2>1, <2>2, <2>3 DEF CanonicalEvm, intent_checks, ??, Require
    <2>4. CASE p.txType = "TRANSFER_TOKEN"
      <3>1. CanonicalTransferCall(p) /\ IsSome(p.tokenContract)
        BY <2>1, <2>4 DEF CanonicalEvm, Canonical
      <3>2. LowerCase(p.to) = LowerCase(p.tokenContract)
        <4>1. /\ p.to \in AddressText /\ p.tokenContract \in AddressText
              /\ EvmAddress(p.to) /\ EvmAddress(p.tokenContract)
              /\ p.to.acct = p.tokenContract.acct
          BY <2>1, <3>1
             DEF PreparedTransaction, StringAddress, AddressText, CanonicalEvm,
                 CanonicalTransferCall
        <4>2. ASSUME NEW a \in AddressText, EvmAddress(a)
              PROVE  LowerCase(a) = [form |-> "0xhex40", acct |-> a.acct]
          BY <4>2 DEF LowerCase, AddressText, EvmAddress
        <4> QED
          BY <4>1, <4>2
      <3>3. p.valueWei = Dec(0)
        BY SMTT(60), <3>1 DEF CanonicalTransferCall, Canonical, Decimal, PreparedTransaction,
                    StringNumeral, Dec
      <3>4. validate_evm_token_transfer(p) = OK
        BY <3>1, <3>2, <3>3
           DEF CanonicalTransferCall, validate_evm_token_transfer, ??, Require, Slice,
               ERC20_TRANSFER_CALLDATA_HEX_LEN
      <3> QED
        BY <1>2, <2>2, <2>4, <3>1, <3>4 DEF intent_checks, ??, Require
    <2> QED
      BY <1>1, <2>3, <2>4 DEF TxType
  <1>3. CASE p.chain = "tron"
    <2>1. CanonicalTron(p) /\ (p.txType = "TRANSFER_TOKEN" => IsSome(p.tokenContract))
      BY <1>3 DEF Canonical
    <2>2. validate_tron_fields(p) = OK
      BY <2>1, AddressOK DEF CanonicalTron, validate_tron_fields, ??
    <2> QED
      BY <1>3, <2>1, <2>2 DEF intent_checks, ??, Require
  <1> QED
    BY <1>1, <1>2, <1>3 DEF Chain

----------------------------------------------------------------------------
(* Validation of the JSON form of a typed transaction.                     *)

(* The JSON form is accepted exactly when the transaction, without its     *)
(* empty texts, is canonical.                                              *)
LEMMA ReloadAccepts ==
  ASSUME NEW p \in PreparedTransaction
  PROVE  validate(to_json(p)) = OK <=> Canonical(DropEmpty(p))
  <1> DEFINE raw == to_json(p)
  <1>1. ASSUME validate(raw) = OK PROVE Canonical(DropEmpty(p))
    BY SMTT(60), <1>1, ToJsonTyped, ValidateOK, RoundTrip
  <1>2. ASSUME Canonical(DropEmpty(p)) PROVE validate(raw) = OK
    <2> DEFINE d == DropEmpty(p)
    <2>1. /\ d.chain = p.chain /\ d.from = p.from /\ d.to = p.to /\ d.fee = p.fee
          /\ d.valueWei = p.valueWei /\ d.nonce = p.nonce
      BY WithTextsFields DEF DropEmpty
    <2>2. d \in PreparedTransaction /\ PreparedOf(raw) = d
      BY DropEmptyTyped, RoundTrip
    <2> HIDE DEF d
    <2>3. Canonical(d)
      BY <1>2 DEF d
    <2>4. /\ raw.form = "object" /\ raw.chain \in Chain /\ raw.txType \in TxType
          /\ raw.chain = p.chain /\ raw.from = p.from /\ raw.to = p.to
          /\ raw.valueWei = Str(p.valueWei) /\ raw.nonce = OrNull(p.nonce)
          /\ raw.fee = fee_to_json(p.fee)
      BY DEF to_json, PreparedTransaction
    <2>5. require_int_string(raw.valueWei) = OK /\ optional_int_string(raw.nonce) = OK
      BY <2>1, <2>3, <2>4, AmountAccepted DEF Canonical
    <2>6. /\ require_non_empty_string(raw.from) = OK
          /\ require_non_empty_string(raw.to) = OK
      BY <2>1, <2>3, <2>4
         DEF Canonical, CanonicalEvm, CanonicalTron, EvmAddress, TronAddressText,
             require_non_empty_string, Require
    <2>7. validate_fee(raw.fee, raw.chain) = OK
      <3>1. p.fee \in FeeParams /\ CanonicalFee(p.fee)
        BY <2>1, <2>3 DEF PreparedTransaction, Canonical
      <3>2. p.chain = "tron" <=> p.fee.mode = "TRON"
        BY <2>1, <2>3 DEF Canonical, CanonicalEvm, CanonicalTron, PreparedTransaction, Chain
      <3> QED
        BY <2>4, <3>1, <3>2, FeeAccepted
    <2>8. intent_checks(PreparedOf(raw)) = OK
      BY <2>2, <2>3, IntentAccepted
    <2> HIDE DEF raw
    <2> QED
      BY <2>4, <2>5, <2>6, <2>7, <2>8 DEF validate, ??, Require
  <1> QED
    BY <1>1, <1>2

(* A transaction without empty texts is what is left of it without them. *)
LEMMA NothingToDrop ==
  ASSUME NEW p \in PreparedTransaction, p.data.form # "empty",
         p.tokenContract.form # "empty"
  PROVE  DropEmpty(p) = p
  <1>1. optional_string(p.data) = p.data /\ optional_string(p.tokenContract) = p.tokenContract
    BY DEF optional_string
  <1> QED
    BY <1>1, WithTextsFields DEF DropEmpty, PreparedTransaction

(* Late validation accepts the canonical transactions and no other, and    *)
(* changes nothing but Some("") to None (validate.rs:28-92).               *)
THEOREM AdmitsExactly == Spec => AdmitExact
  <1>1. TypeOK /\ [Next]_vars =>
          [Revalidate =>
             /\ verdict' = OK <=> Canonical(DropEmpty(prepared))
             /\ verdict' = OK => prepared' = DropEmpty(prepared)]_vars
    <2> SUFFICES ASSUME TypeOK, Revalidate
                 PROVE  /\ verdict' = OK <=> Canonical(DropEmpty(prepared))
                        /\ verdict' = OK => prepared' = DropEmpty(prepared)
      OBVIOUS
    <2>1. prepared \in PreparedTransaction
      BY DEF Revalidate, held, TypeOK
    <2> QED
      BY <2>1, ReloadAccepts, RoundTrip DEF Revalidate
  <1> QED
    BY <1>1, TypeCorrect, PTL DEF AdmitExact, Spec

(* A transaction that was validated survives its own serialisation: a      *)
(* second validate accepts it and gives back the same value (types.rs:69). *)
THEOREM ReloadsStably == Spec => ReloadStable
  <1>1. SessionInv /\ [Next]_vars =>
          [Revalidate /\ trusted => verdict' = OK /\ prepared' = prepared]_vars
    <2> SUFFICES ASSUME SessionInv, Revalidate, trusted
                 PROVE  verdict' = OK /\ prepared' = prepared
      OBVIOUS
    <2>1. /\ prepared \in PreparedTransaction /\ Canonical(prepared)
          /\ prepared.data.form # "empty"
      BY DEF trusted, held, SessionInv, TypeOK
    <2>2. prepared.tokenContract.form # "empty"
      BY <2>1 DEF Canonical, CanonicalEvm, CanonicalTron, EvmAddress, TronAddressText, IsSome
    <2>3. DropEmpty(prepared) = prepared
      BY <2>1, <2>2, NothingToDrop
    <2> QED
      BY <2>1, <2>3, ReloadAccepts, RoundTrip DEF Revalidate
  <1> QED
    BY <1>1, Invariance, PTL DEF ReloadStable, Spec

----------------------------------------------------------------------------
(* The request of an accepted transaction.                                 *)

(* The deed that an accepted transaction asks for is one of MeantDeeds. *)
LEMMA DeedTyped ==
  ASSUME NEW p \in PreparedTransaction, Canonical(p)
  PROVE  AskedDeed(p) \in MeantDeeds
  <1>1. /\ p.to.acct \in Accounts /\ p.from.acct \in Accounts
        /\ p.tokenContract.acct \in Accounts /\ p.data.to \in Accounts
    BY DEF PreparedTransaction, StringAddress, AddressText, Calldata
  <1>2. p.valueWei.val \in Nat /\ p.nonce.val \in Nat /\ p.data.amount \in Nat
    <2>1. p.data.amount \in 0..U256Max
      BY DEF PreparedTransaction, Calldata
    <2>2. U256Max \in Nat
      BY WidthAssumption
    <2> QED
      BY <2>1, <2>2, NumeralVal DEF PreparedTransaction, Numeral
  <1>3. p.chainId.val \in Int
    BY WidthAssumption DEF PreparedTransaction, OptI64, None, Dec
  <1>4. AskedTransfers(p) \in SUBSET Transfers
    BY <1>1, <1>2 DEF AskedTransfers, CoinTransfer, TransferOf, Transfers
  <1>5. ASSUME p.chain = "ethereum" PROVE OnEvm(p.chainId.val, p.nonce.val) \in Bindings
    BY <1>2, <1>3 DEF OnEvm, Bindings
  <1>6. OnTron(p.from.acct) \in Bindings
    BY <1>1 DEF OnTron, Bindings
  <1> QED
    BY <1>4, <1>5, <1>6 DEF AskedDeed, MeantDeeds

(* Its cost is a number, and so is the cost in any summary of it. *)
LEMMA CostsTyped ==
  ASSUME NEW p \in PreparedTransaction
  PROVE  /\ AskedCost(p.fee) \in Nat
         /\ unwrap_or_0(build_fee_review(p.fee).estimatedMaxCost).val \in Nat
  <1> DEFINE fee == p.fee
  <1>1. /\ fee.gasLimit \in Numeral /\ fee.maxFeePerGas \in Numeral
        /\ fee.gasPrice \in Numeral /\ fee.el \in Numeral /\ fee.mode \in FeeMode
    BY DEF PreparedTransaction, FeeParams
  <1> HIDE DEF fee
  <1>2. legacy_gas_price(fee) \in Numeral
    BY <1>1 DEF legacy_gas_price, or
  <1>3. \A x \in Numeral : unwrap_or_0(x) \in Numeral
    BY DEF unwrap_or_0, Numeral, StringNumeral, Dec, NumeralForms
  <1>4. /\ fee.gasLimit.val \in Nat /\ fee.maxFeePerGas.val \in Nat
        /\ legacy_gas_price(fee).val \in Nat /\ unwrap_or_0(fee.el).val \in Nat
    BY <1>1, <1>2, <1>3, NumeralVal
  <1>5. /\ fee.gasLimit.val * fee.maxFeePerGas.val \in Nat
        /\ fee.gasLimit.val * legacy_gas_price(fee).val \in Nat
    BY <1>4
  <1>6. AskedCost(fee) \in Nat
    BY <1>1, <1>4, <1>5 DEF AskedCost, FeeMode
  <1>7. build_fee_review(fee).estimatedMaxCost \in Numeral
    <2>1. CASE fee.mode = "EIP1559"
      BY <1>1, <1>3, <2>1, MultiplyTyped DEF build_fee_review, EmptyFeeReview
    <2>2. CASE fee.mode = "LEGACY"
      <3>1. or(fee.gasPrice, fee.maxFeePerGas) \in Numeral
        BY <1>1 DEF or
      <3> QED
        BY <1>1, <1>3, <2>2, <3>1, MultiplyTyped DEF build_fee_review, EmptyFeeReview
    <2>3. CASE fee.mode = "TRON"
      BY <1>1, <2>3 DEF build_fee_review, EmptyFeeReview
    <2> QED
      BY <1>1, <2>1, <2>2, <2>3 DEF FeeMode
  <1> QED
    BY <1>3, <1>6, <1>7, NumeralVal DEF fee

(* An accepted transaction is a request that SigningRequest admits. *)
LEMMA RequestTyped ==
  ASSUME NEW p \in PreparedTransaction, Canonical(p)
  PROVE  AskedRequest(p) \in SR!Requests
  <1>1. NumbersFit(p) \in BOOLEAN
    BY DEF NumbersFit
  <1> QED
    BY <1>1, DeedTyped, CostsTyped DEF AskedRequest, SR!Requests

----------------------------------------------------------------------------
(* The summary.                                                            *)

(* review of a draft shows the deed that the accepted transaction asks. *)
LEMMA ShownDeed ==
  ASSUME NEW p \in PreparedTransaction, Canonical(p), NEW q \in Drafts(p)
  PROVE  ShownPromise(TransactionReview(q)).deed = AskedDeed(p)
  <1> DEFINE s == TransactionReview(q)
  <1>1. /\ q.chain = p.chain /\ q.txType = p.txType /\ q.to = p.to /\ q.from = p.from
        /\ q.valueWei = p.valueWei /\ q.chainId = p.chainId /\ q.nonce = p.nonce
        /\ p.txType = "TRANSFER_TOKEN" => q.tokenContract = p.tokenContract
    BY DraftFields, DraftCarries DEF Canonical
  <1>2. DecodesCalldata(p) => q.data = p.data
    BY DraftCarries DEF DecodesCalldata, Canonical, CanonicalEvm, CanonicalTransferCall
  <1>3. /\ s.chain = p.chain /\ s.txType = p.txType /\ s.from = p.from
        /\ s.chainId = p.chainId /\ s.nonce = p.nonce /\ s.tokenContract = q.tokenContract
    BY <1>1 DEF TransactionReview
  <1>4. p.txType \in {"TRANSFER_NATIVE", "TRANSFER_TOKEN"} /\ p.chain \in {"ethereum", "tron"}
    BY DEF PreparedTransaction, TxType, Chain
  <1>5. Approved(s) = AskedTransfers(p)
    <2>1. CASE DecodesCalldata(p)
      <3>1. s.recipient.acct = p.data.to /\ s.amount.val = p.data.amount
        BY <1>1, <1>2, <2>1 DEF TransactionReview, DecodesCalldata, U256Text, Dec
      <3> QED
        BY <1>1, <1>3, <2>1, <3>1 DEF Approved, AskedTransfers, DecodesCalldata
    <2>2. CASE ~DecodesCalldata(p)
      <3>1. s.recipient = p.to /\ s.amount = p.valueWei
        BY <1>1, <2>2 DEF TransactionReview, DecodesCalldata
      <3> QED
        BY <1>1, <1>3, <1>4, <2>2, <3>1 DEF Approved, AskedTransfers, DecodesCalldata
    <2> QED
      BY <2>1, <2>2
  <1> HIDE DEF s
  <1>6. ShownPromise(s).deed = AskedDeed(p)
    BY <1>3, <1>5 DEF ShownPromise, AskedDeed
  <1> QED
    BY <1>6 DEF s

(* The cost that review shows of a request with numbers that fit. *)
LEMMA ShownCost ==
  ASSUME NEW p \in PreparedTransaction, Canonical(p), NumbersFit(p)
  PROVE  unwrap_or_0(build_fee_review(p.fee).estimatedMaxCost).val = AskedCost(p.fee)
  <1>1. /\ p.fee.gasLimit \in Numeral /\ p.fee.maxFeePerGas \in Numeral
        /\ p.fee.gasPrice \in Numeral /\ CanonicalFee(p.fee)
    BY DEF PreparedTransaction, FeeParams, Canonical
  <1>2. CASE p.chain = "ethereum"
    <2>1. p.fee.mode \in {"EIP1559", "LEGACY"}
      BY <1>2 DEF Canonical, CanonicalEvm
    <2>2. CASE p.fee.mode = "EIP1559"
      <3>1. /\ IsSome(p.fee.gasLimit) /\ IsSome(p.fee.maxFeePerGas)
            /\ Decimal(p.fee.gasLimit) /\ Decimal(p.fee.maxFeePerGas)
        BY <1>1, <2>2 DEF CanonicalFee, OptDecimal
      <3>2. p.fee.gasLimit.val <= U64Max /\ p.fee.maxFeePerGas.val <= U128Max
        BY <1>2, <2>2 DEF NumbersFit
      <3>3. multiply_decimal(p.fee.gasLimit, p.fee.maxFeePerGas)
              = Dec(p.fee.gasLimit.val * p.fee.maxFeePerGas.val)
        BY <1>1, <3>1, <3>2, ProductFits
      <3>4. build_fee_review(p.fee).estimatedMaxCost
              = multiply_decimal(p.fee.gasLimit, p.fee.maxFeePerGas)
        BY <2>2, <3>1 DEF build_fee_review, EmptyFeeReview, unwrap_or_0
      <3> QED
        BY <2>2, <3>3, <3>4 DEF AskedCost, unwrap_or_0, IsSome, Dec
    <2>3. CASE p.fee.mode = "LEGACY"
      <3> DEFINE price == legacy_gas_price(p.fee)
      <3>1. /\ IsSome(p.fee.gasLimit) /\ IsSome(price) /\ price \in Numeral
            /\ Decimal(p.fee.gasLimit) /\ Decimal(price)
        BY <1>1, <2>3 DEF CanonicalFee, OptDecimal, legacy_gas_price, or
      <3>2. p.fee.gasLimit.val <= U64Max /\ price.val <= U128Max
        BY <1>2, <2>3 DEF NumbersFit
      <3>3. multiply_decimal(p.fee.gasLimit, price) = Dec(p.fee.gasLimit.val * price.val)
        BY <1>1, <3>1, <3>2, ProductFits
      <3>4. build_fee_review(p.fee).estimatedMaxCost = multiply_decimal(p.fee.gasLimit, price)
        BY <2>3, <3>1 DEF build_fee_review, EmptyFeeReview, unwrap_or_0, legacy_gas_price
      <3> QED
        BY <2>3, <3>3, <3>4 DEF AskedCost, unwrap_or_0, IsSome, Dec
    <2> QED
      BY <2>1, <2>2, <2>3
  <1>3. CASE p.chain = "tron"
    <2>1. p.fee.mode = "TRON"
      BY <1>3 DEF Canonical, CanonicalTron
    <2> QED
      BY <2>1 DEF build_fee_review, EmptyFeeReview, AskedCost
  <1> QED
    BY <1>2, <1>3 DEF PreparedTransaction, Chain

(* A summary of an accepted transaction may be shown for its request. *)
LEMMA MayShowSummary ==
  ASSUME NEW p \in PreparedTransaction, Canonical(p), NEW q \in Drafts(p)
  PROVE  ShownPromise(TransactionReview(q)) \in SR!MayShow(AskedRequest(p))
  <1> DEFINE s == ShownPromise(TransactionReview(q))
             c == unwrap_or_0(build_fee_review(p.fee).estimatedMaxCost).val
  <1>1. q.fee = p.fee
    BY DraftFields
  <1>2. s.cost = c
    BY <1>1 DEF ShownPromise, TransactionReview
  <1>3. s = [deed |-> AskedDeed(p), cost |-> c]
    <2>1. s = [deed |-> s.deed, cost |-> s.cost]
      BY DEF ShownPromise
    <2>2. s.deed = AskedDeed(p)
      BY ShownDeed
    <2> QED
      BY <1>2, <2>1, <2>2
  <1>4. c \in Nat
    BY CostsTyped
  <1>5. NumbersFit(p) => c = AskedCost(p.fee)
    BY ShownCost
  <1> HIDE DEF s, c
  <1>6. s \in SR!MayShow(AskedRequest(p))
    BY <1>3, <1>4, <1>5 DEF SR!MayShow, SR!Promise, AskedRequest
  <1> QED
    BY <1>6 DEF s

----------------------------------------------------------------------------
(* The bytes.                                                              *)

(* The bytes compiled from a draft promise what its accepted transaction   *)
(* asks, and exist only when its numbers fit.                              *)
LEMMA SignedForRequest ==
  ASSUME NEW p \in PreparedTransaction, Canonical(p),
         NEW r \in Drafts(p), NEW now, NEW clock, compile(r, now, clock).code = OK
  PROVE  /\ NumbersFit(p)
         /\ SignedPromise(compile(r, now, clock).unsigned)
              = [deed |-> AskedDeed(p), cost |-> AskedCost(p.fee)]
  <1> DEFINE u == compile(r, now, clock).unsigned
             s == TransactionReview(r)
  <1>1. r \in PreparedTransaction /\ r.chain = p.chain /\ r.fee = p.fee
    BY DraftTyped, DraftFields
  <1>2. ShownPromise(s).deed = AskedDeed(p)
    BY ShownDeed
  <1>3. s.chain = p.chain
    BY <1>1 DEF TransactionReview
  <1>4. CASE p.chain = "ethereum"
    <2>1. u.envelope \in {"eip1559", "legacy"} /\ u.tx = EvmCommon(r)
      BY <1>1, <1>4, EvmPreImage
    <2>2. NumbersFit(p)
      <3>1. compile_evm_code(r) = OK
        BY <1>1, <1>4 DEF compile, compile_evm, Failed
      <3> QED
        BY <1>4, <3>1, EvmVerdict DEF OK
    <2>3. Effects(u) = Approved(s) /\ SameEnvelope(s, u)
      BY <1>4, <2>1, EvmAgreement
    <2>4. FeeCeiling(u) = AskedCost(p.fee)
      <3>1. CanonicalFee(r.fee)
        BY <1>1 DEF Canonical
      <3>2. unwrap_or_0(build_fee_review(r.fee).estimatedMaxCost).val = FeeCeiling(u)
        BY <1>1, <1>4, <3>1, EvmCost
      <3> QED
        BY <1>1, <2>2, <3>2, ShownCost
    <2> HIDE DEF u, s
    <2>5. SignedPromise(u) = [deed |-> ShownPromise(s).deed, cost |-> AskedCost(p.fee)]
      BY <1>3, <1>4, <2>1, <2>3, <2>4 DEF SignedPromise, ShownPromise, SameEnvelope
    <2> QED
      BY <1>2, <2>2, <2>5 DEF u, s
  <1>5. CASE p.chain = "tron"
    <2> DEFINE ts == timestamp_ms(now, clock)
    <2>1. u = encode_raw_data(r, ts)
      BY <1>1, <1>5, TronSigned
    <2>2. NumbersFit(p)
      <3>1. compile_tron_code(r, ts) = OK
        BY <1>1, <1>5 DEF compile, compile_tron, Failed
      <3> HIDE DEF ts
      <3> QED
        BY <1>5, <3>1, TronVerdict DEF OK
    <2>3. Effects(u) = Approved(s) /\ SameEnvelope(s, u)
      BY <1>5, <2>1, TronAgreement
    <2>4. FeeCeiling(u) = AskedCost(p.fee)
      <3>1. r.fee.mode = "TRON"
        BY <1>1, <1>5 DEF Canonical, CanonicalTron
      <3>2. unwrap_or_0(build_fee_review(r.fee).estimatedMaxCost).val = FeeCeiling(u)
        BY <1>1, <2>1, <3>1, TronCost
      <3> QED
        BY <1>1, <2>2, <3>2, ShownCost
    <2>5. u.envelope = "raw_data"
      BY <2>1 DEF encode_raw_data
    <2> HIDE DEF u, s
    <2>6. SignedPromise(u) = [deed |-> ShownPromise(s).deed, cost |-> AskedCost(p.fee)]
      BY <1>3, <1>5, <2>3, <2>4, <2>5 DEF SignedPromise, ShownPromise, SameEnvelope
    <2> QED
      BY <1>2, <2>2, <2>6 DEF u, s
  <1> QED
    BY <1>4, <1>5 DEF PreparedTransaction, Chain

----------------------------------------------------------------------------
(* The refinement.                                                         *)

(* In every state, the request, the summary and the bytes of an accepted *)
(* transaction are ones that SigningRequest allows.                      *)
LEMMA StateAllowed ==
  SessionInv =>
    IF trusted
    THEN /\ requestNow \in SR!Requests
         /\ shownNow \in SR!MayShow(requestNow) \cup {SR!Nothing}
         /\ signedNow \in SUBSET SR!MaySign(requestNow)
    ELSE requestNow = SR!NoRequest /\ shownNow = SR!Nothing /\ signedNow = {}
  <1> SUFFICES ASSUME SessionInv, trusted
               PROVE  /\ requestNow \in SR!Requests
                      /\ shownNow \in SR!MayShow(requestNow) \cup {SR!Nothing}
                      /\ signedNow \in SUBSET SR!MaySign(requestNow)
    BY DEF requestNow, shownNow, signedNow, SR!NoRequest, SR!Nothing
  <1>1. prepared \in PreparedTransaction /\ Canonical(prepared)
    BY DEF trusted, held, SessionInv, TypeOK
  <1>2. requestNow = AskedRequest(prepared)
    BY DEF requestNow
  <1>3. requestNow \in SR!Requests
    BY <1>1, <1>2, RequestTyped
  <1>4. shownNow \in SR!MayShow(requestNow) \cup {SR!Nothing}
    <2>1. CASE reviewed = NoResult
      BY <2>1 DEF shownNow, SR!Nothing
    <2>2. CASE reviewed # NoResult
      <3>1. PICK q \in Drafts(prepared) : reviewed = review(q)
        BY <1>1, <2>2, SourceDraft DEF SessionInv, ReviewedFromDraft
      <3>2. reviewed.summary = TransactionReview(q)
        BY <1>1, <3>1, CanonicalReview
      <3> QED
        BY <1>1, <1>2, <2>2, <3>2, MayShowSummary DEF shownNow
    <2> QED
      BY <2>1, <2>2
  <1>5. ASSUME NEW i \in Compiled PROVE SignedPromise(Unsigned(i)) \in SR!MaySign(requestNow)
    <2>1. PICK r \in Drafts(prepared), clock \in 0..U64Max :
            outputs[i].result = compile(r, outputs[i].now, clock)
      BY <1>1, SourceDraft DEF SessionInv, CompiledFromDraft, Compiled
    <2>2. /\ NumbersFit(prepared)
          /\ SignedPromise(Unsigned(i))
               = [deed |-> AskedDeed(prepared), cost |-> AskedCost(prepared.fee)]
      BY <1>1, <2>1, SignedForRequest DEF Compiled, Unsigned
    <2> QED
      BY <1>2, <2>2 DEF AskedRequest, SR!MaySign, SR!Promise
  <1>6. signedNow \in SUBSET SR!MaySign(requestNow)
    BY <1>5 DEF signedNow
  <1> QED
    BY <1>3, <1>4, <1>6

(* A request is not NoRequest, a promise is not Nothing. *)
LEMMA Distinct ==
  /\ \A r \in SR!Requests : r # SR!NoRequest
  /\ \A d, c : [deed |-> d, cost |-> c] # SR!Nothing
  BY DEF SR!Requests, SR!NoRequest, SR!Nothing

(* While a transaction stays accepted, it is not replaced, and only review *)
(* and compile add to what is shown and signed.                            *)
LEMMA AcceptedStep ==
  ASSUME SessionInv, [Next]_vars, trusted, trusted'
  PROVE  /\ prepared' = prepared
         /\ \/ UNCHANGED <<reviewed, outputs>>
            \/ reviewed = NoResult /\ UNCHANGED outputs
            \/ /\ UNCHANGED reviewed
               /\ \E e : outputs' = Append(outputs, e)
  <1>1. /\ prepared \in PreparedTransaction /\ Canonical(prepared)
        /\ prepared.data.form # "empty"
    BY DEF trusted, held, SessionInv, TypeOK
  <1>2. ASSUME Revalidate PROVE UNCHANGED <<prepared, reviewed, outputs>>
    <2>1. prepared.tokenContract.form # "empty"
      BY <1>1 DEF Canonical, CanonicalEvm, CanonicalTron, EvmAddress, TronAddressText, IsSome
    <2>2. DropEmpty(prepared) = prepared
      BY <1>1, <2>1, NothingToDrop
    <2> QED
      BY <1>1, <1>2, <2>2, ReloadAccepts, RoundTrip DEF Revalidate
  <1>3. ASSUME ReviewPrepared
        PROVE  reviewed = NoResult /\ UNCHANGED <<prepared, outputs>>
    BY <1>3 DEF ReviewPrepared
  <1>4. ASSUME NEW now, NEW clock, CompilePrepared(now, clock)
        PROVE  UNCHANGED <<prepared, reviewed>> /\ \E e : outputs' = Append(outputs, e)
    BY <1>4 DEF CompilePrepared
  <1>5. ASSUME Drop PROVE FALSE
    BY <1>5 DEF Drop, trusted, held
  <1>6. ASSUME NEW raw, ValidatePayload(raw) PROVE FALSE
    BY <1>6 DEF ValidatePayload, trusted
  <1>7. ASSUME NEW p, Deserialize(p) PROVE FALSE
    BY <1>7 DEF Deserialize, trusted
  <1> QED
    BY <1>2, <1>3, <1>4, <1>5, <1>6, <1>7 DEF Next, vars

(* Compiling once more takes nothing back of what was signed. *)
LEMMA SignedGrows ==
  ASSUME TypeOK, trusted, trusted', NEW e, outputs' = Append(outputs, e)
  PROVE  signedNow \subseteq signedNow'
  <1>1. ASSUME NEW i \in Compiled PROVE i \in Compiled' /\ Unsigned(i)' = Unsigned(i)
    <2>1. outputs \in Seq([now : OptU64, result : CompilationResult])
      BY DEF TypeOK
    <2>2. i \in DOMAIN outputs' /\ outputs'[i] = outputs[i]
      BY <1>1, <2>1 DEF Compiled
    <2> QED
      BY <1>1, <2>2 DEF Compiled, Unsigned
  <1> QED
    BY <1>1 DEF signedNow

(* Every step of a session is a step of SigningRequest, or none. *)
LEMMA StepRefines ==
  ASSUME SessionInv, SessionInv', [Next]_vars
  PROVE  [SR!Next]_(SR!vars)
  <1>1. IF trusted
        THEN /\ requestNow \in SR!Requests
             /\ shownNow \in SR!MayShow(requestNow) \cup {SR!Nothing}
             /\ signedNow \in SUBSET SR!MaySign(requestNow)
        ELSE requestNow = SR!NoRequest /\ shownNow = SR!Nothing /\ signedNow = {}
    BY StateAllowed
  <1>2. IF trusted'
        THEN /\ requestNow' \in SR!Requests
             /\ shownNow' \in SR!MayShow(requestNow') \cup {SR!Nothing}
             /\ signedNow' \in SUBSET SR!MaySign(requestNow')
        ELSE requestNow' = SR!NoRequest /\ shownNow' = SR!Nothing /\ signedNow' = {}
    <2>1. (SessionInv =>
             IF trusted
             THEN /\ requestNow \in SR!Requests
                  /\ shownNow \in SR!MayShow(requestNow) \cup {SR!Nothing}
                  /\ signedNow \in SUBSET SR!MaySign(requestNow)
             ELSE requestNow = SR!NoRequest /\ shownNow = SR!Nothing /\ signedNow = {})'
      BY StateAllowed, PTL
    <2> QED
      BY <2>1 DEF SR!MayShow, SR!MaySign, SR!Requests, SR!NoRequest, SR!Nothing, SR!Promise
  <1>3. CASE ~trusted /\ ~trusted'
    BY <1>1, <1>2, <1>3 DEF SR!vars
  <1>4. CASE ~trusted /\ trusted'
    BY <1>1, <1>2, <1>4 DEF SR!Next, SR!Admit
  <1>5. CASE trusted /\ ~trusted'
    BY <1>1, <1>2, <1>5, Distinct DEF SR!Next, SR!Forget
  <1>6. CASE trusted /\ trusted'
    <2>1. requestNow # SR!NoRequest
      BY <1>1, <1>6, Distinct
    <2>2. prepared' = prepared
      BY <1>6, AcceptedStep
    <2>3. requestNow' = requestNow
      BY <1>6, <2>2 DEF requestNow
    <2>4. CASE UNCHANGED <<reviewed, outputs>>
      BY <1>6, <2>3, <2>4 DEF SR!vars, shownNow, signedNow, Compiled, Unsigned
    <2>5. CASE reviewed = NoResult /\ UNCHANGED outputs
      <3>1. shownNow = SR!Nothing
        BY <2>5 DEF shownNow, SR!Nothing
      <3>2. signedNow' = signedNow
        BY <1>6, <2>5 DEF signedNow, Compiled, Unsigned
      <3>3. shownNow' \in SR!MayShow(requestNow) \/ shownNow' = SR!Nothing
        BY <1>2, <1>6, <2>3
      <3> QED
        BY <2>1, <2>3, <3>1, <3>2, <3>3 DEF SR!Next, SR!Show, SR!vars
    <2>6. CASE UNCHANGED reviewed /\ \E e : outputs' = Append(outputs, e)
      <3>1. shownNow' = shownNow
        BY <1>6, <2>6 DEF shownNow
      <3>2. signedNow \subseteq signedNow'
        BY <1>6, <2>6, SignedGrows DEF SessionInv
      <3>3. signedNow' \subseteq SR!MaySign(requestNow)
        BY <1>2, <1>6, <2>3
      <3>4. CASE signedNow' = {}
        BY <2>3, <3>1, <3>2, <3>4 DEF SR!vars
      <3>5. CASE signedNow' # {}
        <4>1. requestNow.signable /\ signedNow' = {SR!Promise(requestNow)}
          BY <3>3, <3>5 DEF SR!MaySign
        <4> QED
          BY <2>1, <2>3, <3>1, <4>1 DEF SR!Next, SR!Sign
      <3> QED
        BY <3>4, <3>5
    <2> QED
      BY <1>6, <2>4, <2>5, <2>6, AcceptedStep
  <1> QED
    BY <1>3, <1>4, <1>5, <1>6

(* Whatever the order of the calls, an admitted transaction keeps one      *)
(* meaning from validate to the last compile: the fields, the summary and  *)
(* the bytes say the same deed, and the same cost when there are bytes     *)
(* (review.rs:12-15, evm.rs:98-187, validate.rs:44-92).                    *)
THEOREM SessionRefines == Spec => ImplementsSigningRequest
  <1>1. Init => SR!Init
    BY DEF Init, SR!Init, SR!NoRequest, SR!Nothing, requestNow, shownNow, signedNow,
           trusted, OK
  <1>2. SessionInv /\ SessionInv' /\ [Next]_vars => [SR!Next]_(SR!vars)
    BY StepRefines
  <1> QED
    BY <1>1, <1>2, Invariance, PTL DEF Spec, SR!Spec, ImplementsSigningRequest
============================================================================
