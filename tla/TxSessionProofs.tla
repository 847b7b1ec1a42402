-------------------------- MODULE TxSessionProofs --------------------------
(***************************************************************************)
(* The safety of every session, for every choice of the constants: the     *)
(* inductive invariant SessionInv and what follows from it, up to the      *)
(* agreement of review and compile: what is signed is what was reviewed,   *)
(* at the cost that was reviewed.                                          *)
(***************************************************************************)
EXTENDS TypeProofs

----------------------------------------------------------------------------
(* No panic.                                                               *)

(* The slices of validate are in range (validate.rs:268,285). *)
LEMMA ValidateNoPanic == ASSUME NEW raw PROVE validate(raw) # PANIC
  <1>1. /\ \A j : require_int_string(j) # PANIC /\ optional_int_string(j) # PANIC
        /\ \A a : tron_address_to_bytes(a) # PANIC /\ validate_evm_address(a) # PANIC
                  /\ validate_tron_address(a) # PANIC /\ require_non_empty_string(a) # PANIC
        /\ \A rp : optional_block_header(rp) # PANIC
    BY DEF require_int_string, optional_int_string, tron_address_to_bytes, enforce_shape,
           validate_evm_address, validate_tron_address, require_non_empty_string,
           optional_block_header, require_positive_int, require_non_neg_int,
           ??, Require, OK, PANIC
  <1>2. ASSUME NEW fee, fee.mode \in FeeMode PROVE mode_requires(fee) # PANIC
    BY <1>2 DEF mode_requires, FeeMode, ??, Require, OK, PANIC
  <1>3. ASSUME NEW fee, NEW chain PROVE validate_fee(fee, chain) # PANIC
    <2>1. FeeOf(fee).mode = fee.mode
      BY SMTT(60) DEF FeeOf
    <2>2. CASE fee.mode \in FeeMode
      BY ZenonT(60), <2>1, <2>2, <1>1, <1>2 DEF validate_fee, ??, Require, OK, PANIC
    <2>3. CASE fee.mode \notin FeeMode
      BY ZenonT(60), <2>3 DEF validate_fee, ??, Require, OK, PANIC
    <2> QED
      BY <2>2, <2>3
  <1>4. ASSUME NEW p PROVE intent_checks(p) # PANIC
    <2>1. validate_evm_fields(p) # PANIC /\ validate_tron_fields(p) # PANIC
      BY <1>1 DEF validate_evm_fields, validate_tron_fields, ??, Require, OK, PANIC
    <2>2. validate_evm_token_transfer(p) # PANIC
      BY SMTT(60) DEF validate_evm_token_transfer, ??, Require, Slice, OK, PANIC,
             ERC20_TRANSFER_CALLDATA_HEX_LEN
    <2> QED
      BY <2>1, <2>2 DEF intent_checks, ??, Require, OK, PANIC
  <1> QED
    BY <1>1, <1>3, <1>4 DEF validate, ??, Require, OK, PANIC

(* The slices of review are in range (review.rs:69,88,98). *)
LEMMA ReviewNoPanic == ASSUME NEW p PROVE review(p).code # PANIC
  BY DEF review, decode_erc20_transfer_data, ??, Require, Slice, OK, PANIC,
         ERC20_TRANSFER_CALLDATA_HEX_LEN

(* The slices of the compilers are in range (tron.rs:134,202). *)
LEMMA CompileNoPanic ==
  ASSUME NEW p \in PreparedTransaction, NEW now, NEW clock
  PROVE  compile(p, now, clock).code # PANIC
  BY CompileCodes DEF compile, compile_evm, compile_tron, Failed, OK, PANIC

----------------------------------------------------------------------------
(* Drafts: what an accepted transaction may have been before.              *)

(* WithTexts changes the two texts and nothing else. *)
LEMMA WithTextsFields ==
  ASSUME NEW p \in PreparedTransaction, NEW d, NEW t
  PROVE  WithTexts(p, d, t) =
           [ chain |-> p.chain, chainId |-> p.chainId, from |-> p.from, to |-> p.to,
             valueWei |-> p.valueWei, data |-> d, txType |-> p.txType,
             tokenContract |-> t, nonce |-> p.nonce, fee |-> p.fee ]
  <1> DEFINE q == [p EXCEPT !.data = d]
  <1>1. q = [ chain |-> p.chain, chainId |-> p.chainId, from |-> p.from, to |-> p.to,
              valueWei |-> p.valueWei, data |-> d, txType |-> p.txType,
              tokenContract |-> p.tokenContract, nonce |-> p.nonce, fee |-> p.fee ]
    BY DEF PreparedTransaction
  <1> HIDE DEF q
  <1>2. [q EXCEPT !.tokenContract = t] =
           [ chain |-> p.chain, chainId |-> p.chainId, from |-> p.from, to |-> p.to,
             valueWei |-> p.valueWei, data |-> d, txType |-> p.txType,
             tokenContract |-> t, nonce |-> p.nonce, fee |-> p.fee ]
    BY <1>1
  <1> QED
    BY <1>2 DEF WithTexts, q

(* A draft differs from the transaction in its two texts only. *)
LEMMA DraftFields ==
  ASSUME NEW p \in PreparedTransaction, NEW q \in Drafts(p)
  PROVE  /\ q.chain = p.chain /\ q.chainId = p.chainId /\ q.from = p.from /\ q.to = p.to
         /\ q.valueWei = p.valueWei /\ q.txType = p.txType /\ q.nonce = p.nonce
         /\ q.fee = p.fee
         /\ q.data \in Refill(p.data) /\ q.tokenContract \in Refill(p.tokenContract)
  <1>1. PICK d \in Refill(p.data), t \in Refill(p.tokenContract) : q = WithTexts(p, d, t)
    BY DEF Drafts
  <1> QED
    BY <1>1, WithTextsFields

(* A draft has the calldata and the token contract of the transaction. *)
LEMMA DraftCarries ==
  ASSUME NEW p \in PreparedTransaction, NEW q \in Drafts(p)
  PROVE  /\ Carries(q.data) <=> Carries(p.data)
         /\ Carries(p.data) => q.data = p.data
         /\ IsSome(p.tokenContract) => q.tokenContract = p.tokenContract
  <1>1. q.data \in Refill(p.data) /\ q.tokenContract \in Refill(p.tokenContract)
    BY DraftFields
  <1>2. p.data \in Calldata
    BY DEF PreparedTransaction
  <1>3. p.data.form = "none" => q.data.form \in {"none", "empty"}
    BY <1>1, <1>2 DEF Refill, Calldata
  <1>4. p.data.form # "none" => q.data = p.data
    BY <1>1 DEF Refill
  <1>5. IsSome(p.tokenContract) => q.tokenContract = p.tokenContract
    BY <1>1 DEF Refill, IsSome
  <1> QED
    BY <1>3, <1>4, <1>5 DEF Carries

(* A draft is a PreparedTransaction. *)
LEMMA DraftTyped ==
  ASSUME NEW p \in PreparedTransaction, NEW q \in Drafts(p)
  PROVE  q \in PreparedTransaction
  <1>1. /\ p.data \in Calldata /\ p.tokenContract \in AddressText
    BY DEF PreparedTransaction
  <1>2. \A d \in Refill(p.data) : d \in Calldata
    BY <1>1 DEF Refill, Calldata
  <1>3. \A t \in Refill(p.tokenContract) : t \in AddressText
    BY <1>1 DEF Refill, AddressText, AddressForms
  <1>4. PICK d \in Refill(p.data), t \in Refill(p.tokenContract) : q = WithTexts(p, d, t)
    BY DEF Drafts
  <1> QED
    BY <1>2, <1>3, <1>4, WithTextsFields DEF PreparedTransaction

(* A transaction is one of its drafts. *)
LEMMA DraftOfItself == ASSUME NEW p \in PreparedTransaction PROVE p \in Drafts(p)
  <1>1. p.data \in Refill(p.data) /\ p.tokenContract \in Refill(p.tokenContract)
    BY DEF Refill
  <1>2. p = WithTexts(p, p.data, p.tokenContract)
    BY WithTextsFields DEF PreparedTransaction
  <1> QED
    BY <1>1, <1>2 DEF Drafts

(* A numeral survives its JSON form, at the top level and in fee. *)
LEMMA NumeralRoundTrip ==
  ASSUME NEW x \in Numeral
  PROVE  coerce_to_string(OrNull(x)) = x /\ coerce_to_string(OrAbsent(x)) = x
  BY DEF coerce_to_string, OrNull, OrAbsent, Str, Null, Absent, AsU64, IsSome, None, Dec,
         Numeral, StringNumeral

(* The fee object survives its JSON form. *)
LEMMA FeeRoundTrip ==
  ASSUME NEW fee \in FeeParams
  PROVE  FeeOf(fee_to_json(fee)) = fee
  <1>1. HeaderOf(header_to_json(fee.rp)) = fee.rp
    <2>1. fee.rp \in TronBlockHeader
      BY DEF FeeParams
    <2> QED
      BY <2>1 DEF HeaderOf, header_to_json, TronBlockHeader, Num, Dec
  <1> QED
    BY <1>1, NumeralRoundTrip DEF FeeOf, fee_to_json, FeeParams

(* A round trip through JSON changes Some("") to None and nothing else. *)
LEMMA RoundTrip ==
  ASSUME NEW p \in PreparedTransaction
  PROVE  PreparedOf(to_json(p)) = DropEmpty(p)
  <1>1. coerce_to_string(Str(p.valueWei)) = p.valueWei
    BY DEF coerce_to_string, Str
  <1>2. optional_number(to_json(p).chainId) = p.chainId
    BY WidthAssumption
       DEF to_json, optional_number, AsI64, Num, Null, IsSome, None, Dec, OptI64,
           PreparedTransaction
  <1>3. p.nonce \in Numeral /\ p.fee \in FeeParams
    BY DEF PreparedTransaction
  <1>4. PreparedOf(to_json(p)) =
           [ chain |-> p.chain, chainId |-> p.chainId, from |-> p.from, to |-> p.to,
             valueWei |-> p.valueWei, data |-> optional_string(p.data),
             txType |-> p.txType, tokenContract |-> optional_string(p.tokenContract),
             nonce |-> p.nonce, fee |-> p.fee ]
    BY <1>1, <1>2, <1>3, NumeralRoundTrip, FeeRoundTrip DEF PreparedOf, to_json
  <1> QED
    BY <1>4, WithTextsFields DEF DropEmpty

(* Dropping empty texts leaves a PreparedTransaction. *)
LEMMA DropEmptyTyped ==
  ASSUME NEW p \in PreparedTransaction PROVE DropEmpty(p) \in PreparedTransaction
  <1>1. /\ p.data \in Calldata /\ p.tokenContract \in AddressText
    BY DEF PreparedTransaction
  <1>2. /\ optional_string(p.data) \in Calldata
        /\ optional_string(p.tokenContract) \in AddressText
    BY <1>1 DEF optional_string, Calldata, AddressText, AddressForms
  <1> QED
    BY <1>2, WithTextsFields DEF DropEmpty, PreparedTransaction

(* Dropping empty texts loses no draft. *)
LEMMA DraftsOfDropped ==
  ASSUME NEW p \in PreparedTransaction, NEW q \in Drafts(p)
  PROVE  q \in Drafts(DropEmpty(p))
  <1> DEFINE r == DropEmpty(p)
  <1>1. /\ p.data \in Calldata /\ p.tokenContract \in AddressText
    BY DEF PreparedTransaction
  <1>2. Refill(p.data) \subseteq Refill(optional_string(p.data))
    BY <1>1 DEF Refill, optional_string, Calldata
  <1>3. Refill(p.tokenContract) \subseteq Refill(optional_string(p.tokenContract))
    BY <1>1 DEF Refill, optional_string, AddressText
  <1>4. PICK d \in Refill(p.data), t \in Refill(p.tokenContract) : q = WithTexts(p, d, t)
    BY DEF Drafts
  <1>5. /\ r.data = optional_string(p.data)
        /\ r.tokenContract = optional_string(p.tokenContract)
    BY WithTextsFields DEF DropEmpty
  <1>6. WithTexts(r, d, t) = WithTexts(p, d, t)
    BY DropEmptyTyped, WithTextsFields DEF DropEmpty
  <1> QED
    BY <1>2, <1>3, <1>4, <1>5, <1>6 DEF Drafts

(* A source is a draft of the transaction that is held, and typed. *)
LEMMA SourceDraft ==
  ASSUME prepared \in PreparedTransaction, NEW q \in Sources
  PROVE  q \in Drafts(prepared) /\ q \in PreparedTransaction
  BY DraftOfItself, DraftTyped DEF Sources

(* The transaction that is held is one of its sources. *)
LEMMA SourceOfItself ==
  ASSUME prepared \in PreparedTransaction PROVE prepared \in Sources
  BY DraftOfItself DEF Sources

(* validate leaves no empty calldata text (validate.rs:503). *)
LEMMA NoEmptyData ==
  ASSUME NEW raw \in RawPayload PROVE PreparedOf(raw).data.form # "empty"
  <1>1. raw.data \in Calldata
    BY DEF RawPayload
  <1>2. optional_string(raw.data).form # "empty"
    BY <1>1 DEF optional_string, Calldata
  <1> QED
    BY <1>2 DEF PreparedOf

----------------------------------------------------------------------------
(* The inductive invariant.                                                *)

(* The invariant holds initially. *)
LEMMA InvInit == Init => SessionInv
  BY TypeInit DEF Init, SessionInv, ReviewedFromDraft, CompiledFromDraft, OK, PANIC

(* Every step keeps the invariant. *)
LEMMA InvStep == SessionInv /\ [Next]_vars => SessionInv'
  <1> SUFFICES ASSUME SessionInv, [Next]_vars PROVE SessionInv'
    OBVIOUS
  <1>0. TypeOK /\ TypeOK'
    BY TypeStep DEF SessionInv
  <1>1. ASSUME NEW raw \in Payloads, ValidatePayload(raw) PROVE SessionInv'
    <2>1. raw \in RawPayload
      BY SessionAssumption
    <2>2. verdict' # PANIC
      BY <1>1, ValidateNoPanic DEF ValidatePayload
    <2>3. verdict' = OK => held' /\ Canonical(prepared)' /\ prepared'.data.form # "empty"
      <3>1. ASSUME verdict' = OK
            PROVE  held' /\ Canonical(prepared') /\ prepared'.data.form # "empty"
        <4>1. prepared' = PreparedOf(raw) /\ validate(raw) = OK
          BY <1>1, <3>1 DEF ValidatePayload
        <4>2. prepared'.chain \in Chain
          BY <2>1, <4>1, PreparedTyped DEF PreparedTransaction
        <4> QED
          BY <2>1, <4>1, <4>2, ValidateOK, NoEmptyData DEF held, NoPrepared, Chain
      <3> QED
        BY <3>1
    <2>4. reviewed = NoResult /\ outputs = << >>
      <3>1. ~held
        BY <1>1 DEF ValidatePayload
      <3>2. DOMAIN outputs = {}
        BY <3>1 DEF SessionInv, CompiledFromDraft
      <3>3. outputs \in Seq([now : OptU64, result : CompilationResult])
        BY <1>0 DEF TypeOK
      <3> QED
        BY <3>1, <3>2, <3>3 DEF SessionInv, ReviewedFromDraft
    <2>5. ReviewedFromDraft' /\ CompiledFromDraft'
      BY <1>1, <2>4 DEF ValidatePayload, ReviewedFromDraft, CompiledFromDraft
    <2> QED
      BY <1>0, <2>2, <2>3, <2>5 DEF SessionInv
  <1>2. ASSUME NEW p \in Foreign, Deserialize(p) PROVE SessionInv'
    <2>1. reviewed = NoResult /\ outputs = << >>
      <3>1. ~held
        BY <1>2 DEF Deserialize
      <3>2. DOMAIN outputs = {}
        BY <3>1 DEF SessionInv, CompiledFromDraft
      <3>3. outputs \in Seq([now : OptU64, result : CompilationResult])
        BY <1>0 DEF TypeOK
      <3> QED
        BY <3>1, <3>2, <3>3 DEF SessionInv, ReviewedFromDraft
    <2>2. ReviewedFromDraft' /\ CompiledFromDraft'
      BY <1>2, <2>1 DEF Deserialize, ReviewedFromDraft, CompiledFromDraft
    <2> QED
      BY <1>0, <1>2, <2>2 DEF SessionInv, Deserialize, OK, PANIC
  <1>3. ASSUME Revalidate PROVE SessionInv'
    <2>1. prepared \in PreparedTransaction
      BY <1>0, <1>3 DEF Revalidate, held, TypeOK
    <2>2. verdict' # PANIC
      BY <1>3, ValidateNoPanic DEF Revalidate
    <2>3. CASE verdict' = OK
      <3>1. /\ validate(to_json(prepared)) = OK
            /\ prepared' = PreparedOf(to_json(prepared))
            /\ UNCHANGED <<reviewed, outputs>>
        BY <1>3, <2>3 DEF Revalidate
      <3>2. prepared' = DropEmpty(prepared)
        BY <2>1, <3>1, RoundTrip
      <3>3. Canonical(prepared') /\ prepared'.data.form # "empty"
        BY <2>1, <3>1, ToJsonTyped, ValidateOK, NoEmptyData
      <3>4. held'
        <4>1. prepared'.chain \in Chain
          BY <2>1, <3>2, DropEmptyTyped DEF PreparedTransaction
        <4> QED
          BY <4>1 DEF held, NoPrepared, Chain
      <3>5. Sources \subseteq Sources'
        BY <2>1, <2>3, <3>2, SourceDraft, DraftsOfDropped DEF Sources
      <3>6. ReviewedFromDraft'
        BY <3>1, <3>4, <3>5 DEF SessionInv, ReviewedFromDraft
      <3>7. CompiledFromDraft'
        BY <3>1, <3>4, <3>5 DEF SessionInv, CompiledFromDraft
      <3> QED
        BY <1>0, <2>2, <3>3, <3>4, <3>6, <3>7 DEF SessionInv
    <2>4. CASE verdict' # OK
      <3>1. reviewed' = NoResult /\ outputs' = << >>
        BY <1>3, <2>4 DEF Revalidate
      <3>2. ReviewedFromDraft' /\ CompiledFromDraft'
        BY <3>1 DEF ReviewedFromDraft, CompiledFromDraft
      <3> QED
        BY <1>0, <2>2, <2>4, <3>2 DEF SessionInv
    <2> QED
      BY <2>3, <2>4
  <1>4. ASSUME ReviewPrepared PROVE SessionInv'
    <2>1. prepared \in PreparedTransaction
      BY <1>0, <1>4 DEF ReviewPrepared, held, TypeOK
    <2>2. ReviewedFromDraft'
      BY <1>4, <2>1, SourceOfItself DEF ReviewPrepared, ReviewedFromDraft, Sources, held
    <2>3. CompiledFromDraft'
      BY <1>4 DEF ReviewPrepared, SessionInv, CompiledFromDraft, Sources, held
    <2> QED
      BY <1>0, <1>4, <2>2, <2>3 DEF SessionInv, ReviewPrepared, held
  <1>5. ASSUME NEW now \in Pins, NEW clock \in Clock, CompilePrepared(now, clock)
        PROVE SessionInv'
    <2>1. prepared \in PreparedTransaction
      BY <1>0, <1>5 DEF CompilePrepared, held, TypeOK
    <2>2. ReviewedFromDraft'
      BY <1>5 DEF CompilePrepared, SessionInv, ReviewedFromDraft, Sources, held
    <2>3. CompiledFromDraft'
      <3> DEFINE call == [now |-> now, result |-> compile(prepared, now, clock)]
      <3>1. outputs' = Append(outputs, call) /\ prepared' = prepared /\ held /\ Sources' = Sources
        BY <1>5 DEF CompilePrepared, Sources
      <3>2. outputs \in Seq([now : OptU64, result : CompilationResult])
        BY <1>0 DEF TypeOK
      <3>3. \E q \in Sources, c \in 0..U64Max :
              call.result = compile(q, call.now, c)
        BY <2>1, SourceOfItself, SessionAssumption
      <3> HIDE DEF call
      <3>4. ASSUME NEW i \in DOMAIN outputs'
            PROVE  \E q \in Sources, c \in 0..U64Max :
                     outputs'[i].result = compile(q, outputs'[i].now, c)
        <4>1. CASE i = Len(outputs) + 1
          <5>1. outputs'[i] = call
            BY <3>1, <3>2, <4>1
          <5> QED
            BY <3>3, <5>1
        <4>2. CASE i # Len(outputs) + 1
          <5>1. i \in DOMAIN outputs /\ outputs'[i] = outputs[i]
            BY <3>1, <3>2, <3>4, <4>2
          <5> QED
            BY <5>1 DEF SessionInv, CompiledFromDraft
        <4> QED
          BY <4>1, <4>2
      <3> QED
        BY <3>1, <3>4 DEF CompiledFromDraft, held
    <2> QED
      BY <1>0, <1>5, <2>2, <2>3 DEF SessionInv, CompilePrepared, held
  <1>6. ASSUME Drop PROVE SessionInv'
    BY <1>0, <1>6 DEF Drop, SessionInv, ReviewedFromDraft, CompiledFromDraft, OK, PANIC
  <1>7. ASSUME UNCHANGED vars PROVE SessionInv'
    BY <1>0, <1>7 DEF vars, SessionInv, ReviewedFromDraft, CompiledFromDraft, Sources, held
  <1> QED
    BY <1>1, <1>2, <1>3, <1>4, <1>5, <1>6, <1>7 DEF Next

(* In every session, an accepted transaction is canonical, and everything  *)
(* reviewed and compiled came from the transaction that is held            *)
(* (validate.rs:28-92).                                                    *)
THEOREM Invariance == Spec => []SessionInv
  BY InvInit, InvStep, PTL DEF Spec

----------------------------------------------------------------------------
(* No call of validate, review or compile panics, even on a transaction    *)
(* that validate never saw (review.rs:81-87, tron.rs:103-107).             *)
THEOREM PanicFree == Spec => []NeverPanics
  <1>1. SessionInv => NeverPanics
    <2> SUFFICES ASSUME SessionInv PROVE NeverPanics
      OBVIOUS
    <2>1. held => prepared \in PreparedTransaction
      BY DEF SessionInv, TypeOK, held
    <2>2. reviewed.code # PANIC
      BY ReviewNoPanic DEF SessionInv, ReviewedFromDraft, NoResult, PANIC
    <2>3. ASSUME NEW i \in DOMAIN outputs PROVE outputs[i].result.code # PANIC
      BY <2>1, <2>3, CompileNoPanic, SourceDraft DEF SessionInv, CompiledFromDraft
    <2> QED
      BY <2>2, <2>3 DEF NeverPanics, SessionInv
  <1> QED
    BY <1>1, Invariance, PTL

----------------------------------------------------------------------------
(* What validate has established makes review and compile succeed.         *)

(* review succeeds on every draft of a canonical transaction. *)
LEMMA CanonicalReview ==
  ASSUME NEW p \in PreparedTransaction, Canonical(p), NEW q \in Drafts(p)
  PROVE  review(q) = [code |-> OK, summary |-> TransactionReview(q)]
  <1>1. /\ q.chain = p.chain /\ q.txType = p.txType
        /\ Carries(p.data) => q.data = p.data
    BY DraftFields, DraftCarries
  <1>2. CASE DecodesCalldata(q)
    <2>1. CanonicalTransferCall(p)
      BY <1>1, <1>2 DEF DecodesCalldata, Canonical, CanonicalEvm
    <2>2. decode_erc20_transfer_data(q.data) = OK
      BY <1>1, <2>1 DEF CanonicalTransferCall, Carries, decode_erc20_transfer_data, ??,
                        Require, Slice, ERC20_TRANSFER_CALLDATA_HEX_LEN, OK
    <2> QED
      BY <1>2, <2>2 DEF review
  <1>3. CASE ~DecodesCalldata(q)
    BY <1>3 DEF review
  <1> QED
    BY <1>2, <1>3

(* On a decimal text, the parsers of numbers only look at the range. *)
LEMMA DecimalFits ==
  ASSUME NEW s, Decimal(s)
  PROVE  /\ FitsU256(s) <=> s.val <= U256Max
         /\ \A max : FitsUint(s, max) <=> s.val <= max
         /\ IsSome(s)
  BY DEF Decimal, FitsU256, FitsUint, IsSome

(* An element of a sequence over S is in S. *)
LEMMA SeqElement ==
  ASSUME NEW S, NEW s \in Seq(S), NEW i \in DOMAIN s
  PROVE  s[i] \in S
  OBVIOUS

(* compile_evm refuses a draft of a canonical transaction for nothing but *)
(* a number too wide.                                                     *)
LEMMA EvmVerdict ==
  ASSUME NEW p \in PreparedTransaction, Canonical(p), p.chain = "ethereum",
         NEW q \in Drafts(p)
  PROVE  \/ compile_evm_code(q) = OK /\ NumbersFit(p)
         \/ compile_evm_code(q) = "INVALID_AMOUNT" /\ ~NumbersFit(p)
  <1>1. /\ q.chainId = p.chainId /\ q.to = p.to /\ q.valueWei = p.valueWei
        /\ q.nonce = p.nonce /\ q.fee = p.fee
        /\ Carries(q.data) <=> Carries(p.data)
        /\ Carries(p.data) => q.data = p.data
    BY DraftFields, DraftCarries
  <1>2. Decimal(p.valueWei) /\ CanonicalFee(p.fee) /\ CanonicalEvm(p)
    BY DEF Canonical
  <1>3. /\ IsSome(p.chainId) /\ p.chainId.val >= 0 /\ p.chainId.val # 0
        /\ parse_address(p.to) = OK
        /\ IsSome(p.nonce) /\ parse_u64(p.nonce) = OK
    <2>1. p.nonce.val <= U64Max
      BY <1>2, WidthAssumption DEF CanonicalEvm, Decimal
    <2>2. p.chainId.val \in Int
      BY WidthAssumption DEF PreparedTransaction, OptI64, None, Dec
    <2> QED
      BY <1>2, <2>1, <2>2, DecimalFits
         DEF CanonicalEvm, EvmAddress, parse_address, parse_u64, Require
  <1>4. decode_calldata(q.data) = OK
    <2>1. CASE p.txType = "TRANSFER_TOKEN"
      BY <1>1, <1>2, <2>1
         DEF CanonicalEvm, CanonicalTransferCall, decode_calldata, Require,
             ERC20_TRANSFER_CALLDATA_HEX_LEN
    <2>2. CASE p.txType = "TRANSFER_NATIVE"
      BY <1>1, <1>2, <2>2 DEF CanonicalEvm, decode_calldata, Require
    <2> QED
      BY <2>1, <2>2 DEF PreparedTransaction, TxType
  <1>5. Decimal(p.fee.gasLimit)
    BY SMTT(60), <1>2 DEF CanonicalEvm, CanonicalFee, OptDecimal
  <1>6. \/ derive_common(q) = OK /\ p.valueWei.val <= U256Max /\ p.fee.gasLimit.val <= U64Max
        \/ /\ derive_common(q) = "INVALID_AMOUNT"
           /\ ~(p.valueWei.val <= U256Max /\ p.fee.gasLimit.val <= U64Max)
    BY <1>1, <1>2, <1>3, <1>4, <1>5, DecimalFits
       DEF derive_common, parse_u256, parse_u64, ??, Require, OK
  <1>7. CASE p.fee.mode = "EIP1559"
    <2>1. Decimal(p.fee.maxFeePerGas) /\ Decimal(p.fee.maxPriorityFeePerGas)
      BY <1>2, <1>7 DEF CanonicalFee, OptDecimal
    <2>2. \/ /\ encode_eip1559(q) = OK
             /\ p.fee.maxFeePerGas.val <= U128Max /\ p.fee.maxPriorityFeePerGas.val <= U128Max
          \/ /\ encode_eip1559(q) = "INVALID_AMOUNT"
             /\ ~(p.fee.maxFeePerGas.val <= U128Max /\ p.fee.maxPriorityFeePerGas.val <= U128Max)
      BY <1>1, <2>1, DecimalFits DEF encode_eip1559, parse_u128, ??, Require, OK
    <2> QED
      BY <1>1, <1>6, <1>7, <2>2 DEF compile_evm_code, NumbersFit, ??, OK
  <1>8. CASE p.fee.mode = "LEGACY"
    <2>1. Decimal(legacy_gas_price(p.fee))
      BY <1>2, <1>8 DEF CanonicalFee, OptDecimal, legacy_gas_price, or
    <2>2. \/ encode_legacy(q) = OK /\ legacy_gas_price(p.fee).val <= U128Max
          \/ /\ encode_legacy(q) = "INVALID_AMOUNT"
             /\ ~(legacy_gas_price(p.fee).val <= U128Max)
      BY <1>1, <2>1, DecimalFits DEF encode_legacy, parse_u128, ??, Require, OK
    <2> QED
      BY <1>1, <1>6, <1>8, <2>2 DEF compile_evm_code, NumbersFit, ??, OK
  <1> QED
    BY <1>2, <1>7, <1>8 DEF CanonicalEvm

(* compile_tron refuses a draft of a canonical transaction for nothing *)
(* but a number too wide or a time too late.                           *)
LEMMA TronVerdict ==
  ASSUME NEW p \in PreparedTransaction, Canonical(p), p.chain = "tron",
         NEW q \in Drafts(p), NEW ts
  PROVE  \/ compile_tron_code(q, ts) = OK /\ NumbersFit(p)
         \/ compile_tron_code(q, ts) = "INVALID_AMOUNT" /\ ~NumbersFit(p)
         \/ compile_tron_code(q, ts) = "INVALID_PAYLOAD" /\ ~(ts + ExpirationMs <= U64Max)
  <1>1. /\ q.from = p.from /\ q.to = p.to /\ q.valueWei = p.valueWei
        /\ q.txType = p.txType /\ q.fee = p.fee
        /\ IsSome(p.tokenContract) => q.tokenContract = p.tokenContract
    BY DraftFields, DraftCarries
  <1>2. Decimal(p.valueWei) /\ CanonicalFee(p.fee) /\ CanonicalTron(p)
    BY DEF Canonical
  <1>3. IsSome(p.fee.rp) /\ derive_block_ref(p.fee.rp) = OK
    BY <1>2 DEF CanonicalTron, CanonicalFee, CanonicalHeader, derive_block_ref, ??, Require,
                Slice, OK, BLOCK_ID_HEX_LEN
  <1>4. /\ tron_address_to_bytes(p.from) = OK /\ tron_address_to_bytes(p.to) = OK
        /\ IsSome(p.tokenContract) => tron_address_to_bytes(p.tokenContract) = OK
    BY <1>2, AddressOK DEF CanonicalTron
  <1>5. CASE p.txType = "TRANSFER_NATIVE"
    <2>1. \/ build_contract(q) = OK /\ p.valueWei.val <= U64Max
          \/ build_contract(q) = "INVALID_AMOUNT" /\ ~(p.valueWei.val <= U64Max)
      BY <1>1, <1>2, <1>4, <1>5, DecimalFits DEF build_contract, ??, Require, OK
    <2> QED
      BY <1>1, <1>2, <1>3, <1>5, <2>1, DecimalFits
         DEF compile_tron_code, parse_fee_limit, checked_expiration, NumbersFit, CanonicalFee,
             OptDecimal, ??, Require, OK
  <1>6. CASE p.txType = "TRANSFER_TOKEN"
    <2>1. IsSome(p.tokenContract)
      BY <1>6 DEF Canonical
    <2>2. \/ build_trc20_transfer_data(q.to, q.valueWei) = OK /\ p.valueWei.val <= U256Max
          \/ /\ build_trc20_transfer_data(q.to, q.valueWei) = "INVALID_AMOUNT"
             /\ ~(p.valueWei.val <= U256Max)
      BY <1>1, <1>2, <1>4, DecimalFits
         DEF build_trc20_transfer_data, TronBytes, TRON_ADDRESS_LEN, Slice, ??, Require, OK
    <2>3. \/ build_contract(q) = OK /\ p.valueWei.val <= U256Max
          \/ build_contract(q) = "INVALID_AMOUNT" /\ ~(p.valueWei.val <= U256Max)
      BY <1>1, <1>4, <1>6, <2>1, <2>2 DEF build_contract, ??, Require, OK
    <2> QED
      BY <1>1, <1>2, <1>3, <1>6, <2>3, DecimalFits
         DEF compile_tron_code, parse_fee_limit, checked_expiration, NumbersFit, CanonicalFee,
             OptDecimal, ??, Require, OK
  <1> QED
    BY <1>5, <1>6 DEF PreparedTransaction, TxType

(* The checks that evm.rs and tron.rs leave to validate are enforced by it: *)
(* an accepted transaction compiles unless a number is too wide or the time *)
(* too late (evm.rs:98-187).                                                *)
THEOREM UpstreamEnforcement == Spec => []UpstreamEnforced
  <1>1. SessionInv => UpstreamEnforced
    <2> SUFFICES ASSUME SessionInv, trusted PROVE
                   /\ reviewed.code \in {"none", OK}
                   /\ \A i \in DOMAIN outputs :
                        LET now == outputs[i].now
                            code == outputs[i].result.code
                        IN \/ code = OK /\ NumbersFit(prepared)
                           \/ code = "INVALID_AMOUNT" /\ ~NumbersFit(prepared)
                           \/ /\ code = "INVALID_PAYLOAD" /\ prepared.chain = "tron"
                              /\ IsSome(now) => now.val + ExpirationMs > U64Max
      BY DEF UpstreamEnforced
    <2>1. prepared \in PreparedTransaction /\ Canonical(prepared)
      BY DEF trusted, held, SessionInv, TypeOK
    <2>2. reviewed.code \in {"none", OK}
      BY <2>1, SourceDraft, CanonicalReview DEF SessionInv, ReviewedFromDraft, NoResult
    <2>3. ASSUME NEW i \in DOMAIN outputs
          PROVE  LET now == outputs[i].now
                     code == outputs[i].result.code
                 IN \/ code = OK /\ NumbersFit(prepared)
                    \/ code = "INVALID_AMOUNT" /\ ~NumbersFit(prepared)
                    \/ /\ code = "INVALID_PAYLOAD" /\ prepared.chain = "tron"
                       /\ IsSome(now) => now.val + ExpirationMs > U64Max
      <3>1. PICK q \in Drafts(prepared), clock \in 0..U64Max :
              outputs[i].result = compile(q, outputs[i].now, clock)
        BY <2>1, <2>3, SourceDraft DEF SessionInv, CompiledFromDraft
      <3>2. q.chain = prepared.chain
        BY <2>1, DraftFields
      <3>3. CASE prepared.chain = "ethereum"
        <4>1. outputs[i].result.code = compile_evm_code(q)
          BY <3>1, <3>2, <3>3 DEF compile, compile_evm, Failed
        <4> QED
          BY <2>1, <3>3, <4>1, EvmVerdict
      <3>4. CASE prepared.chain = "tron"
        <4> DEFINE ts == timestamp_ms(outputs[i].now, clock)
        <4>1. outputs[i].result.code = compile_tron_code(q, ts)
          BY <3>1, <3>2, <3>4 DEF compile, compile_tron, Failed
        <4>2. IsSome(outputs[i].now) => ts = outputs[i].now.val
          BY DEF timestamp_ms
        <4>3. outputs[i].now \in OptU64
          <5>1. outputs \in Seq([now : OptU64, result : CompilationResult])
            BY DEF SessionInv, TypeOK
          <5>2. outputs[i] \in [now : OptU64, result : CompilationResult]
            BY <2>3, <5>1, SeqElement
          <5> QED
            BY <5>2
        <4>4. outputs[i].now.val \in Nat
          BY <4>3, WidthAssumption DEF OptU64, Dec, None
        <4> HIDE DEF ts
        <4>5. ~(ts + ExpirationMs <= U64Max) =>
                (IsSome(outputs[i].now) => outputs[i].now.val + ExpirationMs > U64Max)
          BY <4>2, <4>4, WidthAssumption
        <4> QED
          BY <2>1, <3>4, <4>1, <4>5, TronVerdict
      <3> QED
        BY <2>1, <3>3, <3>4 DEF PreparedTransaction, Chain
    <2> QED
      BY <2>2, <2>3
  <1> QED
    BY <1>1, Invariance, PTL
----------------------------------------------------------------------------
(* What a successful compile returns.                                      *)

(* An EVM pre-image holds the common fields in one of the two envelopes. *)
LEMMA EvmSigned ==
  ASSUME NEW q \in PreparedTransaction, NEW now, NEW clock, q.chain = "ethereum",
         compile(q, now, clock).code = OK
  PROVE  LET u == compile(q, now, clock).unsigned
         IN \/ q.fee.mode = "EIP1559" /\ u = Eip1559PreImage(q)
            \/ q.fee.mode = "LEGACY" /\ u = LegacyPreImage(q)
  <1>1. compile_evm_code(q) = OK
    BY DEF compile, compile_evm, Failed
  <1>2. q.fee.mode \in {"EIP1559", "LEGACY"}
    BY <1>1, EvmChecked
  <1> QED
    BY <1>1, <1>2 DEF compile, compile_evm

(* A Tron result holds the raw_data of the time that compile took. *)
LEMMA TronSigned ==
  ASSUME NEW q \in PreparedTransaction, NEW now, NEW clock, q.chain = "tron",
         compile(q, now, clock).code = OK
  PROVE  compile(q, now, clock).unsigned = encode_raw_data(q, timestamp_ms(now, clock))
  BY DEF compile, compile_tron, Failed

(* The fields of the EVM pre-image that decide its effects. *)
LEMMA EvmPreImage ==
  ASSUME NEW q \in PreparedTransaction, NEW now, NEW clock, q.chain = "ethereum",
         compile(q, now, clock).code = OK
  PROVE  LET u == compile(q, now, clock).unsigned
         IN /\ u.envelope \in {"eip1559", "legacy"}
            /\ u.tx = EvmCommon(q)
  <1> DEFINE u == compile(q, now, clock).unsigned
  <1>1. u = Eip1559PreImage(q) \/ u = LegacyPreImage(q)
    BY EvmSigned
  <1> HIDE DEF u
  <1>2. u.envelope \in {"eip1559", "legacy"} /\ u.tx = EvmCommon(q)
    BY <1>1 DEF Eip1559PreImage, LegacyPreImage
  <1> QED
    BY <1>2 DEF u

----------------------------------------------------------------------------
(* What is signed is what was reviewed.                                    *)

(* An EVM transfer: q was reviewed, r compiled, p is held. *)
LEMMA EvmAgreement ==
  ASSUME NEW p \in PreparedTransaction, Canonical(p), p.chain = "ethereum",
         NEW q \in Drafts(p), NEW r \in Drafts(p), NEW u,
         u.envelope \in {"eip1559", "legacy"}, u.tx = EvmCommon(r)
  PROVE  /\ Effects(u) = Approved(TransactionReview(q))
         /\ SameEnvelope(TransactionReview(q), u)
  <1> DEFINE s == TransactionReview(q)
  <1>1. /\ q.chain = p.chain /\ q.txType = p.txType /\ q.to = p.to
        /\ q.valueWei = p.valueWei /\ q.chainId = p.chainId /\ q.nonce = p.nonce
        /\ r.to = p.to /\ r.valueWei = p.valueWei /\ r.chainId = p.chainId
        /\ r.nonce = p.nonce
    BY DraftFields
  <1>2. CanonicalEvm(p)
    BY DEF Canonical
  <1>3. /\ u.tx.to = p.to.acct /\ u.tx.value = p.valueWei.val
        /\ u.tx.chainId = p.chainId.val /\ u.tx.nonce = p.nonce.val
        /\ u.tx.input = InputOf(r.data)
    BY <1>1 DEF EvmCommon
  <1>4. s.chain = "ethereum" /\ s.txType = p.txType /\ s.chainId = p.chainId
        /\ s.nonce = p.nonce /\ s.tokenContract = q.tokenContract
    BY <1>1 DEF TransactionReview
  <1>5. SameEnvelope(s, u)
    BY <1>3, <1>4 DEF SameEnvelope
  <1>6. CASE p.txType = "TRANSFER_NATIVE"
    <2>1. ~Carries(r.data)
      BY <1>2, <1>6, DraftCarries DEF CanonicalEvm
    <2>2. CallEffect(u.tx) = {}
      BY <1>3, <2>1 DEF CallEffect, InputOf
    <2>3. s.recipient = p.to /\ s.amount = p.valueWei
      BY <1>1, <1>6 DEF TransactionReview, DecodesCalldata
    <2> QED
      BY <1>3, <1>4, <1>5, <1>6, <2>2, <2>3 DEF Effects, Approved
  <1>7. CASE p.txType = "TRANSFER_TOKEN"
    <2>1. CanonicalTransferCall(p) /\ IsSome(p.tokenContract)
      BY <1>2, <1>7 DEF CanonicalEvm, Canonical
    <2>2. /\ q.data = p.data /\ r.data = p.data /\ q.tokenContract = p.tokenContract
      BY <2>1, DraftCarries DEF CanonicalTransferCall
    <2>3. CoinTransfer(u.tx.to, u.tx.value) = {}
      BY <1>3, <2>1 DEF CanonicalTransferCall, CoinTransfer
    <2>4. u.tx.input = p.data /\ p.data # NoInput
      BY <1>3, <2>1, <2>2 DEF InputOf, CanonicalTransferCall, Carries, NoInput
    <2>5. CallEffect(u.tx) = {TransferOf(p.to.acct, p.data.to, p.data.amount)}
      BY <1>3, <2>1, <2>4 DEF CallEffect, IsTransferCall, CanonicalTransferCall
    <2>6. s.recipient.acct = p.data.to /\ s.amount.val = p.data.amount
      BY <1>1, <1>7, <2>2 DEF TransactionReview, DecodesCalldata, U256Text, Dec
    <2>7. Approved(s) = {TransferOf(p.tokenContract.acct, p.data.to, p.data.amount)}
      BY <1>4, <1>7, <2>2, <2>6 DEF Approved
    <2> QED
      BY <1>5, <2>1, <2>3, <2>5, <2>7 DEF Effects, CanonicalTransferCall
  <1> QED
    BY <1>6, <1>7 DEF PreparedTransaction, TxType

(* A Tron transfer: q was reviewed, r compiled, p is held. *)
LEMMA TronAgreement ==
  ASSUME NEW p \in PreparedTransaction, Canonical(p), p.chain = "tron",
         NEW q \in Drafts(p), NEW r \in Drafts(p), NEW ts
  PROVE  /\ Effects(encode_raw_data(r, ts)) = Approved(TransactionReview(q))
         /\ SameEnvelope(TransactionReview(q), encode_raw_data(r, ts))
  <1> DEFINE s == TransactionReview(q)
             u == encode_raw_data(r, ts)
  <1>1. /\ q.chain = p.chain /\ q.txType = p.txType /\ q.to = p.to /\ q.from = p.from
        /\ q.valueWei = p.valueWei
        /\ r.txType = p.txType /\ r.to = p.to /\ r.from = p.from /\ r.valueWei = p.valueWei
    BY DraftFields
  <1>2. u.envelope = "raw_data" /\ u.contract = ContractOf(r)
    BY DEF encode_raw_data
  <1>3. s.chain = "tron" /\ s.txType = p.txType /\ s.from = p.from
        /\ s.recipient = p.to /\ s.amount = p.valueWei
        /\ s.tokenContract = q.tokenContract
    BY <1>1 DEF TransactionReview, DecodesCalldata
  <1>4. CASE p.txType = "TRANSFER_NATIVE"
    <2>1. ContractOf(r) = TransferContract(r)
      BY <1>1, <1>4 DEF ContractOf
    <2> QED
      BY <1>1, <1>2, <1>3, <1>4, <2>1
         DEF Effects, Approved, SameEnvelope, TransferContract
  <1>5. CASE p.txType = "TRANSFER_TOKEN"
    <2>1. ContractOf(r) = TriggerSmartContract(r)
      BY <1>1, <1>5 DEF ContractOf
    <2>2. q.tokenContract = p.tokenContract /\ r.tokenContract = p.tokenContract
      BY <1>5, DraftCarries DEF Canonical
    <2> QED
      BY <1>1, <1>2, <1>3, <1>5, <2>1, <2>2
         DEF Effects, Approved, SameEnvelope, TriggerSmartContract,
             TRON_CONTRACT_TYPE_TRANSFER, TRON_CONTRACT_TYPE_TRIGGER_SMART
  <1> QED
    BY <1>4, <1>5 DEF PreparedTransaction, TxType

(* The transaction behind a summary and behind a pre-image: what was       *)
(* reviewed and compiled came from drafts of the accepted transaction.     *)
LEMMA Provenance ==
  ASSUME SessionInv, trusted, reviewed.code = OK, NEW i \in Compiled
  PROVE  /\ prepared \in PreparedTransaction /\ Canonical(prepared)
         /\ \E q \in Drafts(prepared) : reviewed.summary = TransactionReview(q)
         /\ \E r \in Drafts(prepared), clock \in 0..U64Max :
              /\ outputs[i].result = compile(r, outputs[i].now, clock)
              /\ r \in PreparedTransaction
              /\ compile(r, outputs[i].now, clock).code = OK
  <1>1. prepared \in PreparedTransaction /\ Canonical(prepared)
    BY DEF trusted, held, SessionInv, TypeOK
  <1>2. PICK q \in Drafts(prepared) : reviewed = review(q)
    BY <1>1, SourceDraft DEF SessionInv, ReviewedFromDraft, NoResult, OK
  <1>3. reviewed.summary = TransactionReview(q)
    BY <1>1, <1>2, CanonicalReview
  <1>4. PICK r \in Drafts(prepared), clock \in 0..U64Max :
          outputs[i].result = compile(r, outputs[i].now, clock)
    BY <1>1, SourceDraft DEF SessionInv, CompiledFromDraft, Compiled
  <1>5. r \in PreparedTransaction
    BY <1>1, DraftTyped
  <1> QED
    BY <1>1, <1>3, <1>4, <1>5 DEF Compiled

(* In every state of the invariant. *)
LEMMA SignedAgrees == SessionInv => SignedIsReviewed
  <1> SUFFICES ASSUME SessionInv, trusted, reviewed.code = OK, NEW i \in Compiled
               PROVE  /\ Effects(Unsigned(i)) = Approved(reviewed.summary)
                      /\ SameEnvelope(reviewed.summary, Unsigned(i))
    BY DEF SignedIsReviewed
  <1>1. prepared \in PreparedTransaction /\ Canonical(prepared)
    BY Provenance
  <1>2. PICK q \in Drafts(prepared) : reviewed.summary = TransactionReview(q)
    BY Provenance
  <1>3. PICK r \in Drafts(prepared), clock \in 0..U64Max :
          /\ outputs[i].result = compile(r, outputs[i].now, clock)
          /\ r \in PreparedTransaction
          /\ compile(r, outputs[i].now, clock).code = OK
    BY Provenance
  <1>4. r.chain = prepared.chain
    BY <1>1, DraftFields
  <1>5. CASE prepared.chain = "ethereum"
    <2>1. /\ Unsigned(i).envelope \in {"eip1559", "legacy"}
          /\ Unsigned(i).tx = EvmCommon(r)
      BY <1>3, <1>4, <1>5, EvmPreImage DEF Unsigned
    <2> QED
      BY <1>1, <1>2, <1>5, <2>1, EvmAgreement
  <1>6. CASE prepared.chain = "tron"
    <2>1. Unsigned(i) = encode_raw_data(r, timestamp_ms(outputs[i].now, clock))
      BY <1>3, <1>4, <1>6, TronSigned DEF Unsigned
    <2> QED
      BY <1>1, <1>2, <1>6, <2>1, TronAgreement
  <1> QED
    BY <1>1, <1>5, <1>6 DEF PreparedTransaction, Chain

(* What is signed is what was approved: the transfers of the compiled      *)
(* bytes of an accepted transaction are the one that review showed         *)
(* (review.rs:12-15).                                                      *)
THEOREM SignedAsReviewed == Spec => []SignedIsReviewed
  BY SignedAgrees, Invariance, PTL

----------------------------------------------------------------------------
(* The cost that was reviewed.                                             *)

(* The product of a gas limit and a fee that compile accepts fits a U256,  *)
(* so review does not saturate it (review.rs:158).                         *)
LEMMA ProductFits ==
  ASSUME NEW a \in Numeral, NEW b \in Numeral, Decimal(a), Decimal(b),
         a.val <= U64Max, b.val <= U128Max
  PROVE  multiply_decimal(a, b) = Dec(a.val * b.val)
  <1>1. a.val \in Nat /\ b.val \in Nat /\ U64Max \in Nat /\ U128Max \in Nat /\ U256Max \in Nat
    BY NumeralVal, WidthAssumption
  <1>2. a.val * b.val <= U64Max * b.val
    BY <1>1
  <1>3. U64Max * b.val <= U64Max * U128Max
    BY <1>1
  <1>4. a.val * b.val <= U256Max
    <2>1. a.val * b.val \in Nat /\ U64Max * b.val \in Nat /\ U64Max * U128Max \in Nat
      BY <1>1
    <2>2. U64Max * U128Max <= U256Max
      BY WidthAssumption
    <2> QED
      BY <1>1, <1>2, <1>3, <2>1, <2>2
  <1>5. a.val <= U256Max /\ b.val <= U256Max
    BY <1>1, WidthAssumption
  <1>6. FitsU256(a) /\ FitsU256(b)
    BY <1>5, DecimalFits
  <1> QED
    BY <1>4, <1>6 DEF multiply_decimal, U256Text

(* The summary of an EVM transaction shows the most that it can cost. *)
LEMMA EvmCost ==
  ASSUME NEW r \in PreparedTransaction, CanonicalFee(r.fee), r.chain = "ethereum",
         NEW now, NEW clock, compile(r, now, clock).code = OK
  PROVE  unwrap_or_0(build_fee_review(r.fee).estimatedMaxCost).val =
           FeeCeiling(compile(r, now, clock).unsigned)
  <1> DEFINE u == compile(r, now, clock).unsigned
  <1>1. compile_evm_code(r) = OK
    BY DEF compile, compile_evm, Failed
  <1>2. /\ r.fee.gasLimit \in Numeral /\ r.fee.maxFeePerGas \in Numeral
        /\ r.fee.gasPrice \in Numeral
    BY DEF PreparedTransaction, FeeParams
  <1>3. CASE r.fee.mode = "EIP1559"
    <2>1. /\ IsSome(r.fee.gasLimit) /\ IsSome(r.fee.maxFeePerGas)
          /\ Decimal(r.fee.gasLimit) /\ Decimal(r.fee.maxFeePerGas)
      BY <1>3 DEF CanonicalFee, OptDecimal
    <2>2. r.fee.gasLimit.val <= U64Max /\ r.fee.maxFeePerGas.val <= U128Max
      BY <1>1, <1>3, EvmChecked
    <2>3. multiply_decimal(r.fee.gasLimit, r.fee.maxFeePerGas)
            = Dec(r.fee.gasLimit.val * r.fee.maxFeePerGas.val)
      BY <1>2, <2>1, <2>2, ProductFits
    <2>4. build_fee_review(r.fee).estimatedMaxCost
            = multiply_decimal(r.fee.gasLimit, r.fee.maxFeePerGas)
      BY <1>3, <2>1 DEF build_fee_review, EmptyFeeReview, unwrap_or_0
    <2>5. u = Eip1559PreImage(r)
      BY <1>3, EvmSigned
    <2>6. FeeCeiling(Eip1559PreImage(r)) = r.fee.gasLimit.val * r.fee.maxFeePerGas.val
      BY DEF FeeCeiling, Eip1559PreImage, EvmCommon
    <2> QED
      BY <2>3, <2>4, <2>5, <2>6 DEF unwrap_or_0, IsSome, Dec
  <1>4. CASE r.fee.mode = "LEGACY"
    <2> DEFINE price == legacy_gas_price(r.fee)
    <2>1. /\ IsSome(r.fee.gasLimit) /\ IsSome(price) /\ price \in Numeral
          /\ Decimal(r.fee.gasLimit) /\ Decimal(price)
      BY <1>2, <1>4 DEF CanonicalFee, OptDecimal, legacy_gas_price, or
    <2>2. r.fee.gasLimit.val <= U64Max /\ price.val <= U128Max
      BY <1>1, <1>4, EvmChecked
    <2>3. multiply_decimal(r.fee.gasLimit, price) = Dec(r.fee.gasLimit.val * price.val)
      BY <1>2, <2>1, <2>2, ProductFits
    <2>4. build_fee_review(r.fee).estimatedMaxCost
            = multiply_decimal(r.fee.gasLimit, price)
      BY <1>4, <2>1 DEF build_fee_review, EmptyFeeReview, unwrap_or_0, legacy_gas_price
    <2>5. u = LegacyPreImage(r)
      BY <1>4, EvmSigned
    <2>6. FeeCeiling(LegacyPreImage(r)) = r.fee.gasLimit.val * price.val
      BY DEF FeeCeiling, LegacyPreImage, EvmCommon
    <2> QED
      BY <2>3, <2>4, <2>5, <2>6 DEF unwrap_or_0, IsSome, Dec
  <1> QED
    BY <1>1, <1>3, <1>4, EvmChecked

(* The summary of a Tron transaction shows its fee limit. *)
LEMMA TronCost ==
  ASSUME NEW r \in PreparedTransaction, r.fee.mode = "TRON", NEW ts
  PROVE  unwrap_or_0(build_fee_review(r.fee).estimatedMaxCost).val =
           FeeCeiling(encode_raw_data(r, ts))
  <1>1. r.fee.el \in Numeral /\ r.fee.el.val \in Nat
    BY NumeralVal DEF PreparedTransaction, FeeParams
  <1>2. build_fee_review(r.fee).estimatedMaxCost = r.fee.el
    BY DEF build_fee_review, EmptyFeeReview
  <1>3. FeeCeiling(encode_raw_data(r, ts)) = FeeLimitField(r.fee.el).val
    BY DEF FeeCeiling, encode_raw_data
  <1>4. FeeLimitField(r.fee.el).val = unwrap_or_0(r.fee.el).val
    BY <1>1 DEF FeeLimitField, unwrap_or_0, None, Dec
  <1> QED
    BY <1>2, <1>3, <1>4

(* In every state of the invariant. *)
LEMMA CostAgrees == SessionInv => CostCeiling
  <1> SUFFICES ASSUME SessionInv, trusted, reviewed.code = OK, NEW i \in Compiled
               PROVE  unwrap_or_0(reviewed.summary.fee.estimatedMaxCost).val
                        = FeeCeiling(Unsigned(i))
    BY DEF CostCeiling
  <1>1. prepared \in PreparedTransaction /\ Canonical(prepared)
    BY Provenance
  <1>2. PICK q \in Drafts(prepared) : reviewed.summary = TransactionReview(q)
    BY Provenance
  <1>3. PICK r \in Drafts(prepared), clock \in 0..U64Max :
          /\ outputs[i].result = compile(r, outputs[i].now, clock)
          /\ r \in PreparedTransaction
          /\ compile(r, outputs[i].now, clock).code = OK
    BY Provenance
  <1>4. r.chain = prepared.chain /\ r.fee = prepared.fee /\ q.fee = r.fee
    BY <1>1, DraftFields
  <1>5. reviewed.summary.fee = build_fee_review(r.fee)
    BY <1>2, <1>4 DEF TransactionReview
  <1>6. CASE prepared.chain = "ethereum"
    <2>1. CanonicalFee(r.fee)
      BY <1>1, <1>4 DEF Canonical
    <2> QED
      BY <1>3, <1>4, <1>5, <1>6, <2>1, EvmCost DEF Unsigned
  <1>7. CASE prepared.chain = "tron"
    <2>1. r.fee.mode = "TRON"
      BY <1>1, <1>4, <1>7 DEF Canonical, CanonicalTron
    <2>2. Unsigned(i) = encode_raw_data(r, timestamp_ms(outputs[i].now, clock))
      BY <1>3, <1>4, <1>7, TronSigned DEF Unsigned
    <2> QED
      BY <1>3, <1>5, <2>1, <2>2, TronCost
  <1> QED
    BY <1>1, <1>6, <1>7 DEF PreparedTransaction, Chain

(* The cost in the summary of an accepted transaction is the ceiling that  *)
(* the compiled bytes set: gas limit times price, or the fee_limit on Tron *)
(* (review.rs:109-156).                                                    *)
THEOREM CostIsCeiling == Spec => []CostCeiling
  BY CostAgrees, Invariance, PTL

----------------------------------------------------------------------------
(* Two parsers of the calldata.                                            *)

(* Wherever a transaction came from, the token transfer that review        *)
(* decodes is the one in the compiled bytes (review.rs:81-87).             *)
THEOREM CalldataAgreement == Spec => []TokenReviewDecodesCalldata
  <1>1. SessionInv => TokenReviewDecodesCalldata
    <2> SUFFICES ASSUME SessionInv, reviewed.code = OK, DecodesCalldata(reviewed.summary),
                        NEW i \in Compiled
                 PROVE  TransferOf(Unsigned(i).tx.to, reviewed.summary.recipient.acct,
                                   reviewed.summary.amount.val) \in Effects(Unsigned(i))
      BY DEF TokenReviewDecodesCalldata
    <2>1. prepared \in PreparedTransaction
      BY DEF SessionInv, TypeOK, ReviewedFromDraft, NoResult, OK, held
    <2>2. PICK q \in Drafts(prepared) : reviewed = review(q)
      BY <2>1, SourceDraft DEF SessionInv, ReviewedFromDraft, NoResult, OK
    <2>3. reviewed.summary = TransactionReview(q)
      BY <2>2 DEF review
    <2>4. DecodesCalldata(q)
      BY <2>3 DEF DecodesCalldata, TransactionReview
    <2>5. decode_erc20_transfer_data(q.data) = OK
      BY <2>2, <2>4 DEF review
    <2>6. /\ q.data.form = "call" /\ q.data.selector /\ q.data.padded
          /\ q.data.len = ERC20_TRANSFER_CALLDATA_HEX_LEN
      BY <2>5 DEF decode_erc20_transfer_data, ??, Require, Slice, OK, PANIC
    <2>7. PICK r \in Drafts(prepared), clock \in 0..U64Max :
            /\ outputs[i].result = compile(r, outputs[i].now, clock)
            /\ r \in PreparedTransaction
      BY <2>1, SourceDraft DEF SessionInv, CompiledFromDraft, Compiled
    <2>8. r.data = q.data /\ r.chain = "ethereum"
      BY <2>1, <2>4, <2>6, DraftCarries, DraftFields DEF Carries, DecodesCalldata
    <2>9. /\ Unsigned(i).envelope \in {"eip1559", "legacy"}
          /\ Unsigned(i).tx = EvmCommon(r)
      BY <2>7, <2>8, EvmPreImage DEF Unsigned, Compiled
    <2>10. Unsigned(i).tx.input = q.data /\ q.data # NoInput
      BY <2>6, <2>8, <2>9 DEF EvmCommon, InputOf, Carries, NoInput
    <2>11. CallEffect(Unsigned(i).tx)
             = {TransferOf(Unsigned(i).tx.to, q.data.to, q.data.amount)}
      BY <2>6, <2>10 DEF CallEffect, IsTransferCall
    <2>12. /\ reviewed.summary.recipient.acct = q.data.to
           /\ reviewed.summary.amount.val = q.data.amount
      BY <2>3, <2>4 DEF TransactionReview, U256Text, Dec
    <2> QED
      BY <2>9, <2>11, <2>12 DEF Effects
  <1> QED
    BY <1>1, Invariance, PTL

----------------------------------------------------------------------------
(* Determinism.                                                            *)

(* Two drafts of one transaction compile to the same EVM result. *)
LEMMA EvmSame ==
  ASSUME NEW p \in PreparedTransaction, p.chain = "ethereum",
         NEW q \in Drafts(p), NEW r \in Drafts(p)
  PROVE  compile_evm(q) = compile_evm(r)
  <1>1. /\ q.chainId = r.chainId /\ q.to = r.to /\ q.valueWei = r.valueWei
        /\ q.nonce = r.nonce /\ q.fee = r.fee /\ q.txType = r.txType
    BY DraftFields
  <1>2. /\ Carries(q.data) <=> Carries(r.data)
        /\ Carries(q.data) => q.data = r.data
    BY DraftCarries
  <1>3. decode_calldata(q.data) = decode_calldata(r.data)
    BY <1>2 DEF decode_calldata, Require
  <1>4. EvmCommon(q) = EvmCommon(r)
    BY <1>1, <1>2 DEF EvmCommon, InputOf
  <1>5. derive_common(q) = derive_common(r)
    BY <1>1, <1>3 DEF derive_common
  <1>6. compile_evm_code(q) = compile_evm_code(r)
    BY <1>1, <1>5 DEF compile_evm_code, encode_eip1559, encode_legacy
  <1> QED
    BY <1>1, <1>4, <1>6 DEF compile_evm, Eip1559PreImage, LegacyPreImage

(* Two sources of one Tron transaction spell the same contract, and fail   *)
(* the same check if they fail.                                            *)
LEMMA TronSame ==
  ASSUME SessionInv, prepared \in PreparedTransaction, prepared.chain = "tron",
         NEW q \in Sources, NEW r \in Sources, NEW ts
  PROVE  /\ compile_tron_code(q, ts) = compile_tron_code(r, ts)
         /\ ContractOf(q) = ContractOf(r)
         /\ q.fee = r.fee /\ q.txType = r.txType
  <1>1. CASE verdict # OK
    BY <1>1 DEF Sources
  <1>2. CASE verdict = OK
    <2>1. Canonical(prepared)
      BY <1>2 DEF SessionInv
    <2>2. q \in Drafts(prepared) /\ r \in Drafts(prepared)
      BY SourceDraft
    <2>3. /\ q.from = r.from /\ q.to = r.to /\ q.valueWei = r.valueWei
          /\ q.txType = r.txType /\ q.fee = r.fee /\ q.txType = prepared.txType
      BY <2>2, DraftFields
    <2>4. q.txType = "TRANSFER_TOKEN" => q.tokenContract = r.tokenContract
      BY <2>1, <2>2, <2>3, DraftCarries DEF Canonical
    <2>5. q.txType \in {"TRANSFER_NATIVE", "TRANSFER_TOKEN"}
      BY <2>3 DEF PreparedTransaction, TxType
    <2>6. build_contract(q) = build_contract(r)
      BY <2>3, <2>4, <2>5 DEF build_contract
    <2>7. ContractOf(q) = ContractOf(r)
      BY <2>3, <2>4, <2>5 DEF ContractOf, TransferContract, TriggerSmartContract
    <2> QED
      BY <2>3, <2>6, <2>7 DEF compile_tron_code
  <1> QED
    BY <1>1, <1>2

(* Apart from the two times, raw_data does not depend on the time. *)
LEMMA UntimedSame ==
  ASSUME NEW q, NEW r, NEW t, NEW w, q.fee = r.fee, ContractOf(q) = ContractOf(r)
  PROVE  Untimed(encode_raw_data(q, t)) = Untimed(encode_raw_data(r, w))
  <1>1. ASSUME NEW a, NEW b
        PROVE  Untimed(encode_raw_data(a, b)) =
                 [ envelope |-> "raw_data", refBlockBytes |-> ref_block_bytes(a.fee.rp),
                   refBlockHash |-> ref_block_hash(a.fee.rp), expiration |-> 0,
                   contract |-> ContractOf(a), timestamp |-> 0,
                   feeLimit |-> FeeLimitField(a.fee.el) ]
    <2> DEFINE v == [encode_raw_data(a, b) EXCEPT !.expiration = 0]
    <2>1. v = [ envelope |-> "raw_data", refBlockBytes |-> ref_block_bytes(a.fee.rp),
                refBlockHash |-> ref_block_hash(a.fee.rp), expiration |-> 0,
                contract |-> ContractOf(a), timestamp |-> b,
                feeLimit |-> FeeLimitField(a.fee.el) ]
      BY DEF encode_raw_data
    <2> HIDE DEF v
    <2>2. [v EXCEPT !.timestamp = 0] =
               [ envelope |-> "raw_data", refBlockBytes |-> ref_block_bytes(a.fee.rp),
                 refBlockHash |-> ref_block_hash(a.fee.rp), expiration |-> 0,
                 contract |-> ContractOf(a), timestamp |-> 0,
                 feeLimit |-> FeeLimitField(a.fee.el) ]
      BY <2>1
    <2> QED
      BY <2>2 DEF Untimed, v
  <1> QED
    BY <1>1

(* Compiling again gives the same bytes when the time is pinned, and on an *)
(* EVM chain always; an unpinned retry on Tron differs in its two times    *)
(* only (types.rs:275-282, tron.rs:56-68).                                 *)
THEOREM Determinism == Spec => []Deterministic
  <1>1. SessionInv => Deterministic
    <2> SUFFICES ASSUME SessionInv, NEW i \in DOMAIN outputs, NEW j \in DOMAIN outputs
                 PROVE
                   /\ (prepared.chain = "ethereum" \/ SameTime(i, j)) =>
                        outputs[i].result = outputs[j].result
                   /\ (prepared.chain = "tron" /\ {i, j} \subseteq Compiled) =>
                        Untimed(Unsigned(i)) = Untimed(Unsigned(j))
      BY DEF Deterministic
    <2>1. prepared \in PreparedTransaction
      BY DEF SessionInv, TypeOK, CompiledFromDraft, held
    <2>2. PICK q \in Sources, c \in 0..U64Max :
            outputs[i].result = compile(q, outputs[i].now, c)
      BY DEF SessionInv, CompiledFromDraft
    <2>3. PICK r \in Sources, d \in 0..U64Max :
            outputs[j].result = compile(r, outputs[j].now, d)
      BY DEF SessionInv, CompiledFromDraft
    <2>4. /\ q \in Drafts(prepared) /\ q \in PreparedTransaction
          /\ r \in Drafts(prepared) /\ r \in PreparedTransaction
          /\ q.chain = prepared.chain /\ r.chain = prepared.chain
      BY <2>1, SourceDraft, DraftFields
    <2>5. CASE prepared.chain = "ethereum"
      <3>1. outputs[i].result = outputs[j].result
        BY <2>1, <2>2, <2>3, <2>4, <2>5, EvmSame DEF compile
      <3> QED
        BY <2>5, <3>1
    <2>6. CASE prepared.chain = "tron"
      <3>1. ASSUME SameTime(i, j) PROVE outputs[i].result = outputs[j].result
        <4> DEFINE ts == timestamp_ms(outputs[i].now, c)
        <4>1. ts = timestamp_ms(outputs[j].now, d)
          BY <3>1 DEF SameTime, timestamp_ms
        <4>2. /\ outputs[i].result = compile_tron(q, outputs[i].now, c)
              /\ outputs[j].result = compile_tron(r, outputs[j].now, d)
          BY <2>2, <2>3, <2>4, <2>6 DEF compile
        <4>3. /\ compile_tron_code(q, ts) = compile_tron_code(r, ts)
              /\ ContractOf(q) = ContractOf(r)
              /\ q.fee = r.fee /\ q.txType = r.txType
          BY <2>1, <2>6, TronSame
        <4> HIDE DEF ts
        <4>4. encode_raw_data(q, ts) = encode_raw_data(r, ts)
          BY <4>3 DEF encode_raw_data
        <4> QED
          BY <4>1, <4>2, <4>3, <4>4 DEF compile_tron, ts
      <3>2. ASSUME {i, j} \subseteq Compiled
            PROVE  Untimed(Unsigned(i)) = Untimed(Unsigned(j))
        <4>1. Unsigned(i) = encode_raw_data(q, timestamp_ms(outputs[i].now, c))
          BY <2>2, <2>4, <2>6, <3>2, TronSigned DEF Unsigned, Compiled
        <4>2. Unsigned(j) = encode_raw_data(r, timestamp_ms(outputs[j].now, d))
          BY <2>3, <2>4, <2>6, <3>2, TronSigned DEF Unsigned, Compiled
        <4>3. q.fee = r.fee /\ ContractOf(q) = ContractOf(r)
          BY <2>1, <2>6, TronSame
        <4> QED
          BY <4>1, <4>2, <4>3, UntimedSame
      <3> QED
        BY <2>6, <3>1, <3>2
    <2> QED
      BY <2>1, <2>5, <2>6 DEF PreparedTransaction, Chain
  <1> QED
    BY <1>1, Invariance, PTL
============================================================================
