----------------------------- MODULE TxSession -----------------------------
(***************************************************************************)
(* A caller of the library: it holds at most one PreparedTransaction,      *)
(* obtained from validate or straight from serde, and calls review,        *)
(* compile and validate (on its serialised form) on it in any order and as *)
(* often as it likes.  The functions are pure; what a session adds is the  *)
(* order of the calls, where the value came from, and the wall clock that  *)
(* compile reads when no time is pinned.                                   *)
(***************************************************************************)
EXTENDS Validate, Review, CompileTron, Sequences

CONSTANTS
  Payloads,      \* the raw JSON a caller may pass to validate
  Foreign,       \* PreparedTransactions made by serde without validate
  Pins,          \* values of CompileOptions.now
  Clock,         \* readings of SystemTime, in any order
  MaxCompiles    \* bound: compile calls remembered per transaction

ASSUME SessionAssumption ==
  /\ Payloads \subseteq RawPayload
  /\ Foreign \subseteq PreparedTransaction
  /\ Pins \subseteq OptU64
  /\ Clock \subseteq 0..U64Max
  /\ MaxCompiles \in Nat

VARIABLES
  prepared,      \* the transaction held, or NoPrepared
  verdict,       \* the code of the validate call that the session made last
                 \* on it, or "none"
  reviewed,      \* the Result of review, or NoResult
  outputs        \* the calls of compile: the pinned time and the Result

vars == <<prepared, verdict, reviewed, outputs>>

NoPrepared == [chain |-> "none"]
NoResult == [code |-> "none", summary |-> NoReview]

held == prepared # NoPrepared
trusted == held /\ verdict = OK   \* accepted by validate, at once or late

----------------------------------------------------------------------------
(* serde: the Serialize derives of types.rs.  A None is null at the top    *)
(* level and left out of the fee object.                                   *)

OrNull(x) == IF IsSome(x) THEN Str(x) ELSE Null
OrAbsent(x) == IF IsSome(x) THEN Str(x) ELSE Absent

header_to_json(rp) ==
  [ form |-> rp.form, h |-> rp.h, n |-> Num(rp.n), t |-> Num(rp.t), v |-> Num(rp.v),
    info |-> rp.info ]

fee_to_json(fee) ==
  [ form |-> "object", mode |-> fee.mode,
    gasLimit |-> OrAbsent(fee.gasLimit),
    baseFeePerGas |-> OrAbsent(fee.baseFeePerGas),
    maxPriorityFeePerGas |-> OrAbsent(fee.maxPriorityFeePerGas),
    maxFeePerGas |-> OrAbsent(fee.maxFeePerGas),
    gasPrice |-> OrAbsent(fee.gasPrice),
    el |-> OrAbsent(fee.el),
    rp |-> header_to_json(fee.rp) ]

to_json(p) ==
  [ form |-> "object", chain |-> p.chain,
    chainId |-> IF IsSome(p.chainId) THEN Num(p.chainId.val) ELSE Null,
    from |-> p.from, to |-> p.to, valueWei |-> Str(p.valueWei),
    data |-> p.data, txType |-> p.txType, tokenContract |-> p.tokenContract,
    nonce |-> OrNull(p.nonce), fee |-> fee_to_json(p.fee) ]

----------------------------------------------------------------------------

Init ==
  /\ prepared = NoPrepared
  /\ verdict = "none"
  /\ reviewed = NoResult
  /\ outputs = << >>

(* validate(&json): a caller that holds nothing validates a payload *)
ValidatePayload(raw) ==
  /\ ~held
  /\ verdict' = validate(raw)
  /\ prepared' = IF verdict' = OK THEN PreparedOf(raw) ELSE NoPrepared
  /\ UNCHANGED <<reviewed, outputs>>

(* serde_json::from_value::<PreparedTransaction>, with no validation *)
Deserialize(p) ==
  /\ ~held
  /\ prepared' = p
  /\ verdict' = "none"
  /\ UNCHANGED <<reviewed, outputs>>

(* validate(&to_value(&prepared)): the round trip of a stored transaction, *)
(* or the late validation of a foreign one.  The caller keeps what it has  *)
(* already reviewed and compiled, and drops everything on an error.        *)
Revalidate ==
  /\ held
  /\ verdict' = validate(to_json(prepared))
  /\ IF verdict' = OK
     THEN /\ prepared' = PreparedOf(to_json(prepared))
          /\ UNCHANGED <<reviewed, outputs>>
     ELSE /\ prepared' = NoPrepared
          /\ reviewed' = NoResult
          /\ outputs' = << >>

ReviewPrepared ==
  /\ held
  /\ reviewed = NoResult
  /\ reviewed' = review(prepared)
  /\ UNCHANGED <<prepared, verdict, outputs>>

CompilePrepared(now, clock) ==
  /\ held
  /\ Len(outputs) < MaxCompiles
  /\ outputs' = Append(outputs, [now |-> now, result |-> compile(prepared, now, clock)])
  /\ UNCHANGED <<prepared, verdict, reviewed>>

(* the caller lets go of the transaction *)
Drop ==
  /\ held
  /\ prepared' = NoPrepared
  /\ verdict' = "none"
  /\ reviewed' = NoResult
  /\ outputs' = << >>

Next ==
  \/ \E raw \in Payloads : ValidatePayload(raw)
  \/ \E p \in Foreign : Deserialize(p)
  \/ Revalidate
  \/ ReviewPrepared
  \/ \E now \in Pins, clock \in Clock : CompilePrepared(now, clock)
  \/ Drop

Spec == Init /\ [][Next]_vars

----------------------------------------------------------------------------
(* The type invariant: every number of a pre-image has its machine width.  *)

EvmTx == [ chainId : 1..I64Max, to : Accounts, value : 0..U256Max,
           nonce : 0..U64Max, gasLimit : 0..U64Max,
           input : {NoInput} \cup Calldata ]
Eip1559 == [ envelope : {"eip1559"}, tx : EvmTx, maxFeePerGas : 0..U128Max,
             maxPriorityFeePerGas : 0..U128Max ]
Legacy == [envelope : {"legacy"}, tx : EvmTx, gasPrice : 0..U128Max]
Contract ==
  [ type : {TRON_CONTRACT_TYPE_TRANSFER}, owner : Accounts, to : Accounts,
    amount : 0..U64Max ]
  \cup
  [ type : {TRON_CONTRACT_TYPE_TRIGGER_SMART}, owner : Accounts,
    contract : Accounts, data : [to : Accounts, amount : 0..U256Max] ]
RawData ==
  [ envelope : {"raw_data"}, refBlockBytes : 0..(RefBlockMod - 1),
    refBlockHash : BlockIds, expiration : 0..U64Max, contract : Contract,
    timestamp : 0..U64Max, feeLimit : {None} \cup {Dec(i) : i \in 1..U64Max} ]
Metadata ==
  [ txType : TxType, feeMode : FeeMode,
    evmTxType : {None, Dec(EVM_TX_TYPE_EIP1559), Dec(EVM_TX_TYPE_LEGACY)},
    tronContractType : {None, Dec(TRON_CONTRACT_TYPE_TRANSFER),
                        Dec(TRON_CONTRACT_TYPE_TRIGGER_SMART)},
    expiration : OptU64 ]

CompilationResult ==
  [ code : {OK}, unsigned : Eip1559 \cup Legacy \cup RawData, metadata : Metadata ]
  \cup {Failed(c) : c \in Codes \ {OK}}

FeeReview ==
  [ mode : FeeMode, estimatedMaxCost : Numeral, gasLimit : Numeral,
    gasPrice : Numeral, maxFeePerGas : Numeral, maxPriorityFeePerGas : Numeral,
    baseFeePerGas : Numeral, tronFeeLimit : Numeral ]
Summary ==
  [ chain : Chain, txType : TxType, from : AddressText, recipient : AddressText,
    amount : Numeral, tokenContract : AddressText, nonce : Numeral,
    chainId : OptI64, fee : FeeReview ]
ReviewResult ==
  [code : {OK}, summary : Summary] \cup
  [code : (Codes \ {OK}) \cup {"none"}, summary : {NoReview}]

TypeOK ==
  /\ prepared \in PreparedTransaction \cup {NoPrepared}
  /\ verdict \in Codes \cup {"none"}
  /\ reviewed \in ReviewResult
  /\ outputs \in Seq([now : OptU64, result : CompilationResult])
============================================================================
