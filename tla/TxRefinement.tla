---------------------------- MODULE TxRefinement ----------------------------
(***************************************************************************)
(* A session implements SigningRequest: what is held, once validate has    *)
(* accepted it, is the request; the summary is what is shown; the compiled *)
(* bytes are what is signed.  Before validate accepts, none of them        *)
(* counts.                                                                 *)
(***************************************************************************)
EXTENDS TxProperties

(* The account that pays for an EVM transaction is recovered from the      *)
(* signature; chain and nonce bind it instead.                             *)
Transfers ==
  [asset : Accounts \cup {"coin"}, to : Accounts, amount : Nat]
Bindings ==
  [chain : {"ethereum"}, id : Int, nonce : Nat] \cup [chain : {"tron"}, payer : Accounts]
MeantDeeds == [transfers : SUBSET Transfers, binding : Bindings]

(* The deed that the fields of an accepted transaction ask for. *)
AskedTransfers(p) ==
  IF p.txType = "TRANSFER_NATIVE" THEN CoinTransfer(p.to.acct, p.valueWei.val)
  ELSE IF p.chain = "ethereum"
  THEN {TransferOf(p.tokenContract.acct, p.data.to, p.data.amount)}
  ELSE {TransferOf(p.tokenContract.acct, p.to.acct, p.valueWei.val)}

OnEvm(id, nonce) == [chain |-> "ethereum", id |-> id, nonce |-> nonce]
OnTron(payer) == [chain |-> "tron", payer |-> payer]

AskedDeed(p) ==
  [ transfers |-> AskedTransfers(p),
    binding |-> IF p.chain = "ethereum" THEN OnEvm(p.chainId.val, p.nonce.val)
                ELSE OnTron(p.from.acct) ]

AskedCost(fee) ==
  CASE fee.mode = "EIP1559" -> fee.gasLimit.val * fee.maxFeePerGas.val
    [] fee.mode = "LEGACY" -> fee.gasLimit.val * legacy_gas_price(fee).val
    [] fee.mode = "TRON" -> unwrap_or_0(fee.el).val

AskedRequest(p) ==
  [deed |-> AskedDeed(p), cost |-> AskedCost(p.fee), signable |-> NumbersFit(p)]

(* The deed that a summary shows. *)
ShownPromise(s) ==
  [ deed |-> [ transfers |-> Approved(s),
               binding |-> IF s.chain = "ethereum" THEN OnEvm(s.chainId.val, s.nonce.val)
                           ELSE OnTron(s.from.acct) ],
    cost |-> unwrap_or_0(s.fee.estimatedMaxCost).val ]

(* The deed of a pre-image. *)
SignedPromise(u) ==
  [ deed |-> [ transfers |-> Effects(u),
               binding |-> IF u.envelope = "raw_data" THEN OnTron(u.contract.owner)
                           ELSE OnEvm(u.tx.chainId, u.tx.nonce) ],
    cost |-> FeeCeiling(u) ]

requestNow == IF trusted THEN AskedRequest(prepared) ELSE [none |-> TRUE]
shownNow ==
  IF trusted /\ reviewed # NoResult THEN ShownPromise(reviewed.summary)
  ELSE [none |-> TRUE]
signedNow == IF trusted THEN {SignedPromise(Unsigned(i)) : i \in Compiled} ELSE {}

SR == INSTANCE SigningRequest
        WITH Deeds <- MeantDeeds, request <- requestNow, shown <- shownNow,
             signed <- signedNow

(* Whatever the order of the calls, an admitted transaction keeps one      *)
(* meaning from validate to the last compile: the fields, the summary and  *)
(* the bytes say the same deed, and the same cost when there are bytes.  A *)
(* foreign transaction whose summary and bytes disagree, in the contract,  *)
(* in hidden calldata or in a signed "+" fee, is never admitted            *)
(* (review.rs:12-15,38,160, evm.rs:109, validate.rs:44-92).                *)
ImplementsSigningRequest == SR!Spec
============================================================================
