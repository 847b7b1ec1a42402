---------------------------- MODULE CompileTron ----------------------------
(***************************************************************************)
(* src/src/tron.rs and tron_proto.rs: the raw_data of a Tron transaction.  *)
(* raw_data is the record of its protobuf fields; tx_hash is its sha256.   *)
(***************************************************************************)
EXTENDS TronAddress, CompileEvm

derive_block_ref(rp) ==
  Require(rp.h.len = BLOCK_ID_HEX_LEN, "INVALID_BLOCK_HEADER")
  ?? Require(rp.h.hex /\ rp.h.len % 2 = 0, "INVALID_BLOCK_HEADER")
  ?? Slice(rp.h.len \div 2 >= 16)

ref_block_bytes(rp) == rp.n % RefBlockMod
ref_block_hash(rp) == rp.h.id    \* bytes 8..16 of the block id

parse_fee_limit(el) == Require(IsSome(el) => FitsUint(el, U64Max), "INVALID_AMOUNT")

(* encode_raw_data leaves the fee limit out when it is None or 0 *)
FeeLimitField(el) == IF IsSome(el) /\ el.val > 0 THEN Dec(el.val) ELSE None

build_trc20_transfer_data(to, amount) ==
  tron_address_to_bytes(to)
  ?? Require(TronBytes(to).len >= TRON_ADDRESS_LEN, "INVALID_ADDRESS")
  ?? Slice(TronBytes(to).len >= TRON_ADDRESS_LEN)
  ?? Require(FitsU256(amount), "INVALID_AMOUNT")

build_contract(p) ==
  tron_address_to_bytes(p.from)
  ?? (IF p.txType = "TRANSFER_NATIVE"
      THEN tron_address_to_bytes(p.to)
           ?? Require(FitsUint(p.valueWei, U64Max), "INVALID_AMOUNT")
      ELSE Require(IsSome(p.tokenContract), "INVALID_PAYLOAD")
           ?? tron_address_to_bytes(p.tokenContract)
           ?? build_trc20_transfer_data(p.to, p.valueWei))

TransferContract(p) ==
  [ type |-> TRON_CONTRACT_TYPE_TRANSFER, owner |-> p.from.acct,
    to |-> p.to.acct, amount |-> p.valueWei.val ]
TriggerSmartContract(p) ==
  [ type |-> TRON_CONTRACT_TYPE_TRIGGER_SMART, owner |-> p.from.acct,
    contract |-> p.tokenContract.acct,
    data |-> [to |-> p.to.acct, amount |-> p.valueWei.val] ]
ContractOf(p) ==
  IF p.txType = "TRANSFER_NATIVE" THEN TransferContract(p) ELSE TriggerSmartContract(p)

(* options.now.unwrap_or_else(current_time_ms): the clock is read only     *)
(* when the caller pinned no time                                          *)
MutTimestampIgnoresPin(now, clock) == clock
timestamp_ms(now, clock) == IF IsSome(now) THEN now.val ELSE clock

MutExpirationUnchecked(ts) == OK
checked_expiration(ts) == Require(ts + ExpirationMs <= U64Max, "INVALID_PAYLOAD")

compile_tron_code(p, ts) ==
  Require(IsSome(p.fee.rp), "INVALID_BLOCK_HEADER")
  ?? derive_block_ref(p.fee.rp)
  ?? build_contract(p)
  ?? parse_fee_limit(p.fee.el)
  ?? checked_expiration(ts)

encode_raw_data(p, ts) ==
  [ envelope |-> "raw_data",
    refBlockBytes |-> ref_block_bytes(p.fee.rp),
    refBlockHash |-> ref_block_hash(p.fee.rp),
    expiration |-> ts + ExpirationMs,
    contract |-> ContractOf(p),
    timestamp |-> ts,
    feeLimit |-> FeeLimitField(p.fee.el) ]

compile_tron(p, now, clock) ==
  LET ts == timestamp_ms(now, clock)
  IN IF compile_tron_code(p, ts) # OK THEN Failed(compile_tron_code(p, ts))
     ELSE [ code |-> OK, unsigned |-> encode_raw_data(p, ts),
            metadata |-> [ txType |-> p.txType, feeMode |-> "TRON",
                           evmTxType |-> None,
                           tronContractType |-> Dec(ContractOf(p).type),
                           expiration |-> Dec(ts + ExpirationMs) ] ]

(* src/src/compile.rs *)
compile(p, now, clock) ==
  IF p.chain = "ethereum" THEN compile_evm(p) ELSE compile_tron(p, now, clock)
============================================================================
