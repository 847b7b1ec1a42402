------------------------------ MODULE TronProto ------------------------------
(***************************************************************************)
(* src/src/tron_proto.rs and build_trc20_transfer_data of tron.rs, down to *)
(* the bytes: the raw_data that is hashed and signed.  CompileTron gives   *)
(* the fields, this module writes them.                                    *)
(***************************************************************************)
EXTENDS CompileTron, SequencesExt

CONSTANTS
  KeyHash(_),   \* the 20 bytes of an account's public-key hash
  HashPart(_)   \* bytes 8..16 of a block id

(* A varint: write_varint as a function (Varint has the loop). *)
varint(value) ==
  LET write[v \in Nat] == IF v >= 128 THEN <<(v % 128) + 128>> \o write[v \div 128] ELSE <<v>>
  IN write[value]

WIRE_VARINT == 0
WIRE_LEN == 2
varint_field(num, value) == varint(num * 8 + WIRE_VARINT) \o varint(value)
bytes_field(num, data) == varint(num * 8 + WIRE_LEN) \o varint(Len(data)) \o data

----------------------------------------------------------------------------
(* Bytes of what a field holds.                                            *)

Zeros(n) == [i \in 1..n |-> 0]

(* n >> 8k *)
Shifted(n, k) ==
  LET by[j \in Nat] == IF j = 0 THEN n ELSE by[j - 1] \div 256
  IN by[k]

(* big-endian, of a given width *)
to_be_bytes(n, width) == [i \in 1..width |-> Shifted(n, width - i) % 256]

(* An account is known by its key hash, and a U256 has 32 bytes. *)
Byte == 0..255
ASSUME TronProtoAssumption ==
  /\ \A a \in Accounts : KeyHash(a) \in [1..20 -> Byte]
  /\ \A a, b \in Accounts : KeyHash(a) = KeyHash(b) => a = b
  /\ \A id \in BlockIds : HashPart(id) \in [1..8 -> Byte]
  /\ Shifted(U256Max, 32) = 0

address_bytes(acct) == <<65>> \o KeyHash(acct)   \* 0x41

ERC20_TRANSFER_SELECTOR_BYTES == <<169, 5, 156, 187>>

MutAddressWordUnaligned(data) ==
  ERC20_TRANSFER_SELECTOR_BYTES
    \o Zeros(11) \o address_bytes(data.to)       \* the prefix byte was not dropped
    \o to_be_bytes(data.amount, 32)
trc20_transfer_data(data) ==
  ERC20_TRANSFER_SELECTOR_BYTES
    \o Zeros(12) \o SubSeq(address_bytes(data.to), 2, TRON_ADDRESS_LEN)
    \o to_be_bytes(data.amount, 32)

(* "type.googleapis.com/protocol." and the name of the contract: a text of *)
(* that length, one for each contract type                                 *)
TypeUrlLen(type) == IF type = TRON_CONTRACT_TYPE_TRANSFER THEN 45 ELSE 49
type_url(type) == [i \in 1..TypeUrlLen(type) |-> 96 + type]

----------------------------------------------------------------------------
(* Messages.                                                               *)

wrap_in_contract(type, value) ==
  varint_field(1, type)
    \o bytes_field(2, bytes_field(1, type_url(type)) \o bytes_field(2, value))

encode_transfer_contract(c) ==
  wrap_in_contract(c.type,
    bytes_field(1, address_bytes(c.owner)) \o bytes_field(2, address_bytes(c.to))
      \o varint_field(3, c.amount))

encode_trigger_smart_contract(c) ==
  wrap_in_contract(c.type,
    bytes_field(1, address_bytes(c.owner)) \o bytes_field(2, address_bytes(c.contract))
      \o bytes_field(4, trc20_transfer_data(c.data)))

contract_bytes(c) ==
  IF c.type = TRON_CONTRACT_TYPE_TRANSFER THEN encode_transfer_contract(c)
  ELSE encode_trigger_smart_contract(c)

MutContractLast(raw) ==
  bytes_field(1, to_be_bytes(raw.refBlockBytes, 2))
    \o bytes_field(4, HashPart(raw.refBlockHash))
    \o varint_field(8, raw.expiration)
    \o varint_field(14, raw.timestamp)
    \o bytes_field(11, contract_bytes(raw.contract))
    \o (IF IsSome(raw.feeLimit) THEN varint_field(18, raw.feeLimit.val) ELSE << >>)
raw_data_bytes(raw) ==
  bytes_field(1, to_be_bytes(raw.refBlockBytes, 2))
    \o bytes_field(4, HashPart(raw.refBlockHash))
    \o varint_field(8, raw.expiration)
    \o bytes_field(11, contract_bytes(raw.contract))
    \o varint_field(14, raw.timestamp)
    \o (IF IsSome(raw.feeLimit) THEN varint_field(18, raw.feeLimit.val) ELSE << >>)
==============================================================================
