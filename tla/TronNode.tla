------------------------------ MODULE TronNode ------------------------------
(***************************************************************************)
(* A Tron node, as far as tron.rs and tron_proto.rs count on one: it reads *)
(* raw_data by the rules of protobuf, takes the numbers for int64, and     *)
(* hashes its own serialisation of what it has read.                       *)
(***************************************************************************)
EXTENDS TronProto, TxProperties

Broken == [num |-> 0, wire |-> 0, val |-> 0, data |-> << >>, short |-> TRUE, end |-> 0]

Positions(s) == 1..(Len(s) + 1)

(* the varint at s[start]: its value, the position after it, and whether   *)
(* it has no byte too many                                                 *)
ReadVarint(s, start) ==
  LET read[i \in Positions(s)] ==
        IF i > Len(s) THEN [ok |-> FALSE, val |-> 0, end |-> i, short |-> TRUE]
        ELSE IF s[i] < 128
        THEN [ok |-> TRUE, val |-> s[i], end |-> i + 1, short |-> i = start \/ s[i] # 0]
        ELSE [read[i + 1] EXCEPT !.val = @ * 128 + (s[i] - 128)]
  IN read[start]

(* the field at s[start] *)
ReadField(s, start) ==
  LET tag == ReadVarint(s, start)
      body == ReadVarint(s, tag.end)
      wire == tag.val % 8
      length == IF wire = WIRE_LEN THEN body.val ELSE 0
  IN IF ~tag.ok \/ ~body.ok \/ wire \notin {WIRE_VARINT, WIRE_LEN}
        \/ body.end + length > Len(s) + 1
     THEN Broken
     ELSE [ num |-> tag.val \div 8, wire |-> wire,
            val |-> IF wire = WIRE_VARINT THEN body.val ELSE 0,
            data |-> SubSeq(s, body.end, body.end + length - 1),
            short |-> tag.short /\ body.short, end |-> body.end + length ]

(* the fields of a message, in the order of the bytes *)
ReadMessage(s) ==
  LET from[i \in Positions(s)] ==
        IF i > Len(s) THEN << >>
        ELSE LET f == ReadField(s, i)
             IN IF f = Broken THEN <<Broken>> ELSE <<f>> \o from[f.end]
  IN from[1]

WellFormed(m) == \A i \in DOMAIN m : m[i] # Broken
Field(m, num) == SelectLastInSeq(m, LAMBDA f : f.num = num)   \* 0 when absent
ValueOf(m, num) == IF Field(m, num) = 0 THEN 0 ELSE m[Field(m, num)].val
DataOf(m, num) == IF Field(m, num) = 0 THEN << >> ELSE m[Field(m, num)].data

(* int64 of the bits of a u64 *)
Int64(v) == IF v > I64Max THEN v - (U64Max + 1) ELSE v

from_be_bytes(s) ==
  LET upto[k \in 0..Len(s)] == IF k = 0 THEN 0 ELSE upto[k - 1] * 256 + s[k]
  IN upto[Len(s)]

AccountAt(bytes) == {a \in Accounts : address_bytes(a) = bytes}

(* what the call data of a TriggerSmartContract moves *)
TokenTransfers(target, data) ==
  IF Len(data) = 68 /\ SubSeq(data, 1, 4) = ERC20_TRANSFER_SELECTOR_BYTES
     /\ SubSeq(data, 5, 16) = Zeros(12)
  THEN {TransferOf(t, r, from_be_bytes(SubSeq(data, 37, 68))) :
          t \in target, r \in AccountAt(<<65>> \o SubSeq(data, 17, 36))}
  ELSE {}

(* what the contract of a transaction does; "any" and "inner" are the      *)
(* messages in it                                                          *)
EffectsOf(type, any, inner) ==
  LET target == AccountAt(DataOf(inner, 2))
      amount == Int64(ValueOf(inner, 3))
  IN [ wellFormed |->
         WellFormed(any) /\ WellFormed(inner) /\ DataOf(any, 1) = type_url(type),
       owner |-> AccountAt(DataOf(inner, 1)),
       negative |-> amount < 0,
       transfers |->
         IF type = TRON_CONTRACT_TYPE_TRANSFER
         THEN UNION {CoinTransfer(t, amount) : t \in target}
         ELSE TokenTransfers(target, DataOf(inner, 4)) ]
NodeEffects(c) ==
  LET any == ReadMessage(DataOf(c, 2))
  IN EffectsOf(ValueOf(c, 1), any, ReadMessage(DataOf(any, 2)))

CompiledTron == {i \in Compiled : Unsigned(i).envelope = "raw_data"}
Message(i) == ReadMessage(raw_data_bytes(Unsigned(i)))

(* An int64 of the message that is negative: the node refuses it. *)
Refused(m, effects) ==
  effects.negative \/ \E num \in {8, 14, 18} : Int64(ValueOf(m, num)) < 0

TooLargeForInt64(u) ==
  \/ u.expiration > I64Max \/ u.feeLimit.val > I64Max
  \/ u.contract.type = TRON_CONTRACT_TYPE_TRANSFER /\ u.contract.amount > I64Max

(* What a node reads in the signed bytes of an accepted transaction is     *)
(* what was approved: the same transfer from the same account, at the cost *)
(* that was shown.  A number from 2^63 on, which the encoder writes as an  *)
(* unsigned varint into an int64 field, makes the node refuse the          *)
(* transaction and never execute it with another number                    *)
(* (tron_proto.rs:56-62,113-126, tron.rs:194-221).                         *)
NodeExecutesReviewed ==
  trusted /\ reviewed.code = OK =>
    \A i \in CompiledTron :
    \A m \in {Message(i)} :
    \A contract \in {ReadMessage(DataOf(m, 11))} :
    \A effects \in {NodeEffects(contract)} :
      /\ WellFormed(m) /\ WellFormed(contract) /\ effects.wellFormed
      /\ Refused(m, effects) <=> TooLargeForInt64(Unsigned(i))
      /\ ~Refused(m, effects) =>
           /\ effects.transfers = Approved(reviewed.summary)
           /\ effects.owner = {reviewed.summary.from.acct}
           /\ ValueOf(m, 18) = unwrap_or_0(reviewed.summary.fee.estimatedMaxCost).val
           /\ ValueOf(m, 8) = ValueOf(m, 14) + ExpirationMs

(* A node hashes its own serialisation of raw_data: fields in ascending    *)
(* order, none with its default value, no varint longer than needed.  The  *)
(* signed bytes are that serialisation, down to the Any that holds the     *)
(* contract as bytes, so the signature is valid for the node's hash; the   *)
(* exception is a time pinned at 0, whose field is written all the same    *)
(* (tron_proto.rs:78-126).                                                 *)
NodeKeepsHash ==
  \A i \in CompiledTron :
    LET contract == ReadMessage(DataOf(Message(i), 11))
        parameter == ReadMessage(DataOf(contract, 2))
    IN \A m \in {Message(i), contract, parameter} :
         /\ \A k \in DOMAIN m : m[k].short
         /\ \A k \in 2..Len(m) : m[k - 1].num < m[k].num
         /\ \A k \in DOMAIN m :
              m[k].val = 0 /\ m[k].data = << >> =>
                m[k].num = 14 /\ Unsigned(i).timestamp = 0
============================================================================
