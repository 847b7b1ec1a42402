------------------------------- MODULE MCTron -------------------------------
(***************************************************************************)
(* Inputs for TLC: the two Tron fixtures with amounts, fee limits, block   *)
(* numbers and times on both sides of every length that a varint, a        *)
(* length prefix or an int64 changes at.                                   *)
(***************************************************************************)
EXTENDS TronNode

CONSTANTS alice, bob, usdt, blk   \* model values

MCKeyHash(a) == [i \in 1..20 |-> CASE a = alice -> 17 [] a = bob -> 200 [] a = usdt -> 128 + i]
MCHashPart(id) == [i \in 1..8 |-> 250 + (i % 4)]

Amounts ==
  {Dec(n) : n \in {0, 1, 127, 128, 255, 256, 10000, 10001, 16383, 16384, 20001, 20002,
                   65536, 1073741824}}
Limits == {None} \cup {Dec(n) : n \in {0, 1, 127, 128, 10000, 10001, 20001}}
BlockNumbers == {1, 255, 256, 4095, 4096, 16384}

Text(f, a) == [form |-> f, acct |-> a]
NoCall == [ form |-> "none", hex |-> FALSE, len |-> 0, selector |-> FALSE,
            padded |-> FALSE, to |-> bob, amount |-> 0 ]
Header(n) == [ form |-> "object", h |-> [hex |-> TRUE, len |-> 64, id |-> blk], n |-> Num(n),
               t |-> Num(5), v |-> Num(2), info |-> "short" ]
Payload(token, amount, limit, n) ==
  [ form |-> "object", chain |-> "tron", chainId |-> Absent,
    from |-> Text("base58", alice), to |-> Text("41hex40", bob),
    valueWei |-> Str(amount), data |-> NoCall,
    txType |-> IF token THEN "TRANSFER_TOKEN" ELSE "TRANSFER_NATIVE",
    tokenContract |-> Text(IF token THEN "base58" ELSE "none", usdt), nonce |-> Null,
    fee |-> [ form |-> "object", mode |-> "TRON", gasLimit |-> Absent,
              baseFeePerGas |-> Absent, maxPriorityFeePerGas |-> Absent,
              maxFeePerGas |-> Absent, gasPrice |-> Absent,
              el |-> IF IsSome(limit) THEN Str(limit) ELSE Absent,
              rp |-> Header(n) ] ]

MCTronPayloads ==
  {Payload(token, a, l, 6) : token \in BOOLEAN, a \in Amounts, l \in Limits}
  \cup {Payload(token, Dec(1), Dec(1), n) : token \in BOOLEAN, n \in BlockNumbers}
MCTronPins == {None} \cup {Dec(t) : t \in {0, 127, 128, 9700, 9701, 16384}}
MCTronClock == {0, 5000}
============================================================================
