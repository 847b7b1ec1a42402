-------------------------------- MODULE MCTx --------------------------------
(***************************************************************************)
(* Inputs for TLC: the five fixtures of src/tests/fixtures, in the typed   *)
(* and the raw form, and what is left of them after one or two fields were *)
(* replaced by a value at a boundary or of another form.                   *)
(***************************************************************************)
EXTENDS DocClaims, TxRefinement

CONSTANTS alice, bob, usdt, blk   \* model values

----------------------------------------------------------------------------
(* Building blocks.                                                        *)

Addr(f, a) == [form |-> f, acct |-> a]
NoAddr == Addr("none", alice)
Txt(f, n) == [form |-> f, val |-> n]
NoData == [ form |-> "none", hex |-> FALSE, len |-> 0, selector |-> FALSE,
            padded |-> FALSE, to |-> bob, amount |-> 0 ]
Call(n) == [ form |-> "call", hex |-> TRUE, len |-> 136, selector |-> TRUE,
             padded |-> TRUE, to |-> bob, amount |-> n ]
BlockHash == [hex |-> TRUE, len |-> 64, id |-> blk]
NoHeader == [form |-> "none", h |-> BlockHash, n |-> 0, t |-> 0, v |-> 0, info |-> "none"]
Header == [form |-> "object", h |-> BlockHash, n |-> 6, t |-> 5, v |-> 2, info |-> "short"]

NoFee == [ mode |-> "TRON", gasLimit |-> None, baseFeePerGas |-> None,
           maxPriorityFeePerGas |-> None, maxFeePerGas |-> None,
           gasPrice |-> None, el |-> None, rp |-> NoHeader ]
Fee1559 == [NoFee EXCEPT !.mode = "EIP1559", !.gasLimit = Dec(3), !.baseFeePerGas = Dec(2),
                         !.maxPriorityFeePerGas = Dec(1), !.maxFeePerGas = Dec(5)]
FeeLegacy == [NoFee EXCEPT !.mode = "LEGACY", !.gasLimit = Dec(3), !.gasPrice = Dec(4)]
FeeTron == [NoFee EXCEPT !.el = Dec(6), !.rp = Header]

evm_native_eip1559 ==
  [ chain |-> "ethereum", chainId |-> Dec(1), from |-> Addr("0xhex40", alice),
    to |-> Addr("0xHEX40", bob), valueWei |-> Dec(9), data |-> NoData,
    txType |-> "TRANSFER_NATIVE", tokenContract |-> NoAddr, nonce |-> Dec(2),
    fee |-> Fee1559 ]
evm_native_legacy == [evm_native_eip1559 EXCEPT !.fee = FeeLegacy]
evm_token_eip1559 ==
  [evm_native_eip1559 EXCEPT
     !.to = Addr("0xhex40", usdt), !.valueWei = Dec(0), !.data = Call(20),
     !.txType = "TRANSFER_TOKEN", !.tokenContract = Addr("0xHEX40", usdt)]
tron_native ==
  [evm_native_eip1559 EXCEPT
     !.chain = "tron", !.chainId = None, !.from = Addr("base58", alice),
     !.to = Addr("41hex40", bob), !.valueWei = Dec(7), !.nonce = None, !.fee = FeeTron]
tron_token ==
  [tron_native EXCEPT !.txType = "TRANSFER_TOKEN", !.valueWei = Dec(20),
                      !.tokenContract = Addr("base58", usdt)]
Fixtures == { evm_native_eip1559, evm_native_legacy, evm_token_eip1559,
              tron_native, tron_token }

----------------------------------------------------------------------------
(* Deviations of a typed transaction.                                      *)

Addresses == {Addr(f, bob) : f \in AddressForms \ {"none"}}
BadText == {Txt("padded", 1), Txt("signed", 1), Txt("grouped", 1), Txt("junk", 0)}
Numbers == {Dec(n) : n \in {0, 7, 8, 15, 16, 127, 128, 999}}
CallVariants ==
  {NoData, [NoData EXCEPT !.form = "empty"], [NoData EXCEPT !.form = "0x"],
   [Call(20) EXCEPT !.hex = FALSE], [Call(20) EXCEPT !.selector = FALSE],
   [Call(20) EXCEPT !.padded = FALSE], Call(127)}
  \cup {[Call(20) EXCEPT !.len = n] : n \in {7, 8, 72, 134, 135, 138}}
Headers ==
  {NoHeader, [Header EXCEPT !.n = 0], [Header EXCEPT !.t = 0], [Header EXCEPT !.n = 4],
   [Header EXCEPT !.info = "long"], [Header EXCEPT !.h.hex = FALSE],
   [Header EXCEPT !.h.len = 0], [Header EXCEPT !.h.len = 2], [Header EXCEPT !.h.len = 66]}

Alternatives(f) ==
  CASE f = "chain" -> Chain
    [] f = "txType" -> TxType
    [] f = "chainId" -> {None, Dec(-1), Dec(0), Dec(3)}
    [] f \in {"from", "to"} -> Addresses
    [] f = "valueWei" -> Numbers \cup BadText
    [] f = "nonce" -> {None, Dec(3), Dec(8)} \cup BadText
    [] f = "data" -> CallVariants
    [] f = "tokenContract" -> Addresses \cup {NoAddr, Addr("0xhex40", usdt)}
    [] f = "mode" -> FeeMode
    [] f = "rp" -> Headers
    [] OTHER -> {None} \cup Numbers \cup BadText   \* the other fields of fee

FeeFields == {"mode", "gasLimit", "maxPriorityFeePerGas", "maxFeePerGas", "gasPrice", "el", "rp"}
TopFields == {"chain", "txType", "chainId", "from", "to", "valueWei", "nonce", "data", "tokenContract"}

SetField(p, f, x) ==
  IF f \in FeeFields THEN [p EXCEPT !.fee[f] = x] ELSE [p EXCEPT ![f] = x]
DeviateIn(p, f) == {SetField(p, f, x) : x \in Alternatives(f)}
Deviate(p) == UNION {DeviateIn(p, f) : f \in TopFields \cup FeeFields}

(* The pairs of fields that a check or a computation of the code relates.  *)
Related ==
  { <<"chain", "mode">>, <<"txType", "data">>, <<"txType", "tokenContract">>,
    <<"to", "tokenContract">>, <<"data", "valueWei">>, <<"mode", "gasPrice">>,
    <<"mode", "maxFeePerGas">>, <<"gasPrice", "maxFeePerGas">>,
    <<"gasLimit", "maxFeePerGas">>, <<"mode", "rp">>, <<"txType", "valueWei">>,
    <<"el", "valueWei">> }
DeviateTwice(p) ==
  Deviate(p)
  \cup UNION {UNION {DeviateIn(q, fg[2]) : q \in DeviateIn(p, fg[1])} : fg \in Related}

----------------------------------------------------------------------------
(* Deviations that only raw JSON has.                                      *)

Other == [k |-> "other", s |-> Dec(0)]
JsonValues == {Absent, Null, Other, Num(-1), Num(0), Num(3), Num(4), Str(Dec(1000))}
RawHeaders(rp) ==
  {[rp EXCEPT !.form = "other"]}
  \cup {[rp EXCEPT !.n = x] : x \in JsonValues} \cup {[rp EXCEPT !.t = x] : x \in JsonValues}
  \cup {[rp EXCEPT !.v = x] : x \in JsonValues}

DeviateRaw(raw) ==
  {[raw EXCEPT !.form = "other"], [raw EXCEPT !.chain = "other"],
   [raw EXCEPT !.txType = "other"], [raw EXCEPT !.from = NoAddr],
   [raw EXCEPT !.to = NoAddr], [raw EXCEPT !.fee.form = "other"],
   [raw EXCEPT !.fee.mode = "other"]}
  \cup UNION {{[raw EXCEPT ![f] = x] : x \in JsonValues} : f \in {"chainId", "valueWei", "nonce"}}
  \cup UNION {{[raw EXCEPT !.fee[f] = x] : x \in JsonValues} :
                f \in (FeeFields \cup {"baseFeePerGas"}) \ {"mode", "rp"}}
  \cup {[raw EXCEPT !.fee.rp = x] : x \in RawHeaders(raw.fee.rp)}

RawFixtures == {to_json(p) : p \in Fixtures}

MCFixturePayloads == RawFixtures
MCForeign == UNION {DeviateTwice(p) : p \in Fixtures}
MCPayloads ==
  UNION {DeviateRaw(raw) : raw \in RawFixtures} \cup {to_json(p) : p \in MCForeign}
MCPins == {None, Dec(1), Dec(5)}
MCTwoPins == {None, Dec(1)}
MCAllPins == {None} \cup {Dec(i) : i \in {0, 1, 4, 5, 7}}
MCClock == {2, 6}
MCAllClock == 0..U64Max
=============================================================================
