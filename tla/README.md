# walletsuite-tx-compiler, specified in TLA+

The library turns a JSON transfer intent into (a) a summary that a human
approves and (b) the bytes that a signer signs, for EVM chains and Tron.  It is
synchronous and keeps no state: `validate`, `review` and `compile` are pure but
for one reading of the system clock.  What can go wrong is therefore not a race
but a *disagreement*: between three parsers of the same calldata, between a
check in one file and the conversion in another that relies on it, between a
summary and the bytes made from the same value earlier or later in a caller's
session.  These modules state the agreements and check them.

## Inventory

| Part | Source | State, operations | Correct when |
| --- | --- | --- | --- |
| validate | `src/validate.rs` | `validate(json)`; pure; the checks run in a fixed order, the first failing one gives the error code | accepts exactly the canonical payloads; never panics; output survives a round trip through JSON |
| review | `src/review.rs` | `review(prepared)`; decodes ERC-20 calldata; multiplies gas by price | shows the transfer that the compiled bytes make, and the ceiling of cost that they set; never panics |
| EVM compiler | `src/evm.rs` | `compile_evm`; parses numbers into u64, u128, U256; EIP-1559 or legacy pre-image | refuses an accepted transaction only for a number too wide; never wraps |
| Tron compiler | `src/tron.rs`, `src/compile.rs` | `compile_tron`; block reference, contract, fee limit, clock, expiration | as above; depends on the clock in two fields only |
| protobuf encoder | `src/tron_proto.rs` | `encode_raw_data`, contracts, the varint loop over one register and a growing buffer | a node reads the fields it was given and computes the hash that was signed; the loop ends |
| Tron addresses | `src/tron_address.rs` | `tron_address_to_bytes` | three spellings of the same account; 21 bytes, prefix 0x41 |
| types | `src/types.rs`, `src/constants.rs`, `src/error.rs` | serde forms, constants, error codes | what is serialised can be validated again |
| external crates | alloy, ruint, serde_json, bs58, sha2 | RLP, U256, JSON, base58check, hashes | modelled where they are called |

How they interact: a caller gets a `PreparedTransaction` from `validate` or
straight from serde (all types derive `Deserialize`), passes it by reference to
`review` and `compile` in any order and as often as it likes, and may serialise
it and validate it again.  `compile` leaves several checks to `validate`
("enforced upstream by validate") and repeats others so that a value that never
saw `validate` cannot panic it.

What is hard to test: the *combinations*.  Boundaries of five number widths on
seven fields; five spellings of a number that three parsers treat differently
(`"+5"`, `"007"`, `"1_000"`, `""`); eleven spellings of an address; calldata of
the wrong length, selector or padding; fee fields of one mode under another; a
late validation after a review; a clock that runs backwards between two calls.
Below that, the *bytes*: a varint with a byte too many, an ABI word one byte off,
a slice through the middle of a character.  There are no threads, no network, no
persistence and no retries inside the library; what must eventually happen is
that its one unbounded loop, `write_varint`, ends.

## Modules

| Module | Models | Notes |
| --- | --- | --- |
| `TxTypes` | `types.rs`, `constants.rs`, error codes | texts as *form + value*; widths as constants; `a ?? b` is Rust's `a?; b` |
| `TronAddress` | `tron_address.rs` | accepted spellings, shape check |
| `Validate` | `validate.rs` | one operator per function, its value the error code; `PreparedOf` is the value built |
| `Review` | `review.rs` | slices are explicit: `Slice(inRange)` is `PANIC` when out of range |
| `CompileEvm` | `evm.rs` | the pre-image is the record of encoded fields |
| `CompileTron` | `tron.rs`, `tron_proto.rs`, `compile.rs` | raw_data is the record of its fields; `clock` is the reading of `SystemTime` |
| `TxSession` | a caller of the API and serde | the state machine; the type invariant |
| `SigningRequest` | | abstract: a request is admitted, shown, signed, forgotten |
| `TxRefinement` | | the refinement mapping from a session to `SigningRequest` |
| `Varint` | `tron_proto.rs`: `write_varint` and the test's `decode_varint` | a state machine, one step per iteration |
| `TronProto` | `tron_proto.rs`, `build_trc20_transfer_data` | from the fields of `CompileTron` to bytes |
| `TronNode` | external | a protobuf reader and what a Tron node does with what it reads |
| `Texts` | a UTF-8 text, typed character by character | `NumeralText` and `HexText` extend it |
| `NumeralText` | `is_non_neg_int`, `parse_u64`, `parse_u128`, `parse_u256` | on every text |
| `HexText` | the parsers of calldata and addresses in `validate.rs`, `review.rs`, `evm.rs`, `tron_address.rs` | slices that panic |
| `TxProperties` | | the properties and the inductive invariant |
| `DocClaims` | | three sentences of `types.rs` that the code does not keep |
| `MCTx`, `MCTron`, `MCText` | | inputs for TLC |
| `TypeProofs`, `TxSessionProofs`, `RefinementProofs`, `VarintProofs`, `NumeralProofs`, `TextProofs`, `WireProofs` | | the theorems |
| `DataInduction` | | lemmas: induction and recursion over data |

### How data is abstracted

A number text is `[form, val]`: `canon` is what `is_non_neg_int` reads,
`padded` has leading zeros, `signed` a `+`, `grouped` underscores (ruint's
`from_str_radix` skips them; the empty text is the grouped form of 0), `junk` no
parser reads.  `str::parse::<uN>` takes canon, padded and signed; ruint takes
canon, padded and grouped.  This is what makes the direct serde path
interesting: the two kinds of parser do not accept the same texts.

An address text is an encoding and the account it names.  Calldata is the
features that the parsers look at (hex digits, length, selector, padding) and
the two argument words.  A Tron block hash is a length, hex or not, and the id
it spells.  Keccak256 and sha256 are left out: `tx_hash` is a function of
`unsigned_tx`, so two results agree on one exactly when they agree on the other.
Numerals, calldata and addresses are not taken on trust: `NumeralText` and
`HexText` have their characters, and check that the forms decide what the
characters decide.
`2^53 - 1`, `2^64 - 1` and so on are constants under `WidthAssumption`, which
holds of the real widths (among others `u64::MAX * u128::MAX <= U256::MAX`, why
the saturating product of `review` never saturates on a fee that compiles).

### The session

`TxSession` has four variables: the transaction held, the verdict of the last
`validate` made on it, the summary, and the results of `compile` with their
pinned time.  The actions are the calls of the API: `ValidatePayload`,
`Deserialize` (serde without validate), `Revalidate` (validate on the value's own
JSON), `ReviewPrepared`, `CompilePrepared`, `Drop`.  A session keeps what it
reviewed and compiled across a late validation that succeeds; that is what a
caller does that validates after it has shown the summary, and the properties
must survive it.  A session reviews a transaction once (review is a function of
a value that does not change but for `Revalidate`, and the older summary is the
one that may be stale) and compiles it at most `MaxCompiles` times.

### The abstract specification

`SigningRequest` knows no transaction, no text and no byte: `request`, `shown`
and `signed` are deeds (transfers, and what binds them: chain id and nonce, or
the paying account) with a cost.  `Admit` takes a request; `Show` shows its deed
at its cost; `Sign` makes bytes that do it; `Forget` ends it.  A caller may ask
late, after it has reviewed and compiled, so `Admit` may find a summary and
bytes already there, and then they must be of this request.  A request with a
number too wide for its field may be shown at any cost (the product saturates)
and never becomes bytes.

The mapping of `TxRefinement`: nothing counts until validate has accepted
(`trusted`); then the request is what the fields ask for (`AskedRequest`), `shown`
what the summary says (`ShownPromise`), `signed` what the pre-images do
(`SignedPromise`).  So `ValidatePayload` and `Revalidate` implement `Admit`,
`ReviewPrepared` is `Show`, `CompilePrepared` is `Sign` or a stutter, and `Drop` is
`Forget`; everything on a transaction that is not accepted is a stutter.

### Bytes and characters

`Varint` is the loop itself: `Call`, one `PushDigit` per round, `PushLast`, all on
one buffer as in `encode_raw_data`, then the reader of the test module.
`TronProto` has every message as a function from the records of `CompileTron` to
bytes, `TronNode` reads them back by the rules of protobuf, as int64, and says
what a node executes.  `MCTron` runs whole sessions through both.

`NumeralText` and `HexText` take from `Texts` one variable, the text being typed,
and one action, which types a character.  Every text over the alphabet up to the bound
is a state.  The lengths in the code (42, 34, 136 and its parts, 78) are
constants, small in the runs so that TLC reaches texts on both sides of each.
In `HexText` a text is its UTF-8 bytes and `SliceStr` panics outside the text and
inside a character; hex digits stand for themselves.

## Properties

* `TypeOK` - every number of a summary or a pre-image is in the range of its
  field: nothing wrapped or was truncated.
* `NeverPanics` - on any transaction serde can make.
* `UpstreamEnforced` - on an accepted transaction `review` succeeds, and
  `compile` fails exactly when a number it needs is too wide for its field
  (`INVALID_AMOUNT`) or the time is too late (`INVALID_PAYLOAD`).
* `SignedIsReviewed` - the transfers that the signed bytes make (`Effects`) are
  exactly the one that the summary shows (`Approved`), on the same chain id and
  nonce (EVM) or from the same account (Tron).
* `TokenReviewDecodesCalldata` - for EVM tokens the recipient and the amount of
  the summary are those of the compiled bytes even when validate was never
  called (`review.rs:81-87` promises it).
* `CostCeiling` - the cost in the summary is the ceiling that the signed bytes set:
  gas limit times price on EVM, the encoded `fee_limit` on Tron.
* `Deterministic` - with a pinned time, and on EVM always, compiling again gives
  the same bytes; otherwise only the two times differ.
* `ReloadStable`, `AdmitExact` - action properties: validating an accepted
  transaction again returns it unchanged; validating a foreign one accepts
  exactly the canonical ones (`Canonical`, written from the payload tables and
  not from the order of the checks) and changes `Some("")` to `None` only.
* `SessionInv` - the inductive invariant behind them.
* `ImplementsSigningRequest` - a session implements `SigningRequest`.  Over
  `SignedIsReviewed` it adds the order of events and the foreign transactions: one
  whose summary and bytes disagree (`to` against `tokenContract`, hidden
  calldata, a fee with a `+`) may be reviewed and compiled, but no late validate
  admits it.
* `ReadsWhatWasSent`, `Minimal`, `LoopsEnd`, `VarintInv` (`Varint`) - the values
  written to one buffer are read back in order; none takes more bytes than it
  needs; both loops end; the inductive invariant.
* `NodeExecutesReviewed` - what a node reads in the signed bytes is what was
  reviewed, or it refuses a number of 2^63 and more, which the code writes as an
  unsigned varint into an int64 field; it never executes another number.
* `NodeKeepsHash` - the bytes are the serialisation that a node hashes (ascending
  fields, no default values, shortest varints), in `raw_data`, `Contract` and
  `Any`.  A time pinned at 0 is the exception: its field is written all the same.
* `AcceptedReadAlike`, `CalldataReadAlike`, `AddressesReadAlike` - parsers that
  read one text agree: on a numeral that validate accepts; on the transfer in a
  calldata text; on the account of an address, which is never of both chains.
* `NumeralsAreFaithful`, `CalldataIsFaithful`, `AddressFormsAreFaithful` - the
  records of `TxTypes` decide every check as the characters do.
* `SlicesInRange` - no slice of a text panics, on any UTF-8 text.

## Runs

Widths in the runs of `MCTx`: `SafeMax = U32Max = 2`, `I64Max = 3`, `U64Max = 7`,
`U128Max = 15`, `U256Max = 127`, `DecimalCap = 1000`, expiration 3, block numbers
modulo 4.  They satisfy `WidthAssumption` and are far enough apart that a value
lies strictly between any two neighbours, and the inputs contain the last value
that fits and the first that does not for every width.

| Run | Inputs | Shows |
| --- | --- | --- |
| `validated` | the five fixtures as JSON; every field replaced by every boundary value or form; related pairs of fields replaced together; `null`, missing, negative and non-integer JSON | `TypeOK`, `UpstreamEnforced`, `SignedIsReviewed`, `CostCeiling`, `ReloadStable` |
| `foreign` | the same deviations, made by serde without validate; two compiles | `SessionInv`, `NeverPanics`, `TokenReviewDecodesCalldata`, `AdmitExact`, and `UpstreamEnforced`, `SignedIsReviewed`, `ImplementsSigningRequest` with a late validation |
| `clock` | the fixtures; pins at 0, at the last time that still fits and after it; every pair of clock readings, backwards too | `Deterministic` |
| `varint` | up to 3 calls on one buffer, 12 values: both sides of 2^7, 2^14, 2^21 and 2^28, and 0, 1, 255 and the largest | `VarintInv`, `ReadsWhatWasSent`, `Minimal`, `LoopsEnd` |
| `wire` | the two Tron fixtures; amounts, fee limits, block numbers and times around 2^7, 2^8, 2^14, 2^16, 2^30 and around the int64 and u64 maxima of the run | `NodeExecutesReviewed`, `NodeKeepsHash` |
| `numerals` | all texts of up to 6 characters over `0 1 9 + _ -`, at most 4 digits accepted | `AcceptedReadAlike`, `NumeralsAreFaithful` |
| `calldata_texts` | all texts of up to 7 bytes after `0x` over `0 a A x` and a two-byte character; a transfer call has 1 + 1 + 2 + 2 digits | `SlicesInRange`, `CalldataReadAlike`, `CalldataIsFaithful` |
| `address_texts` | all texts of up to 5 bytes after `0x` over `0 1 4 a A x T` and a two-byte character; a hash has 2 digits, a base58 text 3 characters, and its second chooses among six results of base58check | `SlicesInRange`, `AddressesReadAlike`, `AddressFormsAreFaithful` |
| `fee_subsets`, `chain_id`, `review_token` | as `validated` | a sentence of `types.rs` is violated, see below |

Why the inputs are enough: the code's checks look at one field each, or at one
of the twelve pairs in `Related` (for instance `to` against `tokenContract`, or
`gasPrice` against `maxFeePerGas`), and every deviation is taken from each of the
five fixtures.  `MaxCompiles` is 2 where two results are compared (`clock`,
`foreign`) and 1 where each is compared with the summary.  Deadlock is checked
in every run of a session: it can always be dropped.  `Varint` stops when the
reader is at its end and a text stops growing at its bound, so the four other
runs do not check it.

In `varint` the base is the real 128 and the width is 30 bits, which TLC's
integers hold; the theorems below cover 64.  Its buffer bound (`MaxBytes`) is one
more than three longest values take, so it never stops a correct loop.  In `wire`
the base, the widths of the ABI words, the tags and the length prefixes are the
real ones (a TRC-20 contract is longer than 127 bytes, so prefixes of one and of
two bytes occur), and the machine widths are again small.  In the text runs the
bounds let every text of the right length exist, with one character too many and
too few, each prefix and each wrong character in each position.

### Fairness

Only `LoopsEnd` needs it.  `FairSpec` of `Varint` assumes weak fairness of the
loops' own steps (`PushDigit`, `PushLast`, `ReadDigit`, `ReadLast`,
`EndOfBuffer`): they are the iterations of one thread that waits for nothing, so
an enabled one is executed.  Nothing is assumed of the caller: it need not call
`write_varint`, nor read.  All other properties are safety properties.

### Documentation that the code does not keep

* `types.rs:96-97` "Exactly one of the three mode-specific subsets is populated":
  `validate_fee` keeps all fields it is given (`validate.rs:391`).
* `types.rs:138` "Chain ID (EVM only, `None` for Tron)": kept on Tron
  (`validate.rs:40`).
* `types.rs:225` "Token contract (token transfers only)": `review` shows it on a
  native transfer too (`review.rs:38`).

Each is harmless to what is signed (`SignedIsReviewed` and `CostCeiling` hold all
the same).  Two more, seen while reading and not worth a run: `types.rs:149` says
`data` is `None` unless an EVM token transfer, but `validate` keeps `"0x"` on a
native one and any text on Tron; `validate.rs:447-448` says the header fields
`p`, `r`, `w` are surfaced in `review()`, which does not show them.  And a comment
of a test, `tron_proto.rs:150`, gives 1710036000000 as 0x18e2_48f0_4e00; it is
0x18e_2616_9d00 (the bytes that the test expects are right).

## Theorems

Those of the first table are about `Spec` of `TxSession` and hold for every value
of the constants that satisfies `WidthAssumption` (the machine widths and their
order) and `SessionAssumption` (the inputs are typed).  In particular they hold for the real widths, for every
typed payload and transaction, for every clock and for sessions of any length.

| Theorem | Module | States |
| --- | --- | --- |
| `TypeCorrect` | `TypeProofs` | `Spec => []TypeOK` |
| `Invariance` | `TxSessionProofs` | `Spec => []SessionInv` |
| `PanicFree` | `TxSessionProofs` | `Spec => []NeverPanics` |
| `UpstreamEnforcement` | `TxSessionProofs` | `Spec => []UpstreamEnforced` |
| `SignedAsReviewed` | `TxSessionProofs` | `Spec => []SignedIsReviewed` |
| `CostIsCeiling` | `TxSessionProofs` | `Spec => []CostCeiling` |
| `CalldataAgreement` | `TxSessionProofs` | `Spec => []TokenReviewDecodesCalldata` |
| `Determinism` | `TxSessionProofs` | `Spec => []Deterministic` |
| `AdmitsExactly` | `RefinementProofs` | `Spec => AdmitExact` |
| `ReloadsStably` | `RefinementProofs` | `Spec => ReloadStable` |
| `SessionRefines` | `RefinementProofs` | `Spec => ImplementsSigningRequest` |
| `HashKept` | `WireProofs` | `Spec => []NodeKeepsHash` |
| `ReviewedExecuted` | `WireProofs` | `Spec => []NodeExecutesReviewed` |

The last two also assume `TronProtoAssumption`: an account is known by its key
hash (20 bytes, `tron_address.rs` returns them after the prefix), the part of a
block id that is sent has 8 bytes (bytes 8 to 15, `tron.rs:101`), and a `U256` has 32 bytes.

Three are about `Spec` of `Varint`, under `VarintAssumption`: any base above
1 (so 128), any width (so 2^64), any set of inputs, any number of calls.

| Theorem | Module | States |
| --- | --- | --- |
| `VarintInvariance` | `VarintProofs` | `Spec => []VarintInv` |
| `VarintRoundTrip` | `VarintProofs` | `Spec => []ReadsWhatWasSent` |
| `VarintMinimal` | `VarintProofs` | `Spec => []Minimal` |

The others are about `Spec` of `NumeralText` and of `HexText`: texts of any length
over any alphabet.

| Theorem | Module | States |
| --- | --- | --- |
| `AcceptedTextsAgree` | `NumeralProofs` | `Spec => []AcceptedReadAlike` |
| `NumeralsFaithful` | `NumeralProofs` | `Spec => []NumeralsAreFaithful` |
| `SlicesStayInRange` | `TextProofs` | `Spec => []SlicesInRange` |
| `CalldataAgrees` | `TextProofs` | `Spec => []CalldataReadAlike` |
| `CalldataFaithful` | `TextProofs` | `Spec => []CalldataIsFaithful` |
| `AddressesAgree` | `TextProofs` | `Spec => []AddressesReadAlike` |
| `AddressFormsFaithful` | `TextProofs` | `Spec => []AddressFormsAreFaithful` |

They assume `WidthAssumption` and, of texts, what the code fixes: the two bytes of
a wide character are not characters themselves (`AlphabetAssumption`, which is
UTF-8); a numeral has at most `MAX_DECIMAL_LEN` digits and `DecimalCap` is that
power of ten (`NumeralTextAssumption`); the selector is lower-case hex, a transfer
call has an even number of digits, a hash has some, and base58check gives bytes
or nothing (`HexTextAssumption`).  The real lengths satisfy all of it.

The argument.  The first part of `TypeProofs` shows what a payload that passes satisfies: one
lemma per function of `validate.rs`, ending in `ValidateOK` (what validate builds
is `Canonical`) and `PreparedTyped`; the second shows what `review` and the
compilers return.  The properties relate a summary or a pre-image to the
transaction *now held*, which is not the value it was made from when a late
validation came in between; so none of them is inductive.  The strengthening
`SessionInv` records the missing fact: a summary and every result of `compile`
came from one of the `Sources`, which is the held transaction itself as long as
validate has not accepted it, and otherwise a *draft* of it, equal to it up to an
empty `data` or `tokenContract` that validation dropped.  The distinction is
needed: on a transaction that is not accepted, `Some("")` and `None` as token
contract make `compile_tron` fail with different codes, and `Deterministic` would
not follow.  `InvStep` proves it for each action; the interesting case is
`Revalidate`, where `RoundTrip` (JSON changes `Some("")` to `None` and nothing
else) and `DraftsOfDropped` carry the sources over.

From there every property is a fact about a canonical transaction and its
drafts: `EvmVerdict` and `TronVerdict` for the checks left to validate,
`EvmAgreement` and `TronAgreement` for what is signed, `ProductFits` for the
cost (it needs `u64::MAX * u128::MAX <= U256::MAX` and that compile bounds both
factors), `EvmSame` and `TronSame` for determinism.  The first part of `RefinementProofs` proves
the converse of `ValidateOK` for the JSON forms of typed transactions: each check of
validate accepts what is canonical.

The refinement.  `RefinementProofs` maps each action to a step of `SigningRequest`
or a stutter.  Two facts carry it: the deed and the cost of a canonical
transaction are those of its drafts (so a summary made before a late validation
is still of the request), and a summary or a pre-image of a canonical
transaction is the promise of what it asks (`EvmAgreement`, `TronAgreement`,
`ProductFits`, now read against the fields and not only against each other).

The varint.  What the reader gives back is a sum over digits that are still to
come.  The history `pushed` says what they stand for: it remembers
the register before each push, so the bytes from the reader's position on stand
for `pushed[next].left`, and `ReaderAt` says that the value read so far and this
one make up the value that was sent: `sent[k] = acc + scale * pushed[next].left`.
`Chained` says how the register goes on from one push to the next, `WriterAt` what
it holds now.  A register that is not 0 is why the reader never needs a shift of
the full width (`scale <= sent[k] < Top`) and why no last byte is a 0 too many.

Recursion over data.  An induction theorem with an operator parameter cannot be
instantiated here, so `DataInduction` states induction with sets (`RankInduction`:
a set that has an element whenever it has all of smaller rank has them all;
`SetInduction` and `PrefixInduction` likewise) and shows that a function defined
by recursion on a rank, or on the length of a prefix, exists (`RecursionExists`,
`PrefixRecursionExists`).  With that, each recursive function of the modules is
*unfolded* once: `VarintUnfolds`, `ReadUnfolds`, `FieldUnfolds`, `MessageUnfolds`,
`ShiftedUnfolds`, `ValueUnfolds`, `UngroupedUnfolds`.

The texts.  `TextInv`, which `TextsAreUtf8` proves of every typed text, is what a
Rust `str` is by its type and only serves the theorems: bytes of characters, and the second byte of
a wide one stands after its first.  It is what makes a slice after ASCII digits,
or after `0x`, safe; `SlicesStayInRange` needs nothing else, as every slice of the
code comes after a check of the length and of the digits, or is at a character
boundary by its own check.  For the numerals, `Spells` bounds the value of a text
by its digits (`k` digits are below the `k`-th power of ten, and without a leading
zero not below the one before), which is what decides whether it is too wide; the
forms of `TxTypes` follow character by character (`Shape`, `Skipped`).  For
calldata, `ValidateCall`, `ReviewCall` and `TransferWords` reduce the three parsers
to the same slices of the same text; the slices of a lower-cased text are
the lower-cased slices.  For addresses, `HexSpelling` and `FormIs` say which of the
spellings of `TronAddress` a text has.

The bytes.  `Encoded(f)` are the bytes of one field, and `At(s, i, w)` says that `w`
stands in `s` at position `i`.  `ReadsBack`: the reader inverts a varint wherever
it stands, and `FieldBack` a field.  `Tells(s, F)`: `s` spells the fields of `F`, in
ascending order and nothing else; it is built field by field (`TellsOne`,
`TellsMore`), a field left out for its default value adding nothing.
`TellsReads` is the core: who reads such an `s` has exactly `F` (`Carried`), all of
it in shortest form.  `RawTells`, `ContractTells`, `AnyTells` and so on say it of each
message of `tron_proto.rs`.  `HashKept` then needs of the session that no field is
written with its default value: `SessionInv` gives that an expiration is at least
`EXPIRATION_MS` after the time and that a typed fee limit is positive (`RawOf`).
`ReviewedExecuted` further needs the arguments of a TRC-20 call: `BytesBack` (a
number below 2^256 is read back from its 32 bytes), `AccountBack`, and
`TransferDataBack`, which puts them together; `SignedNumber` says what an int64
makes of an unsigned number.  What the node executes is then what `SignedAgrees`
and `CostAgrees`, the lemmas behind the session's theorems, say was reviewed.

## Only model-checked, and not modelled

Only `LoopsEnd` is model-checked and not proved: liveness under fairness is out of
the prover's reach.  Every invariant and action property of the other runs is
the statement of a theorem above.

The three documentation sentences are refuted by TLC with a counterexample each.

Not modelled, in `src/`: error messages and `details` (wording; only the codes are
the stable API, `error.rs:66-70`), the JSON forms of reviews, results and errors
(the library writes them and never reads them), the byte-exact comparison of the
fixtures (a test).  The three informational fields of a Tron header are one
field, short or too long.  Outside `src/`: RLP encoding and
the hash functions are assumed injective; the JSON reader is modelled by the
values it can hand over (a number that is not an i64 or a u64 integer, such as a
float, is "other").  `Effects` and `FeeCeiling` say what the networks do with the
fields; they are properties, not code.  That a Tron node refuses a negative number
is assumed of it.  Characters of three and four bytes are left out: one of two
bytes already has an inside, where a slice panics.

## Plan

Done: the session and its properties; `Varint`, `TronProto` and a reader of the
wire format; the numerals, calldata and addresses as texts; `SigningRequest` and
its refinement; a proof of every safety property that a run checks.

Left, each without a change to the modules above:

1. RLP of the two EVM pre-images, which alloy encodes: a reader that gives the
   fields back would replace the assumption that the encoding is injective.
2. A theorem that joins the two models of `write_varint`: what a call of the loop
   in `Varint` appends to the buffer is the value of the function `varint` of
   `TronProto`.  `VarintRoundTrip` and `ReadsBack` say of each that it is read back.
