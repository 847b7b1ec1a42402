---------------------------- MODULE TronAddress ----------------------------
(***************************************************************************)
(* src/src/tron_address.rs: a Tron address text to its 21 raw bytes.  The  *)
(* bytes are [len, prefix, acct]: how many, whether the first is 0x41, and *)
(* the account the rest names.                                             *)
(***************************************************************************)
EXTENDS TxTypes

TRON_ADDRESS_LEN == 21

(* ^(0x)?41[0-9a-fA-F]{40}$ *)
strip_hex_prefix(a) == a.form \in {"41hex40", "0x41hex40"}

(* bs58::decode(..).with_check(None) of a 34-character T... text *)
Base58Decodes(a) == a.form \in {"base58", "base58Foreign"}

TronBytes(a) ==
  [len |-> TRON_ADDRESS_LEN, prefix |-> a.form # "base58Foreign", acct |-> a.acct]

enforce_shape(b) ==
  Require(b.len = TRON_ADDRESS_LEN /\ b.prefix, "INVALID_ADDRESS")

tron_address_to_bytes(a) ==
  Require(strip_hex_prefix(a) \/ Base58Decodes(a), "INVALID_ADDRESS")
  ?? enforce_shape(TronBytes(a))
============================================================================
