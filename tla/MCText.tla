------------------------------- MODULE MCText -------------------------------
(***************************************************************************)
(* A selector of one digit, and a base58 decoder: the second character of  *)
(* a T... text chooses one of the results that bs58 can have.             *)
(***************************************************************************)
EXTENDS HexText

MCSelector == <<"a">>

MCBs58(t) ==
  IF Len(t) < 2 THEN Undecodable
  ELSE CASE t[2] = "1" -> Prefix41 \o [i \in 1..HashLen |-> "0"]
         [] t[2] = "4" -> [i \in 1..TronHexLen |-> "0"]      \* another prefix byte
         [] t[2] = "a" -> Prefix41                           \* too short
         [] t[2] = "A" -> << >>
         [] t[2] = "x" -> Prefix41 \o [i \in 1..(HashLen + 2) |-> "0"]
         [] OTHER -> Undecodable                             \* a wrong checksum
============================================================================
