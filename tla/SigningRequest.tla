--------------------------- MODULE SigningRequest ---------------------------
(***************************************************************************)
(* What the library promises its caller, with no transaction, no text and  *)
(* no byte in it: a request to sign is admitted, it is shown to a human,   *)
(* it is signed, and all three are about the same deed at the same cost.   *)
(*                                                                         *)
(* A request with a number too wide for its chain is not signable: it may  *)
(* be shown, at any cost, and never becomes bytes.                         *)
(***************************************************************************)
EXTENDS Naturals

CONSTANT Deeds   \* what a signature can make a network do, and on whose behalf

VARIABLES
  request,   \* the request admitted, or NoRequest
  shown,     \* what the human was shown of it, or Nothing
  signed     \* what the bytes made for it do

vars == <<request, shown, signed>>

Requests == [deed : Deeds, cost : Nat, signable : BOOLEAN]
NoRequest == [none |-> TRUE]
Nothing == [none |-> TRUE]

Promise(r) == [deed |-> r.deed, cost |-> r.cost]
MayShow(r) == IF r.signable THEN {Promise(r)} ELSE [deed : {r.deed}, cost : Nat]
MaySign(r) == IF r.signable THEN {Promise(r)} ELSE {}

----------------------------------------------------------------------------

Init ==
  /\ request = NoRequest
  /\ shown = Nothing
  /\ signed = {}

(* A caller may ask late, with a summary and bytes that it has already:    *)
(* the request is admitted only if they are of this request.               *)
Admit ==
  /\ request = NoRequest
  /\ request' \in Requests
  /\ shown' \in MayShow(request') \cup {Nothing}
  /\ signed' \in SUBSET MaySign(request')

Show ==
  /\ request # NoRequest
  /\ shown = Nothing
  /\ shown' \in MayShow(request)
  /\ UNCHANGED <<request, signed>>

Sign ==
  /\ request # NoRequest
  /\ request.signable
  /\ signed' = {Promise(request)}
  /\ UNCHANGED <<request, shown>>

Forget ==
  /\ request # NoRequest
  /\ request' = NoRequest
  /\ shown' = Nothing
  /\ signed' = {}

Next == Admit \/ Show \/ Sign \/ Forget

Spec == Init /\ [][Next]_vars
============================================================================
