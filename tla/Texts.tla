------------------------------- MODULE Texts -------------------------------
(***************************************************************************)
(* A text of a payload, as it is typed: every text over the alphabet up to *)
(* the bound is a state.  A Rust str is UTF-8, so a text is a sequence of  *)
(* bytes and a character is one byte or, for "wide", two.                  *)
(***************************************************************************)
EXTENDS Integers, SequencesExt

CONSTANTS
  Alphabet,      \* the characters typed
  MaxLen         \* bound: bytes of a text after its 0x

ASSUME AlphabetAssumption == Alphabet \cap {"wide1", "wide2"} = {}

VARIABLE text

(* the UTF-8 bytes of a character *)
Utf8(c) == IF c = "wide" THEN <<"wide1", "wide2">> ELSE <<c>>
Boundary(t, i) == i \in {0, Len(t)} \/ (i < Len(t) /\ t[i + 1] # "wide2")

ZeroX == <<"0", "x">>
strip_0x(t) == IF IsPrefix(ZeroX, t) THEN SubSeq(t, 3, Len(t)) ELSE t

Init == text = << >>
Type(c) ==
  /\ Len(strip_0x(text)) + Len(Utf8(c)) <= MaxLen
  /\ text' = text \o Utf8(c)
Next == \E c \in Alphabet : Type(c)
Spec == Init /\ [][Next]_text

----------------------------------------------------------------------------
(* The type invariant, and why a text can be cut before a byte that does   *)
(* not follow half a character: the second byte of "wide" is found after   *)
(* the first only.                                                         *)

Byte == (Alphabet \ {"wide"}) \cup {"wide1", "wide2"}
WellEncoded(t) ==
  /\ t \in Seq(Byte)
  /\ \A i \in DOMAIN t : t[i] = "wide2" => i > 1 /\ t[i - 1] = "wide1"
TextInv == WellEncoded(text)
============================================================================
