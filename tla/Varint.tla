------------------------------- MODULE Varint -------------------------------
(***************************************************************************)
(* The varint loop of src/src/tron_proto.rs, and the reader of its test    *)
(* harness.  Every number of raw_data goes through write_varint: tags,     *)
(* lengths, times, amounts, the fee limit.  The calls append to one        *)
(* buffer, so a byte too many or too few in one of them shifts all that    *)
(* follows; the reader must find the end of each by the bytes alone.       *)
(*                                                                         *)
(* A step of the machine is one iteration of a loop.  The buffer is        *)
(* written first and read afterwards, as in varint_roundtrip.              *)
(***************************************************************************)
EXTENDS Integers, Sequences

CONSTANTS
  Base,       \* 2^7: a byte holds one digit, and Base more if others follow
  Top,        \* 2^64, one more than the largest u64
  Inputs,     \* the values that callers write
  MaxCalls,   \* bound: calls of write_varint on one buffer
  MaxBytes    \* bound: bytes of the buffer, out of reach of the calls

ASSUME VarintAssumption ==
  /\ Base \in Nat /\ Base > 1
  /\ Top \in Nat /\ Top > 1
  /\ Inputs \subseteq 0..(Top - 1)
  /\ MaxCalls \in Nat /\ MaxBytes \in Nat

VARIABLES
  pc,         \* "idle" between calls, "loop" in write_varint, "read" in the
              \* reader, "done" after it and "failed" when it returned None
  value,      \* the register of write_varint
  out,        \* the buffer
  next,       \* the reader's position in the buffer
  acc,        \* the reader's value
  scale,      \* 2^shift of the reader
  sent,       \* history: the values written
  got,        \* the values read
  pushed      \* history: for each byte, the call that pushed it and the
              \* register before the push

vars == <<pc, value, out, next, acc, scale, sent, got, pushed>>
writer == <<value, out, sent, pushed>>
reader == <<next, acc, scale, got>>

Init ==
  /\ pc = "idle" /\ value = 0 /\ out = << >>
  /\ next = 1 /\ acc = 0 /\ scale = 1
  /\ sent = << >> /\ got = << >> /\ pushed = << >>

----------------------------------------------------------------------------
(* write_varint                                                            *)

MutMoreStrict(v) == v > Base
MutMoreEager(v) == v >= Base - 1
More(v) == v >= Base                       \* while value >= 0x80
MutDigitSigned(v) == v % (Base \div 2)
Digit(v) == v % Base                       \* value & 0x7f
MutRestUnshifted(v) == v
Rest(v) == v \div Base                     \* value >>= 7

Push(byte) ==
  /\ Len(out) < MaxBytes
  /\ out' = Append(out, byte)
  /\ pushed' = Append(pushed, [call |-> Len(sent), left |-> value])

Call(v) ==
  /\ pc = "idle"
  /\ Len(sent) < MaxCalls
  /\ pc' = "loop"
  /\ value' = v
  /\ sent' = Append(sent, v)
  /\ UNCHANGED <<out, pushed, reader>>

PushDigit ==
  /\ pc = "loop"
  /\ More(value)
  /\ Push(Digit(value) + Base)             \* | 0x80
  /\ value' = Rest(value)
  /\ UNCHANGED <<pc, sent, reader>>

PushLast ==
  /\ pc = "loop"
  /\ ~More(value)
  /\ Push(value)
  /\ pc' = "idle"
  /\ UNCHANGED <<value, sent, reader>>

----------------------------------------------------------------------------
(* decode_varint, called again and again on what is left of the buffer     *)

StartReading ==
  /\ pc = "idle"
  /\ sent # << >>
  /\ pc' = "read"
  /\ UNCHANGED <<writer, reader>>

(* chunk.checked_shl(shift): bits beyond the width fall off; value |= is   *)
(* an addition, since acc < scale                                          *)
Chunk(byte) == ((byte % Base) * scale) % Top

NoShift ==                                 \* filter(|_| shift < 64) was None
  /\ pc' = "failed"
  /\ UNCHANGED reader

ReadDigit ==
  /\ pc = "read"
  /\ next <= Len(out)
  /\ out[next] >= Base
  /\ IF scale >= Top THEN NoShift
     ELSE /\ acc' = acc + Chunk(out[next])
          /\ scale' = scale * Base
          /\ next' = next + 1
          /\ UNCHANGED <<pc, got>>
  /\ UNCHANGED writer

ReadLast ==
  /\ pc = "read"
  /\ next <= Len(out)
  /\ out[next] < Base
  /\ IF scale >= Top THEN NoShift
     ELSE /\ got' = Append(got, acc + Chunk(out[next]))
          /\ acc' = 0 /\ scale' = 1
          /\ next' = next + 1
          /\ UNCHANGED pc
  /\ UNCHANGED writer

EndOfBuffer ==   \* None in the middle of a value
  /\ pc = "read"
  /\ next > Len(out)
  /\ pc' = IF scale = 1 THEN "done" ELSE "failed"
  /\ UNCHANGED <<writer, reader>>

Next ==
  \/ \E v \in Inputs : Call(v)
  \/ PushDigit \/ PushLast
  \/ StartReading \/ ReadDigit \/ ReadLast \/ EndOfBuffer

Fairness ==
  /\ WF_vars(PushDigit) /\ WF_vars(PushLast)
  /\ WF_vars(ReadDigit) /\ WF_vars(ReadLast) /\ WF_vars(EndOfBuffer)

Spec == Init /\ [][Next]_vars
FairSpec == Spec /\ Fairness

----------------------------------------------------------------------------
(* Properties.                                                             *)

Byte == 0..(2 * Base - 1)
U64 == 0..(Top - 1)
TypeOK ==
  /\ pc \in {"idle", "loop", "read", "done", "failed"}
  /\ value \in U64
  /\ out \in Seq(Byte)
  /\ next \in 1..(Len(out) + 1)
  /\ acc \in Nat /\ scale \in Nat \ {0}
  /\ sent \in Seq(U64) /\ got \in Seq(U64)
  /\ pushed \in Seq([call : Nat, left : U64])

(* The reader gives back the values that were written, in their order, and *)
(* all of them when it has come to the end: every value finds its own end  *)
(* in the buffer, and the reader never returns None, at u64::MAX neither   *)
(* (tron_proto.rs:13-23, the test varint_roundtrip for one value).         *)
ReadsWhatWasSent ==
  /\ pc # "failed"
  /\ Len(got) <= Len(sent)
  /\ \A k \in 1..Len(got) : got[k] = sent[k]
  /\ pc = "done" => Len(got) = Len(sent)

(* No value is written with more bytes than it needs: a last byte of 0     *)
(* stands alone.  With ReadsWhatWasSent, a value has one encoding, which   *)
(* is what a hash of the bytes needs (tron_proto.rs:14-20).                *)
Minimal == \A i \in 2..Len(out) : out[i] = 0 => out[i - 1] < Base

(* Both loops end: each round takes a digit off the register or the        *)
(* buffer (tron_proto.rs:14, 158).                                         *)
LoopsEnd ==
  /\ (pc = "loop") ~> (pc = "idle")
  /\ (pc = "read") ~> (pc = "done")

----------------------------------------------------------------------------
(* The inductive invariant.  "pushed" remembers the register at each push, *)
(* so that what the bytes from "next" on stand for is known without a sum: *)
(* it is pushed[next].left.                                                *)

Ends(i) == pushed[i].left < Base

(* byte i is the last digit of its value or announces another one *)
BytesAreDigits ==
  /\ Len(out) = Len(pushed)
  /\ \A i \in 1..Len(out) :
       out[i] = IF Ends(i) THEN pushed[i].left
                ELSE (pushed[i].left % Base) + Base

(* the register goes from a value sent to its last digit, then to the next *)
Chained ==
  /\ Len(pushed) > 0 => pushed[1] = [call |-> 1, left |-> sent[1]]
  /\ \A i \in 1..Len(pushed) :
       /\ pushed[i].call \in 1..Len(sent)
       /\ pushed[i].left = 0 => i = 1 \/ Ends(i - 1)
  /\ \A i \in 1..(Len(pushed) - 1) :
       pushed[i + 1] =
         IF Ends(i) THEN [call |-> pushed[i].call + 1, left |-> sent[pushed[i].call + 1]]
         ELSE [call |-> pushed[i].call, left |-> pushed[i].left \div Base]

(* the register holds what the next push must write *)
WriterAt ==
  IF pc = "loop"
  THEN /\ Len(sent) > 0
       /\ Len(pushed) = 0 => Len(sent) = 1 /\ value = sent[1]
       /\ Len(pushed) > 0 =>
            LET p == pushed[Len(pushed)]
            IN IF Ends(Len(pushed))
               THEN p.call = Len(sent) - 1 /\ value = sent[Len(sent)]
               ELSE p.call = Len(sent) /\ value = p.left \div Base /\ value > 0
  ELSE IF Len(pushed) = 0 THEN Len(sent) = 0
  ELSE Ends(Len(pushed)) /\ pushed[Len(pushed)].call = Len(sent)

(* what is read and what is left to read make up the value *)
ReaderAt ==
  /\ pc \in {"idle", "loop"} => next = 1
  /\ acc < scale
  /\ next = 1 => Len(got) = 0 /\ acc = 0 /\ scale = 1
  /\ next > Len(out) => (Len(out) > 0 => Len(got) = Len(sent)) /\ acc = 0 /\ scale = 1
  /\ next <= Len(out) =>
       /\ Len(got) = pushed[next].call - 1
       /\ sent[Len(got) + 1] = acc + scale * pushed[next].left
       /\ scale > 1 => pushed[next].left > 0

VarintInv ==
  /\ TypeOK
  /\ BytesAreDigits
  /\ Chained
  /\ WriterAt
  /\ ReaderAt
  /\ ReadsWhatWasSent
============================================================================
