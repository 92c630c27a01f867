----------------------------- MODULE BinaryCodec -----------------------------
(***************************************************************************)
(* The fixed layouts of the binary messages: the ITCH encoders and view    *)
(* (marketdata/itch_codec.py, big-endian) and the SBE flyweights for       *)
(* trades, orders and quotes (sbe/, little-endian), over one buffer that   *)
(* is written back to back and used again.                                 *)
(*                                                                         *)
(* A byte has Base values.  A float is the number its eight bytes make.    *)
(***************************************************************************)
EXTENDS Integers, Sequences, FiniteSets, SequencesExt

CONSTANTS
  Base,          (* 256 in the code                                        *)
  Size,          (* of the buffer                                          *)
  Values,        (* a value of each field, by its name: sets to choose from*)
  MaxLog         (* bound                                                  *)

VARIABLES
  buffer,        (* offset -> byte                                         *)
  log            (* the messages in it: [type, off, values]                *)

vars == <<buffer, log>>

Power[n \in Nat] == IF n = 0 THEN 1 ELSE Base * Power[n - 1]
F(name, at, width) == [name |-> name, at |-> at, width |-> width]

(* Type codes: the letters of ITCH, the numbers of SBE.                    *)
Itch == {"A", "E", "X", "D", "U", "P"}
Sbe == {"trade", "order", "quote"}
Code == [A |-> 1, E |-> 2, X |-> 3, D |-> 4, U |-> 5, P |-> 6, trade |-> 1, order |-> 2, quote |-> 3]

Length(type) ==
  CASE type = "A" -> 36 [] type = "E" -> 31 [] type = "X" -> 23 [] type = "D" -> 19
    [] type = "U" -> 35 [] type = "P" -> 44
    [] type = "trade" -> 32 [] type = "order" -> 44 [] type = "quote" -> 48

(* What the encoders write.                                                *)
Header == {F("type", 0, 1), F("locate", 1, 2), F("tracking", 3, 2), F("stamp", 5, 6)}
Placed == {F("ref", 11, 8), F("side", 19, 1), F("shares", 20, 4), F("stock", 24, 8), F("price", 32, 4)}
Written(type) ==
  CASE type = "A" -> Header \cup Placed
    [] type = "P" -> Header \cup Placed \cup {F("match", 36, 8)}
    [] type = "E" -> Header \cup {F("ref", 11, 8), F("delta", 19, 4), F("match", 23, 8)}
    [] type = "X" -> Header \cup {F("ref", 11, 8), F("delta", 19, 4)}
    [] type = "D" -> Header \cup {F("ref", 11, 8)}
    [] type = "U" -> Header \cup {F("ref", 11, 8), F("newRef", 19, 8), F("shares", 27, 4), F("price", 31, 4)}
    [] type = "trade" -> {F("type", 0, 4), F("symbol", 4, 4), F("px", 8, 8), F("size", 16, 8), F("nanos", 24, 8)}
    [] type = "order" -> {F("type", 0, 4), F("id", 4, 8), F("symbol", 12, 4), F("side", 16, 1),
                          F("qty", 20, 8), F("px", 28, 8), F("nanos", 36, 8)}
    [] type = "quote" -> {F("type", 0, 4), F("symbol", 4, 4), F("bid", 8, 8), F("bidSize", 16, 8),
                          F("ask", 24, 8), F("askSize", 32, 8), F("nanos", 40, 8)}

(* What the getters of ItchView read, of the types that carry the field.   *)
Carry(name) ==
  CASE name \in {"ref", "locate", "stamp"} -> Itch
    [] name \in {"side", "stock"} -> {"A", "P"}
    [] name \in {"shares", "price"} -> {"A", "P", "U"}
    [] name = "delta" -> {"E", "X"}
    [] name = "match" -> {"E", "P"}
    [] name = "newRef" -> {"U"}
Getters == {"ref", "locate", "stamp", "side", "stock", "shares", "price", "delta", "match", "newRef"}
SharesAtOnce(type) == 20
SharesAt(type) == IF type = "U" THEN 27 ELSE 20
PriceAt(type) == IF type = "U" THEN 31 ELSE 32
MatchAt(type) == IF type = "P" THEN 36 ELSE 23
Getter(type, name) ==
  CASE name = "locate" -> F(name, 1, 2) [] name = "stamp" -> F(name, 5, 6)
    [] name = "ref" -> F(name, 11, 8)   [] name = "newRef" -> F(name, 19, 8)
    [] name = "side" -> F(name, 19, 1)  [] name = "shares" -> F(name, SharesAt(type), 4)
    [] name = "delta" -> F(name, 19, 4) [] name = "stock" -> F(name, 24, 8)
    [] name = "price" -> F(name, PriceAt(type), 4)
    [] name = "match" -> F(name, MatchAt(type), 8)
(* The flyweights read where they write.                                   *)
Read(type) ==
  IF type \in Itch THEN {Getter(type, name) : name \in {n \in Getters : type \in Carry(n)}}
  ELSE {f \in Written(type) : f.name # "type"}

(* The byte of value v at place k of w.                                    *)
Place(type, k, w) == IF type \in Itch THEN w - k ELSE k - 1
ByteOf(type, v, k, w) == (v \div Power[Place(type, k, w)]) % Base
Raw(type, f, off) ==
  FoldLeft(LAMBDA sum, k : sum + buffer[off + f.at + k - 1] * Power[Place(type, k, f.width)],
           0, [k \in 1..f.width |-> k])
Signed == {"price", "symbol", "id", "qty", "nanos"}
Unsigned(name, raw, width) == raw
Wrapped(name, raw, width) ==
  IF name \in Signed /\ 2 * raw >= Power[width] THEN raw - Power[width] ELSE raw
Get(type, f, off) == Wrapped(f.name, Raw(type, f, off), f.width)

Valued(type, values, f) ==
  IF f.name = "type" THEN Code[type] ELSE IF f.name = "tracking" THEN 0 ELSE values[f.name] % Power[f.width]
End == IF log = <<>> THEN 0 ELSE log[Len(log)].off + Length(log[Len(log)].type)
Bytes(type, values) ==
  [n \in 0..(Length(type) - 1) |->
     LET fs == {f \in Written(type) : n \in f.at..(f.at + f.width - 1)}
         f == CHOOSE g \in fs : TRUE
     IN  IF fs = {} THEN buffer[End + n]
         ELSE ByteOf(type, Valued(type, values, f), n - f.at + 1, f.width)]
Laid(bytes, off) ==
  [n \in DOMAIN buffer |->
     IF n - off \in DOMAIN bytes THEN bytes[n - off] ELSE buffer[n]]
Encode(type, values) ==
  /\ Len(log) < MaxLog /\ End + Length(type) <= Size
  /\ \A m \in Range(log) : m.type \in Itch <=> type \in Itch
  /\ buffer' = Laid(Bytes(type, values), End)
  /\ log' = Append(log, [type |-> type, off |-> End, values |-> values])

(* A buffer used before holds anything.                                    *)
Init == (\E b \in {0, Base - 1} : buffer = [n \in 0..(Size - 1) |-> b]) /\ log = <<>>
Next == \E type \in Itch \cup Sbe, values \in Values : Encode(type, values)
Spec == Init /\ [][Next]_vars

(* itch_codec.py:7-20, sbe/: every getter of every message reads what the  *)
(* encoder of that message was given, its sign included, whatever lay in   *)
(* the buffer before and lies behind; and a reader that goes by the type   *)
(* and the length finds the messages.                                      *)
Fits(type) ==
  /\ \A f \in Written(type) \cup Read(type) : f.at + f.width <= Length(type)
  /\ \A f, g \in Written(type) : f # g => f.at + f.width <= g.at \/ g.at + g.width <= f.at
TypeAt(off, type) == Raw(type, CHOOSE f \in Written(type) : f.name = "type", off)
ReadsAsWritten ==
  \A i \in DOMAIN log :
    LET m == log[i] IN
    /\ Fits(m.type)
    /\ TypeAt(m.off, m.type) = Code[m.type]
    /\ i > 1 => m.off = log[i - 1].off + Length(log[i - 1].type)
    /\ \A f \in Read(m.type) :
         Get(m.type, f, m.off) = m.values[f.name]
=============================================================================
