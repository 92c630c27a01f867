------------------------------ MODULE FixStream ------------------------------
(***************************************************************************)
(* The FIX side of an order's way: the stream framer over bytes that come  *)
(* in any pieces, one of them corrupted (fix/fix_decoder.py), the codec it *)
(* hands a frame to (fix_message.py), the order encoder with its cached    *)
(* date and scaled prices (fix_order_encoder.py), and the execution report *)
(* view with its parsers (fix_exec_report_view.py, fix_parse.py).          *)
(*                                                                         *)
(* A byte is a number.  "8=FIX.4.4", "9=" and "10=" are a byte each, a     *)
(* body field is one byte before its SOH, the checksum is a digit: the     *)
(* code's 7 bytes of trailer are 3 here.                                   *)
(***************************************************************************)
EXTENDS Integers, Sequences, FiniteSetsExt, SequencesExt

CONSTANTS
  Bodies,        (* the field bytes of a message                           *)
  MaxSent,       (* bound                                                  *)
  Junk,          (* what a byte may be corrupted into                      *)
  MinFrame,      (* 20 in the code; no message is shorter                  *)
  Cap,           (* 2^20 in the code                                       *)
  Modulus,       (* of the checksum, 256 in the code                       *)
  Day, Hour,     (* units of time in a day, and in an hour                 *)
  SendTimes,     (* of the orders                                          *)
  Prices,        (* [mantissa, decimals]                                   *)
  Reports,       (* sequences of [tag, value] fields                       *)
  MaxOrders, MaxReports      (* bounds                                     *)

VARIABLES
  sent, wire, buffer, heard, corrupted,    (* the stream                   *)
  cachedDay, orders,                       (* the encoder                  *)
  view, wrapped                            (* the view, and what it reads  *)

stream == <<sent, wire, buffer, heard, corrupted>>
encoder == <<cachedDay, orders>>
reader == <<view, wrapped>>

SOH == 1
BeginString == 8
BodyLength == 9
CheckSum == 7
Zero == 10
Dot == 20
Minus == 21
IsDigit(b) == b >= Zero /\ b <= Zero + 9

(* The bytes of a number as its digits, most significant first.            *)
Digits[n \in Nat] == IF n < 10 THEN <<Zero + n>> ELSE Append(Digits[n \div 10], Zero + (n % 10))
Number(bytes) == FoldLeft(LAMBDA n, b : n * 10 + (b - Zero), 0, bytes)

-----------------------------------------------------------------------------
(* FixMessageBuilder.encode, and FixOrderEncoder: the same frame.          *)
SumOf(bytes) == FoldLeft(LAMBDA s, b : s + b, 0, bytes) % Modulus
Fields(body) == FlattenSeq([i \in DOMAIN body |-> <<body[i], SOH>>])
Headed(fields) == <<BeginString, SOH, BodyLength>> \o Digits[Len(fields)] \o <<SOH>>
Signed(payload) == payload \o <<CheckSum, Zero + SumOf(payload), SOH>>
Frame(body) == Signed(Headed(Fields(body)) \o Fields(body))

(* FixMessage.parse.                                                       *)
Indices(bytes, b) == {i \in DOMAIN bytes : bytes[i] = b}
LastSum(bytes) == Max({i \in Indices(bytes, CheckSum) : i > 1 /\ bytes[i - 1] = SOH} \cup {0})
IsSigned(bytes, at) ==
  /\ at > 0 /\ bytes[Len(bytes)] = SOH
  /\ SubSeq(bytes, at + 1, Len(bytes) - 1) = <<Zero + SumOf(SubSeq(bytes, 1, at - 1))>>
IsWellFormed(bytes) == \A i \in Indices(bytes, SOH) : i > 1 /\ bytes[i - 1] # SOH
LengthAt(bytes) == Min(Indices(bytes, BodyLength))
NextSoh(bytes, from) == Min({i \in Indices(bytes, SOH) : i >= from} \cup {Len(bytes) + 1})
IsMeasured(bytes, at) ==
  /\ Indices(bytes, BodyLength) # {}
  /\ Number(SubSeq(bytes, LengthAt(bytes) + 1, NextSoh(bytes, LengthAt(bytes)) - 1))
       = at - 1 - NextSoh(bytes, LengthAt(bytes))
IsMessage(bytes) ==
  /\ SubSeq(bytes, 1, 2) = <<BeginString, SOH>>
  /\ IsSigned(bytes, LastSum(bytes)) /\ IsWellFormed(bytes) /\ IsMeasured(bytes, LastSum(bytes))

(* FixDecoder.poll: what it makes of a buffer, and how much of it it takes.*)
Outcome(kind, taken) == [kind |-> kind, taken |-> taken]
Wait == Outcome("none", 0)
Corrupt == Outcome("corrupt", 0)
FramedShort(bytes, lenEnd, length) ==
  IF Len(bytes) < lenEnd + length + 2 THEN Wait
  ELSE Outcome(IF IsMessage(SubSeq(bytes, 1, lenEnd + length + 2)) THEN "message" ELSE "rejected",
               lenEnd + length + 2)
Framed(bytes, lenEnd, length) ==
  IF Len(bytes) < lenEnd + length + 3 THEN Wait
  ELSE Outcome(IF IsMessage(SubSeq(bytes, 1, lenEnd + length + 3)) THEN "message" ELSE "rejected",
               lenEnd + length + 3)
Measured(bytes, digits, lenEnd) ==
  IF \/ digits = <<>> \/ \E i \in DOMAIN digits : ~IsDigit(digits[i])
     \/ Number(digits) > Cap THEN Corrupt
  ELSE Framed(bytes, lenEnd, Number(digits))
PollOutcome(bytes) ==
  LET first == NextSoh(bytes, 1)
      lenEnd == NextSoh(bytes, first + 2)
  IN  IF Len(bytes) < MinFrame \/ first > Len(bytes) THEN Wait
      ELSE IF SubSeq(bytes, first + 1, first + 1) # <<BodyLength>> THEN Corrupt
      ELSE IF lenEnd > Len(bytes) THEN Wait
      ELSE Measured(bytes, SubSeq(bytes, first + 2, lenEnd - 1), lenEnd)

Send(body) ==
  /\ Len(sent) < MaxSent
  /\ sent' = Append(sent, Frame(body)) /\ wire' = wire \o Frame(body)
  /\ UNCHANGED <<buffer, heard, corrupted, encoder, reader>>

(* One byte still under way is changed, once.  The length is one digit     *)
(* here; what its bytes become decides where the frame ends.               *)
IsOfLength(i) ==
  \/ wire[i] = BodyLength
  \/ i <= 2 /\ wire[1] # BeginString
  \/ i > 1 /\ IsDigit(wire[i]) /\ wire[i - 1] # CheckSum
  \/ i > 2 /\ wire[i] = SOH /\ wire[i - 2] = BodyLength
Damage(i, b) ==
  /\ corrupted = "no" /\ wire[i] # b
  /\ wire' = [wire EXCEPT ![i] = b]
  /\ corrupted' = IF IsOfLength(i) THEN "length" ELSE "elsewhere"
  /\ UNCHANGED <<sent, buffer, heard, encoder, reader>>

Feed(n) ==
  /\ buffer' = buffer \o SubSeq(wire, 1, n) /\ wire' = SubSeq(wire, n + 1, Len(wire))
  /\ UNCHANGED <<sent, heard, corrupted, encoder, reader>>

SaidCorrupt == heard # <<>> /\ heard[Len(heard)].kind = "corrupt"
(* A frame is taken before it is parsed; a corrupt head stays where it is. *)
(* The log keeps the first of a row of corrupt answers.                    *)
Poll ==
  LET got == PollOutcome(buffer) IN
  /\ got.kind # "none"
  /\ ~(got.kind = "corrupt" /\ SaidCorrupt)
  /\ heard' = Append(heard, [kind |-> got.kind, bytes |-> SubSeq(buffer, 1, got.taken)])
  /\ buffer' = SubSeq(buffer, got.taken + 1, Len(buffer))
  /\ UNCHANGED <<sent, wire, corrupted, encoder, reader>>

Streaming ==
  \/ \E body \in Bodies : Send(body)
  \/ \E i \in DOMAIN wire, b \in Junk : Damage(i, b)
  \/ \E n \in 1..Len(wire) : Feed(n)
  \/ Poll

-----------------------------------------------------------------------------
(* FixOrderEncoder: the price as text, the stamp with its cached date.     *)
Padded(n, width) == [i \in 1..(width - Len(Digits[n])) |-> Zero] \o Digits[n]
Power[n \in Nat] == IF n = 0 THEN 1 ELSE 10 * Power[n - 1]
PriceText(p) ==
  IF p.decimals = 0 THEN Digits[p.mantissa]
  ELSE Digits[p.mantissa \div Power[p.decimals]] \o <<Dot>>
       \o Padded(p.mantissa % Power[p.decimals], p.decimals)
Stamp(t, day) == [day |-> day, hour |-> (t - day * Day) \div Hour, rest |-> (t - day * Day) % Hour]
EncodeForward(t, p) ==
  /\ Len(orders) < MaxOrders
  /\ cachedDay' = IF t \div Day > cachedDay THEN t \div Day ELSE cachedDay
  /\ orders' = Append(orders, [at |-> t, price |-> p, stamp |-> Stamp(t, cachedDay'), text |-> PriceText(p)])
  /\ UNCHANGED <<stream, reader>>
Encode(t, p) ==
  /\ Len(orders) < MaxOrders
  /\ cachedDay' = t \div Day
  /\ orders' = Append(orders, [at |-> t, price |-> p, stamp |-> Stamp(t, cachedDay'), text |-> PriceText(p)])
  /\ UNCHANGED <<stream, reader>>

-----------------------------------------------------------------------------
(* fix_parse.                                                              *)
NoNumber == 0 - 1
DotIn(v) == Min(Indices(v, Dot) \cup {Len(v) + 1})
MinusIn(v) == Min(Indices(v, Minus) \cup {Len(v) + 1})
LongRaises(v) ==
  MinusIn(v) < DotIn(v) \/ \E i \in (DotIn(v) + 1)..Len(v) : v[i] # Zero
ParseLong(v) == Number(SubSeq(v, 1, DotIn(v) - 1))
ParseLongOrElse(v) ==
  IF v = <<>> \/ \E i \in DOMAIN v : ~IsDigit(v[i]) THEN NoNumber ELSE Number(v)
IsNegative(v) == v # <<>> /\ v[1] = Minus
PriceMantissa(v) ==
  IF IsNegative(v) THEN -Number(SelectSeq(Tail(v), LAMBDA b : b # Dot))
  ELSE Number(SelectSeq(v, LAMBDA b : b # Dot))
PriceDecimals(v) == IF DotIn(v) > Len(v) THEN 0 ELSE Len(v) - DotIn(v)

(* FixExecReportView.wrap: fields in order, until one that raises; another *)
(* type of message ends it.                                                *)
Empty == [mine |-> FALSE, raised |-> FALSE, id |-> NoNumber, qty |-> 0, mantissa |-> 0, decimals |-> 0]
ReadField(w, f) ==
  CASE w.raised -> w
    [] f.tag = "id" -> [w EXCEPT !.id = ParseLongOrElse(f.value)]
    [] f.tag = "qty" -> IF LongRaises(f.value) THEN [w EXCEPT !.raised = TRUE]
                        ELSE [w EXCEPT !.qty = ParseLong(f.value)]
    [] f.tag = "px" -> [w EXCEPT !.mantissa = PriceMantissa(f.value),
                                 !.decimals = PriceDecimals(f.value)]
    [] OTHER -> w
ReadFrom(start, report) ==
  IF report.type = "8" THEN FoldLeft(ReadField, [start EXCEPT !.mine = TRUE], report.fields)
  ELSE [start EXCEPT !.mine = FALSE]
WrapOver(report) ==
  /\ Len(wrapped) < MaxReports
  /\ wrapped' = Append(wrapped, report) /\ view' = ReadFrom([view EXCEPT !.raised = FALSE], report)
  /\ UNCHANGED <<stream, encoder>>
Wrap(report) ==
  /\ Len(wrapped) < MaxReports
  /\ wrapped' = Append(wrapped, report) /\ view' = ReadFrom(Empty, report)
  /\ UNCHANGED <<stream, encoder>>

Encoding == \E t \in SendTimes, p \in Prices : Encode(t, p)
Reading == \E r \in Reports : Wrap(r)

-----------------------------------------------------------------------------
Init ==
  /\ sent = <<>> /\ wire = <<>> /\ buffer = <<>> /\ heard = <<>> /\ corrupted = "no"
  /\ cachedDay = NoNumber /\ orders = <<>>
  /\ view = Empty /\ wrapped = <<>>
Next == Streaming \/ Encoding \/ Reading
Spec == Init /\ [][Next]_<<stream, encoder, reader>>

-----------------------------------------------------------------------------
Messages == SelectSeq(heard, LAMBDA h : h.kind = "message")
Delivered == [i \in DOMAIN Messages |-> Messages[i].bytes]
Drained == wire = <<>> /\ PollOutcome(buffer) = Wait
Without(seq, i) == SubSeq(seq, 1, i - 1) \o SubSeq(seq, i + 1, Len(seq))

(* fix_decoder.py:3-6, 45-53: however the bytes are cut the messages are   *)
(* those sent, at the latest when all the bytes are in; a corrupted byte   *)
(* outside the length loses its own message and no other; after a corrupt  *)
(* head nothing is delivered ever again, so the session can only end.      *)
FramesAreWhole ==
  /\ corrupted = "no" =>
       /\ IsPrefix(Delivered, sent) /\ Len(Messages) = Len(heard)
       /\ Drained => Delivered = sent
  /\ corrupted = "elsewhere" /\ Drained =>
       Delivered = sent \/ \E k \in DOMAIN sent : Delivered = Without(sent, k)
  /\ \A i \in DOMAIN heard : heard[i].kind = "corrupt" =>
       i = Len(heard) /\ PollOutcome(buffer) = Corrupt

(* fix_order_encoder.py:11-15: the price text reads back as the mantissa   *)
(* and decimals that were passed, the stamp is the date and time of the    *)
(* order, in whatever order the times come.                                *)
OrdersReadBack ==
  \A i \in DOMAIN orders :
    LET o == orders[i] IN
    /\ PriceMantissa(o.text) = o.price.mantissa /\ PriceDecimals(o.text) = o.price.decimals
    /\ o.stamp.day * Day + o.stamp.hour * Hour + o.stamp.rest = o.at
    /\ o.stamp.hour \in 0..(Day \div Hour - 1)

(* fix_exec_report_view.py:57-72: a report is read as it is alone, nothing *)
(* of the one the view showed before.                                      *)
FieldOf(report, tag) == SelectSeq(report.fields, LAMBDA f : f.tag = tag)
LastOr(report, tag, read(_), default) ==
  LET fs == FieldOf(report, tag) IN IF fs = <<>> THEN default ELSE read(fs[Len(fs)].value)
ViewIsOfTheReport ==
  wrapped # <<>> /\ view.mine /\ ~view.raised =>
    LET r == wrapped[Len(wrapped)] IN
    /\ view.id = LastOr(r, "id", ParseLongOrElse, NoNumber)
    /\ view.qty = LastOr(r, "qty", ParseLong, 0)
    /\ view.mantissa = LastOr(r, "px", PriceMantissa, 0)
    /\ view.decimals = LastOr(r, "px", PriceDecimals, 0)
    /\ \A i \in DOMAIN FieldOf(r, "qty") : MinusIn(FieldOf(r, "qty")[i].value) > Len(FieldOf(r, "qty")[i].value)
=============================================================================
