-------------------------------- MODULE DataPrep --------------------------------
(***************************************************************************)
(* What data/ makes of files before anything is run on them: bar files and *)
(* their alignment (csv_bar_loader.py, series_aligner.py), back-adjustment *)
(* for splits and dividends (corporate_actions.py), the point-in-time      *)
(* universe and its file (point_in_time_universe.py,                       *)
(* universe_csv_loader.py), and the tick file, cut short by a crash        *)
(* (tick_file_writer.py, tick_file_reader.py).                             *)
(*                                                                         *)
(* A row is its fields; of a bar the close and the volume are kept.  Text, *)
(* quoting and number formats are left out.  A stamp is a number as it     *)
(* stands in the file, or an ISO date, which is in milliseconds.           *)
(***************************************************************************)
EXTENDS Fractions, Integers, Sequences, FiniteSets, FiniteSetsExt, SequencesExt

CONSTANTS
  Names,         (* the bar files                                          *)
  Rows,          (* [iso, stamp, close, volume]                            *)
  MaxRows,       (* bound, of all files together                           *)
  Actions,       (* [ex, type: "split" | "dividend", value]                *)
  MaxActions,    (* bound                                                  *)
  Entries,       (* of the universe file: [symbol, event, iso, date, end]; *)
                 (* an end of -1 is an empty field                         *)
  MaxEntries,    (* bound                                                  *)
  Ids, MaxRecords,            (* of the tick file, and a bound             *)
  SecondsFrom, SecondsTo, Thousand,   (* 10^8, 10^11 and 1000 in the code  *)
  Clock          (* the milliseconds asked about                           *)

VARIABLES
  file, acts, entries,       (* the rows of the files so far               *)
  tape, defined, disk        (* written; its symbols; what a crash left    *)

prepared == <<file, acts, entries>>
capture == <<tape, defined, disk>>

Refused == [refused |-> TRUE]

-----------------------------------------------------------------------------
(* csv_bar_loader.parse.                                                   *)

(* The stamps of a file are seconds if all are numbers and plausible ones. *)
IsEpochSecondsFile(numeric, stamps) ==
  numeric /\ \A s \in stamps : s >= SecondsFrom /\ s < SecondsTo
Scale(numeric, stamps) == IF IsEpochSecondsFile(numeric, stamps) THEN Thousand ELSE 1
ScaleOf(rows) ==
  Scale(\A i \in DOMAIN rows : ~rows[i].iso, {rows[i].stamp : i \in DOMAIN rows})
BarsOf(rows, scale) ==
  [i \in DOMAIN rows |->
     [ts |-> rows[i].stamp * scale, close |-> rows[i].close, volume |-> rows[i].volume]]
(* By time, those of the same stamp in file order.                         *)
InTimeOrder(bars) ==
  LET order == SetToSortSeq(DOMAIN bars, LAMBDA i, j :
                 bars[i].ts < bars[j].ts \/ (bars[i].ts = bars[j].ts /\ i < j))
  IN  [k \in DOMAIN bars |-> bars[order[k]]]
Loaded(rows) == InTimeOrder(BarsOf(rows, ScaleOf(rows)))

(* series_aligner: of one stamp, the last bar is kept by the intersection, *)
(* the first by the union.                                                 *)
Stamps(bars) == {bars[i].ts : i \in DOMAIN bars}
InOrder(stamps) == SetToSortSeq(stamps, <)
LastAt(bars, t) == bars[Max({i \in DOMAIN bars : bars[i].ts = t})]
FirstAt(bars, t) == bars[Min({i \in DOMAIN bars : bars[i].ts = t})]
Common(series) == {t \in UNION {Stamps(series[n]) : n \in DOMAIN series} :
                     \A n \in DOMAIN series : t \in Stamps(series[n])}
Picked(bars, timeline) == [k \in DOMAIN timeline |-> LastAt(bars, timeline[k])]
Intersect(series) ==
  IF Common(series) = {} THEN Refused
  ELSE [n \in DOMAIN series |-> Picked(series[n], InOrder(Common(series)))]

(* From the first stamp of the series that starts last; a gap is a flat    *)
(* bar of no volume at the last close before it.                           *)
Timeline(series) ==
  {t \in UNION {Stamps(series[n]) : n \in DOMAIN series} :
     \A n \in DOMAIN series : series[n][1].ts <= t}
LastBefore(bars, t) == bars[Max({i \in DOMAIN bars : bars[i].ts < t})]
FillPeeking(bars, t) ==
  [ts |-> t, close |-> bars[Min({i \in DOMAIN bars : bars[i].ts > t \/ i = Len(bars)})].close,
   volume |-> 0]
Fill(bars, t) == [ts |-> t, close |-> LastBefore(bars, t).close, volume |-> 0]
Filled(bars, timeline) ==
  [k \in DOMAIN timeline |->
     IF timeline[k] \in Stamps(bars) THEN FirstAt(bars, timeline[k]) ELSE Fill(bars, timeline[k])]
UnionForwardFill(series) ==
  IF Timeline(series) = {} THEN Refused
  ELSE [n \in DOMAIN series |-> Filled(series[n], InOrder(Timeline(series)))]

-----------------------------------------------------------------------------
(* corporate_actions.adjust: each action scales every bar before it.       *)

FirstAtOrAfter(bars, t) == Min({i \in DOMAIN bars : bars[i].ts >= t} \cup {Len(bars) + 1})
Factor(a, prevClose) ==
  IF a.type = "split" THEN Frac(1, a.value) ELSE Frac(prevClose - a.value, prevClose)
VolumeFactor(a) == IF a.type = "split" THEN Whole(a.value) ELSE Whole(1)
Eats(a, bars, ex) == ex > 1 /\ a.type = "dividend" /\ a.value >= bars[ex - 1].close
Unadjusted(bars) ==
  [i \in DOMAIN bars |-> [ts |-> bars[i].ts, close |-> Whole(bars[i].close),
                          volume |-> Whole(bars[i].volume)]]
Scaled(b, a, factor) ==
  [b EXCEPT !.close = Product(@, factor), !.volume = Product(@, VolumeFactor(a))]
ScaledThrough(adjusted, a, ex, factor) ==
  [i \in DOMAIN adjusted |-> IF i > ex THEN adjusted[i] ELSE Scaled(adjusted[i], a, factor)]
ScaledBefore(adjusted, a, ex, factor) ==
  [i \in DOMAIN adjusted |-> IF i >= ex THEN adjusted[i] ELSE Scaled(adjusted[i], a, factor)]
Applied(adjusted, bars, a, ex) ==
  IF ex <= 1 THEN adjusted
  ELSE ScaledBefore(adjusted, a, ex, Factor(a, bars[ex - 1].close))
ByExDate(actions) ==
  LET order == SetToSortSeq(DOMAIN actions, LAMBDA i, j :
                 actions[i].ex < actions[j].ex \/ (actions[i].ex = actions[j].ex /\ i < j))
  IN  [k \in DOMAIN actions |-> actions[order[k]]]
(* A dividend that eats the whole price is refused.                        *)
Raises(bars, actions) ==
  \E k \in DOMAIN actions : Eats(actions[k], bars, FirstAtOrAfter(bars, actions[k].ex))
Adjust(bars, actions) ==
  IF Raises(bars, actions) THEN <<>>
  ELSE FoldLeft(LAMBDA adj, a : Applied(adj, bars, a, FirstAtOrAfter(bars, a.ex)),
                Unadjusted(bars), ByExDate(actions))

-----------------------------------------------------------------------------
(* universe_csv_loader.parse: a row that does not fit refuses the file.    *)

EntryStamps(rows) ==
  UNION {{rows[i].date} \cup (IF rows[i].end = -1 THEN {} ELSE {rows[i].end}) : i \in DOMAIN rows}
EntryScale(rows) == Scale(\A i \in DOMAIN rows : ~rows[i].iso, EntryStamps(rows))
IsEvent(row) == row.event \in {"DELIST", "MERGER"}
Fits(rows, i) ==
  /\ rows[i].event = "MEMBER" => rows[i].end = -1 \/ rows[i].end >= rows[i].date
  /\ IsEvent(rows[i]) => \A j \in 1..(i - 1) : ~(IsEvent(rows[j]) /\ rows[j].symbol = rows[i].symbol)
(* An empty field is the last there is, 2^63 - 1 in the code.              *)
Membership(row, scale) ==
  [symbol |-> row.symbol, event |-> row.event, from |-> row.date * scale,
   to |-> IF row.end = -1 THEN Max(Clock) + 1 ELSE row.end * scale]
ParseUniverse(rows) ==
  IF \E i \in DOMAIN rows : ~Fits(rows, i) THEN Refused
  ELSE [known |-> {Membership(rows[i], EntryScale(rows)) : i \in DOMAIN rows}]

(* point_in_time_universe: the dead are never members.                     *)
DeadBy(known, symbol, t) == \E e \in known : IsEvent(e) /\ e.symbol = symbol /\ e.from <= t
IsMember(known, symbol, t) ==
  ~DeadBy(known, symbol, t)
  /\ \E e \in known : e.event = "MEMBER" /\ e.symbol = symbol /\ e.from <= t /\ t <= e.to
MembersAsOf(known, t) == {s \in {e.symbol : e \in known} : IsMember(known, s, t)}

-----------------------------------------------------------------------------
(* The tick file: [kind, id] records after a header.                       *)

(* What is on disk, whole or with a record torn at its end, after which a  *)
(* replay that has delivered the whole ones raises.                        *)
Nothing == [records |-> <<>>, torn |-> FALSE]
Replay(d) == [delivered |-> d.records, raised |-> d.torn]

DefineSymbol(id) ==
  /\ Len(tape) < MaxRecords /\ disk = Nothing
  /\ IF id \in defined THEN UNCHANGED <<tape, defined>>
     ELSE tape' = Append(tape, [kind |-> "symbol", id |-> id]) /\ defined' = defined \cup {id}
  /\ UNCHANGED <<prepared, disk>>

WriteUnchecked(id) ==
  /\ Len(tape) < MaxRecords /\ disk = Nothing
  /\ tape' = Append(tape, [kind |-> "tick", id |-> id])
  /\ UNCHANGED <<prepared, defined, disk>>
(* A tick of a symbol not defined raises.                                  *)
Write(id) ==
  /\ Len(tape) < MaxRecords /\ disk = Nothing
  /\ tape' = IF id \in defined THEN Append(tape, [kind |-> "tick", id |-> id]) ELSE tape
  /\ UNCHANGED <<prepared, defined, disk>>

(* The file is buffered: any part of it may be what the disk has.          *)
Crash ==
  /\ disk = Nothing
  /\ \E n \in 0..Len(tape), torn \in BOOLEAN :
       /\ torn => n < Len(tape)
       /\ disk' = [records |-> SubSeq(tape, 1, n), torn |-> torn]
  /\ UNCHANGED <<prepared, tape, defined>>

(* A new writer on the same path starts over.                              *)
Reopen ==
  /\ tape' = <<>> /\ defined' = {} /\ disk' = Nothing
  /\ UNCHANGED prepared

Capturing == \/ \E id \in Ids : DefineSymbol(id) \/ Write(id)
             \/ Crash \/ Reopen

-----------------------------------------------------------------------------
RowCount == FoldSet(LAMBDA n, sum : sum + Len(file[n]), 0, Names)
AddRow(n, row) ==
  /\ RowCount < MaxRows /\ file' = [file EXCEPT ![n] = Append(@, row)]
  /\ UNCHANGED <<acts, entries, capture>>
AddAction(a) ==
  /\ Len(acts) < MaxActions /\ acts' = Append(acts, a)
  /\ UNCHANGED <<file, entries, capture>>
AddEntry(e) ==
  /\ Len(entries) < MaxEntries /\ entries' = Append(entries, e)
  /\ UNCHANGED <<file, acts, capture>>

AddToFiles == \E n \in Names, row \in Rows : AddRow(n, row)
AddActions == \E a \in Actions : AddAction(a)
AddEntries == \E e \in Entries : AddEntry(e)

Init ==
  /\ file = [n \in Names |-> <<>>] /\ acts = <<>> /\ entries = <<>>
  /\ tape = <<>> /\ defined = {} /\ disk = Nothing

Next == AddToFiles \/ AddActions \/ AddEntries \/ Capturing

Spec == Init /\ [][Next]_<<prepared, capture>>

-----------------------------------------------------------------------------
Until(bars, t) == SelectSeq(bars, LAMBDA b : b.ts <= t)
Series == [n \in Names |-> Loaded(file[n])]
Short(series, t) == [n \in Names |-> Until(series[n], t)]

(* series_aligner.py:5-14: aligned series share one increasing timeline,   *)
(* every value is of a bar there was by then, and bars that come later     *)
(* change nothing before them.                                             *)
OnOneTimeline(aligned) ==
  \A m, n \in Names :
    /\ DOMAIN aligned[m] = DOMAIN aligned[n]
    /\ \A k \in DOMAIN aligned[m] :
         /\ aligned[m][k].ts = aligned[n][k].ts
         /\ k > 1 => aligned[m][k - 1].ts < aligned[m][k].ts
HadByThen(aligned, series) ==
  \A n \in Names : \A k \in DOMAIN aligned[n] :
    \E b \in Range(Until(series[n], aligned[n][k].ts)) : b.close = aligned[n][k].close
SameUntil(filled, series, t) ==
  (\A n \in Names : Short(series, t)[n] # <<>>) =>
    \A n \in Names : Until(filled[n], t) = UnionForwardFill(Short(series, t))[n]
AlignmentOf(filled, common, series) ==
  /\ filled # Refused =>
       /\ OnOneTimeline(filled) /\ HadByThen(filled, series)
       /\ \A t \in Clock : (\A n \in Names : series[n][1].ts <= t) => SameUntil(filled, series, t)
  /\ common # Refused => OnOneTimeline(common) /\ HadByThen(common, series)
AlignedIsTrue ==
  (\A n \in Names : file[n] # <<>>) =>
    AlignmentOf(UnionForwardFill(Series), Intersect(Series), Series)

(* corporate_actions.py:4-12: across every bar the adjusted return is what *)
(* a holder made, splits and dividends of that bar included; the last bar  *)
(* is as it traded unless an action is still to come, and a split moves no *)
(* money.                                                                  *)
Ratio(now, was) == Quotient(now, was)
Kept(bars, i, actions) ==
  FoldSeq(LAMBDA a, x : IF FirstAtOrAfter(bars, a.ex) = i THEN Product(x, Factor(a, bars[i - 1].close))
                        ELSE x, Whole(1), actions)
Holders(adj, bars) ==
  /\ \A i \in 2..Len(bars) :
       Product(Ratio(adj[i].close, adj[i - 1].close), Kept(bars, i, acts)) =
         Frac(bars[i].close, bars[i - 1].close)
  /\ (\A k \in DOMAIN acts : acts[k].ex <= bars[Len(bars)].ts) =>
       adj[Len(bars)] = Unadjusted(bars)[Len(bars)]
  /\ (\A k \in DOMAIN acts : acts[k].type = "split") =>
       \A i \in DOMAIN bars :
         Product(adj[i].close, adj[i].volume) = Whole(bars[i].close * bars[i].volume)
ReturnsAreTheHolders ==
  \A n \in Names : file[n] # <<>> /\ ~Raises(Series[n], acts) =>
    Holders(Adjust(Series[n], acts), Series[n])

(* point_in_time_universe.py:12-21: who is a member is the same whatever   *)
(* the order of the rows and whatever happens later, and the dead stay so. *)
MembershipOf(universe, reversed) ==
  /\ reversed = universe
  /\ \A t \in Clock :
       /\ MembersAsOf(universe.known, t) =
            MembersAsOf({e \in universe.known : e.from <= t}, t)
       /\ \A s \in {e.symbol : e \in universe.known}, u \in Clock :
            u >= t /\ DeadBy(universe.known, s, t) => s \notin MembersAsOf(universe.known, u)
MembershipIsPointInTime ==
  ParseUniverse(entries) # Refused =>
    MembershipOf(ParseUniverse(entries), ParseUniverse(Reverse(entries)))

(* tick_file_writer.py:8-13, tick_file_reader.py: whatever a crash left, a *)
(* replay delivers the beginning of what was written, every tick after its *)
(* symbol.                                                                 *)
ReplayIsAPrefix ==
  /\ IsPrefix(Replay(disk).delivered, tape)
  /\ \A i \in DOMAIN Replay(disk).delivered :
       \E j \in 1..i : Replay(disk).delivered[j] = [kind |-> "symbol", id |-> Replay(disk).delivered[i].id]
=============================================================================
