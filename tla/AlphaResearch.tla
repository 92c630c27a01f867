----------------------------- MODULE AlphaResearch -----------------------------
(***************************************************************************)
(* How alpha/ and backtest/validation/purged_kfold.py keep research from   *)
(* grading itself on what it has seen: walk-forward, blocked and purged    *)
(* splits over a panel that grows day by day, and the learners that score  *)
(* a prediction on the return that came after it.                          *)
(*                                                                         *)
(* The scores of a factor and the returns they are compared with are kept  *)
(* as the rank correlation of each date alone, known once the last bar of  *)
(* its forward window is.  Means are exact fractions, a bar counts from 0  *)
(* as in the code, and the four features of the learner are one.           *)
(***************************************************************************)
EXTENDS Fractions, Integers, Sequences, FiniteSets, FiniteSetsExt, Functions

CONSTANTS
  Candidates,    (* 1..n: the factors, in the order they are tried         *)
  Correlations,  (* what a day can tell of them: [Candidates -> IC or NaN] *)
  Studies,       (* [start, horizon, train, test, blocks, embargo]         *)
  MaxDays,       (* bound                                                  *)
  Components,    (* of the ensemble                                        *)
  Shows,         (* what they show: [Components -> signal or NaN]          *)
  Returns,       (* what an interval returned, or NaN                      *)
  Memory,        (* 1 / ic_alpha, a power of two                           *)
  MaxIntervals   (* bound                                                  *)

NaN == <<0, 0>>

VARIABLES
  study, day, ic,             (* the panel: the IC of each date that has one *)
  ensemble, learner, seen     (* seen: history, the intervals so far         *)

panel == <<study, day, ic>>
learning == <<ensemble, learner, seen>>
vars == <<study, day, ic, ensemble, learner, seen>>

-----------------------------------------------------------------------------
MeanOver(dates, of) ==
  IF dates = {} THEN NaN
  ELSE Over(FoldSet(LAMBDA d, sum : Plus(of[d], sum), Whole(0), dates), Cardinality(dates))

Known(c, dates) == {d \in dates : ic[c][d] # NaN}

Grid(n) ==
  {t \in study.start..(n - study.horizon - 1) : (t - study.start) % study.horizon = 0}

WindowMeanSpilling(c, n, from, to) ==
  MeanOver(Known(c, {t \in Grid(n) : t >= from /\ t < to}), ic[c])
WindowMean(c, n, from, to) ==
  MeanOver(Known(c, {t \in Grid(n) : t >= from /\ t + study.horizon < to}), ic[c])

(* The first of the best: a later candidate must beat it; 0 is none.       *)
Leaders(of, scored) == {c \in scored : \A d \in scored : ~Less(of[c], of[d])}
Best(of) ==
  IF \A c \in Candidates : of[c] = NaN THEN 0
  ELSE Min(Leaders(of, {c \in Candidates : of[c] # NaN}))

Trained(n, from) == [c \in Candidates |-> WindowMean(c, n, from, from + study.train)]
FoldOf(n, from, train, best) ==
  [train |-> from, test |-> from + study.train, end |-> from + study.train + study.test,
   chosen |-> best, inSample |-> train[best],
   outOfSample |-> WindowMean(best, n, from + study.train, from + study.train + study.test)]

(* A fold that no candidate can win ends the whole study.                  *)
Refused == <<>>
Starts(n) ==
  {s \in study.start..(n - study.train - study.test) : (s - study.start) % study.test = 0}
WalkForward(n) ==
  IF \E s \in Starts(n) : Best(Trained(n, s)) = 0 THEN Refused
  ELSE [k \in 1..Cardinality(Starts(n)) |->
          FoldOf(n, study.start + (k - 1) * study.test,
                 Trained(n, study.start + (k - 1) * study.test),
                 Best(Trained(n, study.start + (k - 1) * study.test)))]

(* Its own grid, from the start of each block.                             *)
MeanIcDates(n, from, to) ==
  {t \in from..(Min({to, n}) - study.horizon - 1) : (t - from) % study.horizon = 0}
MeanIc(c, n, from, to) == MeanOver(Known(c, MeanIcDates(n, from, to)), ic[c])

BlockLength(n) == (n - study.start) \div study.blocks
BlockStart(n, b) == study.start + (b - 1) * BlockLength(n)
BlockEnd(n, b) == IF b = study.blocks THEN n ELSE BlockStart(n, b + 1)
CrossValidate(c, n) ==
  IF n < study.start \/ BlockLength(n) <= study.horizon THEN Refused
  ELSE [b \in 1..study.blocks |-> MeanIc(c, n, BlockStart(n, b), BlockEnd(n, b))]

TestFold(n, k, f) == ((f * n) \div k)..(((f + 1) * n) \div k - 1)
TrainFold(n, k, f, horizon, embargo) ==
  (0..(Max({0, (f * n) \div k - horizon}) - 1))
    \cup (Min({n, ((f + 1) * n) \div k + horizon + embargo})..(n - 1))
Splits(n, k, horizon, embargo) ==
  IF n < 2 * k \/ \E f \in 0..(k - 1) : TrainFold(n, k, f, horizon, embargo) = {} THEN {}
  ELSE {[test |-> TestFold(n, k, f), train |-> TrainFold(n, k, f, horizon, embargo)] :
          f \in 0..(k - 1)}

(* The next day ends the forward window of the date a horizon before it.   *)
With(of, d, x) == [e \in DOMAIN of \cup {d} |-> IF e = d THEN x ELSE of[e]]
NextDay ==
  /\ day < MaxDays
  /\ day' = day + 1
  /\ IF day - study.horizon < study.start THEN ic' = ic
     ELSE \E s \in Correlations :
            ic' = [c \in Candidates |-> With(ic[c], day - study.horizon, s[c])]
  /\ UNCHANGED <<study, learning>>

-----------------------------------------------------------------------------
NoMoments ==
  [signal |-> Whole(0), return |-> Whole(0), varSignal |-> Whole(0), varReturn |-> Whole(0),
   covariance |-> Whole(0)]
Toward(old, x) == Plus(old, Over(Minus(x, old), Memory))
Deviated(m, ms, mr, ds, dr) ==
  [signal |-> ms, return |-> mr, varSignal |-> Toward(m.varSignal, Product(ds, ds)),
   varReturn |-> Toward(m.varReturn, Product(dr, dr)),
   covariance |-> Toward(m.covariance, Product(ds, dr))]
Around(m, signal, return, ms, mr) == Deviated(m, ms, mr, Minus(signal, ms), Minus(return, mr))
Scored(m, signal, return) ==
  Around(m, signal, return, Toward(m.signal, signal), Toward(m.return, return))

(* What was shown before the interval is scored against what it returned.  *)
Graded(e, c, return) == e.shown /\ return # NaN /\ e.snapshot[c] # NaN
OnObservationNowcast(e, values, return) ==
  [e EXCEPT
    !.moments = [c \in Components |->
       IF Graded(e, c, return) /\ values[c] # NaN THEN Scored(@[c], values[c], return) ELSE @[c]],
    !.samples = IF \E c \in Components : Graded(e, c, return) THEN @ + 1 ELSE @,
    !.snapshot = values, !.shown = TRUE]
OnObservation(e, values, return) ==
  [e EXCEPT
    !.moments = [c \in Components |->
       IF Graded(e, c, return) THEN Scored(@[c], e.snapshot[c], return) ELSE @[c]],
    !.samples = IF \E c \in Components : Graded(e, c, return) THEN @ + 1 ELSE @,
    !.snapshot = values, !.shown = TRUE]

Skilled(m) ==
  Less(Whole(0), m.covariance) /\ Less(Whole(0), m.varSignal) /\ Less(Whole(0), m.varReturn)
(* Those that have a say in the blend.                                     *)
Combined(e, values) ==
  IF e.samples < Memory THEN {}
  ELSE {c \in Components : values[c] # NaN /\ Skilled(e.moments[c])}

(* Score the prediction made with the weight as it is, and only then       *)
(* learn; the step is a half and the ridge nothing.                        *)
Size(x) == MostOf(x, Minus(Whole(0), x))
Learned(l, pred, feature, return) ==
  [l EXCEPT
    !.moments = Scored(@, pred, return),
    !.scale = IF @ = Whole(0) THEN Size(pred) ELSE Toward(@, Size(pred)),
    !.samples = @ + 1,
    !.weight = Plus(@, Over(Product(Minus(return, pred), feature), 2))]
Train(l, feature, return) ==
  IF feature = NaN \/ return = NaN THEN l
  ELSE Learned(l, Product(l.weight, feature), feature, return)
TrainSnapshot(l, feature, return) ==
  [(IF l.shown THEN Train(l, l.snapshot, return) ELSE l) EXCEPT
     !.snapshot = feature, !.shown = TRUE]
NormalizedPrediction(l) ==
  l.samples >= Memory /\ Skilled(l.moments) /\ Less(Whole(0), l.scale)

(* One interval: what is shown now, and what was returned since.           *)
Interval(values, c, return) ==
  /\ Len(seen) < MaxIntervals
  /\ ensemble' = OnObservation(ensemble, values, return)
  /\ learner' = TrainSnapshot(learner, values[c], return)
  /\ seen' = Append(seen, [values |-> values, feature |-> values[c], return |-> return])
  /\ UNCHANGED panel

Init ==
  /\ study \in Studies
  /\ day = 0
  /\ ic = [c \in Candidates |-> <<>>]
  /\ ensemble = [moments |-> [c \in Components |-> NoMoments], samples |-> 0,
                 snapshot |-> [c \in Components |-> NaN], shown |-> FALSE]
  /\ learner = [weight |-> Whole(0), moments |-> NoMoments, scale |-> Whole(0), samples |-> 0,
                snapshot |-> NaN, shown |-> FALSE]
  /\ seen = <<>>

Intervals ==
  \E values \in Shows, c \in Components, return \in Returns : Interval(values, c, return)

Next == NextDay \/ Intervals

Spec == Init /\ [][Next]_vars

-----------------------------------------------------------------------------
Apart(d, e, gap) == d + gap < e \/ e + gap < d

(* alpha_validation.py:343-348: what a fold selects, the panel already had *)
(* when its test window began, whatever came later; no bar's return is in  *)
(* two blocks of a cross-validation; and no training label of a purged     *)
(* split reaches into a test label, nor comes within the embargo after it. *)
HadBy(fold, c) ==
  MeanOver({d \in Known(c, Grid(fold.test)) : d >= fold.train}, ic[c])
BlockDates(b) == MeanIcDates(day, BlockStart(day, b), BlockEnd(day, b))
SplitIsClean(s) ==
  \A i \in s.train :
    /\ \A j \in s.test : Apart(i, j, study.horizon)
    /\ i > Max(s.test) => i > Max(s.test) + study.horizon + study.embargo
SelectionPeeksNowhere ==
  /\ \A fold \in Range(WalkForward(day)) :
       fold.chosen = Best([c \in Candidates |-> HadBy(fold, c)])
  /\ CrossValidate(1, day) # Refused =>
       \A a, b \in 1..study.blocks : a # b =>
         \A d \in BlockDates(a), e \in BlockDates(b) : Apart(d, e, study.horizon)
  /\ \A s \in Splits(day, study.blocks, study.horizon, study.embargo) : SplitIsClean(s)

(* A component is graded on what it showed before the return: what it      *)
(* shows now changes nothing in its grade, and neither it nor the learner  *)
(* has a say before as many intervals as its memory is long were scored.   *)
FairIntervals == {i \in 2..Len(seen) : seen[i].return # NaN}
ShownBefore == {i \in FairIntervals : \E c \in Components : seen[i - 1].values[c] # NaN}
FeltBefore == {i \in FairIntervals : seen[i - 1].feature # NaN}
GradedOnThePast ==
  /\ \A return \in Returns :
       /\ Cardinality({OnObservation(ensemble, now, return).moments : now \in Shows}) = 1
       /\ Cardinality({TrainSnapshot(learner, now[1], return).moments : now \in Shows}) = 1
  /\ (\E values \in Shows : Combined(ensemble, values) # {}) => Cardinality(ShownBefore) >= Memory
  /\ NormalizedPrediction(learner) => Cardinality(FeltBefore) >= Memory
=============================================================================
