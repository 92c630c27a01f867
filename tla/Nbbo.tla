-------------------------------- MODULE Nbbo --------------------------------
(***************************************************************************)
(* The consolidated best bid and offer of marketdata/nbbo.py: one quote    *)
(* per venue, a cached inside (price, size and venues on each side) that   *)
(* most quotes leave alone without a scan, and one listener told of every  *)
(* change of the inside.                                                   *)
(*                                                                         *)
(* The bitmask of venues is a set of venues.  update_count and             *)
(* change_count are write-only and left out.                               *)
(***************************************************************************)
EXTENDS Integers

CONSTANTS
  VenueCount,  (* venue_count                                              *)
  MaxTick,     (* bound: prices are 1..MaxTick                             *)
  MaxSize      (* bound: sizes are 0..MaxSize                              *)

ASSUME NbboAssumption ==
  /\ VenueCount \in Nat \ {0}
  /\ MaxTick \in Nat \ {0} /\ MaxSize \in Nat

Venues == 0..(VenueCount - 1)
NoBid == 0               (* NO_BID: below every price                      *)
NoAsk == MaxTick + 1     (* NO_ASK: above every price                      *)
Prices == 1..MaxTick

NoNews == [bid |-> -1, bidSize |-> -1, ask |-> -1, askSize |-> -1]

VARIABLES
  bids,      (* _bid_tick and _bid_size, by venue                          *)
  asks,      (* _ask_tick and _ask_size, by venue                          *)
  nbb,       (* _nbb, _nbb_size and _nbb_venue_bits                        *)
  nbo,       (* _nbo, _nbo_size and _nbo_venue_bits                        *)
  listening, (* is a listener installed                                    *)
  news,      (* history: what the listener was last told                   *)
  told       (* history: did the last call tell it                         *)

nbboVars == <<bids, asks, nbb, nbo, listening, news, told>>

-----------------------------------------------------------------------------
(* A side is named by what it shows without a quote.                       *)
Better(absent, a, b) == IF absent = NoBid THEN a > b ELSE a < b

Side(price, size, absent) == [tick |-> IF size > 0 THEN price ELSE absent, size |-> size]
NoSide(absent) == [tick |-> absent, size |-> 0, at |-> {}]

(* One venue's turn in _recompute's scan of a side.                        *)
Scan(side, absent, v, best) ==
  LET q == side[v] IN
  CASE q.tick # absent /\ Better(absent, q.tick, best.tick) ->
         [tick |-> q.tick, size |-> q.size, at |-> {v}]
    [] q.tick # absent /\ q.tick = best.tick ->
         [best EXCEPT !.size = @ + q.size, !.at = @ \cup {v}]
    [] OTHER -> best

(* The scan: what it holds after each venue.                               *)
Scans(side, absent) ==
  LET best[k \in 0..VenueCount] ==
        IF k = 0 THEN NoSide(absent) ELSE Scan(side, absent, k - 1, best[k - 1])
  IN best

Best(side, absent) == Scans(side, absent)[VenueCount]

OffInsideByPrice(venue, bid, ask) ==
  /\ bid.tick = NoBid \/ bid.tick < nbb.tick
  /\ ask.tick = NoAsk \/ ask.tick > nbo.tick

(* The off-inside flicker that cannot move the NBBO and is not scanned.    *)
OffInside(venue, bid, ask) ==
  /\ venue \notin nbb.at /\ venue \notin nbo.at
  /\ bid.tick = NoBid \/ bid.tick < nbb.tick
  /\ ask.tick = NoAsk \/ ask.tick > nbo.tick

SamePrices(b, o) == b.tick = nbb.tick /\ o.tick = nbo.tick
Unconflated(b, o) == FALSE
SameNumbers(b, o) ==
  b.tick = nbb.tick /\ b.size = nbb.size /\ o.tick = nbo.tick /\ o.size = nbo.size

(* _recompute                                                              *)
Recompute(newBids, newAsks) ==
  LET b == Best(newBids, NoBid)
      o == Best(newAsks, NoAsk)
  IN /\ nbb' = b /\ nbo' = o
     /\ told' = (listening /\ ~SameNumbers(b, o))
     /\ news' = IF ~told' THEN news
                ELSE [bid |-> b.tick, bidSize |-> b.size, ask |-> o.tick, askSize |-> o.size]

OnVenueQuote(venue, bid, bidSize, ask, askSize) ==
  LET b == Side(bid, bidSize, NoBid)
      a == Side(ask, askSize, NoAsk)
  IN /\ bids' = [bids EXCEPT ![venue] = b]
     /\ asks' = [asks EXCEPT ![venue] = a]
     /\ IF OffInside(venue, b, a) THEN told' = FALSE /\ UNCHANGED <<nbb, nbo, news>>
        ELSE Recompute(bids', asks')
     /\ UNCHANGED listening

OnVenueDown(venue) == OnVenueQuote(venue, NoBid, 0, NoAsk, 0)

(* listener(l): a new listener hears nothing until the inside next changes. *)
Listen(on) ==
  /\ listening' = on /\ news' = NoNews /\ told' = FALSE
  /\ UNCHANGED <<bids, asks, nbb, nbo>>

NbboInit ==
  /\ bids = [v \in Venues |-> [tick |-> NoBid, size |-> 0]]
  /\ asks = [v \in Venues |-> [tick |-> NoAsk, size |-> 0]]
  /\ nbb = NoSide(NoBid) /\ nbo = NoSide(NoAsk)
  /\ listening = FALSE /\ news = NoNews /\ told = FALSE

(* A side without a size is quoted at some price: which, does not matter.  *)
NbboNext ==
  \/ \E v \in Venues, b \in Prices \cup {NoBid}, a \in Prices \cup {NoAsk}, bz, az \in 0..MaxSize :
       (bz = 0 => b = 1) /\ (az = 0 => a = 1) /\ OnVenueQuote(v, b, bz, a, az)
  \/ \E v \in Venues : OnVenueDown(v)
  \/ \E on \in BOOLEAN : Listen(on)

NbboSpec == NbboInit /\ [][NbboNext]_nbboVars

-----------------------------------------------------------------------------
(* Properties.                                                             *)

\* Sizes shown at a tick, summed over the first k venues.
Totals(side, tick) ==
  LET total[k \in 0..VenueCount] ==
        IF k = 0 THEN 0
        ELSE total[k - 1] + IF side[k - 1].tick = tick THEN side[k - 1].size ELSE 0
  IN total

SizeAt(side, tick) == Totals(side, tick)[VenueCount]

Consolidates(best, side, absent) ==
  LET quoting == {v \in Venues : side[v].tick # absent} IN
  IF quoting = {} THEN best = NoSide(absent)
  ELSE /\ best.at = {v \in quoting : \A u \in quoting : ~Better(absent, side[u].tick, side[v].tick)}
       /\ \A v \in best.at : side[v].tick = best.tick
       /\ best.size = SizeAt(side, best.tick)

\* However the quotes came, and whichever of them took the fast path, the
\* cached inside is that of the venues' latest quotes: the best price of each
\* side, exactly the venues that show it, and the sum of their sizes.
InsideIsConsolidated ==
  /\ Consolidates(nbb, bids, NoBid)
  /\ Consolidates(nbo, asks, NoAsk)

\* A listener that has been told anything holds the current inside: price and
\* size never move without a call (the inside-change callback is complete).
ListenerKnowsTheInside ==
  listening /\ news # NoNews =>
    news = [bid |-> nbb.tick, bidSize |-> nbb.size, ask |-> nbo.tick, askSize |-> nbo.size]

\* A call tells the listener if and only if it moves a price or a size of the
\* inside, and not when a scan finds both as they were: downstream logic is
\* conflated to inside updates.
NewsIsAChange ==
  [][told' <=> /\ listening
               /\ <<nbb.tick, nbb.size, nbo.tick, nbo.size>>
                    # <<nbb'.tick, nbb'.size, nbo'.tick, nbo'.size>>]_nbboVars

\* The listener has been told of the inside as it is, and is told of a change
\* and of nothing else.
ListenerIsTold == []ListenerKnowsTheInside /\ NewsIsAChange
=============================================================================
