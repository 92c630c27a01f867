------------------------------- MODULE L3Feed -------------------------------
(***************************************************************************)
(* The book of L3Book fed by a venue over an ordered channel.  The venue   *)
(* (PriceTimeQueue) emits one message per change; the participant applies  *)
(* them later through on_message.  A gap loses the oldest message in       *)
(* flight, a gap-recovery replay delivers it twice: on_add's duplicate     *)
(* check and the unknown-reference tally exist for these two.              *)
(***************************************************************************)
EXTENDS L3Book

CONSTANTS
  MaxVenueAdds,    (* bound: orders the venue accepts, below MaxSeq        *)
  MaxInFlight,     (* bound: messages in flight                            *)
  MaxDisturbances  (* bound: lost or replayed messages                     *)

ASSUME L3FeedAssumption ==
  /\ MaxInFlight \in Nat \ {0} /\ MaxDisturbances \in Nat
  /\ MaxVenueAdds \in Nat /\ MaxVenueAdds + MaxDisturbances <= MaxSeq

VARIABLES
  queue,           (* the venue's queues                                   *)
  channel,         (* messages in flight, oldest first                     *)
  disturbances,    (* messages lost or replayed so far                     *)
  adds             (* orders the venue has accepted, for the bound   *)

feedVars == <<book, counted, queue, channel, disturbances, adds>>

Floor == INSTANCE PriceTimeQueue

FeedInit ==
  /\ Init /\ Floor!Init
  /\ channel = <<>> /\ disturbances = 0 /\ adds = 0

\* The venue changes its queues and reports the change.
Emit(m) ==
  /\ Len(channel) < MaxInFlight
  /\ channel' = Append(channel, m)
  /\ UNCHANGED <<book, counted, disturbances>>

VenueAdd(ref, l, n) ==
  /\ adds < MaxVenueAdds /\ Cardinality(Floor!Resting) < MaxOrders
  /\ Floor!Add(ref, l, n)
  /\ Emit([type |-> "add", ref |-> ref, at |-> l, shares |-> n])
  /\ adds' = adds + 1

VenueExecute(ref, n) ==
  /\ Floor!Execute(ref, n) /\ n <= Floor!QtyOf(ref)
  /\ Emit([type |-> "execute", ref |-> ref, shares |-> n])
  /\ UNCHANGED adds

VenueCancel(ref, n) ==
  /\ Floor!Cancel(ref, n) /\ n < Floor!QtyOf(ref)
  /\ Emit([type |-> "cancel", ref |-> ref, shares |-> n])
  /\ UNCHANGED adds

VenueDelete(ref) ==
  /\ Floor!Delete(ref)
  /\ Emit([type |-> "delete", ref |-> ref])
  /\ UNCHANGED adds

VenueReplace(ref, new, l, n) ==
  /\ adds < MaxVenueAdds
  /\ Floor!Replace(ref, new, l, n)
  /\ Emit([type |-> "replace", ref |-> ref, new |-> new, at |-> l, shares |-> n])
  /\ adds' = adds + 1

\* on_message: dispatch on the message type.
OnMessage(m) ==
  CASE m.type = "add"     -> OnAdd(m.ref, m.at[1], m.shares, m.at[2])
    [] m.type = "execute" -> OnExecute(m.ref, m.shares)
    [] m.type = "cancel"  -> OnCancel(m.ref, m.shares)
    [] m.type = "delete"  -> OnDelete(m.ref)
    [] m.type = "replace" -> OnReplace(m.ref, m.new, m.shares, m.at[2])

Deliver ==
  /\ channel # <<>>
  /\ OnMessage(Head(channel))
  /\ channel' = Tail(channel)
  /\ UNCHANGED <<queue, disturbances, adds>>

Replay ==
  /\ channel # <<>> /\ disturbances < MaxDisturbances
  /\ OnMessage(Head(channel))
  /\ disturbances' = disturbances + 1
  /\ UNCHANGED <<queue, channel, adds>>

Lose ==
  /\ channel # <<>> /\ disturbances < MaxDisturbances
  /\ channel' = Tail(channel)
  /\ disturbances' = disturbances + 1
  /\ UNCHANGED <<book, counted, queue, adds>>

FeedTrack(ref) ==
  /\ Track(ref) \/ Untrack(ref)
  /\ UNCHANGED <<queue, channel, disturbances, adds>>

FeedNext ==
  \/ \E ref \in Refs, n \in 1..MaxShares :
       \/ \E l \in Level : VenueAdd(ref, l, n)
       \/ VenueExecute(ref, n)
       \/ VenueCancel(ref, n)
       \/ \E new \in Refs, l \in Level : VenueReplace(ref, new, l, n)
  \/ \E ref \in Refs : VenueDelete(ref) \/ FeedTrack(ref)
  \/ Deliver
  \/ Replay
  \/ Lose

FeedSpec == FeedInit /\ [][FeedNext]_feedVars

-----------------------------------------------------------------------------

\* On an undisturbed feed, a participant that has applied every message has
\* the venue's queues, order by order.
CaughtUpBookIsVenues ==
  channel = <<>> /\ disturbances = 0 => QueueOf(book) = queue

\* ... and then shares_ahead is the order's true place at the venue.
CaughtUpAheadIsTrue ==
  channel = <<>> /\ disturbances = 0 =>
    \A i \in 1..Len(book.tracked) :
      book.tracked[i].ahead = Floor!SharesBefore(book.tracked[i].ref)

\* An unknown reference, a duplicate or a dropped order is only ever counted
\* after a gap or a replay: the tallies are a symptom (lines 415-428).
AnomalyMeansDisturbance ==
  counted \cap {"unknownRef", "duplicateRef", "outOfBand"} # {} => disturbances > 0

(* A participant that has applied all of an undisturbed feed has the       *)
(* venue's queues, order by order, and every order's true place in them.   *)
CaughtUp == CaughtUpBookIsVenues /\ CaughtUpAheadIsTrue
=============================================================================
