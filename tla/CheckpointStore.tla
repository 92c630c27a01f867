-------------------------- MODULE CheckpointStore --------------------------
(***************************************************************************)
(* What persist/checkpoint.py promises of a checkpoint file: it holds      *)
(* nothing, or the whole of one offer, and changes only from one to the    *)
(* next in a single step.  An offer is the list of sections a writer has   *)
(* collected; a writer one of whose sections failed offers nothing.        *)
(***************************************************************************)
CONSTANTS
  Offers,    (* what a writer may offer                                    *)
  NoOffer

VARIABLES
  stored,    (* the contents of the file, NoOffer before the first commit  *)
  offered    (* what the writer at hand would commit                       *)

Init == stored = NoOffer /\ offered = NoOffer

Offer == offered' \in Offers \cup {NoOffer} /\ UNCHANGED stored

Commit == offered # NoOffer /\ stored' = offered /\ UNCHANGED offered

Next == Offer \/ Commit

Spec == Init /\ [][Next]_<<stored, offered>>
=============================================================================
