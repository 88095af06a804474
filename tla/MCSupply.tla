------------------------------ MODULE MCSupply ------------------------------
(***************************************************************************)
(* The instances of Supply and PostingRace for TLC.  One supply with two   *)
(* lines of up to two units and two receipts, in use cases that do not     *)
(* overlap; or two requests at a time that post and reverse two receipts,  *)
(* or one receipt and a write-off, of one unit of each of two items.       *)
(*                                                                         *)
(* A behaviour is about one of these; the states add up and do not         *)
(* multiply.                                                               *)
(***************************************************************************)
EXTENDS SupplyPages, PostingRace, TLC

CONSTANTS l1, l2, g1, g2, rose, fern, r1, r2

VARIABLE part

Interchangeable ==
    Permutations(Line) \cup Permutations(Receipt) \cup Permutations(Good) \cup Permutations(Slot)

MCInit ==
    /\ part \in {"supply", "receipts", "write-off"}
    /\ Init
    /\ PostingInit
    /\ part # "supply" => status = "NONE"
    /\ part # "write-off" => \A i \in Good : onHand[i] = 0
    /\ part # "receipts" => supply = "SUBMITTED_TO_SUPPLIER"

\* One receipt will do beside the write-off, and needs no key there; two
\* receipts need one key, which they may also come without.
InPart ==
    /\ \A d \in IF part = "receipts" THEN Loss ELSE {"p2"} :
          paper'[d].status = "NONE" /\ \A r \in Slot : request'[r].paper # d
    /\ \A r \in Slot : request'[r].paper \in Paper =>
          request'[r].key \in {NoPress} \cup (IF part = "receipts" THEN {"k1"} ELSE {})

MCNext ==
    /\ UNCHANGED part
    /\ \/ part = "supply" /\ Next /\ UNCHANGED postingVars
       \/ part # "supply" /\ PostingNext /\ InPart /\ UNCHANGED vars

MCSpec == MCInit /\ [][MCNext]_<<vars, postingVars, part>>
=============================================================================
