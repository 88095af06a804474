------------------------------ MODULE BackOffice ------------------------------
(***************************************************************************)
(* The back office as a whole: the administration with its pages, the page *)
(* of the retail prices, and one person's sessions.                        *)
(*                                                                         *)
(* A step of one leaves the rows of the others alone: the goods that are   *)
(* priced and the person who signs in are not among the records of the     *)
(* administration here, and what archives or suspends them is part of      *)
(* RetailPrices and Sessions.  They share the process that serves them.    *)
(***************************************************************************)
EXTENDS AdminPages, RetailPrices, Sessions

backOfficeVars == <<adminVars, priceVars, sessionVars>>

BackOfficeInit == AdminInit /\ PricesInit /\ SessionsInit

BackOfficeNext ==
    \/ AdminNext /\ UNCHANGED <<priceVars, sessionVars>>
    \/ PricesNext /\ UNCHANGED <<adminVars, sessionVars>>
    \/ SessionsNext /\ UNCHANGED <<adminVars, priceVars>>

BackOfficeSpec == BackOfficeInit /\ [][BackOfficeNext]_backOfficeVars

\* Type correctness of the three.
TypesOK == AdminTypeOK /\ PricesTypeOK /\ SessionsTypeOK

(***************************************************************************)
(* What was typed is what is kept: a form saved without a key leaves the   *)
(* stored key alone, and a price is the one last typed for its item and    *)
(* week.  The exceptions are those of the two: a form without a key that   *)
(* overlaps another, and prices that come from rows of another week or     *)
(* behind what is stored.                                                  *)
(***************************************************************************)
WhatIsTypedIsKept == KeyIsTheOneTyped /\ PricesAreTheOnesTyped
=============================================================================
