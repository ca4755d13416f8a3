------------------------------ MODULE TruckSale ------------------------------
(***************************************************************************)
(* What a call into the roster engine promises whoever made it, whatever   *)
(* organisations, cards and checkouts it goes through: it orders the truck *)
(* at most once but for orders the browser told it had not happened; it     *)
(* only says "bought" of a truck it ordered; "not bought" is final, nothing *)
(* of it orders afterwards; and where it cannot know it does not say        *)
(* either, and an order may still follow.                                  *)
(*                                                                         *)
(* TruckPurchase is shown to implement this module.                        *)
(***************************************************************************)
EXTENDS Naturals

CONSTANT Calls

VARIABLES
  answer,   \* answer[c]: what call c has said
  sold,     \* sold[c]: orders placed for it
  withheld  \* withheld[c]: those of them that were reported as not placed

saleVars == <<answer, sold, withheld>>

Answers == {"idle", "open", "bought", "notbought", "unsure"}

Init ==
  /\ answer = [c \in Calls |-> "idle"]
  /\ sold = [c \in Calls |-> 0]
  /\ withheld = [c \in Calls |-> 0]

Begin(c) ==
  /\ answer[c] = "idle"
  /\ answer' = [answer EXCEPT ![c] = "open"]
  /\ UNCHANGED <<sold, withheld>>

(* No order beside one the call may know of.                               *)
Order(c) ==
  /\ answer[c] \in {"open", "unsure"}
  /\ sold[c] = withheld[c]
  /\ sold' = [sold EXCEPT ![c] = @ + 1]
  /\ UNCHANGED <<answer, withheld>>

(* The browser reports an order as not placed.                             *)
Withhold(c) ==
  /\ answer[c] = "open"
  /\ sold[c] = withheld[c] + 1
  /\ withheld' = [withheld EXCEPT ![c] = @ + 1]
  /\ UNCHANGED <<answer, sold>>

SayBought(c) ==
  /\ answer[c] = "open"
  /\ sold[c] = withheld[c] + 1
  /\ answer' = [answer EXCEPT ![c] = "bought"]
  /\ UNCHANGED <<sold, withheld>>

SayNotBought(c) ==
  /\ answer[c] = "open"
  /\ sold[c] = withheld[c]
  /\ answer' = [answer EXCEPT ![c] = "notbought"]
  /\ UNCHANGED <<sold, withheld>>

(* The daemon or the caller itself is gone: several calls at once.         *)
LoseSight(C) ==
  /\ \A c \in C : answer[c] = "open"
  /\ answer' = [c \in Calls |-> IF c \in C THEN "unsure" ELSE answer[c]]
  /\ UNCHANGED <<sold, withheld>>

Next ==
  \/ \E C \in SUBSET Calls : LoseSight(C)
  \/ \E c \in Calls :
       Begin(c) \/ Order(c) \/ Withhold(c) \/ SayBought(c) \/ SayNotBought(c)

Spec == Init /\ [][Next]_saleVars
=============================================================================
