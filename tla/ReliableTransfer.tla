-------------------------- MODULE ReliableTransfer --------------------------
(***************************************************************************)
(* What the client promises, with no network, window or thread: packets    *)
(* reach the server in order and once, the client confirms only what the   *)
(* server has, and it declares the transfer finished only when everything  *)
(* delivered is confirmed and whole chunks have been delivered.            *)
(***************************************************************************)
EXTENDS Integers, Sequences

CONSTANTS
  Total,       \* packets of the file
  Boundaries   \* packet counts at which a chunk ends

VARIABLES
  delivered,   \* packets the server has accepted
  confirmed,   \* how many of them the client knows of
  finished     \* the client has declared the end of the transfer

transferVars == <<delivered, confirmed, finished>>

Init ==
  /\ delivered = <<>>
  /\ confirmed = 0
  /\ finished = FALSE

Deliver ==
  /\ ~finished
  /\ Len(delivered) < Total
  /\ delivered' = Append(delivered, Len(delivered))
  /\ UNCHANGED <<confirmed, finished>>

Confirm ==
  /\ ~finished
  /\ confirmed' \in (confirmed + 1)..Len(delivered)
  /\ UNCHANGED <<delivered, finished>>

Finish ==
  /\ ~finished
  /\ confirmed = Len(delivered)
  /\ confirmed \in Boundaries
  /\ finished' = TRUE
  /\ UNCHANGED <<delivered, confirmed>>

Next == Deliver \/ Confirm \/ Finish

Spec == Init /\ [][Next]_transferVars
=============================================================================
