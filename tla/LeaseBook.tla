----------------------------- MODULE LeaseBook -----------------------------
(***************************************************************************)
(* What the journal of leases promises, without saying how: LARM may only  *)
(* hold memory for a call that was entered in the book first, only a call  *)
(* with an open entry is served, and the entry of a call that was served   *)
(* is struck out only when LARM holds nothing for it any more.             *)
(***************************************************************************)
CONSTANT Calls

VARIABLES
  offered,   \* LARM has listed its variants lately
  entered,   \* calls that were ever written in the book
  book,      \* calls whose entry is open: the next start looks them up
  served,    \* calls that were given the use of their lease
  holds      \* calls LARM reserves memory for

vars == <<offered, entered, book, served, holds>>

Init == ~offered /\ entered = {} /\ book = {} /\ served = {} /\ holds = {}

\* A call is entered for a variant that is on offer.
Enter(c) ==
  /\ c \notin entered /\ offered'
  /\ entered' = entered \cup {c} /\ book' = book \cup {c}
  /\ UNCHANGED <<served, holds>>

Reserve(c) ==
  /\ c \in entered /\ holds' = holds \cup {c} /\ UNCHANGED <<entered, book, served>>

Serve(c) ==
  /\ c \in book /\ served' = served \cup {c} /\ UNCHANGED <<entered, book, holds>>

Free(c) == holds' = holds \ {c} /\ UNCHANGED <<entered, book, served>>

\* A call that was never served may be given up while LARM still holds its lease.
Strike(c) ==
  /\ c \in served => c \notin holds
  /\ book' = book \ {c} /\ UNCHANGED <<entered, served, holds>>

\* The start finds a lease of a dead process, frees it and strikes it out.
FreeAndStrike(c) ==
  /\ holds' = holds \ {c} /\ book' = book \ {c} /\ UNCHANGED <<entered, served>>

Offer == UNCHANGED <<entered, book, served, holds>>

Next ==
  /\ offered' \in BOOLEAN
  /\ \/ Offer
     \/ \E c \in Calls : \/ Enter(c) \/ Reserve(c) \/ Serve(c)
                         \/ Free(c) \/ Strike(c) \/ FreeAndStrike(c)

Spec == Init /\ [][Next]_vars
=============================================================================
