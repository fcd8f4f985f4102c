--------------------------- MODULE LarmProperties ---------------------------
(* What must hold of the leases taken from LARM.                            *)
EXTENDS LarmLeases

CallPlaces == {"idle", "done"} \cup Asking \cup Using \cup Releasing
CallRecords == [pc : CallPlaces, known : Int, unfit : BOOLEAN, flying : BOOLEAN]

\* The journal, what LARM holds and the place of each call keep their types.
LarmTypeOK ==
  /\ row \in [Calls -> RowStates]
  /\ noted \in [Calls -> BOOLEAN]
  /\ lease \in [Calls -> {"none", "coming", "held", "ended"}]
  /\ revision \in [Calls -> Int]
  /\ call \in [Calls -> CallRecords]
  /\ closed \subseteq Calls
  /\ up \in BOOLEAN /\ age \in 0..2
  /\ faults \in Int

Book == INSTANCE LeaseBook WITH
          offered <- age < 2,
          entered <- {c \in Calls : row[c] # "none"},
          book <- {c \in Calls : Open(c)},
          served <- {c \in Calls : noted[c]},
          holds <- {c \in Calls : lease[c] = "held"}

\* Whatever is lost, cancelled, reloaded or killed: a call is entered only for a variant
\* LARM has listed less than two intervals ago, LARM holds memory only for calls the
\* journal knows, only a call with an open row is served, and the row of a call that was
\* served is closed only when LARM holds nothing for it any more.
BookIsKept == Book!Spec
=============================================================================
