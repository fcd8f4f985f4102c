----------------------------- MODULE LarmLeases -----------------------------
(***************************************************************************)
(* The leases that the broker takes from LARM, one per call, and the       *)
(* journal that lets the next start free what a dead process left          *)
(* (app/larm.py, app/providers/larm.py).  LARM is external: it admits a    *)
(* request now, later or never, keeps a revision per lease, and ends a     *)
(* lease by itself when its TTL passes or when it restarts.  An exchange   *)
(* with it is answered, refused, or lost before or after it did its work.  *)
(***************************************************************************)
EXTENDS Integers

CONSTANTS
  Calls,        \* invocations that ask for a lease: their idempotency keys
  MaxRevision,  \* bound: renewals that LARM counts on one lease
  MaxFaults     \* bound: exchanges with LARM that are lost

ASSUME LarmAssumption == MaxRevision \in Nat /\ MaxFaults \in Nat

VARIABLES
  row,       \* larm_leases.state of each call, "none" without a row
  noted,     \* the row has its lease_id
  lease,     \* what LARM has: "none", "coming", "held" or "ended"
  revision,  \* LARM's row_version of the lease
  call,      \* where request_lease, leased or release_lease is, and what it knows
  closed,    \* calls whose HTTP client a reload of the configuration closed
  up,        \* the broker serves: reconcile has run
  age,       \* intervals since LARM listed its variants to this process, at most 2
  faults     \* exchanges lost so far

larmVars == <<row, noted, lease, revision, call, closed, up, age, faults>>

RowStates == {"none", "requested", "active", "release_pending", "released", "failed"}
Open(c) == row[c] \notin {"none", "released", "failed"}
Asking == {"profile", "create", "again", "poll", "read", "giveup", "fail", "note"}
Using == {"token", "use"}
Releasing == {"release", "reread", "release2", "close", "pending"}
Exchanging == {"profile", "create", "again", "poll", "read", "giveup", "release",
               "reread", "release2"}

LarmInit ==
  /\ row = [c \in Calls |-> "none"] /\ noted = [c \in Calls |-> FALSE]
  /\ lease = [c \in Calls |-> "none"] /\ revision = [c \in Calls |-> 0]
  /\ call = [c \in Calls |-> [pc |-> "idle", known |-> 0, unfit |-> FALSE, flying |-> FALSE]]
  /\ closed = {} /\ up = TRUE /\ age = 2 /\ faults = 0

At(c, pcs) == up /\ call[c].pc \in pcs
\* A request sent with the client of before a reload raises what nobody catches.
Asks(c, pcs) == At(c, pcs) /\ c \notin closed
Goes(c, pc) == call' = [call EXCEPT ![c].pc = pc]
Writes(c, state) == row' = [row EXCEPT ![c] = state]
Becomes(c, state) == lease' = [lease EXCEPT ![c] = state]
Lost == faults < MaxFaults /\ faults' = faults + 1

\* The catalogue is read again each interval, and a reading that fails leaves the last
\* one in force until it is two intervals old.
ReadsCatalog ==
  \/ age = 0 /\ UNCHANGED <<age, faults>>
  \/ age > 0 /\ age' = 0 /\ UNCHANGED faults
  \/ age > 0 /\ Lost /\ UNCHANGED age
Listed == age' < 2
Discover ==
  /\ up /\ age' = 0
  /\ UNCHANGED <<row, noted, lease, revision, call, closed, up, faults>>

\* The row is written before LARM is asked for a lease.
Request(c) ==
  /\ At(c, {"idle"}) /\ ReadsCatalog /\ Listed
  /\ Writes(c, "requested") /\ Goes(c, "profile")
  /\ UNCHANGED <<noted, lease, revision, closed, up>>

\* No catalogue, a variant that is not in it, one that cannot do what is asked or that
\* speaks no protocol of the broker.
ResolveFails(c) ==
  /\ At(c, {"idle"}) /\ ReadsCatalog /\ Goes(c, "done")
  /\ UNCHANGED <<row, noted, lease, revision, closed, up>>

LaunchProfile(c) ==
  /\ Asks(c, {"profile"})
  /\ \/ Goes(c, "create") /\ UNCHANGED row
     \/ Goes(c, "done") /\ Writes(c, "failed")
  /\ UNCHANGED <<noted, lease, revision, closed, up, age, faults>>

\* The same key asked again gets the first answer.
Admitted(c) == IF lease[c] = "none" THEN {"coming", "held"} ELSE {lease[c]}
Create(c) ==
  /\ Asks(c, {"create", "again"})
  /\ \E got \in Admitted(c) :
       Becomes(c, got) /\ Goes(c, IF got = "coming" THEN "poll" ELSE "read")
  /\ UNCHANGED <<row, noted, revision, closed, up, age, faults>>

\* No answer: asked once more with the same key, and then left to the next start.
Unanswered(c, pc) == IF pc = "create" THEN "again" ELSE "done"
CreateUnanswered(c) ==
  /\ Asks(c, {"create", "again"}) /\ Lost
  /\ \E got \in Admitted(c) \cup {lease[c]} : Becomes(c, got)
  /\ Goes(c, Unanswered(c, call[c].pc))
  /\ UNCHANGED <<row, noted, revision, closed, up, age>>

CreateRefused(c) ==
  /\ Asks(c, {"create", "again"}) /\ lease[c] = "none" /\ Goes(c, "done")
  /\ IF call[c].pc = "create" THEN Writes(c, "failed") ELSE UNCHANGED row
  /\ UNCHANGED <<noted, lease, revision, closed, up, age, faults>>

\* The job ended, with its lease or without; or it did not before the deadline.
WaitForJob(c) ==
  /\ Asks(c, {"poll"})
  /\ Goes(c, IF lease[c] \in {"held", "ended"} THEN "read" ELSE "giveup")
  /\ UNCHANGED <<row, noted, lease, revision, closed, up, age, faults>>

\* An answer without the keys of the contract counts as an error.
ExchangeFails(c) ==
  /\ Asks(c, {"poll", "read"}) /\ Lost /\ Goes(c, "giveup")
  /\ UNCHANGED <<row, noted, lease, revision, closed, up, age>>

\* The record must be ACTIVE and of this owner.
ReadLease(c) ==
  /\ Asks(c, {"read"})
  /\ \E other \in BOOLEAN :
       call' = [call EXCEPT ![c] = [pc |-> "note", known |-> revision[c], flying |-> FALSE,
                                    unfit |-> other \/ lease[c] # "held"]]
  /\ UNCHANGED <<row, noted, lease, revision, closed, up, age, faults>>
\* _release_by_request_id: what LARM lists under the key is released.  A request
\* that has not been admitted yet may not be listed.
Swept(c) == IF lease[c] = "coming" THEN {"coming", "ended"} ELSE {"ended"}
Release0(c) == \E left \in IF lease[c] = "none" THEN {"none"} ELSE Swept(c) : Becomes(c, left)
\* An exchange that ends the lease, or does not reach LARM.
MayEnd(c) ==
  \E left \in {lease[c]} \cup (IF lease[c] = "held" THEN {"ended"} ELSE {}) : Becomes(c, left)

\* Its errors are swallowed and the row is closed as failed all the same.
GiveUp(c) ==
  /\ Asks(c, {"giveup"}) /\ Goes(c, "fail")
  /\ \/ Release0(c) /\ UNCHANGED faults
     \/ MayEnd(c) /\ Lost
  /\ UNCHANGED <<row, noted, revision, closed, up, age>>

WriteFailed(c) ==
  /\ At(c, {"fail"}) /\ Writes(c, "failed") /\ Goes(c, "done")
  /\ UNCHANGED <<noted, lease, revision, closed, up, age, faults>>

\* An endpoint of another machine, protocol, backend or fingerprint is not used; the
\* others may ask for a credential first.
Effective == {"release"} \cup Using
\* The row says which lease it is before anybody uses it.
WriteActive(c) ==
  /\ At(c, {"note"}) /\ Writes(c, "active") /\ noted' = [noted EXCEPT ![c] = TRUE]
  /\ \E pc \in IF call[c].unfit THEN {"release"} ELSE Effective : Goes(c, pc)
  /\ UNCHANGED <<lease, revision, closed, up, age, faults>>

\* The credential comes over a channel of the machine, or not in time.
GetEndpoint(c) ==
  /\ At(c, {"token"}) /\ \E pc \in {"use", "release"} : Goes(c, pc)
  /\ UNCHANGED <<row, noted, lease, revision, closed, up, age, faults>>

\* The same key repeated after a lost answer is not a second renewal.
Renewed(c) == IF revision[c] > call[c].known THEN revision[c] ELSE revision[c] + 1
Renew(c) ==
  /\ Asks(c, Using) /\ lease[c] = "held" /\ Renewed(c) <= MaxRevision
  /\ revision' = [revision EXCEPT ![c] = Renewed(c)]
  /\ call' = [call EXCEPT ![c].known = Renewed(c)]
  /\ UNCHANGED <<row, noted, lease, closed, up, age, faults>>

\* Tried again later, unless the lease has expired meanwhile: then it is lost.
RenewUnanswered(c) ==
  /\ Asks(c, Using) /\ lease[c] = "held" /\ Lost
  /\ \E r \in {revision[c], Renewed(c)} :
       r <= MaxRevision /\ revision' = [revision EXCEPT ![c] = r]
  /\ \/ UNCHANGED call
     \/ call[c].pc = "use" /\ Goes(c, "release")
  /\ UNCHANGED <<row, noted, lease, closed, up, age>>

\* The answer, an error, a cancellation, an endpoint that is not the one asked for
\* or a lost lease: the renewal is cancelled, perhaps with a request on its way.
LeaveUse(c) ==
  /\ Asks(c, {"use"})
  /\ \E late \in BOOLEAN :
       call' = [call EXCEPT ![c] = [@ EXCEPT !.pc = "release", !.flying = late]]
  /\ UNCHANGED <<row, noted, lease, revision, closed, up, age, faults>>

\* 204, 409 for an old revision, or another error; a lease that ended may answer any.
ReleaseLease(c) ==
  /\ Asks(c, {"release", "release2"})
  /\ \/ /\ lease[c] = "held" /\ call[c].known = revision[c]
        /\ Becomes(c, "ended") /\ Goes(c, "close")
     \/ /\ lease[c] = "ended" \/ call[c].known # revision[c]
        /\ UNCHANGED lease
        /\ Goes(c, IF call[c].pc = "release" THEN "reread" ELSE "pending")
     \/ /\ lease[c] = "ended" /\ UNCHANGED lease /\ Goes(c, "close")
  /\ UNCHANGED <<row, noted, revision, closed, up, age, faults>>

ReleaseFails(c) ==
  /\ Asks(c, {"release", "reread", "release2"}) /\ Lost
  /\ IF call[c].pc = "reread" THEN UNCHANGED lease ELSE MayEnd(c)
  /\ Goes(c, "pending")
  /\ UNCHANGED <<row, noted, revision, closed, up, age>>

Reread(c) ==
  /\ Asks(c, {"reread"})
  /\ call' = [call EXCEPT ![c] = [@ EXCEPT !.pc = "release2", !.known = revision[c]]]
  /\ UNCHANGED <<row, noted, lease, revision, closed, up, age, faults>>

\* Faulty: what LARM answered does not matter.
AlwaysReleased(pc) == "released"

ClosedAs(pc) == IF pc = "close" THEN "released" ELSE "release_pending"
WriteReleased(c) ==
  /\ At(c, {"close", "pending"})
  /\ Writes(c, ClosedAs(call[c].pc)) /\ Goes(c, "done")
  /\ UNCHANGED <<noted, lease, revision, closed, up, age, faults>>

\* A task may be cancelled at any await of request_lease, with its request on the
\* way.  The release of a lease that was used is shielded; that of an unfit one,
\* inside request_lease, is not.
CancelCall(c) ==
  /\ \/ At(c, Asking)
     \/ At(c, Releasing) /\ call[c].unfit
  /\ Goes(c, "done")
  /\ \E got \in {lease[c]} \cup (IF call[c].pc \in {"create", "again"} THEN Admitted(c) ELSE {}) :
       Becomes(c, got)
  /\ UNCHANGED <<row, noted, revision, closed, up, age, faults>>

\* A change of the `larm` block closes the client under the calls that use it;
\* their next request raises an error that is no LarmError, and no row is written.
Reload ==
  /\ up
  /\ closed' = {c \in Calls : call[c].pc # "idle"} /\ age' = 2
  /\ UNCHANGED <<row, noted, lease, revision, call, up, faults>>
ClientClosed(c) ==
  /\ At(c, Exchanging \cup {"use"}) /\ c \in closed /\ Goes(c, "done")
  /\ UNCHANGED <<row, noted, lease, revision, closed, up, age, faults>>

Crash ==
  /\ up /\ up' = FALSE /\ age' = 2
  /\ call' = [c \in Calls |-> IF call[c].pc = "idle" THEN call[c]
                                                   ELSE [call[c] EXCEPT !.pc = "done"]]
  /\ UNCHANGED <<row, noted, lease, revision, closed, faults>>

\* The start frees the leases of the open rows; a row without lease_id is looked
\* up by its key, and closed whatever LARM says.
Reconcile(c) ==
  /\ ~up /\ Open(c) /\ Writes(c, "released") /\ UNCHANGED faults
  /\ IF noted[c] THEN Becomes(c, "ended") ELSE Release0(c)
  /\ UNCHANGED <<noted, revision, call, closed, up, age>>
ReconcileFails(c) ==
  /\ ~up /\ Open(c) /\ Lost
  /\ MayEnd(c)
  /\ IF noted[c] THEN UNCHANGED row ELSE Writes(c, "released")
  /\ UNCHANGED <<noted, revision, call, closed, up, age>>

\* The reconciliation may be cut by its own limit of time: the start goes on.
Serve == ~up /\ up' = TRUE /\ UNCHANGED <<row, noted, lease, revision, call, closed, age, faults>>

Ages ==
  /\ age < 2 /\ age' = age + 1
  /\ UNCHANGED <<row, noted, lease, revision, call, closed, up, faults>>

\* LARM, on its own account.
Grant(c) ==
  /\ lease[c] = "coming" /\ \E end \in {"held", "none"} : Becomes(c, end)
  /\ UNCHANGED <<row, noted, revision, call, closed, up, age, faults>>
Lapse(c) ==
  /\ lease[c] = "held" /\ Becomes(c, "ended")
  /\ UNCHANGED <<row, noted, revision, call, closed, up, age, faults>>
LateRenewal(c) ==
  /\ call[c].flying /\ lease[c] = "held" /\ revision[c] < MaxRevision
  /\ revision' = [revision EXCEPT ![c] = @ + 1] /\ call' = [call EXCEPT ![c].flying = FALSE]
  /\ UNCHANGED <<row, noted, lease, closed, up, age, faults>>

LarmNext ==
  \/ \E c \in Calls :
       \/ Request(c) \/ ResolveFails(c) \/ LaunchProfile(c) \/ Create(c) \/ CreateUnanswered(c)
       \/ CreateRefused(c) \/ WaitForJob(c) \/ ExchangeFails(c) \/ ReadLease(c)
       \/ GiveUp(c) \/ WriteFailed(c) \/ WriteActive(c)
       \/ GetEndpoint(c) \/ Renew(c) \/ RenewUnanswered(c) \/ LeaveUse(c)
       \/ ReleaseLease(c) \/ ReleaseFails(c) \/ Reread(c) \/ WriteReleased(c)
       \/ CancelCall(c) \/ ClientClosed(c) \/ Reconcile(c) \/ ReconcileFails(c)
       \/ Grant(c) \/ Lapse(c) \/ LateRenewal(c)
  \/ Discover \/ Reload \/ Crash \/ Serve \/ Ages

LarmSpec == LarmInit /\ [][LarmNext]_larmVars
=============================================================================
