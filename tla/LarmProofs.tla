----------------------------- MODULE LarmProofs -----------------------------
(***************************************************************************)
(* The journal of leases keeps the book: a proof that every behaviour of   *)
(* LarmLeases is one of LeaseBook, for any set of calls, any number of     *)
(* lost exchanges and any number of renewals.                              *)
(*                                                                         *)
(* The book says nothing of where a call is; the invariant does.  It       *)
(* ties the place of each call to its row, and the row to what LARM has:   *)
(* a call that asks is written down and unserved, one that uses or         *)
(* releases has its row active, one that closes has nothing left in LARM,  *)
(* and LARM knows only calls that were written down.                       *)
(***************************************************************************)
EXTENDS LarmProperties, TLAPS

RowFollowsCall(c) ==
  /\ call[c].pc = "idle" => row[c] = "none" /\ ~noted[c]
  /\ call[c].pc \in Asking => row[c] = "requested" /\ ~noted[c]
  /\ call[c].pc \in Using \cup Releasing => row[c] = "active"
  /\ ~up => call[c].pc \in {"idle", "done"}

LarmFollowsRow(c) ==
  /\ call[c].pc = "close" => lease[c] = "ended"
  /\ lease[c] # "none" => row[c] # "none"

\* The inductive invariant.
LarmInvariant ==
  /\ LarmTypeOK
  /\ \A c \in Calls : RowFollowsCall(c) /\ LarmFollowsRow(c)

-----------------------------------------------------------------------------
(* What an action makes of the record of its call.                         *)

LEMMA Places ==
  {"done", "create", "release", "reread", "release2", "close", "pending"} \subseteq CallPlaces
BY DEF CallPlaces, Asking, Using, Releasing

LEMMA RecordChanges ==
  ASSUME NEW r \in CallRecords, NEW pc \in CallPlaces, NEW k \in Int, NEW b \in BOOLEAN
  PROVE  /\ [r EXCEPT !.pc = pc] \in CallRecords
         /\ [r EXCEPT !.pc = pc, !.flying = b] \in CallRecords
         /\ [r EXCEPT !.pc = pc, !.known = k] \in CallRecords
         /\ [r EXCEPT !.flying = b] \in CallRecords
BY DEF CallRecords

LEMMA CallKeepsType ==
  ASSUME LarmTypeOK, NEW c \in Calls,
         LaunchProfile(c) \/ CreateRefused(c) \/ LeaveUse(c) \/ ReleaseLease(c) \/ Reread(c) \/ LateRenewal(c)
  PROVE  call' \in [Calls -> CallRecords]
<1>1. call \in [Calls -> CallRecords] /\ call[c] \in CallRecords /\ revision[c] \in Int
  BY DEF LarmTypeOK
<1>2. ASSUME NEW r \in CallRecords, call' = [call EXCEPT ![c] = r]
      PROVE  call' \in [Calls -> CallRecords]
  BY <1>1, <1>2
<1>3. ASSUME NEW pc \in CallPlaces, Goes(c, pc) PROVE call' \in [Calls -> CallRecords]
  <2>1. [call[c] EXCEPT !.pc = pc] \in CallRecords
    BY <1>1, RecordChanges
  <2>2. call' = [call EXCEPT ![c] = [call[c] EXCEPT !.pc = pc]]
    BY <1>3 DEF Goes
  <2> QED
    BY <2>1, <2>2, <1>2
<1>4. CASE LaunchProfile(c)
  BY <1>3, <1>4, Places DEF LaunchProfile
<1>5. CASE ReleaseLease(c)
  BY <1>3, <1>5, Places DEF ReleaseLease
<1>6. CASE LeaveUse(c)
  <2>1. PICK late \in BOOLEAN :
          call' = [call EXCEPT ![c] = [call[c] EXCEPT !.pc = "release", !.flying = late]]
    BY <1>6 DEF LeaveUse
  <2>2. [call[c] EXCEPT !.pc = "release", !.flying = late] \in CallRecords
    BY <1>1, RecordChanges, Places
  <2> QED
    BY <2>1, <2>2, <1>2
<1>7. CASE Reread(c)
  <2>1. call' = [call EXCEPT ![c] = [call[c] EXCEPT !.pc = "release2", !.known = revision[c]]]
    BY <1>7 DEF Reread
  <2>2. [call[c] EXCEPT !.pc = "release2", !.known = revision[c]] \in CallRecords
    BY <1>1, RecordChanges, Places
  <2> QED
    BY <2>1, <2>2, <1>2
<1>8. CASE LateRenewal(c)
  <2>1. call' = [call EXCEPT ![c] = [call[c] EXCEPT !.flying = FALSE]]
    BY <1>8 DEF LateRenewal
  <2>2. [call[c] EXCEPT !.flying = FALSE] \in CallRecords
    BY <1>1, RecordChanges, Places
  <2> QED
    BY <2>1, <2>2, <1>2
<1>9. CASE CreateRefused(c)
  BY <1>3, <1>9, Places DEF CreateRefused
<1> QED
  BY <1>4, <1>5, <1>6, <1>7, <1>8, <1>9

LEMMA CrashKeepsType ==
  ASSUME LarmTypeOK, Crash
  PROVE  LarmTypeOK'
<1>1. \A c \in Calls : call[c] \in CallRecords /\ [call[c] EXCEPT !.pc = "done"] \in CallRecords
  BY RecordChanges, Places DEF LarmTypeOK
<1>2. call' \in [Calls -> CallRecords]
  BY <1>1 DEF Crash
<1>3. age' = 2
  BY DEF Crash
<1>4. up' \in BOOLEAN
  BY DEF Crash
<1>5. UNCHANGED <<row, noted, lease, revision, closed, faults>>
  BY DEF Crash
<1> QED
  BY <1>2, <1>3, <1>4, <1>5 DEF LarmTypeOK

-----------------------------------------------------------------------------
(* The invariant holds.                                                     *)

LEMMA InitInvariant == LarmInit => LarmInvariant
BY DEF LarmInit, LarmInvariant, LarmTypeOK, RowFollowsCall, LarmFollowsRow, RowStates,
       CallPlaces, CallRecords, Asking, Using, Releasing

LEMMA NextInvariant ==
  ASSUME LarmInvariant, [LarmNext]_larmVars
  PROVE  LarmInvariant'
<1> USE DEF LarmInvariant, LarmTypeOK, RowFollowsCall, LarmFollowsRow, RowStates,
            CallPlaces, CallRecords, Asking, Using, Releasing, At, Asks,
            Goes, Writes, Becomes
<1>1. ASSUME NEW c \in Calls, Request(c) PROVE LarmInvariant'
  <2>1. LarmTypeOK'
    BY <1>1 DEF Request, ReadsCatalog, Listed, Lost
  <2>2. ASSUME NEW d \in Calls PROVE RowFollowsCall(d)' /\ LarmFollowsRow(d)'
    <3>1. row'[d] = IF d = c THEN "requested" ELSE row[d]
      BY <1>1 DEF Request
    <3>2. call'[d].pc = IF d = c THEN "profile" ELSE call[d].pc
      BY <1>1 DEF Request
    <3>3. UNCHANGED <<noted, lease, up>> /\ up /\ call[c].pc = "idle"
      BY <1>1 DEF Request
    <3> QED
      BY <3>1, <3>2, <3>3
  <2> QED
    BY <2>1, <2>2
<1>2. ASSUME NEW c \in Calls, ResolveFails(c) PROVE LarmInvariant'
  BY <1>2 DEF ResolveFails, ReadsCatalog, Lost
<1>3. ASSUME NEW c \in Calls, LaunchProfile(c) PROVE LarmInvariant'
  <2>1. LarmTypeOK'
    <3>1. call' \in [Calls -> CallRecords]
      BY <1>3, CallKeepsType
    <3> QED
      BY <1>3, <3>1 DEF LaunchProfile
  <2>2. ASSUME NEW d \in Calls PROVE RowFollowsCall(d)' /\ LarmFollowsRow(d)'
    BY <1>3, <2>1 DEF LaunchProfile
  <2> QED
    BY <2>1, <2>2
<1>4. ASSUME NEW c \in Calls, Create(c) PROVE LarmInvariant'
  BY <1>4 DEF Create, Admitted
<1>5. ASSUME NEW c \in Calls, CreateUnanswered(c) PROVE LarmInvariant'
  BY <1>5 DEF CreateUnanswered, Admitted, Unanswered, Lost
<1>6. ASSUME NEW c \in Calls, CreateRefused(c) PROVE LarmInvariant'
  <2>1. LarmTypeOK'
    <3>1. call' \in [Calls -> CallRecords]
      BY <1>6, CallKeepsType
    <3>2. row' \in [Calls -> RowStates]
      BY <1>6 DEF CreateRefused
    <3>3. UNCHANGED <<noted, lease, revision, closed, up, age, faults>>
      BY <1>6 DEF CreateRefused
    <3> QED
      BY <3>1, <3>2, <3>3
  <2>2. ASSUME NEW d \in Calls PROVE RowFollowsCall(d)' /\ LarmFollowsRow(d)'
    BY <1>6 DEF CreateRefused
  <2> QED
    BY <2>1, <2>2
<1>7. ASSUME NEW c \in Calls, WaitForJob(c) PROVE LarmInvariant'
  BY <1>7 DEF WaitForJob
<1>8. ASSUME NEW c \in Calls, ExchangeFails(c) PROVE LarmInvariant'
  BY <1>8 DEF ExchangeFails, Lost
<1>9. ASSUME NEW c \in Calls, ReadLease(c) PROVE LarmInvariant'
  BY <1>9 DEF ReadLease
<1>10. ASSUME NEW c \in Calls, GiveUp(c) PROVE LarmInvariant'
  <2>1. LarmTypeOK'
    <3>1. lease' \in [Calls -> {"none", "coming", "held", "ended"}]
      BY <1>10 DEF GiveUp, Release0, Swept, MayEnd
    <3>2. faults' \in Int
      BY <1>10 DEF GiveUp, Lost
    <3>3. UNCHANGED <<row, noted, revision, closed, up, age>> /\ Goes(c, "fail")
      BY <1>10 DEF GiveUp
    <3> QED
      BY <3>1, <3>2, <3>3
  <2>2. ASSUME NEW d \in Calls PROVE RowFollowsCall(d)' /\ LarmFollowsRow(d)'
    BY <1>10, <2>1 DEF GiveUp, Release0, Swept, MayEnd, Lost
  <2> QED
    BY <2>1, <2>2
<1>11. ASSUME NEW c \in Calls, WriteFailed(c) PROVE LarmInvariant'
  BY <1>11 DEF WriteFailed
<1>12. ASSUME NEW c \in Calls, WriteActive(c) PROVE LarmInvariant'
  BY <1>12 DEF WriteActive, Effective
<1>13. ASSUME NEW c \in Calls, GetEndpoint(c) PROVE LarmInvariant'
  BY <1>13 DEF GetEndpoint
<1>14. ASSUME NEW c \in Calls, Renew(c) PROVE LarmInvariant'
  BY <1>14 DEF Renew, Renewed
<1>15. ASSUME NEW c \in Calls, RenewUnanswered(c) PROVE LarmInvariant'
  BY <1>15 DEF RenewUnanswered, Renewed, Lost
<1>16. ASSUME NEW c \in Calls, LeaveUse(c) PROVE LarmInvariant'
  <2>1. LarmTypeOK'
    <3>1. call' \in [Calls -> CallRecords]
      BY <1>16, CallKeepsType
    <3> QED
      BY <1>16, <3>1 DEF LeaveUse
  <2>2. ASSUME NEW d \in Calls PROVE RowFollowsCall(d)' /\ LarmFollowsRow(d)'
    BY <1>16, <2>1 DEF LeaveUse
  <2> QED
    BY <2>1, <2>2
<1>17. ASSUME NEW c \in Calls, ReleaseLease(c) PROVE LarmInvariant'
  <2>1. LarmTypeOK'
    <3>1. call' \in [Calls -> CallRecords]
      BY <1>17, CallKeepsType
    <3> QED
      BY <1>17, <3>1 DEF ReleaseLease
  <2>2. ASSUME NEW d \in Calls PROVE RowFollowsCall(d)' /\ LarmFollowsRow(d)'
    BY <1>17, <2>1 DEF ReleaseLease
  <2> QED
    BY <2>1, <2>2
<1>18. ASSUME NEW c \in Calls, ReleaseFails(c) PROVE LarmInvariant'
  BY <1>18 DEF ReleaseFails, MayEnd, Lost
<1>19. ASSUME NEW c \in Calls, Reread(c) PROVE LarmInvariant'
  <2>1. LarmTypeOK'
    <3>1. call' \in [Calls -> CallRecords]
      BY <1>19, CallKeepsType
    <3> QED
      BY <1>19, <3>1 DEF Reread
  <2>2. ASSUME NEW d \in Calls PROVE RowFollowsCall(d)' /\ LarmFollowsRow(d)'
    BY <1>19, <2>1 DEF Reread
  <2> QED
    BY <2>1, <2>2
<1>20. ASSUME NEW c \in Calls, WriteReleased(c) PROVE LarmInvariant'
  BY <1>20 DEF WriteReleased, ClosedAs
<1>21. ASSUME NEW c \in Calls, CancelCall(c) PROVE LarmInvariant'
  BY <1>21 DEF CancelCall, Admitted
<1>22. ASSUME NEW c \in Calls, ClientClosed(c) PROVE LarmInvariant'
  BY <1>22 DEF ClientClosed
<1>23. ASSUME NEW c \in Calls, Reconcile(c) PROVE LarmInvariant'
  BY <1>23 DEF Reconcile, Release0, Swept, Open
<1>24. ASSUME NEW c \in Calls, ReconcileFails(c) PROVE LarmInvariant'
  BY <1>24 DEF ReconcileFails, Lost, MayEnd, Open
<1>25. ASSUME NEW c \in Calls, Grant(c) PROVE LarmInvariant'
  BY <1>25 DEF Grant
<1>26. ASSUME NEW c \in Calls, Lapse(c) PROVE LarmInvariant'
  BY <1>26 DEF Lapse
<1>27. ASSUME NEW c \in Calls, LateRenewal(c) PROVE LarmInvariant'
  <2>1. LarmTypeOK'
    <3>1. call' \in [Calls -> CallRecords]
      BY <1>27, CallKeepsType
    <3> QED
      BY <1>27, <3>1 DEF LateRenewal
  <2>2. ASSUME NEW d \in Calls PROVE RowFollowsCall(d)' /\ LarmFollowsRow(d)'
    BY <1>27, <2>1 DEF LateRenewal
  <2> QED
    BY <2>1, <2>2
<1>28. CASE Discover
  BY <1>28 DEF Discover
<1>29. CASE Reload
  BY <1>29 DEF Reload
<1>30. CASE Crash
  <2>1. LarmTypeOK'
    BY <1>30, CrashKeepsType
  <2>2. ASSUME NEW d \in Calls PROVE RowFollowsCall(d)' /\ LarmFollowsRow(d)'
    BY <1>30, <2>1 DEF Crash
  <2> QED
    BY <2>1, <2>2
<1>31. CASE Serve
  BY <1>31 DEF Serve
<1>32. CASE Ages
  BY <1>32 DEF Ages
<1>33. CASE UNCHANGED larmVars
  BY <1>33 DEF larmVars
<1> QED
  BY <1>1, <1>2, <1>3, <1>4, <1>5, <1>6, <1>7, <1>8, <1>9, <1>10, <1>11, <1>12, <1>13, <1>14, <1>15, <1>16, <1>17, <1>18, <1>19, <1>20, <1>21, <1>22, <1>23, <1>24, <1>25, <1>26, <1>27, <1>28, <1>29, <1>30, <1>31, <1>32, <1>33 DEF LarmNext

-----------------------------------------------------------------------------
(* What the changes of one call mean in the book.                           *)

LEMMA NothingInTheBook ==
  ASSUME UNCHANGED <<row, noted, lease>>, LarmTypeOK'
  PROVE  Book!Next
<1>1. (age < 2)' \in BOOLEAN
  OBVIOUS
<1>2. Book!Offer
  BY DEF Book!Offer, Open
<1> QED
  BY <1>1, <1>2 DEF Book!Next

LEMMA Entering ==
  ASSUME LarmTypeOK, NEW c \in Calls, row[c] = "none", row' = [row EXCEPT ![c] = "requested"],
         UNCHANGED <<noted, lease>>, age' < 2
  PROVE  Book!Next
<1>1. Book!Enter(c)
  BY DEF Book!Enter, LarmTypeOK, RowStates, Open
<1> QED
  BY <1>1 DEF Book!Next

LEMMA Reserving ==
  ASSUME LarmTypeOK, NEW c \in Calls, row[c] # "none", UNCHANGED <<row, noted>>,
         NEW x \in {"none", "coming", "held", "ended"}, lease' = [lease EXCEPT ![c] = x]
  PROVE  Book!Next
<1>1. CASE x = "held"
  <2>1. Book!Reserve(c)
    BY <1>1 DEF Book!Reserve, LarmTypeOK, Open
  <2> QED
    BY <2>1 DEF Book!Next
<1>2. CASE x # "held"
  <2>1. Book!Free(c)
    BY <1>2 DEF Book!Free, LarmTypeOK, Open
  <2> QED
    BY <2>1 DEF Book!Next
<1> QED
  BY <1>1, <1>2

LEMMA Serving ==
  ASSUME LarmTypeOK, NEW c \in Calls, row[c] = "requested", row' = [row EXCEPT ![c] = "active"],
         noted' = [noted EXCEPT ![c] = TRUE], UNCHANGED lease
  PROVE  Book!Next
<1>1. Book!Serve(c)
  BY DEF Book!Serve, LarmTypeOK, Open
<1> QED
  BY <1>1 DEF Book!Next

\* The entry goes; what LARM holds goes with it, or the call was never served.
LEMMA Striking ==
  ASSUME LarmTypeOK, NEW c \in Calls, row[c] # "none",
         NEW s \in {"failed", "released"}, row' = [row EXCEPT ![c] = s], UNCHANGED noted,
         \/ lease' = lease /\ (noted[c] => lease[c] # "held")
         \/ \E x \in {"none", "coming", "ended"} : lease' = [lease EXCEPT ![c] = x]
  PROVE  Book!Next
<1>1. CASE lease' = lease /\ (noted[c] => lease[c] # "held")
  <2>1. Book!Strike(c)
    BY <1>1 DEF Book!Strike, LarmTypeOK, Open
  <2> QED
    BY <2>1 DEF Book!Next
<1>2. CASE \E x \in {"none", "coming", "ended"} : lease' = [lease EXCEPT ![c] = x]
  <2>1. Book!FreeAndStrike(c)
    BY <1>2 DEF Book!FreeAndStrike, LarmTypeOK, Open
  <2> QED
    BY <2>1 DEF Book!Next
<1> QED
  BY <1>1, <1>2

LEMMA StayingOpen ==
  ASSUME LarmTypeOK, NEW c \in Calls, row[c] = "active",
         row' = [row EXCEPT ![c] = "release_pending"], UNCHANGED <<noted, lease>>
  PROVE  Book!Next
<1>1. Book!Offer
  BY DEF Book!Offer, LarmTypeOK, Open
<1> QED
  BY <1>1 DEF Book!Next

-----------------------------------------------------------------------------
(* Every step of a call is a step of the book.                              *)

LEMMA NextKeepsBook ==
  ASSUME LarmInvariant, LarmInvariant', [LarmNext]_larmVars
  PROVE  [Book!Next]_Book!vars
<1>1. LarmTypeOK /\ LarmTypeOK' /\ \A c \in Calls : RowFollowsCall(c) /\ LarmFollowsRow(c)
  BY DEF LarmInvariant
<1>2. ASSUME UNCHANGED <<row, noted, lease>> PROVE Book!Next
  BY <1>1, <1>2, NothingInTheBook
<1>3. ASSUME NEW c \in Calls, Request(c) PROVE Book!Next
  <2>1. row[c] = "none"
    BY <1>1, <1>3 DEF Request, At, RowFollowsCall
  <2>2. row' = [row EXCEPT ![c] = "requested"] /\ UNCHANGED <<noted, lease>> /\ age' < 2
    BY <1>3 DEF Request, Writes, Listed
  <2> QED
    BY <1>1, <2>1, <2>2, Entering
<1>4. ASSUME NEW c \in Calls, LaunchProfile(c) PROVE Book!Next
  <2>1. row[c] = "requested" /\ ~noted[c]
    BY <1>1, <1>4 DEF LaunchProfile, Asks, At, RowFollowsCall, Asking
  <2>2. CASE Writes(c, "failed")
    BY <1>1, <1>4, <2>1, <2>2, Striking DEF LaunchProfile, Writes
  <2>3. CASE UNCHANGED row
    BY <1>2, <1>4, <2>3 DEF LaunchProfile
  <2> QED
    BY <1>4, <2>2, <2>3 DEF LaunchProfile
<1>5. ASSUME NEW c \in Calls, Create(c) \/ CreateUnanswered(c) PROVE Book!Next
  <2>1. row[c] = "requested"
    BY <1>1, <1>5 DEF Create, CreateUnanswered, Asks, At, RowFollowsCall, Asking
  <2>2. PICK x \in Admitted(c) \cup {lease[c]} : Becomes(c, x)
    BY <1>5 DEF Create, CreateUnanswered
  <2>3. x \in {"none", "coming", "held", "ended"}
    BY <1>1, <2>2 DEF Admitted, LarmTypeOK
  <2>4. UNCHANGED <<row, noted>>
    BY <1>5 DEF Create, CreateUnanswered
  <2> QED
    BY <1>1, <2>1, <2>2, <2>3, <2>4, Reserving DEF Becomes
<1>6. ASSUME NEW c \in Calls, CreateRefused(c) PROVE Book!Next
  <2>1. row[c] = "requested" /\ ~noted[c]
    BY <1>1, <1>6 DEF CreateRefused, Asks, At, RowFollowsCall, Asking
  <2>2. CASE Writes(c, "failed")
    BY <1>1, <1>6, <2>1, <2>2, Striking DEF CreateRefused, Writes
  <2>3. CASE UNCHANGED row
    BY <1>2, <1>6, <2>3 DEF CreateRefused
  <2> QED
    BY <1>6, <2>2, <2>3 DEF CreateRefused
<1>7. ASSUME NEW c \in Calls, GiveUp(c) PROVE Book!Next
  <2>1. row[c] = "requested" /\ UNCHANGED <<row, noted>>
    BY <1>1, <1>7 DEF GiveUp, Asks, At, RowFollowsCall, Asking
  <2>2. PICK x \in {"none", "coming", "held", "ended"} : lease' = [lease EXCEPT ![c] = x]
    BY <1>1, <1>7 DEF GiveUp, Release0, Swept, MayEnd, Becomes, LarmTypeOK
  <2> QED
    BY <1>1, <2>1, <2>2, Reserving
<1>8. ASSUME NEW c \in Calls, WriteFailed(c) PROVE Book!Next
  <2>1. row[c] = "requested" /\ ~noted[c]
    BY <1>1, <1>8 DEF WriteFailed, At, RowFollowsCall, Asking
  <2> QED
    BY <1>1, <1>8, <2>1, Striking DEF WriteFailed, Writes
<1>9. ASSUME NEW c \in Calls, WriteActive(c) PROVE Book!Next
  <2>1. row[c] = "requested"
    BY <1>1, <1>9 DEF WriteActive, At, RowFollowsCall, Asking
  <2> QED
    BY <1>1, <1>9, <2>1, Serving DEF WriteActive, Writes
<1>10. ASSUME NEW c \in Calls, ReleaseLease(c) \/ ReleaseFails(c) PROVE Book!Next
  <2>1. row[c] = "active" /\ UNCHANGED <<row, noted>>
    BY <1>1, <1>10 DEF ReleaseLease, ReleaseFails, Asks, At, RowFollowsCall, Releasing
  <2>2. CASE UNCHANGED lease
    BY <1>2, <2>1, <2>2
  <2>3. CASE \E x \in {"none", "coming", "held", "ended"} : lease' = [lease EXCEPT ![c] = x]
    BY <1>1, <2>1, <2>3, Reserving
  <2>4. lease[c] \in {"none", "coming", "held", "ended"}
    BY <1>1 DEF LarmTypeOK
  <2> QED
    BY <1>10, <2>2, <2>3, <2>4 DEF ReleaseLease, ReleaseFails, MayEnd, Becomes
<1>11. ASSUME NEW c \in Calls, WriteReleased(c) PROVE Book!Next
  <2>1. row[c] = "active" /\ UNCHANGED <<noted, lease>>
    BY <1>1, <1>11 DEF WriteReleased, At, RowFollowsCall, Releasing
  <2>2. CASE call[c].pc = "close"
    <3>1. lease[c] = "ended" /\ row' = [row EXCEPT ![c] = "released"]
      BY <1>1, <1>11, <2>2 DEF WriteReleased, LarmFollowsRow, ClosedAs, Writes
    <3> QED
      BY <1>1, <2>1, <3>1, Striking
  <2>3. CASE call[c].pc # "close"
    BY <1>1, <1>11, <2>1, <2>3, StayingOpen DEF WriteReleased, ClosedAs, Writes
  <2> QED
    BY <2>2, <2>3
<1>12. ASSUME NEW c \in Calls, CancelCall(c) PROVE Book!Next
  <2>1. row[c] # "none" /\ UNCHANGED <<row, noted>>
    BY <1>1, <1>12 DEF CancelCall, At, RowFollowsCall
  <2>2. PICK x \in {"none", "coming", "held", "ended"} : lease' = [lease EXCEPT ![c] = x]
    BY <1>1, <1>12 DEF CancelCall, Admitted, Becomes, LarmTypeOK
  <2> QED
    BY <1>1, <2>1, <2>2, Reserving
<1>13. ASSUME NEW c \in Calls, Reconcile(c) PROVE Book!Next
  <2>1. row[c] # "none" /\ row' = [row EXCEPT ![c] = "released"] /\ UNCHANGED noted
    BY <1>13 DEF Reconcile, Open, Writes
  <2>2. \E x \in {"none", "coming", "ended"} : lease' = [lease EXCEPT ![c] = x]
    BY <1>13 DEF Reconcile, Release0, Swept, Becomes
  <2> QED
    BY <1>1, <2>1, <2>2, Striking
<1>14. ASSUME NEW c \in Calls, ReconcileFails(c) PROVE Book!Next
  <2>1. row[c] # "none" /\ UNCHANGED noted
    BY <1>14 DEF ReconcileFails, Open
  <2>2. PICK x \in {"none", "coming", "held", "ended"} :
          lease' = [lease EXCEPT ![c] = x] /\ (x = lease[c] \/ x = "ended")
    BY <1>1, <1>14 DEF ReconcileFails, MayEnd, Becomes, LarmTypeOK
  <2>3. CASE noted[c]
    BY <1>1, <1>14, <2>1, <2>2, <2>3, Reserving DEF ReconcileFails
  <2>4. CASE ~noted[c]
    <3>1. row' = [row EXCEPT ![c] = "released"]
      BY <1>14, <2>4 DEF ReconcileFails, Writes
    <3>2. lease' = lease \/ x = "ended"
      BY <1>1, <2>2 DEF LarmTypeOK
    <3> QED
      BY <1>1, <2>1, <2>2, <2>4, <3>1, <3>2, Striking
  <2> QED
    BY <2>3, <2>4
<1>15. ASSUME NEW c \in Calls, Grant(c) \/ Lapse(c) PROVE Book!Next
  <2>1. row[c] # "none" /\ UNCHANGED <<row, noted>>
    BY <1>1, <1>15 DEF Grant, Lapse, LarmFollowsRow
  <2>2. PICK x \in {"none", "coming", "held", "ended"} : lease' = [lease EXCEPT ![c] = x]
    BY <1>15 DEF Grant, Lapse, Becomes
  <2> QED
    BY <1>1, <2>1, <2>2, Reserving
<1>16. ASSUME NEW c \in Calls,
              \/ ResolveFails(c) \/ WaitForJob(c) \/ ExchangeFails(c) \/ ReadLease(c)
              \/ GetEndpoint(c) \/ Renew(c) \/ RenewUnanswered(c) \/ LeaveUse(c)
              \/ Reread(c) \/ ClientClosed(c) \/ LateRenewal(c)
       PROVE  Book!Next
  BY <1>2, <1>16 DEF ResolveFails, WaitForJob, ExchangeFails, ReadLease, GetEndpoint, Renew,
                     RenewUnanswered, LeaveUse, Reread, ClientClosed, LateRenewal
<1>17. CASE Discover \/ Reload \/ Crash \/ Serve \/ Ages
  BY <1>2, <1>17 DEF Discover, Reload, Crash, Serve, Ages
<1>18. CASE UNCHANGED larmVars
  BY <1>18 DEF larmVars, Book!vars, Open
<1> QED
  BY <1>3, <1>4, <1>5, <1>6, <1>7, <1>8, <1>9, <1>10, <1>11, <1>12, <1>13, <1>14, <1>15,
     <1>16, <1>17, <1>18 DEF LarmNext

\* The types of the journal, of LARM and of the calls, for any number of calls.
THEOREM LarmTypesHold == LarmSpec => []LarmTypeOK
<1>1. LarmInvariant => LarmTypeOK
  BY DEF LarmInvariant
<1> QED
  BY <1>1, InitInvariant, NextInvariant, PTL DEF LarmSpec

\* The invariant: each call stands where its row says, and LARM knows only what the
\* journal was told first.
THEOREM LarmInvariantHolds == LarmSpec => []LarmInvariant
BY InitInvariant, NextInvariant, PTL DEF LarmSpec

\* The leases implement the book: no call is reserved memory before it is written down,
\* none is served without an open row, and no row of a served call is closed while LARM
\* still holds its lease, whatever is lost, cancelled, reloaded or killed.
THEOREM LeasesKeepTheBook == LarmSpec => BookIsKept
<1>1. LarmInit => Book!Init
  BY DEF LarmInit, Book!Init, Open
<1> QED
  BY <1>1, LarmInvariantHolds, NextKeepsBook, PTL DEF LarmSpec, BookIsKept, Book!Spec
=============================================================================
