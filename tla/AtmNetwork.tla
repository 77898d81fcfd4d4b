----------------------------- MODULE AtmNetwork -----------------------------
(***************************************************************************)
(* The network of ATMs: what each is said to be and when it was last said  *)
(* (atms/atm.service.ts and its routes).  Citizens report behind the       *)
(* limiter, staff without it, and the platform's operators register, edit  *)
(* and delete machines.  The operators' writes are one row at a time, and  *)
(* so is a step here; a report is a member of Reporters: it looks the      *)
(* machine up, inserts its row and then updates the machine in the same    *)
(* transaction.                                                            *)
(***************************************************************************)
EXTENDS RateLimit

CONSTANTS Reporters,
          Atms,
          AtmStatuses,    \* among them "UNKNOWN"
          Freshness,      \* ATM_FRESHNESS_MS
          MaxReports      \* bound: requests ever made

ASSUME AtmConstants ==
  /\ "UNKNOWN" \in AtmStatuses
  /\ Freshness \in Nat /\ MaxReports \in Nat

VARIABLES atm,        \* rows of `atms`
          said,       \* who said what when: what reports and operators gave as a status
          report,     \* each report: where it is and its local variables
          reported    \* requests made so far

atmVars == <<atm, said, report, reported>>

NoAtm == [there |-> FALSE, active |-> FALSE, status |-> "UNKNOWN", lastReportedAt |-> 0]
NoReport == [pc |-> "idle", atm |-> "none", status |-> "UNKNOWN", at |-> 0]

AtmInit ==
  /\ atm = [a \in Atms |-> NoAtm]
  /\ said = {}
  /\ report = [r \in Reporters |-> NoReport]
  /\ reported = 0

\* serializeAtm: a status that is too old counts for nothing.
effectiveStatus(a) ==
  IF now - atm[a].lastReportedAt <= Freshness THEN atm[a].status ELSE "UNKNOWN"

AtmRequest == reported < MaxReports /\ reported' = reported + 1

\* The status the operator gives is the newest word on the machine.
OperatorSays(a, status) == said' = said \cup {<<a, status, now>>}

-----------------------------------------------------------------------------
\* createAtm: an id is used once.
CreateAtm(a, status) ==
  /\ AtmRequest
  /\ ~atm[a].there /\ \A word \in said : word[1] # a
  /\ atm' = [atm EXCEPT ![a] = [there |-> TRUE, active |-> TRUE, status |-> status,
                                lastReportedAt |-> now]]
  /\ OperatorSays(a, status)
  /\ UNCHANGED <<limiterVars, report>>

\* Any edit counts as a report of the status.
Stamping_Edited(row, active) == [row EXCEPT !.active = active, !.lastReportedAt = now]

\* An edit without a status leaves the status and its age.
Edited(row, active) == [row EXCEPT !.active = active]

\* updateAtm: shows or hides the machine or edits its description, or gives a status too.
UpdateAtm(a, active) ==
  /\ AtmRequest
  /\ atm[a].there
  /\ \/ /\ atm' = [atm EXCEPT ![a] = Edited(@, active)]
        /\ UNCHANGED said
     \/ \E status \in AtmStatuses :
          /\ atm' = [atm EXCEPT ![a] = [Edited(@, active) EXCEPT !.status = status,
                                                                 !.lastReportedAt = now]]
          /\ OperatorSays(a, status)
  /\ UNCHANGED <<limiterVars, report>>

\* deleteAtm, with its reports; it waits for a report that has inserted its row.
DeleteAtm(a) ==
  /\ AtmRequest
  /\ atm[a].there
  /\ \A r \in Reporters : ~(report[r].pc = "inserted" /\ report[r].atm = a)
  /\ atm' = [atm EXCEPT ![a] = NoAtm]
  /\ UNCHANGED <<limiterVars, said, report>>

-----------------------------------------------------------------------------
ReportKey == <<"atm-report", "ip">>

\* The public route counts the request first; both find the machine in service.
StartReport(r, a, status) ==
  /\ report[r].pc = "idle"
  /\ AtmRequest
  /\ atm[a].active
  /\ report' = [report EXCEPT ![r] = 
       [NoReport EXCEPT !.pc = "found", !.atm = a, !.status = status, !.at = now]]
  /\ UNCHANGED <<atm, said>>

submitStaffReport(r, a, status) == StartReport(r, a, status) /\ UNCHANGED limiterVars

submitCommunityReport(r, a, status) ==
  \/ /\ StartReport(r, a, status)
     /\ Consume(ReportKey, now)
     /\ isAllowed(ReportKey, Counted(ReportKey, windowStart(ReportKey, now))[ReportKey]
                                     [windowStart(ReportKey, now)])
  \/ /\ AtmRequest
     /\ Consume(ReportKey, now)
     /\ UNCHANGED <<atm, said, report>>

\* applyReport: the row of the report, which needs the machine ...
InsertReport(r) ==
  LET a == report[r].atm IN
  /\ report[r].pc = "found"
  /\ IF atm[a].there
     THEN report' = [report EXCEPT ![r].pc = "inserted"]
     ELSE report' = [report EXCEPT ![r] = NoReport]
  /\ UNCHANGED <<limiterVars, atm, said, reported>>

\* ... and, in the same transaction, what the machine is.
CommitReport(r) ==
  LET a == report[r].atm IN
  /\ report[r].pc = "inserted"
  /\ atm' = [atm EXCEPT ![a].status = report[r].status, ![a].lastReportedAt = report[r].at]
  /\ said' = said \cup {<<a, report[r].status, now>>}
  /\ report' = [report EXCEPT ![r] = NoReport]
  /\ UNCHANGED <<limiterVars, reported>>

\* The request ends before the commit: nothing of it stays.
AbortReport(r) ==
  /\ report[r].pc # "idle"
  /\ report' = [report EXCEPT ![r] = NoReport]
  /\ UNCHANGED <<limiterVars, atm, said, reported>>

AtmNext ==
  \/ \E a \in Atms, status \in AtmStatuses : CreateAtm(a, status)
  \/ \E a \in Atms, active \in BOOLEAN : UpdateAtm(a, active)
  \/ \E a \in Atms : DeleteAtm(a)
  \/ \E r \in Reporters, a \in Atms, status \in AtmStatuses :
       submitStaffReport(r, a, status) \/ submitCommunityReport(r, a, status)
  \/ \E r \in Reporters : InsertReport(r) \/ CommitReport(r) \/ AbortReport(r)

-----------------------------------------------------------------------------
AtmTypeOK ==
  /\ atm \in [Atms -> [there : BOOLEAN, active : BOOLEAN, status : AtmStatuses,
                       lastReportedAt : Times]]
  /\ said \subseteq Atms \X AtmStatuses \X Times
  /\ \A r \in Reporters :
       /\ report[r].pc \in {"idle", "found", "inserted"}
       /\ report[r].atm \in Atms \cup {"none"}
  /\ reported \in 0..MaxReports

\* Nothing is invented: a machine is shown with cash, or without, only if a report or an
\* operator said so not longer ago than a report is fresh (atm.service.ts:9-11, 50-51).
ShownWasSaid ==
  \A a \in Atms : atm[a].there /\ effectiveStatus(a) # "UNKNOWN" =>
    \E t \in (now - Freshness)..now : <<a, effectiveStatus(a), t>> \in said
=============================================================================
