--------------------------- MODULE Organizations ---------------------------
(***************************************************************************)
(* Organizations, their branches, queues and counters, and the operator of *)
(* the platform (organizations/{organization,self-registration,branch,     *)
(* counter}.service.ts, createQueue of queues/queue.service.ts,            *)
(* platform/organization-admin.service.ts), with their members.            *)
(***************************************************************************)
EXTENDS Memberships

\* selfRegisterOrganization: one transaction makes the manager's account, the organization,
\* its documents, its trial, the session and the audit row.
SelfRegister(o, u) ==
  /\ "selfRegister" \in begun.asks /\ org[o] = NoOrg
  /\ role[u] = "CUSTOMER" /\ \A i \in MemberIds : member[i].user # u
  /\ \E i \in MemberIds : NextId(i) /\ member' = [member EXCEPT ![i] = FounderOf(o, u)]
  /\ org' = [org EXCEPT ![o] = Founded]
  /\ role' = [role EXCEPT ![u] = "MANAGER"]
  /\ UNCHANGED <<branches, counters, queues, handler, requests, begun, ghostVars>>

\* createOrganization by the operator: nobody is its manager ...
CreateOrganization(h, o) ==
  /\ At(h, "idle") /\ "createOrganization" \in begun.asks /\ requests < MaxRequests
  /\ org[o] = NoOrg
  /\ org' = [org EXCEPT ![o] = [NoOrg EXCEPT !.status = "ACTIVE"]]
  /\ requests' = requests + 1
  /\ handler' = [handler EXCEPT ![h] =
       [Idle EXCEPT !.pc = "trial", !.op = "createOrganization", !.org = o]]
  /\ UNCHANGED <<branches, counters, queues, member, role, begun, ghostVars>>

\* ... and the trial is attached afterwards, if there is a plan for it.
AttachTrialSubscription(h) ==
  LET o == handler[h].org IN
  /\ At(h, "trial")
  /\ \/ UNCHANGED org
     \/ There(o) /\ org[o].subscription = "none"
        /\ org' = [org EXCEPT ![o].subscription = "operational"]
  /\ Finish(h)
  /\ UNCHANGED <<branches, counters, queues, member, role, requests, begun, ghostVars>>

\* setOrganizationStatus and setOrganizationStatusAdmin.
SetOrganizationStatus(o, status) ==
  /\ "setStatus" \in begun.asks /\ There(o)
  /\ org' = [org EXCEPT ![o].status = status]
  /\ UNCHANGED <<branches, counters, queues, member, role, handler, requests, begun, ghostVars>>

\* Billing: the period ends, or a transaction succeeds and the organization is operational.
Bill(o) ==
  /\ "bill" \in begun.asks /\ There(o)
  /\ \/ org[o].subscription = "operational" /\ org' = [org EXCEPT ![o].subscription = "ended"]
     \/ org[o].paid < 2 /\ org' = [org EXCEPT ![o].subscription = "operational", ![o].paid = @ + 1]
  /\ UNCHANGED <<branches, counters, queues, member, role, handler, requests, begun, ghostVars>>

-----------------------------------------------------------------------------
\* createBranch and createQueue: what the plan leaves room for is counted ...
StartCreateBranch(h, b) ==
  Manage(h, "createBranch", b[1],
    [Idle EXCEPT !.pc = "check", !.op = "createBranch", !.org = b[1], !.branch = b])

StartCreateQueue(h, q) ==
  /\ q[1] \in branches
  /\ \E u \in Users : /\ assertManagerOfOrganization(u, q[1][1])
                      /\ assertBranchAccess(u, q[1][1], q[1])
  /\ Manage(h, "createQueue", q[1][1],
       [Idle EXCEPT !.pc = "check", !.op = "createQueue", !.org = q[1][1], !.queue = q])

CheckQuota(h) ==
  LET r == handler[h] IN
  /\ At(h, "check") /\ r.op \in {"createBranch", "createQueue"}
  /\ IF IF r.op = "createBranch" THEN assertCanCreateBranch(r.org) ELSE assertCanCreateQueue(r.queue[1])
     THEN handler' = [handler EXCEPT ![h].pc = "write"]
     ELSE Finish(h)
  /\ UNCHANGED <<rowVars, requests, begun, ghostVars>>

\* ... and the row is inserted, which its foreign keys and unique names may refuse; a
\* queue's code is drawn again while it is taken.
Loose_CreateBranch(h) ==
  LET r == handler[h] IN
  /\ At(h, "write") /\ r.op = "createBranch"
  /\ branches' = branches \cup {r.branch}
  /\ Finish(h)
  /\ UNCHANGED <<org, counters, queues, member, role, requests, begun, ghostVars>>

CreateBranch(h) ==
  LET r == handler[h] IN
  /\ At(h, "write") /\ r.op = "createBranch"
  /\ There(r.org) /\ r.branch \notin branches
  /\ branches' = branches \cup {r.branch}
  /\ Finish(h)
  /\ UNCHANGED <<org, counters, queues, member, role, requests, begun, ghostVars>>

CreateQueue(h) ==
  LET r == handler[h] IN
  /\ At(h, "write") /\ r.op = "createQueue"
  /\ r.queue[1] \in branches /\ r.queue \notin queues
  /\ queues' = queues \cup {r.queue}
  /\ Finish(h)
  /\ UNCHANGED <<org, branches, counters, member, role, requests, begun, ghostVars>>

\* createCounter: its branch is looked up, and only goes away with the organization.
CreateCounter(c) ==
  /\ "createCounter" \in begun.asks
  /\ \E u \in Users : assertManagerOfOrganization(u, c[1][1])
  /\ c[1] \in branches /\ c \notin counters
  /\ counters' = counters \cup {c}
  /\ UNCHANGED <<org, branches, queues, member, role, handler, requests, begun, ghostVars>>

\* deleteCounter: the members at the counter stay where they are without it.
DeleteCounter(c) ==
  /\ "deleteCounter" \in begun.asks
  /\ \E u \in Users : assertManagerOfOrganization(u, c[1][1])
  /\ c \in counters
  /\ counters' = counters \ {c}
  /\ member' = [i \in MemberIds |->
       IF member[i].counter = c THEN [member[i] EXCEPT !.counter = null] ELSE member[i]]
  /\ UNCHANGED <<org, branches, queues, role, handler, requests, begun, ghostVars>>

-----------------------------------------------------------------------------
\* setOrganizationLogo and clearOrganizationLogo: the organization is looked up ...
StartLogo(h, o, op) ==
  /\ There(o)
  /\ Manage(h, op, o, [Idle EXCEPT !.pc = "write", !.op = op, !.org = o])

\* ... and the picture's row and the address the organization shows it at change in one
\* transaction, which finds no organization if it has gone since.
WriteLogo(h) ==
  LET r == handler[h] IN
  /\ At(h, "write") /\ r.op \in {"setLogo", "clearLogo"}
  /\ There(r.org)
  /\ org' = [org EXCEPT ![r.org].logo = r.op = "setLogo"]
  /\ Finish(h)
  /\ UNCHANGED <<branches, counters, queues, member, role, requests, begun, ghostVars>>

-----------------------------------------------------------------------------
\* deleteOrganizationPermanently: the paid transactions are counted, and protect the
\* organization unless the operator forces it ...
StartDelete(h, o, force) ==
  /\ At(h, "idle") /\ "deleteOrganization" \in begun.asks /\ requests < MaxRequests
  /\ There(o)
  /\ requests' = requests + 1
  /\ IF org[o].paid > 0 /\ ~force THEN UNCHANGED handler
     ELSE handler' = [handler EXCEPT ![h] =
            [Idle EXCEPT !.pc = IF org[o].paid > 0 THEN "snapshot" ELSE "write",
                         !.op = "deleteOrganization", !.org = o]]
  /\ UNCHANGED <<rowVars, begun, ghostVars>>

\* ... then their invoices are copied ...
KeepFiscalSnapshot(h) ==
  /\ At(h, "snapshot")
  /\ handler' = [handler EXCEPT ![h].pc = "write", ![h].kept = org[handler[h].org].paid]
  /\ UNCHANGED <<rowVars, requests, begun, ghostVars>>

\* The copies in the audit row, and the transactions that go.
AuditRow(h) == [kept |-> handler[h].kept, paid |-> org[handler[h].org].paid]

\* ... and the organization goes with all it has and its audit row comes, in one transaction.
DeleteOrganization(h) ==
  LET o == handler[h].org IN
  /\ At(h, "write") /\ handler[h].op = "deleteOrganization"
  /\ There(o)
  /\ org' = [org EXCEPT ![o].status = "deleted", ![o].logo = FALSE]
  /\ branches' = {b \in branches : b[1] # o}
  /\ counters' = {c \in counters : c[1][1] # o}
  /\ queues' = {q \in queues : q[1][1] # o}
  /\ member' = [i \in MemberIds |-> IF member[i].org = o THEN Removed ELSE member[i]]
  /\ deletion' = [deletion EXCEPT ![o] = AuditRow(h)]
  /\ Finish(h)
  /\ UNCHANGED <<role, requests, begun, outpaced, outrun, reactivated>>

-----------------------------------------------------------------------------
\* A request ends where it is, refused or failed; what it has not committed is rolled back.
Abort(h) ==
  /\ ~At(h, "idle")
  /\ Finish(h)
  /\ UNCHANGED <<rowVars, requests, begun, ghostVars>>

Next ==
  \/ \E h \in Handlers :
       \/ \E o \in Orgs : MemberArrival(h, o) \/ CreateOrganization(h, o)
       \/ \E o \in Orgs, force \in BOOLEAN : StartDelete(h, o, force)
       \/ \E b \in Branches : StartCreateBranch(h, b)
       \/ \E q \in QueueIds : StartCreateQueue(h, q)
       \/ \E o \in Orgs, op \in {"setLogo", "clearLogo"} : StartLogo(h, o, op)
       \/ MemberStep(h) \/ WriteLogo(h)
       \/ AttachTrialSubscription(h)
       \/ CheckQuota(h) \/ CreateBranch(h) \/ CreateQueue(h)
       \/ KeepFiscalSnapshot(h) \/ DeleteOrganization(h)
       \/ Abort(h)
  \/ \E o \in Orgs :
       \/ \E u \in Candidates : SelfRegister(o, u)
       \/ \E status \in {"ACTIVE", "SUSPENDED"} : SetOrganizationStatus(o, status)
       \/ Bill(o)
  \/ \E c \in Counters : CreateCounter(c) \/ DeleteCounter(c)

Spec == Init /\ [][Next]_vars

-----------------------------------------------------------------------------
\* Types: the rows, and the local variables of a request.  A membership as it is asked for
\* may leave the role or the status as it is.
OrgRow == [status : {"none", "ACTIVE", "SUSPENDED", "deleted"},
           subscription : {"none", "operational", "ended"}, paid : 0..2, founded : BOOLEAN,
           logo : BOOLEAN]
MemberRow == [org : Orgs \cup {"none"}, user : Users \cup {"none", "removed"},
              role : MemberRoles, status : MemberStatus,
              branch : Branches \cup {null}, counter : Counters \cup {null}]
AskedRow == [org : Orgs \cup {"none"}, user : Users \cup {"none", "removed"},
             role : MemberRoles \cup {"same"}, status : MemberStatus \cup {"same"},
             branch : Branches \cup {null}, counter : Counters \cup {null}]
AuditEntry == [kept : 0..2, paid : 0..2]
Locals == [pc : {"idle", "check", "role", "count", "write", "trial", "snapshot"},
           op : {"none", "createOrganization", "createBranch", "createQueue", "addMember",
                 "updateMember", "removeMember", "setLogo", "clearLogo", "deleteOrganization"},
           org : Orgs \cup {"none"}, id : MemberIds \cup {0}, row : AskedRow,
           branch : Branches \cup {null}, queue : QueueIds \cup {null},
           managers : SUBSET MemberIds, stale : BOOLEAN, read : UserRoles,
           kept : 0..2]

TypeOK ==
  /\ org \in [Orgs -> OrgRow]
  /\ branches \subseteq Branches /\ counters \subseteq Counters /\ queues \subseteq QueueIds
  /\ member \in [MemberIds -> MemberRow]
  /\ role \in [Users -> UserRoles]
  /\ handler \in [Handlers -> Locals]
  /\ requests \in 0..MaxRequests
  /\ begun \in Beginnings
  /\ outpaced \subseteq Orgs /\ outrun \subseteq Users
  /\ reactivated \in [Orgs -> Nat] /\ deletion \in [Orgs -> AuditEntry]

\* Requests that have found room for what they will add.
Cleared(op) == {h \in Handlers : handler[h].op = op /\ handler[h].pc \in {"role", "write"}}

\* However creations overlap, a plan is exceeded by no more than the requests that overlap
\* the one that reached it; a membership made active again is not counted against the plan
\* (plan-guard.ts:17-55, member.service.ts:211-217).
QuotasHold ==
  LET slack == Cardinality(Handlers) - 1
      ClearedFor(op, o) == Cardinality({h \in Cleared(op) : handler[h].org = o})
  IN
  /\ \A o \in Orgs :
       /\ Cardinality({b \in branches : b[1] = o}) + ClearedFor("createBranch", o) <= maxBranches + slack
       /\ Cardinality(ActiveMembers(o)) + ClearedFor("addMember", o) <= maxStaff + slack + reactivated[o]
  /\ \A b \in Branches :
       Cardinality({q \in queues : q[1] = b})
         + Cardinality({h \in Cleared("createQueue") : handler[h].queue[1] = b}) <= maxQueuesPerBranch + slack

\* Two promises of comments that the code does not keep.  "An organization with at least one
\* SUCCEEDED transaction is never deleted", "such organizations can only be suspended"
\* (organization-admin.service.ts:190-192): a forced deletion goes through all the same.
PaidNeverDeleted ==
  \A o \in Orgs : org[o].status = "deleted" => deletion[o].kept = 0

\* The audit row of a deletion keeps every paid invoice that the deletion removes, "so the
\* financial history is not silently lost" (organization-admin.service.ts:234-236): one paid
\* after the count at line 223 is not copied.
HistoryNotLost ==
  \A o \in Orgs : org[o].status = "deleted" => deletion[o].kept = deletion[o].paid

\* What is left belongs to an organization that is there: branches, counters, queues,
\* members and logos go with theirs and none comes back from a request that was under way.
NoOrphans ==
  /\ \A o \in Orgs : org[o].logo => There(o)
  /\ \A b \in branches : There(b[1])
  /\ \A c \in counters \cup queues : c[1] \in branches
  /\ \A i \in MemberIds : Present(i) => There(member[i].org)
=============================================================================
