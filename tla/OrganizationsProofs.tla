------------------------ MODULE OrganizationsProofs ------------------------
(***************************************************************************)
(* Proofs about Organizations, for any organizations, plans, members and   *)
(* overlapping requests.                                                   *)
(***************************************************************************)
EXTENDS Organizations, FiniteSetTheorems, TLAPS

-----------------------------------------------------------------------------
\* Rows and requests are built field by field.

LEMMA Rows ==
  /\ NoOrg \in OrgRow /\ Founded \in OrgRow
  /\ NoMember \in MemberRow /\ Removed \in MemberRow /\ NoMember \in AskedRow
  /\ Idle \in Locals /\ NoDeletion \in AuditEntry
<1>1. NoOrg \in OrgRow /\ Founded \in OrgRow /\ NoDeletion \in AuditEntry
  BY DEF NoOrg, Founded, OrgRow, NoDeletion, AuditEntry
<1>2. NoMember \in MemberRow /\ NoMember \in AskedRow
  BY DEF NoMember, MemberRow, AskedRow, MemberRoles, MemberStatus
<1>3. Removed \in MemberRow
  BY <1>2 DEF Removed, MemberRow
<1>4. Idle \in Locals
  BY <1>2 DEF Idle, Locals, UserRoles
<1> QED BY <1>1, <1>2, <1>3, <1>4

LEMMA FounderRow == \A o \in Orgs, u \in Users : FounderOf(o, u) \in MemberRow
BY DEF FounderOf, MemberRow, MemberRoles, MemberStatus

LEMMA MemberAsked == MemberRow \subseteq AskedRow
BY DEF MemberRow, AskedRow

\* A request that begins takes the place of one that has ended.
LEMMA FinishTypes == ASSUME TypeOK, NEW h \in Handlers, Finish(h)
                     PROVE  handler' \in [Handlers -> Locals]
BY Rows DEF Finish, TypeOK

LEMMA ManageTypes ==
  ASSUME TypeOK, NEW h \in Handlers, NEW op, NEW o, NEW locals \in Locals, Manage(h, op, o, locals)
  PROVE  TypeOK'
BY TenantConstants DEF Manage, TypeOK, rowVars, ghostVars

LEMMA ArrivalTypes ==
  ASSUME TypeOK, NEW h \in Handlers, NEW o \in Orgs, MemberArrival(h, o)
  PROVE  TypeOK'
<1>1. ASSUME NEW u \in Candidates, NEW memberRole \in MemberRoles, NEW place \in Places,
             StartAddMember(h, o, u, memberRole, place)
      PROVE  TypeOK'
  <2> DEFINE row == [org |-> o, user |-> u, role |-> memberRole, status |-> "ACTIVE",
                     branch |-> place[1], counter |-> place[2]]
             l == [Idle EXCEPT !.pc = "check", !.op = "addMember", !.org = o, !.row = row]
  <2>1. row \in AskedRow
    BY TenantConstants DEF AskedRow, MemberStatus
  <2>2. l \in Locals
    BY <2>1, Rows DEF Locals
  <2> QED BY <1>1, <2>2, ManageTypes DEF StartAddMember
<1>2. ASSUME NEW i \in MembersOf(o), NEW memberRole \in MemberRoles \cup {"same"},
             NEW status \in Statuses \cup {"same"},
             NEW place \in Places \cup {<<member[i].branch, member[i].counter>>},
             StartUpdateMember(h, o, i, memberRole, status, place)
      PROVE  TypeOK'
  <2> DEFINE row == [member[i] EXCEPT !.role = memberRole, !.status = status,
                                      !.branch = place[1], !.counter = place[2]]
             l == [Idle EXCEPT !.pc = "count", !.op = "updateMember", !.org = o, !.id = i,
                               !.managers = ActiveManagers(o), !.row = row]
  <2>1. i \in MemberIds /\ member[i] \in MemberRow
    BY DEF MembersOf, TypeOK
  <2>2. row \in AskedRow
    <3>1. place[1] \in Branches \cup {null} /\ place[2] \in Counters \cup {null}
      BY <2>1, TenantConstants DEF MemberRow
    <3>2. memberRole \in MemberRoles \cup {"same"} /\ status \in MemberStatus \cup {"same"}
      BY TenantConstants
    <3> QED BY <2>1, <3>1, <3>2 DEF AskedRow, MemberRow
  <2>3. ActiveManagers(o) \subseteq MemberIds
    BY DEF ActiveManagers, ActiveMembers, MembersOf
  <2>4. l \in Locals
    BY <2>1, <2>2, <2>3, Rows DEF Locals
  <2> QED BY <1>2, <2>4, ManageTypes DEF StartUpdateMember
<1>3. ASSUME NEW i \in MembersOf(o), StartRemoveMember(h, o, i)
      PROVE  TypeOK'
  <2> DEFINE l == [Idle EXCEPT !.pc = "count", !.op = "removeMember", !.org = o, !.id = i,
                               !.managers = ActiveManagers(o), !.row = member[i]]
  <2>1. i \in MemberIds /\ member[i] \in AskedRow
    BY MemberAsked DEF MembersOf, TypeOK
  <2>2. ActiveManagers(o) \subseteq MemberIds
    BY DEF ActiveManagers, ActiveMembers, MembersOf
  <2>3. l \in Locals
    BY <2>1, <2>2, Rows DEF Locals
  <2> QED BY <1>3, <2>3, ManageTypes DEF StartRemoveMember
<1> QED BY <1>1, <1>2, <1>3 DEF MemberArrival

LEMMA PromoteTypes ==
  ASSUME TypeOK, NEW h \in Handlers, PromoteUser(h)
  PROVE  role' \in [Users -> UserRoles] /\ (handler[h].row.user \in Users => outrun' \subseteq Users)
<1>1. handler[h].read \in UserRoles /\ handler[h].row.role \in MemberRoles \cup {"same"}
  BY DEF TypeOK, Locals, AskedRow
<1>2. \A r \in UserRoles, m \in MemberRoles : promotedRole(r, m) \in UserRoles
  BY DEF promotedRole, UserRoles, MemberRoles
<1> QED BY <1>1, <1>2 DEF PromoteUser, AlignedRole, TypeOK

-----------------------------------------------------------------------------
\* What the local variables of a request mean: the organization it is about is, or was,
\* there; the row it adds is that organization's; the membership it changes is the one it
\* loaded, or has gone for good; and if it
\* takes a manager away, the managers it loaded were several.
RequestOK(h) ==
  LET r == handler[h] IN
  /\ r.pc # "idle" => r.org \in Orgs /\ org[r.org].status # "none"
  /\ r.pc = "role" => r.op \in {"addMember", "updateMember"}
  /\ r.pc = "snapshot" => r.op = "deleteOrganization"
  /\ r.op = "createBranch" => r.branch \in Branches /\ r.branch[1] = r.org
  /\ r.op = "createQueue" => r.queue \in QueueIds
  /\ r.op = "addMember" => /\ r.row \in MemberRow /\ r.row.org = r.org /\ r.row.user \in Users
                           /\ r.row.status = "ACTIVE"
  /\ r.op \in {"updateMember", "removeMember"} =>
       /\ r.id \in MemberIds /\ r.row.org = r.org /\ r.row.user \in Users
       /\ member[r.id].user # "none"
       /\ Present(r.id) => member[r.id].org = r.org /\ member[r.id].user = r.row.user
  /\ r.op \in {"updateMember", "removeMember"} /\ r.pc \in {"role", "write"} /\ ~r.stale =>
       (LosesManager(h) => Cardinality(r.managers) > 1)

TenantInv ==
  /\ TypeOK
  /\ NoOrphans
  /\ \A i \in MemberIds : Present(i) => member[i].user \in Users
  /\ \A h \in Handlers : RequestOK(h)

-----------------------------------------------------------------------------
LEMMA UpdatedRow ==
  ASSUME NEW i, NEW given \in AskedRow, member[i] \in MemberRow
  PROVE  /\ Updated(i, given) \in MemberRow
         /\ Updated(i, given).org = given.org /\ Updated(i, given).user = given.user
<1> DEFINE r == IF given.role = "same" THEN member[i].role ELSE given.role
           s == IF given.status = "same" THEN member[i].status ELSE given.status
<1>1. r \in MemberRoles /\ s \in MemberStatus
  BY DEF AskedRow, MemberRow
<1>2. Updated(i, given) = [given EXCEPT !.role = r, !.status = s]
  BY DEF Updated
<1> HIDE DEF r, s
<1>3. [given EXCEPT !.role = r, !.status = s] \in MemberRow
  BY <1>1 DEF AskedRow, MemberRow
<1>4. /\ [given EXCEPT !.role = r, !.status = s].org = given.org
      /\ [given EXCEPT !.role = r, !.status = s].user = given.user
  BY DEF AskedRow
<1> QED BY <1>2, <1>3, <1>4

\* Every step keeps the types.
LEMMA TypeNext == TenantInv /\ [Next]_vars => TypeOK'
<1> SUFFICES ASSUME TenantInv, [Next]_vars PROVE TypeOK'
  OBVIOUS
<1>t. TypeOK
  BY DEF TenantInv
<1>1. ASSUME NEW h \in Handlers, NEW o \in Orgs, MemberArrival(h, o)
      PROVE  TypeOK'
  BY <1>t, <1>1, ArrivalTypes
<1>2. ASSUME NEW h \in Handlers, NEW o \in Orgs, CreateOrganization(h, o)
      PROVE  TypeOK'
  <2>1. [NoOrg EXCEPT !.status = "ACTIVE"] \in OrgRow
    BY Rows DEF OrgRow
  <2>2. [Idle EXCEPT !.pc = "trial", !.op = "createOrganization", !.org = o] \in Locals
    BY Rows DEF Locals
  <2> QED BY <1>t, <1>2, <2>1, <2>2, TenantConstants DEF CreateOrganization, TypeOK, ghostVars
<1>3. ASSUME NEW h \in Handlers, NEW o \in Orgs, NEW force \in BOOLEAN, StartDelete(h, o, force)
      PROVE  TypeOK'
  <2> DEFINE l == [Idle EXCEPT !.pc = IF org[o].paid > 0 THEN "snapshot" ELSE "write",
                         !.op = "deleteOrganization", !.org = o]
  <2>0. org[o].paid \in 0..2
    BY <1>t DEF TypeOK, OrgRow
  <2>2. \A pc \in {"snapshot", "write"} :
          [Idle EXCEPT !.pc = pc, !.op = "deleteOrganization", !.org = o] \in Locals
    BY Rows DEF Locals
  <2>1. l \in Locals
    BY <2>0, <2>2
  <2> QED BY <1>t, <1>3, <2>1, TenantConstants DEF StartDelete, TypeOK, rowVars, ghostVars
<1>4. ASSUME NEW h \in Handlers, NEW b \in Branches, StartCreateBranch(h, b)
      PROVE  TypeOK'
  <2>1. [Idle EXCEPT !.pc = "check", !.op = "createBranch", !.org = b[1], !.branch = b] \in Locals
    BY Rows, TenantConstants DEF Locals
  <2> QED BY <1>t, <1>4, <2>1, ManageTypes DEF StartCreateBranch
<1>5. ASSUME NEW h \in Handlers, NEW q \in QueueIds, StartCreateQueue(h, q)
      PROVE  TypeOK'
  <2>1. q[1][1] \in Orgs
    BY TenantConstants
  <2>2. [Idle EXCEPT !.pc = "check", !.op = "createQueue", !.org = q[1][1], !.queue = q] \in Locals
    BY <2>1, Rows DEF Locals
  <2> QED BY <1>t, <1>5, <2>2, ManageTypes DEF StartCreateQueue
<1>6. ASSUME NEW h \in Handlers, NEW o \in Orgs, NEW op \in {"setLogo", "clearLogo"}, StartLogo(h, o, op)
      PROVE  TypeOK'
  <2>1. [Idle EXCEPT !.pc = "write", !.op = op, !.org = o] \in Locals
    BY Rows DEF Locals
  <2> QED BY <1>t, <1>6, <2>1, ManageTypes DEF StartLogo
<1>7. ASSUME NEW h \in Handlers, MemberStep(h)
      PROVE  TypeOK'
  <2>h. handler[h] \in Locals
    BY <1>t DEF TypeOK
  <2>1. CASE CheckAddMember(h) \/ CountManagers(h)
    <3>1. ASSUME NEW pc \in {"role", "write"}, NEW stale \in BOOLEAN
          PROVE  /\ [handler EXCEPT ![h].pc = pc, ![h].stale = stale] \in [Handlers -> Locals]
                 /\ [handler EXCEPT ![h].pc = pc] \in [Handlers -> Locals]
      <4>1. /\ [handler[h] EXCEPT !.pc = pc, !.stale = stale] \in Locals
            /\ [handler[h] EXCEPT !.pc = pc] \in Locals
        BY <2>h DEF Locals
      <4> QED BY <1>t, <4>1 DEF TypeOK
    <3>3. (handler[h].managers # ActiveManagers(handler[h].org)) \in BOOLEAN
      OBVIOUS
    <3>2. handler' \in [Handlers -> Locals]
      BY <1>t, <2>1, <3>1, <3>3, FinishTypes DEF CheckAddMember, CountManagers
    <3> QED BY <1>t, <2>1, <3>2 DEF CheckAddMember, CountManagers, TypeOK, rowVars, ghostVars
  <2>2. CASE ReadRole(h)
    <3>1. handler[h].row.user \in Users
      BY <2>2 DEF TenantInv, RequestOK, ReadRole, At
    <3>2. role[handler[h].row.user] \in UserRoles
      BY <1>t, <3>1 DEF TypeOK
    <3>3. handler' \in [Handlers -> Locals]
      BY <1>t, <2>h, <2>2, <3>2 DEF ReadRole, TypeOK, Locals
    <3> QED BY <1>t, <2>2, <3>3 DEF ReadRole, TypeOK, rowVars, ghostVars
  <2>3. CASE AddMember(h)
    <3>1. handler[h].row \in MemberRow /\ handler[h].row.user \in Users
      BY <2>3 DEF TenantInv, RequestOK, AddMember, At
    <3>2. member' \in [MemberIds -> MemberRow]
      BY <1>t, <2>3, <3>1 DEF AddMember, TypeOK
    <3> QED BY <1>t, <2>3, <3>1, <3>2, FinishTypes, PromoteTypes DEF AddMember, TypeOK
  <2>4. CASE UpdateMember(h)
    <3>1. handler[h].id \in MemberIds /\ handler[h].row.user \in Users /\ handler[h].org \in Orgs
      BY <2>4 DEF TenantInv, RequestOK, UpdateMember, At
    <3>2. Updated(handler[h].id, handler[h].row) \in MemberRow
      BY <1>t, <2>h, <3>1, UpdatedRow DEF TypeOK, Locals
    <3>3. member' \in [MemberIds -> MemberRow]
      BY <1>t, <2>4, <3>2 DEF UpdateMember, TypeOK
    <3>4. reactivated' \in [Orgs -> Nat] /\ outpaced' \subseteq Orgs
      BY <1>t, <2>4, <3>1 DEF UpdateMember, Outpaced, TypeOK
    <3> QED BY <1>t, <2>4, <3>1, <3>3, <3>4, FinishTypes, PromoteTypes DEF UpdateMember, TypeOK
  <2>5. CASE RemoveMember(h)
    <3>1. handler[h].org \in Orgs
      BY <2>5 DEF TenantInv, RequestOK, RemoveMember, At
    <3>2. member' \in [MemberIds -> MemberRow] /\ outpaced' \subseteq Orgs
      BY <1>t, <2>5, <3>1, Rows DEF RemoveMember, Outpaced, TypeOK
    <3> QED BY <1>t, <2>5, <3>2, FinishTypes DEF RemoveMember, TypeOK
  <2> QED BY <1>7, <2>1, <2>2, <2>3, <2>4, <2>5 DEF MemberStep
<1>8. ASSUME NEW h \in Handlers, WriteLogo(h)
      PROVE  TypeOK'
  <2>1. handler[h].org \in Orgs
    BY <1>8 DEF TenantInv, RequestOK, WriteLogo, At
  <2>2. org' \in [Orgs -> OrgRow]
    <3>1. (handler[h].op = "setLogo") \in BOOLEAN
      OBVIOUS
    <3>2. \A x \in BOOLEAN : [org EXCEPT ![handler[h].org].logo = x] \in [Orgs -> OrgRow]
      BY <1>t, <2>1 DEF TypeOK, OrgRow
    <3> QED BY <1>8, <3>1, <3>2 DEF WriteLogo
  <2> QED BY <1>t, <1>8, <2>2, FinishTypes DEF WriteLogo, TypeOK, ghostVars
<1>9. ASSUME NEW h \in Handlers, AttachTrialSubscription(h)
      PROVE  TypeOK'
  <2>1. handler[h].org \in Orgs
    BY <1>9 DEF TenantInv, RequestOK, AttachTrialSubscription, At
  <2>2. org' \in [Orgs -> OrgRow]
    BY <1>t, <1>9, <2>1 DEF AttachTrialSubscription, TypeOK, OrgRow
  <2> QED BY <1>t, <1>9, <2>2, FinishTypes DEF AttachTrialSubscription, TypeOK, ghostVars
<1>10. ASSUME NEW h \in Handlers, CheckQuota(h) \/ Abort(h) \/ KeepFiscalSnapshot(h)
       PROVE  TypeOK'
  <2>h. handler[h] \in Locals
    BY <1>t DEF TypeOK
  <2>1. CASE CheckQuota(h) \/ Abort(h)
    <3>1. handler' \in [Handlers -> Locals]
      BY <1>t, <2>h, <2>1, FinishTypes DEF CheckQuota, Abort, TypeOK, Locals
    <3> QED BY <1>t, <2>1, <3>1 DEF CheckQuota, Abort, TypeOK, rowVars, ghostVars
  <2>2. CASE KeepFiscalSnapshot(h)
    <3>1. org[handler[h].org].paid \in 0..2
      BY <1>t, <2>2 DEF TenantInv, RequestOK, KeepFiscalSnapshot, At, TypeOK, OrgRow
    <3>2. handler' \in [Handlers -> Locals]
      BY <1>t, <2>h, <2>2, <3>1 DEF KeepFiscalSnapshot, TypeOK, Locals
    <3> QED BY <1>t, <2>2, <3>2 DEF KeepFiscalSnapshot, TypeOK, rowVars, ghostVars
  <2> QED BY <1>10, <2>1, <2>2
<1>11. ASSUME NEW h \in Handlers, CreateBranch(h) \/ CreateQueue(h)
       PROVE  TypeOK'
  <2>1. /\ handler[h].op = "createBranch" => handler[h].branch \in Branches
        /\ handler[h].op = "createQueue" => handler[h].queue \in QueueIds
    BY DEF TenantInv, RequestOK
  <2> QED BY <1>t, <1>11, <2>1, FinishTypes DEF CreateBranch, CreateQueue, TypeOK, ghostVars
<1>12. ASSUME NEW h \in Handlers, DeleteOrganization(h)
       PROVE  TypeOK'
  <2> DEFINE o == handler[h].org
  <2>1. o \in Orgs /\ handler[h] \in Locals
    BY <1>t, <1>12 DEF TenantInv, RequestOK, DeleteOrganization, At, TypeOK
  <2>2. org' \in [Orgs -> OrgRow]
    BY <1>t, <1>12, <2>1 DEF DeleteOrganization, TypeOK, OrgRow
  <2>3. member' \in [MemberIds -> MemberRow]
    BY <1>t, <1>12, Rows DEF DeleteOrganization, TypeOK
  <2>4. org[o].paid \in 0..2 /\ handler[h].kept \in 0..2
    BY <1>t, <2>1 DEF TypeOK, OrgRow, Locals
  <2>5. AuditRow(h) \in AuditEntry
    BY <2>4 DEF AuditRow, AuditEntry
  <2> QED BY <1>t, <1>12, <2>2, <2>3, <2>5, FinishTypes DEF DeleteOrganization, TypeOK
<1>13. ASSUME NEW o \in Orgs, NEW u \in Candidates, SelfRegister(o, u)
       PROVE  TypeOK'
  <2>1. u \in Users
    BY TenantConstants
  <2>2. member' \in [MemberIds -> MemberRow]
    BY <1>t, <1>13, <2>1, FounderRow DEF SelfRegister, TypeOK
  <2> QED BY <1>t, <1>13, <2>1, <2>2, Rows DEF SelfRegister, TypeOK, UserRoles, ghostVars
<1>14. ASSUME NEW o \in Orgs, NEW status \in {"ACTIVE", "SUSPENDED"}, SetOrganizationStatus(o, status)
       PROVE  TypeOK'
  BY <1>t, <1>14 DEF SetOrganizationStatus, TypeOK, OrgRow, ghostVars
<1>15. ASSUME NEW o \in Orgs, Bill(o)
       PROVE  TypeOK'
  <2>1. org' \in [Orgs -> OrgRow]
    <3>1. org[o] \in OrgRow
      BY <1>t DEF TypeOK
    <3>2. [org[o] EXCEPT !.subscription = "ended"] \in OrgRow
      BY <3>1 DEF OrgRow
    <3>3. ASSUME org[o].paid < 2
          PROVE  [org[o] EXCEPT !.subscription = "operational", !.paid = @ + 1] \in OrgRow
      <4>1. org[o].paid + 1 \in 0..2
        BY <3>1, <3>3 DEF OrgRow
      <4> QED BY <3>1, <4>1 DEF OrgRow
    <3> QED BY <1>t, <1>15, <3>2, <3>3 DEF Bill, TypeOK
  <2> QED BY <1>t, <1>15, <2>1 DEF Bill, TypeOK, ghostVars
<1>16. ASSUME NEW c \in Counters, CreateCounter(c)
       PROVE  TypeOK'
  BY <1>t, <1>16 DEF CreateCounter, TypeOK, ghostVars
<1>17. ASSUME NEW c \in Counters, DeleteCounter(c)
       PROVE  TypeOK'
  <2>1. member' \in [MemberIds -> MemberRow]
    BY <1>t, <1>17 DEF DeleteCounter, TypeOK, MemberRow
  <2> QED BY <1>t, <1>17, <2>1 DEF DeleteCounter, TypeOK, ghostVars
<1>18. CASE UNCHANGED vars
  BY <1>t, <1>18 DEF vars, rowVars, ghostVars, TypeOK
<1> QED BY <1>1, <1>2, <1>3, <1>4, <1>5, <1>6, <1>7, <1>8, <1>9, <1>10, <1>11, <1>12,
           <1>13, <1>14, <1>15, <1>16, <1>17, <1>18 DEF Next

-----------------------------------------------------------------------------
\* What no step does to the rows: an organization that has been there is not forgotten, and
\* a membership that goes does not come back as somebody else's.
RowsEvolve ==
  /\ \A o \in Orgs : org[o].status # "none" => org'[o].status # "none"
  /\ \A i \in MemberIds : member[i].user # "none" =>
       /\ member'[i].user # "none"
       /\ member'[i].org # "none" =>
            member'[i].org = member[i].org /\ member'[i].user = member[i].user

LEMMA IdleOK == ASSUME NEW h \in Handlers, handler'[h] = Idle PROVE RequestOK(h)'
BY DEF RequestOK, Idle

LEMMA OthersOK ==
  ASSUME TenantInv, RowsEvolve, NEW g \in Handlers, handler'[g] = handler[g]
  PROVE  RequestOK(g)'
<1> DEFINE r == handler[g]
<1>1. RequestOK(g) /\ r \in Locals
  BY DEF TenantInv, TypeOK
<1>2. r.pc # "idle" => org'[r.org].status # "none"
  BY <1>1 DEF RequestOK, RowsEvolve
<1>3. r.op \in {"updateMember", "removeMember"} =>
        /\ member'[r.id].user # "none"
        /\ Present(r.id)' => member'[r.id].org = r.org /\ member'[r.id].user = r.row.user
  <2> SUFFICES ASSUME r.op \in {"updateMember", "removeMember"}
               PROVE  /\ member'[r.id].user # "none"
                      /\ member'[r.id].org # "none" =>
                           member'[r.id].org = r.org /\ member'[r.id].user = r.row.user
    BY DEF Present
  <2>1. r.id \in MemberIds /\ member[r.id].user # "none"
    BY <1>1 DEF RequestOK
  <2>2. CASE Present(r.id)
    BY <2>1, <2>2, <1>1 DEF RequestOK, RowsEvolve
  <2>3. CASE ~Present(r.id)
    BY <2>1, <2>3 DEF RowsEvolve, Present, TenantInv
  <2> QED BY <2>2, <2>3
<1>4. LosesManager(g)' = LosesManager(g)
  BY DEF LosesManager
<1> QED BY <1>1, <1>2, <1>3, <1>4 DEF RequestOK

\* The rows are written by a handful of transactions only.
LEMMA RowWriters ==
  ASSUME [Next]_vars
  PROVE  \/ UNCHANGED <<rowVars, ghostVars>>
         \/ \E h \in Handlers :
              \/ \E o \in Orgs : CreateOrganization(h, o)
              \/ AddMember(h) \/ UpdateMember(h) \/ RemoveMember(h)
              \/ WriteLogo(h) \/ AttachTrialSubscription(h)
              \/ CreateBranch(h) \/ CreateQueue(h) \/ DeleteOrganization(h)
         \/ \E o \in Orgs :
              \/ \E u \in Candidates : SelfRegister(o, u)
              \/ \E status \in {"ACTIVE", "SUSPENDED"} : SetOrganizationStatus(o, status)
              \/ Bill(o)
         \/ \E c \in Counters : CreateCounter(c) \/ DeleteCounter(c)
<1>1. ASSUME NEW h \in Handlers, NEW o \in Orgs, MemberArrival(h, o)
      PROVE  UNCHANGED <<rowVars, ghostVars>>
  BY <1>1 DEF MemberArrival, StartAddMember, StartUpdateMember, StartRemoveMember, Manage
<1>2. ASSUME NEW h \in Handlers,
             \/ \E o \in Orgs, force \in BOOLEAN : StartDelete(h, o, force)
             \/ \E b \in Branches : StartCreateBranch(h, b)
             \/ \E q \in QueueIds : StartCreateQueue(h, q)
             \/ \E o \in Orgs, op \in {"setLogo", "clearLogo"} : StartLogo(h, o, op)
             \/ CheckAddMember(h) \/ ReadRole(h) \/ CountManagers(h)
             \/ CheckQuota(h) \/ KeepFiscalSnapshot(h) \/ Abort(h)
      PROVE  UNCHANGED <<rowVars, ghostVars>>
  BY <1>2 DEF StartDelete, StartCreateBranch, StartCreateQueue, StartLogo, Manage, CheckAddMember,
              ReadRole, CountManagers, CheckQuota, KeepFiscalSnapshot, Abort
<1>3. CASE UNCHANGED vars
  BY <1>3 DEF vars
<1> QED BY <1>1, <1>2, <1>3 DEF Next, MemberStep

LEMMA StepEvolves ==
  ASSUME TenantInv, [Next]_vars
  PROVE  RowsEvolve /\ \A i \in MemberIds : Present(i)' => member'[i].user \in Users
<1> DEFINE Good == RowsEvolve /\ \A i \in MemberIds : Present(i)' => member'[i].user \in Users
<1>t. /\ TypeOK /\ "none" \notin Users /\ "none" \notin Orgs
      /\ \A i \in MemberIds : Present(i) => member[i].user \in Users
  BY TenantConstants DEF TenantInv
<1>1. CASE UNCHANGED rowVars
  BY <1>1, <1>t DEF rowVars, RowsEvolve, Present
<1>2. ASSUME NEW h \in Handlers, AddMember(h)
      PROVE  Good
  <2> DEFINE row == handler[h].row
  <2>1. row.user \in Users
    BY <1>2 DEF TenantInv, RequestOK, AddMember
  <2>2. PICK i \in MemberIds : NextId(i) /\ member' = [member EXCEPT ![i] = row]
    BY <1>2 DEF AddMember
  <2>3. member[i].user = "none"
    BY <2>2 DEF NextId, NoMember
  <2>4. org' = org /\ member'[i] = row /\ \A j \in MemberIds \ {i} : member'[j] = member[j]
    BY <1>2, <1>t, <2>2 DEF AddMember, TypeOK
  <2> QED BY <1>t, <2>1, <2>3, <2>4 DEF RowsEvolve, Present
<1>3. ASSUME NEW h \in Handlers, UpdateMember(h)
      PROVE  Good
  <2> DEFINE i == handler[h].id
             row == Updated(i, handler[h].row)
  <2>1. /\ i \in MemberIds /\ handler[h].row.user \in Users /\ handler[h].row.org = handler[h].org
        /\ member[i].org = handler[h].org /\ member[i].user = handler[h].row.user
    BY <1>3 DEF TenantInv, RequestOK, UpdateMember
  <2>2. handler[h].row \in AskedRow /\ member[i] \in MemberRow
    BY <1>t, <2>1 DEF TypeOK, Locals
  <2>3. row.org = member[i].org /\ row.user = member[i].user
    BY <2>1, <2>2, UpdatedRow
  <2>4. org' = org /\ member'[i] = row /\ \A j \in MemberIds \ {i} : member'[j] = member[j]
    BY <1>3, <1>t, <2>1 DEF UpdateMember, TypeOK
  <2> HIDE DEF i, row
  <2> QED BY <1>t, <2>1, <2>3, <2>4 DEF RowsEvolve, Present
<1>4. ASSUME NEW h \in Handlers, RemoveMember(h)
      PROVE  Good
  <2> DEFINE i == handler[h].id
  <2>1. i \in MemberIds
    BY <1>4 DEF TenantInv, RequestOK, RemoveMember
  <2>2. org' = org /\ member'[i] = Removed /\ \A j \in MemberIds \ {i} : member'[j] = member[j]
    BY <1>4, <1>t, <2>1 DEF RemoveMember, TypeOK
  <2>3. Removed.org = "none" /\ Removed.user = "removed"
    BY DEF Removed, NoMember
  <2> QED BY <1>t, <2>1, <2>2, <2>3 DEF RowsEvolve, Present
<1>5. ASSUME NEW h \in Handlers, DeleteOrganization(h)
      PROVE  Good
  <2> DEFINE o == handler[h].org
  <2>0. o \in Orgs
    BY <1>5 DEF TenantInv, RequestOK, DeleteOrganization, At
  <2>1. \A p \in Orgs : org'[p].status = org[p].status \/ org'[p].status = "deleted"
    BY <1>5, <1>t, <2>0 DEF DeleteOrganization, TypeOK, OrgRow
  <2>2. \A i \in MemberIds : member'[i] = member[i] \/ member'[i] = Removed
    BY <1>5 DEF DeleteOrganization
  <2>3. Removed.org = "none" /\ Removed.user = "removed"
    BY DEF Removed, NoMember
  <2> QED BY <1>t, <2>1, <2>2, <2>3 DEF RowsEvolve, Present
<1>6. ASSUME NEW o \in Orgs, NEW u \in Candidates, SelfRegister(o, u)
      PROVE  Good
  <2>1. u \in Users
    BY TenantConstants
  <2>2. PICK i \in MemberIds : NextId(i) /\ member' = [member EXCEPT ![i] = FounderOf(o, u)]
    BY <1>6 DEF SelfRegister
  <2>3. member[i].user = "none"
    BY <2>2 DEF NextId, NoMember
  <2>4. member'[i].user = u /\ \A j \in MemberIds \ {i} : member'[j] = member[j]
    BY <1>t, <2>2 DEF FounderOf, TypeOK
  <2>5. \A p \in Orgs : org[p].status # "none" => org'[p].status # "none"
    BY <1>6, <1>t DEF SelfRegister, Founded, TypeOK
  <2> QED BY <1>t, <2>1, <2>3, <2>4, <2>5 DEF RowsEvolve, Present
<1>7. ASSUME NEW c \in Counters, DeleteCounter(c)
      PROVE  Good
  <2>1. org' = org
    BY <1>7 DEF DeleteCounter
  <2>2. \A i \in MemberIds : member'[i].org = member[i].org /\ member'[i].user = member[i].user
    BY <1>7, <1>t DEF DeleteCounter, TypeOK, MemberRow
  <2> QED BY <1>t, <2>1, <2>2 DEF RowsEvolve, Present
<1>8. ASSUME UNCHANGED member, \A o \in Orgs : org[o].status # "none" => org'[o].status # "none"
      PROVE  Good
  BY <1>8, <1>t DEF RowsEvolve, Present
<1>9. ASSUME NEW h \in Handlers,
             \/ \E o \in Orgs : CreateOrganization(h, o)
             \/ WriteLogo(h) \/ AttachTrialSubscription(h)
             \/ CreateBranch(h) \/ CreateQueue(h)
      PROVE  Good
  <2>1. UNCHANGED member
    BY <1>9 DEF CreateOrganization, WriteLogo, AttachTrialSubscription, CreateBranch, CreateQueue
  <2>2. \A o \in Orgs : org[o].status # "none" => org'[o].status # "none"
    <3>1. CASE \E o \in Orgs : CreateOrganization(h, o)
      BY <3>1, <1>t DEF CreateOrganization, NoOrg, TypeOK
    <3>2. CASE WriteLogo(h)
      BY <3>2, <1>t DEF WriteLogo, TypeOK, OrgRow
    <3>3. CASE AttachTrialSubscription(h)
      BY <3>3, <1>t DEF AttachTrialSubscription, TypeOK, OrgRow
    <3>4. CASE CreateBranch(h) \/ CreateQueue(h)
      BY <3>4 DEF CreateBranch, CreateQueue
    <3> QED BY <1>9, <3>1, <3>2, <3>3, <3>4
  <2> QED BY <2>1, <2>2, <1>8
<1>10. ASSUME NEW o \in Orgs, \/ \E status \in {"ACTIVE", "SUSPENDED"} : SetOrganizationStatus(o, status)
                              \/ Bill(o)
       PROVE  Good
  <2>1. UNCHANGED member
    BY <1>10 DEF SetOrganizationStatus, Bill
  <2>2. \A p \in Orgs : org[p].status # "none" => org'[p].status # "none"
    <3>1. CASE \E status \in {"ACTIVE", "SUSPENDED"} : SetOrganizationStatus(o, status)
      BY <3>1, <1>t DEF SetOrganizationStatus, TypeOK, OrgRow
    <3>2. CASE Bill(o)
      <4>1. org'[o].status = org[o].status
        BY <3>2, <1>t DEF Bill, TypeOK, OrgRow
      <4>2. \A p \in Orgs \ {o} : org'[p] = org[p]
        BY <3>2, <1>t DEF Bill, TypeOK
      <4> QED BY <4>1, <4>2
    <3> QED BY <1>10, <3>1, <3>2
  <2> QED BY <2>1, <2>2, <1>8
<1>11. ASSUME NEW c \in Counters, CreateCounter(c)
       PROVE  Good
  BY <1>11, <1>8 DEF CreateCounter
<1> QED BY <1>1, <1>2, <1>3, <1>4, <1>5, <1>6, <1>7, <1>9, <1>10, <1>11, RowWriters

-----------------------------------------------------------------------------
LEMMA ManagersFinite ==
  ASSUME NEW o PROVE  IsFiniteSet(ActiveManagers(o)) /\ Cardinality(ActiveManagers(o)) \in Nat
<1>1. IsFiniteSet(MemberIds) /\ ActiveManagers(o) \subseteq MemberIds
  BY TenantConstants DEF ActiveManagers, ActiveMembers, MembersOf
<1>2. IsFiniteSet(ActiveManagers(o))
  BY <1>1, FS_Subset
<1> QED BY <1>2, FS_CardinalityType

\* A manager's organization is there: somebody is its manager.
LEMMA ManagedIsThere ==
  ASSUME TypeOK, NoOrphans, NEW u \in Users, NEW o \in Orgs, assertManagerOfOrganization(u, o)
  PROVE  There(o)
BY TenantConstants DEF NoOrphans, assertManagerOfOrganization, activeMemberships, ActiveMembers, MembersOf, Present

\* A request that begins has made sure of what its local variables mean.
LEMMA ArrivalOK ==
  ASSUME TenantInv, NEW h \in Handlers, NEW o \in Orgs, MemberArrival(h, o)
  PROVE  RequestOK(h)' /\ \A g \in Handlers \ {h} : handler'[g] = handler[g]
<1>t. TypeOK /\ NoOrphans /\ "none" \notin Orgs /\ "none" \notin Users
  BY TenantConstants DEF TenantInv
<1>m. ASSUME NEW op, NEW locals, Manage(h, op, o, locals)
      PROVE  /\ handler'[h] = locals /\ \A g \in Handlers \ {h} : handler'[g] = handler[g]
             /\ UNCHANGED <<org, member>> /\ org[o].status # "none"
  BY <1>m, <1>t, ManagedIsThere DEF Manage, TypeOK, There, rowVars
<1>1. ASSUME NEW u \in Candidates, NEW memberRole \in MemberRoles, NEW place \in Places,
             StartAddMember(h, o, u, memberRole, place)
      PROVE  RequestOK(h)' /\ \A g \in Handlers \ {h} : handler'[g] = handler[g]
  <2> DEFINE row == [org |-> o, user |-> u, role |-> memberRole, status |-> "ACTIVE",
                     branch |-> place[1], counter |-> place[2]]
             l == [Idle EXCEPT !.pc = "check", !.op = "addMember", !.org = o, !.row = row]
  <2>1. row \in MemberRow /\ row.org = o /\ row.user \in Users /\ row.status = "ACTIVE"
    BY TenantConstants DEF MemberRow, MemberStatus
  <2>2. /\ handler'[h] = l /\ org[o].status # "none" /\ UNCHANGED org
        /\ \A g \in Handlers \ {h} : handler'[g] = handler[g]
    BY <1>1, <1>m DEF StartAddMember
  <2> HIDE DEF row
  <2> QED BY <2>1, <2>2 DEF RequestOK, Idle
<1>2. ASSUME NEW i \in MembersOf(o), NEW memberRole \in MemberRoles \cup {"same"},
             NEW status \in Statuses \cup {"same"},
             NEW place \in Places \cup {<<member[i].branch, member[i].counter>>},
             StartUpdateMember(h, o, i, memberRole, status, place)
      PROVE  RequestOK(h)' /\ \A g \in Handlers \ {h} : handler'[g] = handler[g]
  <2> DEFINE row == [member[i] EXCEPT !.role = memberRole, !.status = status,
                                      !.branch = place[1], !.counter = place[2]]
             l == [Idle EXCEPT !.pc = "count", !.op = "updateMember", !.org = o, !.id = i,
                               !.managers = ActiveManagers(o), !.row = row]
  <2>1. i \in MemberIds /\ member[i] \in MemberRow /\ member[i].org = o /\ member[i].user \in Users
    BY <1>t DEF MembersOf, TenantInv, Present, TypeOK
  <2>2. row.org = o /\ row.user = member[i].user
    BY <2>1 DEF MemberRow
  <2>3. /\ handler'[h] = l /\ org[o].status # "none" /\ UNCHANGED <<org, member>>
        /\ \A g \in Handlers \ {h} : handler'[g] = handler[g]
    BY <1>2, <1>m DEF StartUpdateMember
  <2> HIDE DEF row
  <2> QED BY <1>t, <2>1, <2>2, <2>3 DEF RequestOK, Idle, Present
<1>3. ASSUME NEW i \in MembersOf(o), StartRemoveMember(h, o, i)
      PROVE  RequestOK(h)' /\ \A g \in Handlers \ {h} : handler'[g] = handler[g]
  <2> DEFINE l == [Idle EXCEPT !.pc = "count", !.op = "removeMember", !.org = o, !.id = i,
                               !.managers = ActiveManagers(o), !.row = member[i]]
  <2>1. i \in MemberIds /\ member[i].org = o /\ member[i].user \in Users
    BY <1>t DEF MembersOf, TenantInv, Present
  <2>3. /\ handler'[h] = l /\ org[o].status # "none" /\ UNCHANGED <<org, member>>
        /\ \A g \in Handlers \ {h} : handler'[g] = handler[g]
    BY <1>3, <1>m DEF StartRemoveMember
  <2> QED BY <1>t, <2>1, <2>3 DEF RequestOK, Idle, Present
<1> QED BY <1>1, <1>2, <1>3 DEF MemberArrival

LEMMA RequestsNext == TenantInv /\ [Next]_vars => \A h \in Handlers : RequestOK(h)'
<1> SUFFICES ASSUME TenantInv, [Next]_vars PROVE \A h \in Handlers : RequestOK(h)'
  OBVIOUS
<1>t. TypeOK /\ NoOrphans /\ RowsEvolve
  BY StepEvolves DEF TenantInv
<1>o. ASSUME NEW h \in Handlers, RequestOK(h)', \A g \in Handlers \ {h} : handler'[g] = handler[g]
      PROVE  \A g \in Handlers : RequestOK(g)'
  BY <1>o, <1>t, OthersOK
<1>f. ASSUME NEW h \in Handlers, Finish(h)
      PROVE  \A g \in Handlers : RequestOK(g)'
  BY <1>f, <1>o, <1>t, IdleOK DEF Finish, TypeOK
<1>u. ASSUME handler' = handler
      PROVE  \A g \in Handlers : RequestOK(g)'
  BY <1>u, <1>t, OthersOK
<1>m. ASSUME NEW h \in Handlers, NEW op, NEW o \in Orgs, NEW locals, Manage(h, op, o, locals)
      PROVE  /\ handler'[h] = locals /\ \A g \in Handlers \ {h} : handler'[g] = handler[g]
             /\ UNCHANGED <<org, member>> /\ org[o].status # "none"
  BY <1>m, <1>t, ManagedIsThere DEF Manage, TypeOK, There, rowVars
<1>1. ASSUME NEW h \in Handlers, NEW o \in Orgs, MemberArrival(h, o)
      PROVE  \A g \in Handlers : RequestOK(g)'
  BY <1>1, <1>o, ArrivalOK
<1>2. ASSUME NEW h \in Handlers, NEW o \in Orgs, CreateOrganization(h, o)
      PROVE  \A g \in Handlers : RequestOK(g)'
  <2> DEFINE l == [Idle EXCEPT !.pc = "trial", !.op = "createOrganization", !.org = o]
  <2>1. /\ handler'[h] = l /\ org'[o].status = "ACTIVE"
        /\ \A g \in Handlers \ {h} : handler'[g] = handler[g]
    BY <1>2, <1>t DEF CreateOrganization, TypeOK, NoOrg
  <2>2. RequestOK(h)'
    BY <2>1 DEF RequestOK, Idle
  <2> QED BY <2>1, <2>2, <1>o
<1>3. ASSUME NEW h \in Handlers, NEW o \in Orgs, NEW force \in BOOLEAN, StartDelete(h, o, force)
      PROVE  \A g \in Handlers : RequestOK(g)'
  <2>1. CASE UNCHANGED handler
    BY <2>1, <1>u
  <2>2. CASE handler' # handler
    <3> DEFINE l == [Idle EXCEPT !.pc = IF org[o].paid > 0 THEN "snapshot" ELSE "write",
                         !.op = "deleteOrganization", !.org = o]
    <3>1. /\ handler'[h] = l /\ org' = org /\ org[o].status # "none"
          /\ \A g \in Handlers \ {h} : handler'[g] = handler[g]
      BY <1>3, <2>2, <1>t DEF StartDelete, There, TypeOK, rowVars
    <3>3. l.op = "deleteOrganization" /\ l.org = o /\ l.pc # "idle" /\ l.pc # "role"
      BY DEF Idle
    <3> HIDE DEF l
    <3>4. RequestOK(h)'
      BY <3>1, <3>3 DEF RequestOK
    <3> QED BY <3>1, <3>4, <1>o
  <2> QED BY <2>1, <2>2
<1>4. ASSUME NEW h \in Handlers, NEW b \in Branches, StartCreateBranch(h, b)
      PROVE  \A g \in Handlers : RequestOK(g)'
  <2> DEFINE l == [Idle EXCEPT !.pc = "check", !.op = "createBranch", !.org = b[1], !.branch = b]
  <2>1. b[1] \in Orgs
    BY TenantConstants
  <2>2. /\ handler'[h] = l /\ org[b[1]].status # "none" /\ org' = org
        /\ \A g \in Handlers \ {h} : handler'[g] = handler[g]
    <3>1. Manage(h, "createBranch", b[1], l)
      BY <1>4 DEF StartCreateBranch
    <3> HIDE DEF l
    <3> QED BY <3>1, <1>m, <2>1
  <2>3. RequestOK(h)'
    BY <2>1, <2>2 DEF RequestOK, Idle
  <2> QED BY <2>2, <2>3, <1>o
<1>5. ASSUME NEW h \in Handlers, NEW q \in QueueIds, StartCreateQueue(h, q)
      PROVE  \A g \in Handlers : RequestOK(g)'
  <2> DEFINE l == [Idle EXCEPT !.pc = "check", !.op = "createQueue", !.org = q[1][1], !.queue = q]
  <2>1. q[1][1] \in Orgs
    BY TenantConstants
  <2>2. /\ handler'[h] = l /\ org[q[1][1]].status # "none" /\ org' = org
        /\ \A g \in Handlers \ {h} : handler'[g] = handler[g]
    <3>1. Manage(h, "createQueue", q[1][1], l)
      BY <1>5 DEF StartCreateQueue
    <3> HIDE DEF l
    <3> QED BY <3>1, <1>m, <2>1
  <2>3. RequestOK(h)'
    BY <2>1, <2>2 DEF RequestOK, Idle
  <2> QED BY <2>2, <2>3, <1>o
<1>6. ASSUME NEW h \in Handlers, NEW o \in Orgs, NEW op \in {"setLogo", "clearLogo"}, StartLogo(h, o, op)
      PROVE  \A g \in Handlers : RequestOK(g)'
  <2> DEFINE l == [Idle EXCEPT !.pc = "write", !.op = op, !.org = o]
  <2>1. /\ handler'[h] = l /\ org[o].status # "none" /\ org' = org
        /\ \A g \in Handlers \ {h} : handler'[g] = handler[g]
    <3>1. Manage(h, op, o, l)
      BY <1>6 DEF StartLogo
    <3> HIDE DEF l
    <3> QED BY <3>1, <1>m
  <2>2. RequestOK(h)'
    BY <2>1 DEF RequestOK, Idle
  <2> QED BY <2>1, <2>2, <1>o
<1>7. ASSUME NEW h \in Handlers, CheckQuota(h) \/ CheckAddMember(h) \/ ReadRole(h) \/ KeepFiscalSnapshot(h)
      PROVE  \A g \in Handlers : RequestOK(g)'
  <2>0. RequestOK(h) /\ handler[h] \in Locals
    BY <1>t DEF TenantInv, TypeOK
  <2>1. CASE CheckQuota(h) \/ CheckAddMember(h)
    <3>1. \/ Finish(h)
          \/ \E pc \in {"role", "write"} :
               /\ pc = "role" => handler[h].op = "addMember"
               /\ handler' = [handler EXCEPT ![h].pc = pc]
      BY <2>1 DEF CheckQuota, CheckAddMember
    <3>2. /\ handler[h].op \in {"createBranch", "createQueue", "addMember"}
          /\ handler[h].pc = "check" /\ UNCHANGED <<org, member>>
      BY <2>1 DEF CheckQuota, CheckAddMember, At, rowVars
    <3>3. ASSUME NEW pc \in {"role", "write"}, pc = "role" => handler[h].op = "addMember",
                 handler' = [handler EXCEPT ![h].pc = pc]
          PROVE  \A g \in Handlers : RequestOK(g)'
      <4>1. /\ handler'[h] = [handler[h] EXCEPT !.pc = pc]
            /\ \A g \in Handlers \ {h} : handler'[g] = handler[g]
        BY <3>3, <1>t DEF TypeOK
      <4>2. RequestOK(h)'
        BY <2>0, <3>2, <3>3, <4>1 DEF RequestOK, Locals
      <4> QED BY <4>1, <4>2, <1>o
    <3> QED BY <3>1, <3>3, <1>f
  <2>2. CASE ReadRole(h)
    <3>1. /\ handler'[h] = [handler[h] EXCEPT !.pc = "write", !.read = role[handler[h].row.user]]
          /\ \A g \in Handlers \ {h} : handler'[g] = handler[g]
          /\ handler[h].pc = "role" /\ UNCHANGED <<org, member>>
      BY <2>2, <1>t DEF ReadRole, At, TypeOK, rowVars
    <3>2. RequestOK(h)'
      BY <2>0, <3>1 DEF RequestOK, LosesManager, Present, Locals
    <3> QED BY <3>1, <3>2, <1>o
  <2>3. CASE KeepFiscalSnapshot(h)
    <3>1. /\ handler'[h] = [handler[h] EXCEPT !.pc = "write", !.kept = org[handler[h].org].paid]
          /\ \A g \in Handlers \ {h} : handler'[g] = handler[g]
          /\ handler[h].pc = "snapshot" /\ UNCHANGED <<org, member>>
      BY <2>3, <1>t DEF KeepFiscalSnapshot, At, TypeOK, rowVars
    <3>2. RequestOK(h)'
      BY <2>0, <3>1 DEF RequestOK, LosesManager, Present, Locals
    <3> QED BY <3>1, <3>2, <1>o
  <2> QED BY <1>7, <2>1, <2>2, <2>3
<1>8. ASSUME NEW h \in Handlers, CountManagers(h)
      PROVE  \A g \in Handlers : RequestOK(g)'
  <2> DEFINE r == handler[h]
  <2>0. RequestOK(h) /\ r \in Locals
    BY <1>t DEF TenantInv, TypeOK
  <2>1. CASE Finish(h)
    BY <2>1, <1>f
  <2>2. CASE ~Finish(h)
    <3> DEFINE pc == IF r.op = "updateMember" THEN "role" ELSE "write"
               stale == r.managers # ActiveManagers(r.org)
    <3>1. /\ handler' = [handler EXCEPT ![h].pc = pc, ![h].stale = stale]
          /\ LosesManager(h) => ~(Cardinality(ActiveManagers(r.org)) <= 1)
      BY <1>8, <2>2 DEF CountManagers
    <3>2. /\ handler'[h] = [r EXCEPT !.pc = pc, !.stale = stale]
          /\ \A g \in Handlers \ {h} : handler'[g] = handler[g]
          /\ r.pc = "count" /\ r.op \in {"updateMember", "removeMember"} /\ UNCHANGED <<org, member>>
      BY <1>8, <1>t, <3>1 DEF CountManagers, At, TypeOK, rowVars
    <3>3. ~stale => (LosesManager(h) => Cardinality(r.managers) > 1)
      BY <3>1, ManagersFinite
    <3>4. /\ handler'[h].stale = stale /\ handler'[h].pc = pc
          /\ handler'[h].op = r.op /\ handler'[h].org = r.org /\ handler'[h].id = r.id
          /\ handler'[h].row = r.row /\ handler'[h].managers = r.managers
      BY <2>0, <3>2 DEF Locals
    <3>5. LosesManager(h)' = LosesManager(h)
      BY <3>4 DEF LosesManager
    <3>7. /\ r.op \in {"updateMember", "removeMember"} /\ UNCHANGED <<org, member>>
          /\ pc \in {"role", "write"}
          /\ pc = "role" => r.op = "updateMember"
          /\ r.pc # "idle"
      BY <3>2
    <3>8. ~handler'[h].stale => (LosesManager(h) => Cardinality(r.managers) > 1)
      BY <3>3, <3>4
    <3>9. handler'[h].pc = pc
      BY <3>4
    <3> HIDE DEF stale, pc
    <3>6. RequestOK(h)'
      <4>1. /\ handler'[h].op = r.op /\ handler'[h].org = r.org /\ handler'[h].id = r.id
            /\ handler'[h].row = r.row /\ handler'[h].managers = r.managers
        BY <3>4
      <4> QED BY <2>0, <3>7, <3>8, <3>9, <3>5, <4>1 DEF RequestOK, Present
    <3> QED BY <3>2, <3>6, <1>o
  <2> QED BY <2>1, <2>2
<1>9. ASSUME NEW h \in Handlers,
             \/ AddMember(h) \/ UpdateMember(h) \/ RemoveMember(h) \/ WriteLogo(h)
             \/ AttachTrialSubscription(h) \/ CreateBranch(h) \/ CreateQueue(h)
             \/ DeleteOrganization(h) \/ Abort(h)
      PROVE  \A g \in Handlers : RequestOK(g)'
  BY <1>9, <1>f DEF AddMember, UpdateMember, RemoveMember, WriteLogo, AttachTrialSubscription,
                    CreateBranch, CreateQueue, DeleteOrganization, Abort
<1>10. ASSUME \/ \E o \in Orgs :
                  \/ \E u \in Candidates : SelfRegister(o, u)
                  \/ \E status \in {"ACTIVE", "SUSPENDED"} : SetOrganizationStatus(o, status)
                  \/ Bill(o)
              \/ \E c \in Counters : CreateCounter(c) \/ DeleteCounter(c)
              \/ UNCHANGED vars
       PROVE  \A g \in Handlers : RequestOK(g)'
  BY <1>10, <1>u DEF SelfRegister, SetOrganizationStatus, Bill, CreateCounter, DeleteCounter, vars
<1> QED BY <1>1, <1>2, <1>3, <1>4, <1>5, <1>6, <1>7, <1>8, <1>9, <1>10 DEF Next, MemberStep

-----------------------------------------------------------------------------
\* What is there stays there, and nothing is added to what is not.
LEMMA OrphansNext == TenantInv /\ [Next]_vars => NoOrphans'
<1> SUFFICES ASSUME TenantInv, [Next]_vars PROVE NoOrphans'
  OBVIOUS
<1>t. TypeOK /\ NoOrphans /\ "none" \notin Orgs
  BY TenantConstants DEF TenantInv
<1>i. /\ \A b \in branches : b[1] \in Orgs
      /\ \A i \in MemberIds : Present(i) => member[i].org \in Orgs
  BY <1>t, TenantConstants DEF TypeOK, MemberRow, Present
<1>s. ASSUME \A o \in Orgs : There(o) => There(o)', UNCHANGED <<branches, counters, queues>>,
             \A o \in Orgs : org'[o].logo => There(o)',
             \A i \in MemberIds : member'[i].org \in {member[i].org, "none"}
      PROVE  NoOrphans'
  BY <1>s, <1>t, <1>i DEF NoOrphans, Present
<1>1. CASE UNCHANGED rowVars
  BY <1>1, <1>t DEF rowVars, NoOrphans, Present, There
<1>2. ASSUME NEW h \in Handlers, AddMember(h)
      PROVE  NoOrphans'
  <2> DEFINE row == handler[h].row
  <2>1. PICK i \in MemberIds : Storable(i, row) /\ member' = [member EXCEPT ![i] = row]
    BY <1>2 DEF AddMember
  <2>2. /\ There(row.org) /\ member'[i] = row /\ \A j \in MemberIds \ {i} : member'[j] = member[j]
        /\ UNCHANGED <<org, branches, counters, queues>>
    BY <1>2, <1>t, <2>1 DEF AddMember, TypeOK, Storable
  <2> QED BY <2>2, <1>t DEF NoOrphans, Present, There
<1>3. ASSUME NEW h \in Handlers, UpdateMember(h)
      PROVE  NoOrphans'
  <2> DEFINE i == handler[h].id
             row == Updated(i, handler[h].row)
  <2>1. i \in MemberIds
    BY <1>3 DEF TenantInv, RequestOK, UpdateMember
  <2>2. /\ There(row.org) /\ member'[i] = row /\ \A j \in MemberIds \ {i} : member'[j] = member[j]
        /\ UNCHANGED <<org, branches, counters, queues>>
    BY <1>3, <1>t, <2>1 DEF UpdateMember, TypeOK, Storable
  <2> HIDE DEF row
  <2> QED BY <2>2, <1>t DEF NoOrphans, Present, There
<1>4. ASSUME NEW h \in Handlers, RemoveMember(h)
      PROVE  NoOrphans'
  <2>1. handler[h].id \in MemberIds /\ Removed.org = "none"
    BY <1>4 DEF TenantInv, RequestOK, RemoveMember, Removed, NoMember
  <2>2. \A i \in MemberIds : member'[i].org \in {member[i].org, "none"}
    BY <1>4, <1>t, <2>1 DEF RemoveMember, TypeOK
  <2> QED BY <1>4, <1>t, <2>2, <1>s DEF RemoveMember, NoOrphans, There
<1>5. ASSUME NEW h \in Handlers, DeleteOrganization(h)
      PROVE  NoOrphans'
  <2> DEFINE o == handler[h].org
  <2>0. o \in Orgs /\ Removed.org = "none"
    BY <1>5 DEF TenantInv, RequestOK, DeleteOrganization, At, Removed, NoMember
  <2>1. org'[o].logo = FALSE /\ \A p \in Orgs \ {o} : org'[p] = org[p]
    BY <1>5, <1>t, <2>0 DEF DeleteOrganization, TypeOK, OrgRow
  <2>2. \A i \in MemberIds : Present(i)' => member'[i].org = member[i].org /\ member[i].org # o
    BY <1>5, <2>0 DEF DeleteOrganization, Present
  <2>3. /\ branches' = {b \in branches : b[1] # o} /\ counters' = {c \in counters : c[1][1] # o}
        /\ queues' = {q \in queues : q[1][1] # o}
    BY <1>5 DEF DeleteOrganization
  <2> QED BY <1>t, <1>i, <2>1, <2>2, <2>3 DEF NoOrphans, There, Present
<1>6. ASSUME NEW o \in Orgs, NEW u \in Candidates, SelfRegister(o, u)
      PROVE  NoOrphans'
  <2>1. PICK i \in MemberIds : member' = [member EXCEPT ![i] = FounderOf(o, u)]
    BY <1>6 DEF SelfRegister
  <2>2. member'[i].org = o /\ \A j \in MemberIds \ {i} : member'[j] = member[j]
    BY <1>t, <2>1 DEF FounderOf, TypeOK
  <2>3. There(o)' /\ org'[o].logo = FALSE /\ \A p \in Orgs \ {o} : org'[p] = org[p]
    BY <1>6, <1>t DEF SelfRegister, Founded, There, TypeOK
  <2>4. UNCHANGED <<branches, counters, queues>>
    BY <1>6 DEF SelfRegister
  <2> QED BY <1>t, <1>i, <2>2, <2>3, <2>4 DEF NoOrphans, There, Present
<1>7. ASSUME NEW c \in Counters, CreateCounter(c) \/ DeleteCounter(c)
      PROVE  NoOrphans'
  <2>1. \A i \in MemberIds : member'[i].org = member[i].org
    BY <1>7, <1>t DEF CreateCounter, DeleteCounter, TypeOK, MemberRow
  <2>2. \A x \in counters' : x[1] \in branches
    BY <1>7, <1>t DEF CreateCounter, DeleteCounter, NoOrphans
  <2>3. UNCHANGED <<org, branches, queues>>
    BY <1>7 DEF CreateCounter, DeleteCounter
  <2> QED BY <1>t, <2>1, <2>2, <2>3 DEF NoOrphans, There, Present
<1>8. ASSUME NEW h \in Handlers, CreateBranch(h) \/ CreateQueue(h)
      PROVE  NoOrphans'
  <2>1. handler[h].op = "createBranch" => handler[h].branch[1] = handler[h].org
    BY DEF TenantInv, RequestOK
  <2>2. UNCHANGED <<org, counters, member>>
    BY <1>8 DEF CreateBranch, CreateQueue
  <2>3. branches \subseteq branches' /\ \A b \in branches' : There(b[1])
    BY <1>8, <1>t, <2>1 DEF CreateBranch, CreateQueue, NoOrphans
  <2>4. \A q \in queues' : q[1] \in branches'
    BY <1>8, <1>t DEF CreateBranch, CreateQueue, NoOrphans
  <2> QED BY <1>t, <2>2, <2>3, <2>4 DEF NoOrphans, There, Present
<1>9. ASSUME NEW h \in Handlers, WriteLogo(h)
      PROVE  NoOrphans'
  <2>1. handler[h].org \in Orgs /\ There(handler[h].org)
    BY <1>9 DEF TenantInv, RequestOK, WriteLogo, At
  <2>2. /\ \A p \in Orgs : org'[p].status = org[p].status
        /\ \A p \in Orgs \ {handler[h].org} : org'[p] = org[p]
    BY <1>9, <1>t DEF WriteLogo, TypeOK, OrgRow
  <2> QED BY <1>9, <1>t, <2>1, <2>2, <1>s DEF WriteLogo, NoOrphans, There
<1>10. ASSUME NEW h \in Handlers, NEW o \in Orgs, CreateOrganization(h, o)
       PROVE  NoOrphans'
  <2>1. /\ org'[o].status = "ACTIVE" /\ org'[o].logo = FALSE
        /\ \A p \in Orgs \ {o} : org'[p] = org[p]
    BY <1>10, <1>t DEF CreateOrganization, NoOrg, TypeOK
  <2> QED BY <1>10, <1>t, <2>1, <1>s DEF CreateOrganization, NoOrphans, There
<1>11. ASSUME \A p \in Orgs : org'[p].status = org[p].status \/ {org'[p].status, org[p].status} \subseteq {"ACTIVE", "SUSPENDED"},
              \A p \in Orgs : org'[p].logo = org[p].logo,
              UNCHANGED <<branches, counters, queues, member>>
       PROVE  NoOrphans'
  BY <1>11, <1>t, <1>s DEF NoOrphans, There
<1>12. ASSUME NEW h \in Handlers, AttachTrialSubscription(h)
       PROVE  NoOrphans'
  <2>1. \A p \in Orgs : org'[p].status = org[p].status /\ org'[p].logo = org[p].logo
    BY <1>12, <1>t DEF AttachTrialSubscription, TypeOK, OrgRow
  <2> QED BY <1>12, <2>1, <1>11 DEF AttachTrialSubscription
<1>13. ASSUME NEW o \in Orgs, Bill(o)
       PROVE  NoOrphans'
  <2>1. org'[o].status = org[o].status /\ org'[o].logo = org[o].logo
    BY <1>13, <1>t DEF Bill, TypeOK, OrgRow
  <2>2. \A p \in Orgs \ {o} : org'[p] = org[p]
    BY <1>13, <1>t DEF Bill, TypeOK
  <2> QED BY <1>13, <2>1, <2>2, <1>11 DEF Bill
<1>14. ASSUME NEW o \in Orgs, NEW status \in {"ACTIVE", "SUSPENDED"}, SetOrganizationStatus(o, status)
       PROVE  NoOrphans'
  <2>1. org'[o].status = status /\ There(o) /\ org'[o].logo = org[o].logo
    BY <1>14, <1>t DEF SetOrganizationStatus, TypeOK, OrgRow
  <2>2. \A p \in Orgs \ {o} : org'[p] = org[p]
    BY <1>14, <1>t DEF SetOrganizationStatus, TypeOK
  <2> QED BY <1>14, <2>1, <2>2, <1>11 DEF SetOrganizationStatus, There
<1> QED BY <1>1, <1>2, <1>3, <1>4, <1>5, <1>6, <1>7, <1>8, <1>9, <1>10, <1>12, <1>13, <1>14, RowWriters

LEMMA TenantStarts == Init => TenantInv
<1> SUFFICES ASSUME Init PROVE TenantInv
  OBVIOUS
<1>1. PICK b \in Beginnings :
        /\ begun = b
        /\ org = [o \in Orgs |-> IF o \in DOMAIN b.founders THEN Founded ELSE NoOrg]
        /\ branches = b.branches /\ counters = b.counters /\ queues = {}
        /\ member = [i \in MemberIds |->
             IF \E o \in DOMAIN b.founders : b.founders[o].id = i
             THEN LET o == CHOOSE o \in DOMAIN b.founders : b.founders[o].id = i
                  IN FounderOf(o, b.founders[o].user)
             ELSE NoMember]
        /\ role = [u \in Users |->
             IF \E o \in DOMAIN b.founders : b.founders[o].user = u THEN "MANAGER" ELSE "CUSTOMER"]
  BY DEF Init
<1>2. /\ handler = [h \in Handlers |-> Idle] /\ requests = 0 /\ outpaced = {} /\ outrun = {}
      /\ reactivated = [o \in Orgs |-> 0] /\ deletion = [o \in Orgs |-> NoDeletion]
  BY DEF Init
<1>3. \A i \in MemberIds :
        \/ member[i] = NoMember
        \/ \E o \in DOMAIN b.founders : b.founders[o].id = i /\ member[i] = FounderOf(o, b.founders[o].user)
  BY <1>1
<1>4. /\ DOMAIN b.founders \subseteq Orgs /\ \A o \in DOMAIN b.founders : b.founders[o].user \in Users
      /\ b.branches \subseteq Branches /\ b.counters \subseteq Counters
      /\ \A x \in b.branches : x[1] \in DOMAIN b.founders
      /\ \A x \in b.counters : x[1] \in b.branches
  BY TenantConstants
<1>5. \A i \in MemberIds : member[i] \in MemberRow
  BY <1>3, <1>4, Rows, FounderRow
<1>6. TypeOK
  <2>1. org \in [Orgs -> OrgRow] /\ deletion \in [Orgs -> AuditEntry] /\ handler \in [Handlers -> Locals]
    BY <1>1, <1>2, Rows
  <2>2. role \in [Users -> UserRoles]
    BY <1>1 DEF UserRoles
  <2>3. member \in [MemberIds -> MemberRow]
    BY <1>1, <1>5
  <2>4. /\ branches \subseteq Branches /\ counters \subseteq Counters /\ queues \subseteq QueueIds
        /\ begun \in Beginnings
    BY <1>1, <1>4
  <2>5. /\ requests \in 0..MaxRequests /\ outpaced \subseteq Orgs /\ outrun \subseteq Users
        /\ reactivated \in [Orgs -> Nat]
    BY <1>2, TenantConstants
  <2> QED BY <2>1, <2>2, <2>3, <2>4, <2>5 DEF TypeOK
<1>7. \A i \in MemberIds : Present(i) => member[i].org \in DOMAIN b.founders /\ member[i].user \in Users
  <2>1. NoMember.org = "none"
    BY DEF NoMember
  <2>2. \A o, u : FounderOf(o, u).org = o /\ FounderOf(o, u).user = u
    BY DEF FounderOf
  <2> QED BY <1>3, <1>4, <2>1, <2>2 DEF Present
<1>8. \A o \in DOMAIN b.founders : There(o)
  BY <1>1, <1>4 DEF There, Founded
<1>9. \A o \in Orgs : org[o].logo = FALSE
  BY <1>1 DEF NoOrg, Founded
<1>10. NoOrphans
  BY <1>1, <1>4, <1>7, <1>8, <1>9 DEF NoOrphans
<1>11. \A h \in Handlers : RequestOK(h)
  BY <1>2 DEF RequestOK, Idle
<1> QED BY <1>6, <1>7, <1>10, <1>11 DEF TenantInv

LEMMA TenantNext == TenantInv /\ [Next]_vars => TenantInv'
<1> SUFFICES ASSUME TenantInv, [Next]_vars PROVE TenantInv'
  OBVIOUS
<1>1. \A i \in MemberIds : (Present(i) => member[i].user \in Users)'
  BY StepEvolves
<1> QED BY <1>1, TypeNext, OrphansNext, RequestsNext DEF TenantInv

\* Rows, requests and what is left of organizations are in order in every behaviour.
THEOREM TenantsInOrder == Spec => []TenantInv
<1> QED BY TenantStarts, TenantNext, PTL DEF Spec

\* What is left belongs to an organization that is there, whatever creations, memberships,
\* logos and deletions overlap.
THEOREM NothingOrphaned == Spec => []NoOrphans
<1>1. TenantInv => NoOrphans
  BY DEF TenantInv
<1> QED BY <1>1, TenantsInOrder, PTL

-----------------------------------------------------------------------------
LEMMA ManagersNext == TenantInv /\ ManagerKept /\ [Next]_vars => ManagerKept'
<1> SUFFICES ASSUME TenantInv, ManagerKept, [Next]_vars PROVE ManagerKept'
  OBVIOUS
<1>t. TypeOK /\ "none" \notin Orgs
  BY TenantConstants DEF TenantInv
<1>1. ASSUME \A o \in Orgs : There(o)' /\ org'[o].founded => There(o) /\ org[o].founded,
             \A o \in Orgs : ActiveManagers(o) \subseteq ActiveManagers(o)', UNCHANGED outpaced
      PROVE  ManagerKept'
  BY <1>1 DEF ManagerKept
<1>2. ASSUME \A o \in Orgs : There(o)' /\ org'[o].founded => There(o) /\ org[o].founded,
             UNCHANGED <<member, outpaced>>
      PROVE  ManagerKept'
  BY <1>1, <1>2 DEF ActiveManagers, ActiveMembers, MembersOf
<1>3. CASE UNCHANGED <<rowVars, ghostVars>>
  BY <1>2, <1>3 DEF rowVars, ghostVars, There
<1>4. ASSUME NEW h \in Handlers, AddMember(h)
      PROVE  ManagerKept'
  <2>1. PICK i \in MemberIds : NextId(i) /\ member' = [member EXCEPT ![i] = handler[h].row]
    BY <1>4 DEF AddMember
  <2>2. member[i].org = "none" /\ \A j \in MemberIds \ {i} : member'[j] = member[j]
    BY <1>t, <2>1 DEF NextId, NoMember, TypeOK
  <2>3. \A o \in Orgs : ActiveManagers(o) \subseteq ActiveManagers(o)'
    BY <1>t, <2>2 DEF ActiveManagers, ActiveMembers, MembersOf
  <2> QED BY <1>4, <1>1, <2>3 DEF AddMember, There
<1>5. ASSUME NEW h \in Handlers, UpdateMember(h) \/ RemoveMember(h)
      PROVE  ManagerKept'
  <2> DEFINE r == handler[h]
             i == handler[h].id
  <2>0. PICK o : o = handler[h].org
    OBVIOUS
  <2>1. RequestOK(h) /\ r \in Locals /\ r.pc = "write" /\ r.op \in {"updateMember", "removeMember"}
    BY <1>5, <1>t DEF TenantInv, TypeOK, UpdateMember, RemoveMember, At
  <2>2. /\ o \in Orgs /\ i \in MemberIds /\ r.row.org = o /\ r.row \in AskedRow
        /\ member[i].org = o /\ member[i] \in MemberRow
        /\ ~r.stale => (LosesManager(h) => Cardinality(r.managers) > 1)
    BY <1>5, <1>t, <2>0, <2>1 DEF RequestOK, UpdateMember, RemoveMember, TypeOK, Locals
  <2>3. /\ UNCHANGED org /\ \A j \in MemberIds \ {i} : member'[j] = member[j]
        /\ outpaced \subseteq outpaced'
        /\ o \notin outpaced' => ~r.stale /\ r.managers = ActiveManagers(o)
    BY <1>5, <1>t, <2>0, <2>2 DEF UpdateMember, RemoveMember, TypeOK, Outpaced
  <2>4. member'[i].org \in {o, "none"}
    <3>1. CASE UpdateMember(h)
      <4>1. Updated(i, r.row).org = o
        BY <2>2, UpdatedRow
      <4> QED BY <3>1, <1>t, <2>2, <4>1 DEF UpdateMember, TypeOK
    <3>2. CASE RemoveMember(h)
      BY <3>2, <1>t, <2>2 DEF RemoveMember, Removed, NoMember, TypeOK
    <3> QED BY <1>5, <3>1, <3>2
  <2>5. ASSUME NEW p \in Orgs \ {o}, There(p)', org'[p].founded, p \notin outpaced'
        PROVE  ActiveManagers(p)' # {}
    <3>1. ActiveManagers(p) # {}
      BY <2>3, <2>5 DEF ManagerKept, There
    <3>2. ActiveManagers(p) \subseteq ActiveManagers(p)'
      BY <2>2, <2>3, <2>4 DEF ActiveManagers, ActiveMembers, MembersOf
    <3> QED BY <3>1, <3>2
  <2>6. ASSUME There(o)', org'[o].founded, o \notin outpaced'
        PROVE  ActiveManagers(o)' # {}
    <3>1. /\ ActiveManagers(o) # {} /\ r.managers = ActiveManagers(o)
          /\ LosesManager(h) => Cardinality(ActiveManagers(o)) > 1
      BY <2>2, <2>3, <2>6 DEF ManagerKept, There
    <3>2. ActiveManagers(o) \ {i} \subseteq ActiveManagers(o)'
      BY <2>3 DEF ActiveManagers, ActiveMembers, MembersOf
    <3>3. CASE i \notin ActiveManagers(o)
      BY <3>1, <3>2, <3>3
    <3>4. CASE i \in ActiveManagers(o) /\ LosesManager(h)
      <4>1. Cardinality(ActiveManagers(o) \ {i}) = Cardinality(ActiveManagers(o)) - 1
        BY <3>4, ManagersFinite, FS_RemoveElement
      <4>2. ActiveManagers(o) \ {i} # {}
        BY <3>1, <3>4, <4>1, FS_EmptySet, ManagersFinite
      <4> QED BY <3>2, <4>2
    <3>5. CASE i \in ActiveManagers(o) /\ ~LosesManager(h)
      <4>1. /\ r.op = "updateMember" /\ r.row.role \in {"same", "MANAGER"}
            /\ r.row.status \in {"same", "ACTIVE"}
        BY <3>1, <3>5 DEF LosesManager
      <4>2. member'[i] = Updated(i, r.row)
        BY <1>5, <1>t, <2>2, <4>1 DEF UpdateMember, RemoveMember, TypeOK
      <4>3. member[i].role = "MANAGER" /\ member[i].status = "ACTIVE"
        BY <3>5 DEF ActiveManagers, ActiveMembers
      <4>4. Updated(i, r.row).role = "MANAGER" /\ Updated(i, r.row).status = "ACTIVE"
        BY <2>2, <4>1, <4>3 DEF Updated, AskedRow
      <4>5. Updated(i, r.row).org = o
        BY <2>2, UpdatedRow
      <4>6. i \in ActiveManagers(o)'
        BY <2>2, <4>2, <4>4, <4>5 DEF ActiveManagers, ActiveMembers, MembersOf
      <4> QED BY <4>6
    <3> QED BY <3>3, <3>4, <3>5
  <2> QED BY <2>5, <2>6 DEF ManagerKept
<1>6. ASSUME NEW h \in Handlers, DeleteOrganization(h)
      PROVE  ManagerKept'
  <2>0. PICK o : o = handler[h].org
    OBVIOUS
  <2>1. o \in Orgs
    BY <1>6, <2>0 DEF TenantInv, RequestOK, DeleteOrganization, At
  <2>2. org'[o].status = "deleted" /\ \A p \in Orgs \ {o} : org'[p] = org[p]
    BY <1>6, <1>t, <2>0, <2>1 DEF DeleteOrganization, TypeOK, OrgRow
  <2>3. \A j \in MemberIds : member[j].org # o => member'[j] = member[j]
    BY <1>6, <2>0 DEF DeleteOrganization
  <2>4. \A p \in Orgs \ {o} : ActiveManagers(p) \subseteq ActiveManagers(p)'
    BY <2>3 DEF ActiveManagers, ActiveMembers, MembersOf
  <2>5. UNCHANGED outpaced
    BY <1>6 DEF DeleteOrganization
  <2>6. ~There(o)'
    BY <2>2 DEF There
  <2> QED BY <2>2, <2>4, <2>5, <2>6 DEF ManagerKept, There
<1>7. ASSUME NEW o \in Orgs, NEW u \in Candidates, SelfRegister(o, u)
      PROVE  ManagerKept'
  <2>1. PICK i \in MemberIds : NextId(i) /\ member' = [member EXCEPT ![i] = FounderOf(o, u)]
    BY <1>7 DEF SelfRegister
  <2>2. /\ member[i].org = "none" /\ member'[i] = FounderOf(o, u)
        /\ \A j \in MemberIds \ {i} : member'[j] = member[j]
    BY <1>t, <2>1 DEF NextId, NoMember, TypeOK
  <2>3. \A p \in Orgs : ActiveManagers(p) \subseteq ActiveManagers(p)'
    BY <1>t, <2>2 DEF ActiveManagers, ActiveMembers, MembersOf
  <2>4. i \in ActiveManagers(o)'
    BY <2>2 DEF FounderOf, ActiveManagers, ActiveMembers, MembersOf
  <2>5. UNCHANGED outpaced /\ \A p \in Orgs \ {o} : org'[p] = org[p]
    BY <1>7, <1>t DEF SelfRegister, TypeOK, ghostVars
  <2> QED BY <2>3, <2>4, <2>5 DEF ManagerKept, There
<1>8. ASSUME NEW h \in Handlers,
             \/ \E o \in Orgs : CreateOrganization(h, o)
             \/ WriteLogo(h) \/ AttachTrialSubscription(h) \/ CreateBranch(h) \/ CreateQueue(h)
      PROVE  ManagerKept'
  <2>1. UNCHANGED <<member, outpaced>>
    BY <1>8 DEF CreateOrganization, WriteLogo, AttachTrialSubscription, CreateBranch, CreateQueue, ghostVars
  <2>2. \A o \in Orgs : There(o)' /\ org'[o].founded => There(o) /\ org[o].founded
    <3>1. CASE \E o \in Orgs : CreateOrganization(h, o)
      BY <3>1, <1>t DEF CreateOrganization, NoOrg, There, TypeOK
    <3>2. CASE WriteLogo(h)
      BY <3>2, <1>t DEF WriteLogo, There, TypeOK, OrgRow
    <3>3. CASE AttachTrialSubscription(h)
      BY <3>3, <1>t DEF AttachTrialSubscription, There, TypeOK, OrgRow
    <3>4. CASE CreateBranch(h) \/ CreateQueue(h)
      BY <3>4 DEF CreateBranch, CreateQueue, There
    <3> QED BY <1>8, <3>1, <3>2, <3>3, <3>4
  <2> QED BY <2>1, <2>2, <1>2
<1>9. ASSUME NEW o \in Orgs, \/ \E status \in {"ACTIVE", "SUSPENDED"} : SetOrganizationStatus(o, status)
                             \/ Bill(o)
      PROVE  ManagerKept'
  <2>1. UNCHANGED <<member, outpaced>> /\ There(o)
    BY <1>9 DEF SetOrganizationStatus, Bill, ghostVars
  <2>2. \A p \in Orgs \ {o} : org'[p] = org[p]
    BY <1>9, <1>t DEF SetOrganizationStatus, Bill, TypeOK
  <2>3. org'[o].founded = org[o].founded
    BY <1>9, <1>t DEF SetOrganizationStatus, Bill, TypeOK, OrgRow
  <2> QED BY <2>1, <2>2, <2>3, <1>2 DEF There
<1>10. ASSUME NEW c \in Counters, CreateCounter(c) \/ DeleteCounter(c)
       PROVE  ManagerKept'
  <2>1. \A i \in MemberIds : /\ member'[i].org = member[i].org /\ member'[i].role = member[i].role
                             /\ member'[i].status = member[i].status
    BY <1>10, <1>t DEF CreateCounter, DeleteCounter, TypeOK, MemberRow
  <2>2. \A o \in Orgs : ActiveManagers(o) \subseteq ActiveManagers(o)'
    BY <2>1 DEF ActiveManagers, ActiveMembers, MembersOf
  <2> QED BY <1>10, <2>2, <1>1 DEF CreateCounter, DeleteCounter, ghostVars, There
<1> QED BY <1>3, <1>4, <1>5, <1>6, <1>7, <1>8, <1>9, <1>10, RowWriters

LEMMA ManagersStart == Init => ManagerKept
<1> SUFFICES ASSUME Init, NEW o \in Orgs, org[o].founded PROVE ActiveManagers(o) # {}
  BY DEF ManagerKept
<1>1. PICK b \in Beginnings :
        /\ org = [p \in Orgs |-> IF p \in DOMAIN b.founders THEN Founded ELSE NoOrg]
        /\ member = [i \in MemberIds |->
             IF \E p \in DOMAIN b.founders : b.founders[p].id = i
             THEN LET p == CHOOSE p \in DOMAIN b.founders : b.founders[p].id = i
                  IN FounderOf(p, b.founders[p].user)
             ELSE NoMember]
  BY DEF Init
<1>2. o \in DOMAIN b.founders
  BY <1>1 DEF NoOrg
<1> DEFINE i == b.founders[o].id
<1>3. /\ i \in MemberIds
      /\ \A p \in DOMAIN b.founders : b.founders[p].id = i => p = o
  BY <1>2, TenantConstants
<1>4. member[i] = FounderOf(o, b.founders[o].user)
  <2>1. \E p \in DOMAIN b.founders : b.founders[p].id = i
    BY <1>2
  <2>2. (CHOOSE p \in DOMAIN b.founders : b.founders[p].id = i) = o
    BY <1>2, <1>3
  <2> QED BY <1>1, <1>3, <2>1, <2>2
<1> QED BY <1>3, <1>4 DEF FounderOf, ActiveManagers, ActiveMembers, MembersOf

\* An organization that has had a manager keeps one, however its managers demote, suspend and
\* remove each other, unless its managers changed between what a request read and wrote.
THEOREM ManagersKept == Spec => []ManagerKept
BY ManagersStart, ManagersNext, TenantsInOrder, PTL DEF Spec

-----------------------------------------------------------------------------
\* The roles on the platform in their order.
LEMMA Ranks ==
  /\ Rank("CUSTOMER") = 1 /\ Rank("STAFF") = 2
  /\ Rank("MANAGER") = 3 /\ Rank("ADMINISTRATOR") = 4
<1> DEFINE roles == <<"CUSTOMER", "STAFF", "MANAGER", "ADMINISTRATOR">>
<1>1. /\ roles[1] = "CUSTOMER" /\ roles[2] = "STAFF"
      /\ roles[3] = "MANAGER" /\ roles[4] = "ADMINISTRATOR"
  OBVIOUS
<1>2. \A n \in 1..4 : n \in {1, 2, 3, 4}
  OBVIOUS
<1> HIDE DEF roles
<1>3. ASSUME NEW k \in {1, 2, 3, 4}
      PROVE  (CHOOSE n \in 1..4 : roles[n] = roles[k]) = k
  BY <1>1, <1>2, <1>3
<1>4. \A k \in {1, 2, 3, 4} : Rank(roles[k]) = k
  BY <1>3 DEF Rank, roles
<1> QED BY <1>1, <1>4

\* A promotion lowers nobody and covers the membership it is for.
LEMMA PromotionCovers ==
  \A current \in UserRoles, m \in MemberRoles :
    /\ Rank(promotedRole(current, m)) >= Rank(current)
    /\ Rank(promotedRole(current, m)) >= Rank(m)
BY Ranks DEF promotedRole, UserRoles, MemberRoles

LEMMA PromoteCovers ==
  ASSUME TypeOK, NEW h \in Handlers, handler[h].row.user \in Users, PromoteUser(h)
  PROVE  LET u == handler[h].row.user IN
         /\ \A v \in Users \ {u} : role'[v] = role[v]
         /\ outrun \subseteq outrun'
         /\ u \notin outrun' =>
              /\ Rank(role'[u]) >= Rank(role[u])
              /\ handler[h].row.role # "same" => Rank(role'[u]) >= Rank(handler[h].row.role)
<1> DEFINE u == handler[h].row.user
           r == handler[h]
<1>1. r \in Locals /\ role[u] \in UserRoles
  BY DEF TypeOK
<1>2. (\A v \in Users \ {u} : role'[v] = role[v]) /\ outrun \subseteq outrun'
  BY DEF PromoteUser, TypeOK
<1>3. ASSUME u \notin outrun'
      PROVE  /\ Rank(role'[u]) >= Rank(role[u])
             /\ r.row.role # "same" => Rank(role'[u]) >= Rank(r.row.role)
  <2>1. r.read = role[u]
    BY <1>3 DEF PromoteUser
  <2>2. CASE r.row.role = "same"
    <3>1. role' = role
      BY <2>2 DEF PromoteUser
    <3> QED BY <1>1, <2>2, <3>1, Ranks DEF UserRoles
  <2>3. CASE r.row.role # "same"
    <3>1. r.row.role \in MemberRoles
      BY <1>1, <2>3 DEF Locals, AskedRow
    <3>2. role'[u] = promotedRole(role[u], r.row.role)
      BY <1>1, <2>1, <2>3 DEF PromoteUser, AlignedRole, TypeOK
    <3> QED BY <1>1, <3>1, <3>2, PromotionCovers
  <2> QED BY <2>2, <2>3
<1> QED BY <1>2, <1>3

LEMMA RolesNext == TenantInv /\ RoleCoversMemberships /\ [Next]_vars => RoleCoversMemberships'
<1> SUFFICES ASSUME TenantInv, RoleCoversMemberships, [Next]_vars PROVE RoleCoversMemberships'
  OBVIOUS
<1>t. TypeOK
  BY DEF TenantInv
<1>r. /\ \A u \in Users : Rank(role[u]) \in Nat
      /\ \A i \in MemberIds : Rank(member[i].role) \in Nat
  BY <1>t, Ranks DEF TypeOK, UserRoles, MemberRow, MemberRoles
<1>1. ASSUME UNCHANGED <<role, outrun>>,
             \A i \in MemberIds : member'[i].org # "none" =>
               /\ member[i].org # "none"
               /\ member'[i].user = member[i].user /\ member'[i].role = member[i].role
      PROVE  RoleCoversMemberships'
  BY <1>1 DEF RoleCoversMemberships, Present
<1>2. CASE UNCHANGED <<member, role, outrun>>
  BY <1>1, <1>2
<1>3. ASSUME NEW h \in Handlers, AddMember(h) \/ UpdateMember(h)
      PROVE  RoleCoversMemberships'
  <2>0. PICK row, u : row = handler[h].row /\ u = row.user
    OBVIOUS
  <2>1. u \in Users
    BY <1>3, <2>0 DEF TenantInv, RequestOK, AddMember, UpdateMember
  <2>2. /\ \A v \in Users \ {u} : role'[v] = role[v]
        /\ outrun \subseteq outrun'
        /\ u \notin outrun' => /\ Rank(role'[u]) >= Rank(role[u])
                               /\ row.role # "same" => Rank(role'[u]) >= Rank(row.role)
    BY <1>3, <1>t, <2>0, <2>1, PromoteCovers DEF AddMember, UpdateMember
  <2>3. Rank(role'[u]) \in Nat
    <3>1. role' \in [Users -> UserRoles]
      BY TypeNext DEF TypeOK
    <3> QED BY <2>1, <3>1, Ranks DEF UserRoles
  <2>4. PICK i \in MemberIds :
          /\ \A j \in MemberIds \ {i} : member'[j] = member[j]
          /\ member'[i].user = u
          /\ \/ row.role # "same" /\ member'[i].role = row.role
             \/ Present(i) /\ member[i].user = u /\ member'[i].role = member[i].role
    <3>1. CASE AddMember(h)
      <4>1. row \in MemberRow
        BY <2>0, <3>1 DEF TenantInv, RequestOK, AddMember
      <4>2. row.role # "same"
        BY <4>1 DEF MemberRow, MemberRoles
      <4>3. PICK i \in MemberIds : member' = [member EXCEPT ![i] = row]
        BY <2>0, <3>1 DEF AddMember
      <4> QED BY <1>t, <2>0, <4>2, <4>3 DEF TypeOK
    <3>2. CASE UpdateMember(h)
      <4>0. PICK i : i = handler[h].id
        OBVIOUS
      <4>1. i \in MemberIds /\ Present(i) /\ member[i].user = u
        BY <2>0, <3>2, <4>0 DEF TenantInv, RequestOK, UpdateMember
      <4>2. row \in AskedRow /\ member[i] \in MemberRow
        BY <1>t, <2>0, <4>1 DEF TypeOK, Locals
      <4>3. /\ Updated(i, row).user = u
            /\ Updated(i, row).role = IF row.role = "same" THEN member[i].role ELSE row.role
        <5>1. Updated(i, row).user = row.user
          BY <4>2, UpdatedRow
        <5> QED BY <2>0, <4>2, <5>1 DEF Updated, AskedRow
      <4>4. member' = [member EXCEPT ![i] = Updated(i, row)]
        BY <2>0, <3>2, <4>0 DEF UpdateMember
      <4>5. member'[i] = Updated(i, row) /\ \A j \in MemberIds \ {i} : member'[j] = member[j]
        BY <1>t, <4>1, <4>4 DEF TypeOK
      <4> QED BY <4>1, <4>3, <4>5
    <3> QED BY <1>3, <3>1, <3>2
  <2>5. ASSUME NEW j \in MemberIds, Present(j)', member'[j].user \notin outrun'
        PROVE  Rank(role'[member'[j].user]) >= Rank(member'[j].role)
    <3>1. CASE j = i
      <4>1. CASE row.role # "same" /\ member'[i].role = row.role
        BY <2>2, <2>4, <2>5, <3>1, <4>1
      <4>2. CASE Present(i) /\ member[i].user = u /\ member'[i].role = member[i].role
        <5>1. Rank(role[u]) >= Rank(member[i].role) /\ Rank(role'[u]) >= Rank(role[u])
          BY <2>2, <2>4, <2>5, <3>1, <4>2 DEF RoleCoversMemberships
        <5> QED BY <1>r, <2>1, <2>3, <2>4, <3>1, <4>2, <5>1
      <4> QED BY <2>4, <4>1, <4>2
    <3>2. CASE j # i
      <4>1. member'[j] = member[j] /\ Present(j) /\ member[j].user \in Users
        BY <2>4, <2>5, <3>2 DEF Present, TenantInv
      <4>2. Rank(role[member[j].user]) >= Rank(member[j].role)
        BY <2>2, <2>5, <4>1 DEF RoleCoversMemberships
      <4>3. CASE member[j].user = u
        <5>1. Rank(role'[u]) >= Rank(role[u])
          BY <2>2, <2>5, <4>1, <4>3
        <5> QED BY <1>r, <2>1, <2>3, <4>1, <4>2, <4>3, <5>1
      <4>4. CASE member[j].user # u
        BY <2>2, <4>1, <4>2, <4>4
      <4> QED BY <4>3, <4>4
    <3> QED BY <3>1, <3>2
  <2> QED BY <2>5 DEF RoleCoversMemberships
<1>4. ASSUME NEW h \in Handlers, RemoveMember(h)
      PROVE  RoleCoversMemberships'
  <2>1. \A i \in MemberIds : member'[i] = member[i] \/ member'[i].org = "none"
    BY <1>4, <1>t DEF RemoveMember, Removed, NoMember, TypeOK
  <2> QED BY <1>4, <1>1, <2>1 DEF RemoveMember
<1>5. ASSUME NEW h \in Handlers, DeleteOrganization(h)
      PROVE  RoleCoversMemberships'
  <2>1. \A i \in MemberIds : member'[i] = member[i] \/ member'[i].org = "none"
    BY <1>5 DEF DeleteOrganization, Removed, NoMember
  <2> QED BY <1>5, <1>1, <2>1 DEF DeleteOrganization
<1>6. ASSUME NEW o \in Orgs, NEW u \in Candidates, SelfRegister(o, u)
      PROVE  RoleCoversMemberships'
  <2>0. u \in Users /\ role[u] = "CUSTOMER"
    BY <1>6, TenantConstants DEF SelfRegister
  <2>1. PICK i \in MemberIds : member' = [member EXCEPT ![i] = FounderOf(o, u)]
    BY <1>6 DEF SelfRegister
  <2>2. /\ member'[i].user = u /\ member'[i].role = "MANAGER"
        /\ \A j \in MemberIds \ {i} : member'[j] = member[j]
    BY <1>t, <2>1 DEF FounderOf, TypeOK
  <2>3. role'[u] = "MANAGER" /\ UNCHANGED outrun /\ \A v \in Users \ {u} : role'[v] = role[v]
    BY <1>6, <1>t, <2>0 DEF SelfRegister, TypeOK, ghostVars
  <2>4. \A v \in Users : Rank(role'[v]) >= Rank(role[v]) /\ Rank(role'[v]) \in Nat
    BY <1>r, <2>0, <2>3, Ranks
  <2>5. ASSUME NEW j \in MemberIds, Present(j)', member'[j].user \notin outrun'
        PROVE  Rank(role'[member'[j].user]) >= Rank(member'[j].role)
    <3>1. CASE j = i
      BY <2>2, <2>3, <3>1, Ranks
    <3>2. CASE j # i
      <4>1. member'[j] = member[j] /\ Present(j) /\ member[j].user \in Users
        BY <2>2, <2>5, <3>2 DEF Present, TenantInv
      <4>2. Rank(role[member[j].user]) >= Rank(member[j].role)
        BY <2>3, <2>5, <4>1 DEF RoleCoversMemberships
      <4> QED BY <1>r, <2>4, <4>1, <4>2
    <3> QED BY <3>1, <3>2
  <2> QED BY <2>5 DEF RoleCoversMemberships
<1>7. ASSUME NEW c \in Counters, DeleteCounter(c)
      PROVE  RoleCoversMemberships'
  <2>1. \A i \in MemberIds : /\ member'[i].org = member[i].org /\ member'[i].role = member[i].role
                             /\ member'[i].user = member[i].user
    BY <1>7, <1>t DEF DeleteCounter, TypeOK, MemberRow
  <2> QED BY <1>7, <1>1, <2>1 DEF DeleteCounter, ghostVars
<1>8. ASSUME \/ \E h \in Handlers :
                  \/ \E o \in Orgs : CreateOrganization(h, o)
                  \/ WriteLogo(h) \/ AttachTrialSubscription(h)
                  \/ CreateBranch(h) \/ CreateQueue(h)
             \/ \E o \in Orgs :
                  \/ \E status \in {"ACTIVE", "SUSPENDED"} : SetOrganizationStatus(o, status)
                  \/ Bill(o)
             \/ \E c \in Counters : CreateCounter(c)
             \/ UNCHANGED <<rowVars, ghostVars>>
      PROVE  RoleCoversMemberships'
  BY <1>8, <1>2 DEF CreateOrganization, WriteLogo, AttachTrialSubscription, CreateBranch, CreateQueue,
                    SetOrganizationStatus, Bill, CreateCounter, rowVars, ghostVars
<1> QED BY <1>3, <1>4, <1>5, <1>6, <1>7, <1>8, RowWriters

\* The role on the platform covers every membership, unless it changed between the read and
\* the write of a promotion.
THEOREM RolesCover == Spec => []RoleCoversMemberships
<1>1. Init => RoleCoversMemberships
  <2> SUFFICES ASSUME Init, NEW i \in MemberIds, Present(i)
               PROVE  Rank(role[member[i].user]) >= Rank(member[i].role)
    BY DEF RoleCoversMemberships
  <2>1. PICK b \in Beginnings :
          /\ member = [j \in MemberIds |->
               IF \E o \in DOMAIN b.founders : b.founders[o].id = j
               THEN LET o == CHOOSE o \in DOMAIN b.founders : b.founders[o].id = j
                    IN FounderOf(o, b.founders[o].user)
               ELSE NoMember]
          /\ role = [u \in Users |->
               IF \E o \in DOMAIN b.founders : b.founders[o].user = u THEN "MANAGER" ELSE "CUSTOMER"]
    BY DEF Init
  <2>2. PICK o \in DOMAIN b.founders : member[i] = FounderOf(o, b.founders[o].user)
    BY <2>1 DEF Present, NoMember
  <2>3. member[i].user = b.founders[o].user /\ member[i].role = "MANAGER" /\ b.founders[o].user \in Users
    <3>1. b.founders[o].user \in Users
      BY TenantConstants
    <3>2. \A p, u : FounderOf(p, u).user = u /\ FounderOf(p, u).role = "MANAGER"
      BY DEF FounderOf
    <3> QED BY <2>2, <3>1, <3>2
  <2>4. role[member[i].user] = "MANAGER"
    BY <2>1, <2>3
  <2> QED BY <2>3, <2>4, Ranks
<1> QED BY <1>1, RolesNext, TenantsInOrder, PTL DEF Spec

-----------------------------------------------------------------------------
\* What the plan counts, and the requests that have found room in it.
BranchesOf(o) == {b \in branches : b[1] = o}
QueuesOf(b) == {q \in queues : q[1] = b}
ClearedFor(op, o) == {h \in Cleared(op) : handler[h].org = o}
ClearedQueues(b) == {h \in Cleared("createQueue") : handler[h].queue[1] = b}

\* Rows and cleared requests exceed the limit by no more than the other requests.
Within(rows, cleared, limit) ==
  Cardinality(rows) + Cardinality(cleared) <= limit + (Cardinality(Handlers) - 1)

LEMMA QuotasAre ==
  TypeOK =>
    (QuotasHold <=>
       /\ \A o \in Orgs : /\ Within(BranchesOf(o), ClearedFor("createBranch", o), maxBranches)
                          /\ Within(ActiveMembers(o), ClearedFor("addMember", o), maxStaff + reactivated[o])
       /\ \A b \in Branches : Within(QueuesOf(b), ClearedQueues(b), maxQueuesPerBranch))
<1> SUFFICES ASSUME TypeOK
             PROVE  QuotasHold <=>
                      /\ \A o \in Orgs :
                           /\ Within(BranchesOf(o), ClearedFor("createBranch", o), maxBranches)
                           /\ Within(ActiveMembers(o), ClearedFor("addMember", o), maxStaff + reactivated[o])
                      /\ \A b \in Branches : Within(QueuesOf(b), ClearedQueues(b), maxQueuesPerBranch)
  OBVIOUS
<1>1. Cardinality(Handlers) \in Nat /\ maxStaff \in Nat /\ \A o \in Orgs : reactivated[o] \in Nat
  BY TenantConstants, FS_CardinalityType DEF TypeOK
<1>2. \A o \in Orgs : maxStaff + (Cardinality(Handlers) - 1) + reactivated[o]
                       = maxStaff + reactivated[o] + (Cardinality(Handlers) - 1)
  BY <1>1
<1> QED BY <1>2 DEF QuotasHold, Within, BranchesOf, QueuesOf, ClearedFor, ClearedQueues

\* Fewer rows and requests; a request that adds its row and ends; a request that finds room.
LEMMA Room ==
  ASSUME NEW A, IsFiniteSet(A), NEW A2, NEW C \in SUBSET Handlers, NEW C2 \in SUBSET Handlers,
         NEW limit \in Nat, Within(A, C, limit),
         \/ A2 \subseteq A /\ C2 \subseteq C
         \/ \E x, h : A2 \subseteq A \cup {x} /\ h \in C /\ C2 \subseteq C \ {h}
         \/ A2 \subseteq A /\ Cardinality(A) < limit
  PROVE  Within(A2, C2, limit)
<1>1. IsFiniteSet(Handlers) /\ Cardinality(Handlers) \in Nat /\ Cardinality(A) \in Nat
  BY TenantConstants, FS_CardinalityType
<1>2. /\ IsFiniteSet(C) /\ Cardinality(C) \in Nat
      /\ IsFiniteSet(C2) /\ Cardinality(C2) \in Nat /\ Cardinality(C2) <= Cardinality(Handlers)
  BY <1>1, FS_Subset, FS_CardinalityType
<1>3. CASE A2 \subseteq A /\ C2 \subseteq C
  <2>1. Cardinality(A2) <= Cardinality(A) /\ IsFiniteSet(A2)
    BY <1>3, FS_Subset
  <2>2. Cardinality(C2) <= Cardinality(C)
    BY <1>2, <1>3, FS_Subset
  <2> QED BY <1>1, <1>2, <2>1, <2>2, FS_CardinalityType DEF Within
<1>4. ASSUME NEW x, NEW h, A2 \subseteq A \cup {x}, h \in C, C2 \subseteq C \ {h}
      PROVE  Within(A2, C2, limit)
  <2>1. IsFiniteSet(A \cup {x}) /\ Cardinality(A \cup {x}) <= Cardinality(A) + 1
    <3>1. /\ IsFiniteSet(A \cup {x})
          /\ Cardinality(A \cup {x}) = IF x \in A THEN Cardinality(A) ELSE Cardinality(A) + 1
      BY FS_AddElement
    <3> QED BY <1>1, <3>1
  <2>2. Cardinality(A2) <= Cardinality(A \cup {x}) /\ IsFiniteSet(A2)
    BY <1>4, <2>1, FS_Subset
  <2>3. IsFiniteSet(C \ {h}) /\ Cardinality(C \ {h}) = Cardinality(C) - 1
    BY <1>2, <1>4, FS_RemoveElement
  <2>4. Cardinality(C2) <= Cardinality(C \ {h})
    BY <1>4, <2>3, FS_Subset
  <2>5. Cardinality(A2) \in Nat /\ Cardinality(A \cup {x}) \in Nat
    BY <2>1, <2>2, FS_CardinalityType
  <2> QED BY <1>1, <1>2, <2>1, <2>2, <2>3, <2>4, <2>5 DEF Within
<1>5. CASE A2 \subseteq A /\ Cardinality(A) < limit
  <2>1. Cardinality(A2) <= Cardinality(A) /\ IsFiniteSet(A2)
    BY <1>5, FS_Subset
  <2>2. Cardinality(A2) \in Nat
    BY <2>1, FS_CardinalityType
  <2> QED BY <1>1, <1>2, <1>5, <2>1, <2>2 DEF Within
<1> QED BY <1>3, <1>4, <1>5

\* A row more, and a limit that is one more.
LEMMA MoreRoom ==
  ASSUME NEW A, IsFiniteSet(A), NEW A2, NEW C \in SUBSET Handlers, NEW C2 \in SUBSET C,
         NEW limit \in Nat, Within(A, C, limit), NEW x, A2 \subseteq A \cup {x}
  PROVE  Within(A2, C2, limit + 1)
<1>1. IsFiniteSet(Handlers) /\ Cardinality(Handlers) \in Nat /\ Cardinality(A) \in Nat
  BY TenantConstants, FS_CardinalityType
<1>2. IsFiniteSet(C) /\ Cardinality(C) \in Nat
  BY <1>1, FS_Subset, FS_CardinalityType
<1>3. Cardinality(C2) <= Cardinality(C) /\ Cardinality(C2) \in Nat
  BY <1>2, FS_Subset, FS_CardinalityType
<1>4. IsFiniteSet(A \cup {x}) /\ Cardinality(A \cup {x}) <= Cardinality(A) + 1
  BY <1>1, FS_AddElement
<1>5. Cardinality(A2) <= Cardinality(A \cup {x}) /\ IsFiniteSet(A2)
  BY <1>4, FS_Subset
<1>6. Cardinality(A2) \in Nat /\ Cardinality(A \cup {x}) \in Nat
  BY <1>4, <1>5, FS_CardinalityType
<1> QED BY <1>1, <1>2, <1>3, <1>4, <1>5, <1>6 DEF Within

\* A cleared request was cleared before, or is being so.
ClearedSo(op, h) ==
  /\ handler'[h].org = handler[h].org /\ handler'[h].queue = handler[h].queue
  /\ h \in Cleared(op) \/ (handler[h].op = op /\ (CheckQuota(h) \/ CheckAddMember(h)))

\* Only the count lets a request go on to its write.
LEMMA ClearedShrinks ==
  ASSUME TenantInv, [Next]_vars, NEW op \in {"createBranch", "createQueue", "addMember"},
         NEW h \in Cleared(op)'
  PROVE  ClearedSo(op, h)
<1>t. TypeOK /\ h \in Handlers /\ handler[h] \in Locals
  BY DEF TenantInv, TypeOK, Cleared
<1>c. handler'[h].op = op /\ handler'[h].pc \in {"role", "write"}
  BY DEF Cleared
<1>u. ASSUME handler'[h] = handler[h] PROVE ClearedSo(op, h)
  BY <1>u, <1>c, <1>t DEF Cleared, ClearedSo
<1>s. ASSUME NEW g \in Handlers, NEW locals, handler' = [handler EXCEPT ![g] = locals],
             locals.op # op \/ locals.pc \notin {"role", "write"}
      PROVE  ClearedSo(op, h)
  BY <1>s, <1>u, <1>c, <1>t DEF TypeOK
<1>f. ASSUME NEW g \in Handlers, Finish(g) PROVE ClearedSo(op, h)
  BY <1>f, <1>s DEF Finish, Idle
<1>m. ASSUME NEW g \in Handlers, NEW o, NEW mop, NEW locals, Manage(g, mop, o, locals),
             locals.op # op \/ locals.pc \notin {"role", "write"}
      PROVE  ClearedSo(op, h)
  BY <1>m, <1>s DEF Manage
<1>1. ASSUME NEW g \in Handlers, NEW o \in Orgs, MemberArrival(g, o)
      PROVE  ClearedSo(op, h)
  <2>1. ASSUME NEW u, NEW m, NEW place, StartAddMember(g, o, u, m, place)
        PROVE  ClearedSo(op, h)
    <3> DEFINE l == [Idle EXCEPT !.pc = "check", !.op = "addMember", !.org = o,
                       !.row = [org |-> o, user |-> u, role |-> m, status |-> "ACTIVE",
                                branch |-> place[1], counter |-> place[2]]]
    <3>1. Manage(g, "addMember", o, l) /\ l.pc = "check"
      BY <2>1 DEF StartAddMember, Idle
    <3> HIDE DEF l
    <3> QED BY <3>1, <1>m
  <2>2. ASSUME NEW i, NEW m, NEW status, NEW place, StartUpdateMember(g, o, i, m, status, place)
        PROVE  ClearedSo(op, h)
    <3> DEFINE l == [Idle EXCEPT !.pc = "count", !.op = "updateMember", !.org = o, !.id = i,
                       !.managers = ActiveManagers(o),
                       !.row = [member[i] EXCEPT !.role = m, !.status = status,
                                                 !.branch = place[1], !.counter = place[2]]]
    <3>1. Manage(g, "updateMember", o, l) /\ l.pc = "count"
      BY <2>2 DEF StartUpdateMember, Idle
    <3> HIDE DEF l
    <3> QED BY <3>1, <1>m
  <2>3. ASSUME NEW i, StartRemoveMember(g, o, i)
        PROVE  ClearedSo(op, h)
    <3> DEFINE l == [Idle EXCEPT !.pc = "count", !.op = "removeMember", !.org = o, !.id = i,
                       !.managers = ActiveManagers(o), !.row = member[i]]
    <3>1. Manage(g, "removeMember", o, l) /\ l.pc = "count"
      BY <2>3 DEF StartRemoveMember, Idle
    <3> HIDE DEF l
    <3> QED BY <3>1, <1>m
  <2> QED BY <1>1, <2>1, <2>2, <2>3 DEF MemberArrival
<1>2. ASSUME NEW g \in Handlers, NEW b \in Branches, StartCreateBranch(g, b)
      PROVE  ClearedSo(op, h)
  <2> DEFINE l == [Idle EXCEPT !.pc = "check", !.op = "createBranch", !.org = b[1], !.branch = b]
  <2>1. Manage(g, "createBranch", b[1], l) /\ l.pc = "check"
    BY <1>2 DEF StartCreateBranch, Idle
  <2> HIDE DEF l
  <2> QED BY <2>1, <1>m
<1>3. ASSUME NEW g \in Handlers, NEW q \in QueueIds, StartCreateQueue(g, q)
      PROVE  ClearedSo(op, h)
  <2> DEFINE l == [Idle EXCEPT !.pc = "check", !.op = "createQueue", !.org = q[1][1], !.queue = q]
  <2>1. Manage(g, "createQueue", q[1][1], l) /\ l.pc = "check"
    BY <1>3 DEF StartCreateQueue, Idle
  <2> HIDE DEF l
  <2> QED BY <2>1, <1>m
<1>7. ASSUME NEW g \in Handlers, NEW o \in Orgs, NEW lop \in {"setLogo", "clearLogo"}, StartLogo(g, o, lop)
      PROVE  ClearedSo(op, h)
  <2> DEFINE l == [Idle EXCEPT !.pc = "write", !.op = lop, !.org = o]
  <2>1. Manage(g, lop, o, l) /\ l.op = lop
    BY <1>7 DEF StartLogo, Idle
  <2> HIDE DEF l
  <2> QED BY <2>1, <1>m
<1>8. ASSUME NEW g \in Handlers, NEW o \in Orgs, CreateOrganization(g, o)
      PROVE  ClearedSo(op, h)
  <2> DEFINE l == [Idle EXCEPT !.pc = "trial", !.op = "createOrganization", !.org = o]
  <2>1. handler' = [handler EXCEPT ![g] = l] /\ l.pc = "trial"
    BY <1>8 DEF CreateOrganization, Idle
  <2> HIDE DEF l
  <2> QED BY <2>1, <1>s
<1>9. ASSUME NEW g \in Handlers, NEW o \in Orgs, NEW force \in BOOLEAN, StartDelete(g, o, force)
      PROVE  ClearedSo(op, h)
  <2> DEFINE l == [Idle EXCEPT !.pc = IF org[o].paid > 0 THEN "snapshot" ELSE "write",
                         !.op = "deleteOrganization", !.org = o]
  <2>1. handler' = handler \/ handler' = [handler EXCEPT ![g] = l]
    BY <1>9 DEF StartDelete
  <2>2. l.op = "deleteOrganization"
    BY DEF Idle
  <2> HIDE DEF l
  <2> QED BY <2>1, <2>2, <1>s, <1>u
<1>4. ASSUME NEW g \in Handlers,
             CheckQuota(g) \/ CheckAddMember(g) \/ ReadRole(g) \/ CountManagers(g) \/ KeepFiscalSnapshot(g)
      PROVE  ClearedSo(op, h)
  <2>1. CASE g # h
    <3>1. handler'[h] = handler[h]
      BY <1>4, <1>t, <2>1 DEF CheckQuota, CheckAddMember, ReadRole, CountManagers, KeepFiscalSnapshot,
                              Finish, TypeOK
    <3> QED BY <3>1, <1>u
  <2>2. CASE g = h /\ Finish(h)
    BY <2>2, <1>f, <1>t
  <2>3. CASE g = h /\ ~Finish(h)
    <3>1. /\ handler'[h].op = handler[h].op /\ handler'[h].org = handler[h].org
          /\ handler'[h].queue = handler[h].queue
      BY <1>4, <1>t, <2>3 DEF CheckQuota, CheckAddMember, ReadRole, CountManagers, KeepFiscalSnapshot,
                              TypeOK, Locals
    <3>2. CASE CheckQuota(h) \/ CheckAddMember(h)
      BY <3>1, <3>2, <1>c DEF ClearedSo
    <3>3. CASE ReadRole(h)
      BY <3>1, <3>3, <1>c, <1>t DEF ReadRole, At, Cleared, ClearedSo
    <3>4. CASE CountManagers(h)
      BY <3>1, <3>4, <1>c DEF CountManagers
    <3>5. CASE KeepFiscalSnapshot(h)
      BY <3>1, <3>5, <1>c, <1>t DEF KeepFiscalSnapshot, At, TenantInv, RequestOK
    <3> QED BY <1>4, <2>3, <3>2, <3>3, <3>4, <3>5
  <2> QED BY <2>1, <2>2, <2>3
<1>5. ASSUME NEW g \in Handlers,
             \/ AddMember(g) \/ UpdateMember(g) \/ RemoveMember(g) \/ WriteLogo(g)
             \/ AttachTrialSubscription(g) \/ CreateBranch(g) \/ CreateQueue(g)
             \/ DeleteOrganization(g) \/ Abort(g)
      PROVE  ClearedSo(op, h)
  BY <1>5, <1>f DEF AddMember, UpdateMember, RemoveMember, WriteLogo, AttachTrialSubscription,
                    CreateBranch, CreateQueue, DeleteOrganization, Abort
<1>6. ASSUME \/ \E o \in Orgs :
                  \/ \E u \in Candidates : SelfRegister(o, u)
                  \/ \E status \in {"ACTIVE", "SUSPENDED"} : SetOrganizationStatus(o, status)
                  \/ Bill(o)
             \/ \E c \in Counters : CreateCounter(c) \/ DeleteCounter(c)
             \/ UNCHANGED vars
      PROVE  ClearedSo(op, h)
  BY <1>6, <1>u DEF SelfRegister, SetOrganizationStatus, Bill, CreateCounter, DeleteCounter, vars
<1> QED BY <1>1, <1>2, <1>3, <1>4, <1>5, <1>6, <1>7, <1>8, <1>9 DEF Next, MemberStep

\* A request that is cleared here and now finds all rows as they were, and room among them.
LEMMA ClearingFindsRoom ==
  ASSUME TenantInv, NEW h \in Handlers, CheckQuota(h) \/ CheckAddMember(h)
  PROVE  /\ UNCHANGED <<rowVars, ghostVars>>
         /\ \A g \in Handlers \ {h} : handler'[g] = handler[g]
         /\ handler'[h].pc \in {"role", "write"} =>
              /\ handler[h].op = "createBranch" => Cardinality(BranchesOf(handler[h].org)) < maxBranches
              /\ handler[h].op = "createQueue" =>
                   Cardinality(QueuesOf(handler[h].queue[1])) < maxQueuesPerBranch
              /\ handler[h].op = "addMember" => Cardinality(ActiveMembers(handler[h].org)) < maxStaff
<1>t. TypeOK
  BY DEF TenantInv
<1>1. UNCHANGED <<rowVars, ghostVars>> /\ \A g \in Handlers \ {h} : handler'[g] = handler[g]
  BY <1>t DEF CheckQuota, CheckAddMember, Finish, TypeOK
<1>2. ASSUME Finish(h) PROVE handler'[h].pc \notin {"role", "write"}
  BY <1>2, <1>t DEF Finish, Idle, TypeOK
<1>3. ASSUME handler'[h].pc \in {"role", "write"}
      PROVE  /\ handler[h].op = "createBranch" => Cardinality(BranchesOf(handler[h].org)) < maxBranches
             /\ handler[h].op = "createQueue" =>
                  Cardinality(QueuesOf(handler[h].queue[1])) < maxQueuesPerBranch
             /\ handler[h].op = "addMember" => Cardinality(ActiveMembers(handler[h].org)) < maxStaff
  <2>1. ~Finish(h)
    BY <1>2, <1>3
  <2>2. CASE CheckQuota(h)
    BY <2>1, <2>2 DEF CheckQuota, assertCanCreateBranch, assertCanCreateQueue, BranchesOf, QueuesOf
  <2>3. CASE CheckAddMember(h)
    BY <2>1, <2>3 DEF CheckAddMember, assertCanAddMember
  <2> QED BY <2>2, <2>3
<1> QED BY <1>1, <1>3

LEMMA CountsFinite ==
  ASSUME TypeOK
  PROVE  /\ \A o : IsFiniteSet(BranchesOf(o)) /\ IsFiniteSet(ActiveMembers(o))
         /\ \A b : IsFiniteSet(QueuesOf(b))
         /\ \A op, o : ClearedFor(op, o) \subseteq Handlers
         /\ \A b : ClearedQueues(b) \subseteq Handlers
<1>1. \A o : BranchesOf(o) \subseteq Branches /\ ActiveMembers(o) \subseteq MemberIds
  BY DEF BranchesOf, ActiveMembers, MembersOf, TypeOK
<1>2. \A b : QueuesOf(b) \subseteq QueueIds
  BY DEF QueuesOf, TypeOK
<1>3. IsFiniteSet(Branches) /\ IsFiniteSet(MemberIds) /\ IsFiniteSet(QueueIds)
  BY TenantConstants
<1>4. \A o : IsFiniteSet(BranchesOf(o)) /\ IsFiniteSet(ActiveMembers(o))
  BY <1>1, <1>3, FS_Subset
<1>5. \A b : IsFiniteSet(QueuesOf(b))
  BY <1>2, <1>3, FS_Subset
<1> QED BY <1>4, <1>5 DEF ClearedFor, ClearedQueues, Cleared

\* A request that ends is cleared for nothing any more.
LEMMA FinishedIsNotCleared ==
  ASSUME TypeOK, NEW h \in Handlers, Finish(h)
  PROVE  /\ \A op, o : h \notin ClearedFor(op, o)' /\ \A b : h \notin ClearedQueues(b)'
         /\ \A g \in Handlers \ {h} : handler'[g] = handler[g]
BY DEF Finish, Idle, TypeOK, ClearedFor, ClearedQueues, Cleared

LEMMA BranchQuotaNext ==
  ASSUME TenantInv, [Next]_vars, NEW o \in Orgs,
         Within(BranchesOf(o), ClearedFor("createBranch", o), maxBranches)
  PROVE  Within(BranchesOf(o), ClearedFor("createBranch", o), maxBranches)'
<1> DEFINE A == BranchesOf(o)
           C == ClearedFor("createBranch", o)
<1>t. TypeOK /\ TypeOK' /\ maxBranches \in Nat
  BY TypeNext, TenantConstants DEF TenantInv
<1>f. IsFiniteSet(A) /\ C \subseteq Handlers /\ C' \subseteq Handlers
  BY <1>t, CountsFinite DEF ClearedFor, Cleared
<1>w. Within(A', C', maxBranches) => Within(A, C, maxBranches)'
  BY DEF Within
<1>1. CASE \E h \in Handlers : CheckQuota(h) \/ CheckAddMember(h)
  <2>1. PICK h \in Handlers : CheckQuota(h) \/ CheckAddMember(h)
    BY <1>1
  <2>2. A' = A
    BY <2>1, ClearingFindsRoom DEF rowVars, BranchesOf
  <2>3. CASE h \in C' /\ h \notin C
    <3>1. handler'[h].org = o /\ handler[h].org = o /\ handler[h].op = "createBranch"
      BY <2>3, ClearedShrinks DEF ClearedFor, ClearedSo
    <3>2. handler'[h].pc \in {"role", "write"}
      BY <2>3 DEF ClearedFor, Cleared
    <3>3. Cardinality(A) < maxBranches
      BY <2>1, <3>1, <3>2, ClearingFindsRoom
    <3> QED BY <1>f, <1>t, <1>w, <2>2, <3>3, Room
  <2>4. CASE h \notin C' \/ h \in C
    <3>1. C' \subseteq C
      BY <2>1, <2>4, ClearingFindsRoom DEF ClearedFor, Cleared
    <3> QED BY <1>f, <1>t, <1>w, <2>2, <3>1, Room
  <2> QED BY <2>3, <2>4
<1>2. CASE ~\E h \in Handlers : CheckQuota(h) \/ CheckAddMember(h)
  <2>1. C' \subseteq C
    BY <1>2, ClearedShrinks DEF ClearedFor, ClearedSo, Cleared
  <2>2. CASE A' \subseteq A
    BY <1>f, <1>t, <1>w, <2>1, <2>2, Room
  <2>3. CASE \E h \in Handlers : CreateBranch(h)
    <3>1. PICK h \in Handlers : CreateBranch(h)
      BY <2>3
    <3>2. PICK b : b = handler[h].branch
      OBVIOUS
    <3>3. b[1] = handler[h].org /\ branches' = branches \cup {b}
      BY <3>1, <3>2 DEF TenantInv, RequestOK, CreateBranch
    <3>4. CASE b[1] # o
      <4>1. A' \subseteq A
        BY <3>3, <3>4 DEF BranchesOf
      <4> QED BY <2>2, <4>1
    <3>5. CASE b[1] = o
      <4>1. A' \subseteq A \cup {b}
        BY <3>3 DEF BranchesOf
      <4>2. h \in C
        BY <3>1, <3>3, <3>5 DEF CreateBranch, At, ClearedFor, Cleared
      <4>3. h \notin C'
        BY <1>t, <3>1, FinishedIsNotCleared DEF CreateBranch
      <4>4. C' \subseteq C \ {h}
        BY <2>1, <4>3
      <4>5. \E x, g : A' \subseteq A \cup {x} /\ g \in C /\ C' \subseteq C \ {g}
        BY <4>1, <4>2, <4>4
      <4>6. Within(A', C', maxBranches)
        BY <1>f, <1>t, <4>5, Room
      <4> QED BY <1>w, <4>6
    <3> QED BY <3>4, <3>5
  <2>4. CASE ~\E h \in Handlers : CreateBranch(h)
    <3>1. branches' \subseteq branches
      BY <2>4, RowWriters DEF rowVars, CreateOrganization, AddMember, UpdateMember, RemoveMember, WriteLogo,
           AttachTrialSubscription, CreateQueue, DeleteOrganization, SelfRegister,
           SetOrganizationStatus, Bill, CreateCounter, DeleteCounter
    <3>2. A' \subseteq A
      BY <3>1 DEF BranchesOf
    <3> QED BY <2>2, <3>2
  <2> QED BY <2>3, <2>4
<1> QED BY <1>1, <1>2

LEMMA QueueQuotaNext ==
  ASSUME TenantInv, [Next]_vars, NEW b \in Branches,
         Within(QueuesOf(b), ClearedQueues(b), maxQueuesPerBranch)
  PROVE  Within(QueuesOf(b), ClearedQueues(b), maxQueuesPerBranch)'
<1> DEFINE A == QueuesOf(b)
           C == ClearedQueues(b)
<1>t. TypeOK /\ TypeOK' /\ maxQueuesPerBranch \in Nat
  BY TypeNext, TenantConstants DEF TenantInv
<1>f. IsFiniteSet(A) /\ C \subseteq Handlers /\ C' \subseteq Handlers
  BY <1>t, CountsFinite DEF ClearedQueues, Cleared
<1>w. Within(A', C', maxQueuesPerBranch) => Within(A, C, maxQueuesPerBranch)'
  BY DEF Within
<1>1. CASE \E h \in Handlers : CheckQuota(h) \/ CheckAddMember(h)
  <2>1. PICK h \in Handlers : CheckQuota(h) \/ CheckAddMember(h)
    BY <1>1
  <2>2. A' = A
    BY <2>1, ClearingFindsRoom DEF rowVars, QueuesOf
  <2>3. CASE h \in C' /\ h \notin C
    <3>1. handler'[h].queue[1] = b /\ handler[h].queue[1] = b /\ handler[h].op = "createQueue"
      BY <2>3, ClearedShrinks DEF ClearedQueues, ClearedSo
    <3>2. handler'[h].pc \in {"role", "write"}
      BY <2>3 DEF ClearedQueues, Cleared
    <3>3. Cardinality(A) < maxQueuesPerBranch
      BY <2>1, <3>1, <3>2, ClearingFindsRoom
    <3> QED BY <1>f, <1>t, <1>w, <2>2, <3>3, Room
  <2>4. CASE h \notin C' \/ h \in C
    <3>1. C' \subseteq C
      BY <2>1, <2>4, ClearingFindsRoom DEF ClearedQueues, Cleared
    <3> QED BY <1>f, <1>t, <1>w, <2>2, <3>1, Room
  <2> QED BY <2>3, <2>4
<1>2. CASE ~\E h \in Handlers : CheckQuota(h) \/ CheckAddMember(h)
  <2>1. C' \subseteq C
    BY <1>2, ClearedShrinks DEF ClearedQueues, ClearedSo, Cleared
  <2>2. CASE A' \subseteq A
    BY <1>f, <1>t, <1>w, <2>1, <2>2, Room
  <2>3. CASE \E h \in Handlers : CreateQueue(h)
    <3>1. PICK h \in Handlers : CreateQueue(h)
      BY <2>3
    <3>2. PICK q : q = handler[h].queue
      OBVIOUS
    <3>3. queues' = queues \cup {q}
      BY <3>1, <3>2 DEF CreateQueue
    <3>4. CASE q[1] # b
      <4>1. A' \subseteq A
        BY <3>3, <3>4 DEF QueuesOf
      <4> QED BY <2>2, <4>1
    <3>5. CASE q[1] = b
      <4>1. A' \subseteq A \cup {q}
        BY <3>3 DEF QueuesOf
      <4>2. h \in C
        BY <3>1, <3>2, <3>5 DEF CreateQueue, At, ClearedQueues, Cleared
      <4>3. h \notin C'
        BY <1>t, <3>1, FinishedIsNotCleared DEF CreateQueue
      <4>4. C' \subseteq C \ {h}
        BY <2>1, <4>3
      <4>5. \E x, g : A' \subseteq A \cup {x} /\ g \in C /\ C' \subseteq C \ {g}
        BY <4>1, <4>2, <4>4
      <4>6. Within(A', C', maxQueuesPerBranch)
        BY <1>f, <1>t, <4>5, Room
      <4> QED BY <1>w, <4>6
    <3> QED BY <3>4, <3>5
  <2>4. CASE ~\E h \in Handlers : CreateQueue(h)
    <3>1. queues' \subseteq queues
      BY <2>4, RowWriters DEF rowVars, CreateOrganization, AddMember, UpdateMember, RemoveMember, WriteLogo,
           AttachTrialSubscription, CreateBranch, DeleteOrganization, SelfRegister,
           SetOrganizationStatus, Bill, CreateCounter, DeleteCounter
    <3>2. A' \subseteq A
      BY <3>1 DEF QueuesOf
    <3> QED BY <2>2, <3>2
  <2> QED BY <2>3, <2>4
<1> QED BY <1>1, <1>2

LEMMA StaffQuotaNext ==
  ASSUME TenantInv, [Next]_vars, NEW o \in Orgs,
         Within(ActiveMembers(o), ClearedFor("addMember", o), maxStaff + reactivated[o])
  PROVE  Within(ActiveMembers(o), ClearedFor("addMember", o), maxStaff + reactivated[o])'
<1> DEFINE A == ActiveMembers(o)
           C == ClearedFor("addMember", o)
<1>0. PICK limit : limit = maxStaff + reactivated[o]
  OBVIOUS
<1>t. /\ TypeOK /\ TypeOK' /\ maxStaff \in Nat /\ limit \in Nat /\ maxStaff <= limit
      /\ "none" \notin Orgs
  BY <1>0, TypeNext, TenantConstants DEF TenantInv, TypeOK
<1>f. IsFiniteSet(A) /\ C \subseteq Handlers /\ C' \subseteq Handlers
  BY <1>t, CountsFinite DEF ClearedFor, Cleared
<1>w. /\ reactivated'[o] = reactivated[o] /\ Within(A', C', limit) =>
           Within(A, C, maxStaff + reactivated[o])'
      /\ reactivated'[o] = reactivated[o] + 1 /\ Within(A', C', limit + 1) =>
           Within(A, C, maxStaff + reactivated[o])'
  <2>1. reactivated[o] \in Nat
    BY <1>t DEF TypeOK
  <2> QED BY <1>0, <1>t, <2>1 DEF Within
<1>k. ASSUME A' \subseteq A, C' \subseteq C, UNCHANGED reactivated
      PROVE  Within(A, C, maxStaff + reactivated[o])'
  BY <1>0, <1>f, <1>t, <1>w, <1>k, Room
<1>s. (~\E h \in Handlers : CheckQuota(h) \/ CheckAddMember(h)) => C' \subseteq C
  BY ClearedShrinks DEF ClearedFor, ClearedSo, Cleared
<1>1. ASSUME NEW h \in Handlers, CheckQuota(h) \/ CheckAddMember(h)
      PROVE  Within(A, C, maxStaff + reactivated[o])'
  <2>2. A' = A /\ reactivated' = reactivated
    BY <1>1, ClearingFindsRoom DEF rowVars, ghostVars, ActiveMembers, MembersOf
  <2>3. CASE h \in C' /\ h \notin C
    <3>1. handler'[h].org = o /\ handler[h].org = o /\ handler[h].op = "addMember"
      BY <2>3, ClearedShrinks DEF ClearedFor, ClearedSo
    <3>2. handler'[h].pc \in {"role", "write"}
      BY <2>3 DEF ClearedFor, Cleared
    <3>3. Cardinality(A) < maxStaff
      BY <1>1, <3>1, <3>2, ClearingFindsRoom
    <3>4. Cardinality(A) < limit
      BY <1>f, <1>t, <3>3, FS_CardinalityType
    <3> QED BY <1>0, <1>f, <1>t, <1>w, <2>2, <3>4, Room
  <2>4. CASE h \notin C' \/ h \in C
    <3>1. C' \subseteq C
      BY <1>1, <2>4, ClearingFindsRoom DEF ClearedFor, Cleared
    <3> QED BY <1>k, <2>2, <3>1
  <2> QED BY <2>3, <2>4
<1>2. ASSUME NEW h \in Handlers, AddMember(h)
      PROVE  Within(A, C, maxStaff + reactivated[o])'
  <2>0. C' \subseteq C \ {h} /\ UNCHANGED reactivated
    <3>1. \A g \in Handlers \ {h} : handler'[g] = handler[g]
      BY <1>2, <1>t, FinishedIsNotCleared DEF AddMember
    <3>2. h \notin C'
      BY <1>2, <1>t, FinishedIsNotCleared DEF AddMember
    <3> QED BY <1>2, <3>1, <3>2 DEF AddMember, ClearedFor, Cleared
  <2>1. PICK i \in MemberIds : NextId(i) /\ member' = [member EXCEPT ![i] = handler[h].row]
    BY <1>2 DEF AddMember
  <2>2. /\ \A j \in MemberIds \ {i} : member'[j] = member[j]
        /\ member'[i].org = handler[h].org
    BY <1>2, <1>t, <2>1 DEF TenantInv, RequestOK, AddMember, TypeOK
  <2>3. A' \subseteq A \cup {i}
    BY <2>2 DEF ActiveMembers, MembersOf
  <2>4. CASE handler[h].org = o
    <3>1. h \in C
      BY <1>2, <2>4 DEF AddMember, At, ClearedFor, Cleared
    <3> QED BY <1>0, <1>f, <1>t, <1>w, <2>0, <2>3, <3>1, Room
  <2>5. CASE handler[h].org # o
    <3>1. A' \subseteq A
      BY <2>2, <2>5 DEF ActiveMembers, MembersOf
    <3> QED BY <1>k, <2>0, <3>1
  <2> QED BY <2>4, <2>5
<1>3. ASSUME NEW h \in Handlers, UpdateMember(h)
      PROVE  Within(A, C, maxStaff + reactivated[o])'
  <2>0. C' \subseteq C
    <3>1. \A g \in Handlers \ {h} : handler'[g] = handler[g]
      BY <1>3, <1>t, FinishedIsNotCleared DEF UpdateMember
    <3>2. h \notin C'
      BY <1>3, <1>t, FinishedIsNotCleared DEF UpdateMember
    <3> QED BY <3>1, <3>2 DEF ClearedFor, Cleared
  <2>1. PICK i, row : i = handler[h].id /\ row = Updated(i, handler[h].row)
    OBVIOUS
  <2>2. /\ i \in MemberIds /\ handler[h].row.org = handler[h].org /\ member[i].org = handler[h].org
        /\ handler[h].row \in AskedRow /\ member[i] \in MemberRow /\ handler[h].org \in Orgs
    BY <1>3, <1>t, <2>1 DEF TenantInv, RequestOK, UpdateMember, At, TypeOK, Locals
  <2>3. row.org = member[i].org
    BY <2>1, <2>2, UpdatedRow
  <2>4. /\ member'[i] = row /\ \A j \in MemberIds \ {i} : member'[j] = member[j]
        /\ IF row.status = "ACTIVE" /\ member[i].status # "ACTIVE"
           THEN reactivated' = [reactivated EXCEPT ![handler[h].org] = @ + 1]
           ELSE reactivated' = reactivated
    BY <1>3, <1>t, <2>1, <2>2 DEF UpdateMember, TypeOK
  <2>5. CASE row.status = "ACTIVE" /\ member[i].status # "ACTIVE" /\ handler[h].org = o
    <3>1. reactivated'[o] = reactivated[o] + 1
      BY <1>t, <2>4, <2>5 DEF TypeOK
    <3>2. A' \subseteq A \cup {i}
      BY <2>4 DEF ActiveMembers, MembersOf
    <3> QED BY <1>0, <1>f, <1>t, <1>w, <2>0, <3>1, <3>2, MoreRoom
  <2>6. CASE ~(row.status = "ACTIVE" /\ member[i].status # "ACTIVE" /\ handler[h].org = o)
    <3>1. reactivated'[o] = reactivated[o]
      BY <1>t, <2>2, <2>4, <2>6 DEF TypeOK
    <3>2. A' \subseteq A
      BY <2>2, <2>3, <2>4, <2>6 DEF ActiveMembers, MembersOf
    <3> QED BY <1>0, <1>f, <1>t, <1>w, <2>0, <3>1, <3>2, Room
  <2> QED BY <2>5, <2>6
<1>4. ASSUME NEW u \in Candidates, SelfRegister(o, u)
      PROVE  Within(A, C, maxStaff + reactivated[o])'
  <2>1. PICK i \in MemberIds : member' = [member EXCEPT ![i] = FounderOf(o, u)]
    BY <1>4 DEF SelfRegister
  <2>2. org[o].status = "none" /\ UNCHANGED <<handler, reactivated>>
    BY <1>4 DEF SelfRegister, NoOrg, ghostVars
  <2>3. \A j \in MemberIds : member[j].org # o
    BY <1>t, <2>2 DEF TenantInv, NoOrphans, Present, There
  <2>4. A' \subseteq {i}
    BY <1>t, <2>1, <2>3 DEF ActiveMembers, MembersOf, TypeOK
  <2>5. C' = {}
    BY <2>2 DEF TenantInv, RequestOK, ClearedFor, Cleared
  <2>6. IsFiniteSet({i}) /\ Cardinality({i}) = 1
    BY FS_Singleton
  <2>7. Cardinality(A') <= 1 /\ IsFiniteSet(A') /\ Cardinality(A') \in Nat
    BY <2>4, <2>6, FS_Subset, FS_CardinalityType
  <2>8. Cardinality(C') = 0
    BY <2>5, FS_EmptySet
  <2>9. Cardinality(Handlers) \in Nat /\ Cardinality(Handlers) # 0 /\ maxStaff > 0
    BY TenantConstants, FS_CardinalityType, FS_EmptySet
  <2>10. Within(A', C', limit)
    BY <1>t, <2>7, <2>8, <2>9 DEF Within
  <2> QED BY <1>w, <2>2, <2>10
<1>5. ASSUME NEW p \in Orgs \ {o}, NEW u \in Candidates, SelfRegister(p, u)
      PROVE  Within(A, C, maxStaff + reactivated[o])'
  <2>1. PICK i \in MemberIds : member' = [member EXCEPT ![i] = FounderOf(p, u)]
    BY <1>5 DEF SelfRegister
  <2>2. member'[i].org = p /\ \A j \in MemberIds \ {i} : member'[j] = member[j]
    BY <1>t, <2>1 DEF FounderOf, TypeOK
  <2>3. A' \subseteq A
    BY <2>2 DEF ActiveMembers, MembersOf
  <2>4. UNCHANGED <<handler, reactivated>>
    BY <1>5 DEF SelfRegister, ghostVars
  <2>5. C' \subseteq C
    BY <2>4 DEF ClearedFor, Cleared
  <2> QED BY <1>k, <2>3, <2>4, <2>5
<1>7. ASSUME NEW h \in Handlers, RemoveMember(h) \/ DeleteOrganization(h)
      PROVE  /\ UNCHANGED reactivated
             /\ \A i \in MemberIds : \/ member'[i].org = "none"
                                     \/ member'[i] = member[i]
  BY <1>7, <1>t DEF RemoveMember, DeleteOrganization, Removed, NoMember, TypeOK
<1>8. ASSUME NEW c \in Counters, DeleteCounter(c)
      PROVE  /\ UNCHANGED reactivated
             /\ \A i \in MemberIds : member'[i].org = member[i].org /\ member'[i].status = member[i].status
  BY <1>8, <1>t DEF DeleteCounter, TypeOK, MemberRow, ghostVars
<1>9. ASSUME \/ \E h \in Handlers :
                  \/ \E p \in Orgs : CreateOrganization(h, p)
                  \/ WriteLogo(h) \/ AttachTrialSubscription(h)
                  \/ CreateBranch(h) \/ CreateQueue(h)
             \/ \E p \in Orgs :
                  \/ \E status \in {"ACTIVE", "SUSPENDED"} : SetOrganizationStatus(p, status)
                  \/ Bill(p)
             \/ \E c \in Counters : CreateCounter(c)
             \/ UNCHANGED <<rowVars, ghostVars>>
      PROVE  UNCHANGED <<member, reactivated>>
  BY <1>9 DEF CreateOrganization, WriteLogo, AttachTrialSubscription, CreateBranch, CreateQueue,
              SetOrganizationStatus, Bill, CreateCounter, rowVars, ghostVars
<1>10. CASE \E h \in Handlers : CheckQuota(h) \/ CheckAddMember(h)
  BY <1>1, <1>10
<1>11. CASE ~\E h \in Handlers : CheckQuota(h) \/ CheckAddMember(h)
  <2>1. ASSUME NEW p \in Orgs, NEW u \in Candidates, SelfRegister(p, u)
        PROVE  Within(A, C, maxStaff + reactivated[o])'
    BY <2>1, <1>4, <1>5
  <2>2. ASSUME \/ \E h \in Handlers : RemoveMember(h) \/ DeleteOrganization(h)
               \/ \E c \in Counters : DeleteCounter(c)
               \/ UNCHANGED <<member, reactivated>>
        PROVE  Within(A, C, maxStaff + reactivated[o])'
    <3>1. /\ UNCHANGED reactivated
          /\ \A i \in MemberIds : \/ member'[i].org = "none"
                                  \/ member'[i].org = member[i].org /\ member'[i].status = member[i].status
      BY <2>2, <1>7, <1>8
    <3>2. A' \subseteq A
      BY <1>t, <3>1 DEF ActiveMembers, MembersOf
    <3>3. C' \subseteq C
      BY <1>s, <1>11
    <3> QED BY <1>k, <3>1, <3>2, <3>3
  <2> QED BY <1>2, <1>3, <2>1, <2>2, <1>9, RowWriters
<1> QED BY <1>10, <1>11

LEMMA QuotasStart == Init => QuotasHold
<1> SUFFICES ASSUME Init PROVE QuotasHold
  OBVIOUS
<1>t. TypeOK
  BY TenantStarts DEF TenantInv
<1>1. PICK b \in Beginnings :
        /\ branches = b.branches /\ queues = {}
        /\ member = [i \in MemberIds |->
             IF \E o \in DOMAIN b.founders : b.founders[o].id = i
             THEN LET o == CHOOSE o \in DOMAIN b.founders : b.founders[o].id = i
                  IN FounderOf(o, b.founders[o].user)
             ELSE NoMember]
  BY DEF Init
<1>2. /\ \A op, o : ClearedFor(op, o) = {} /\ \A q : ClearedQueues(q) = {}
  BY DEF Init, Idle, ClearedFor, ClearedQueues, Cleared
<1>3. Cardinality(Handlers) \in Nat /\ Cardinality(Handlers) # 0
  BY TenantConstants, FS_CardinalityType, FS_EmptySet
<1>4. /\ maxBranches \in Nat /\ maxStaff \in Nat \ {0} /\ maxQueuesPerBranch \in Nat
      /\ Cardinality({}) = 0 /\ \A o \in Orgs : reactivated[o] = 0
  BY TenantConstants, FS_EmptySet DEF Init
<1>5. ASSUME NEW o \in Orgs
      PROVE  Within(BranchesOf(o), ClearedFor("createBranch", o), maxBranches)
  <2>1. Cardinality(BranchesOf(o)) <= maxBranches
    <3>1. CASE o \in DOMAIN b.founders
      BY <1>1, <3>1, TenantConstants DEF BranchesOf
    <3>2. CASE o \notin DOMAIN b.founders
      <4>1. BranchesOf(o) = {}
        BY <1>1, <3>2, TenantConstants DEF BranchesOf
      <4> QED BY <1>4, <4>1
    <3> QED BY <3>1, <3>2
  <2>2. Cardinality(BranchesOf(o)) \in Nat
    BY <1>t, CountsFinite, FS_CardinalityType
  <2> QED BY <1>2, <1>3, <1>4, <2>1, <2>2 DEF Within
<1>6. ASSUME NEW o \in Orgs
      PROVE  Within(ActiveMembers(o), ClearedFor("addMember", o), maxStaff + reactivated[o])
  <2> DEFINE i == b.founders[o].id
  <2>1. \A j \in MemberIds : member[j].org = o => j = i
    <3> SUFFICES ASSUME NEW j \in MemberIds, member[j].org = o PROVE j = i
      OBVIOUS
    <3>1. member[j] # NoMember
      BY TenantConstants DEF NoMember
    <3>2. PICK p \in DOMAIN b.founders : b.founders[p].id = j /\ member[j] = FounderOf(p, b.founders[p].user)
      BY <1>1, <3>1
    <3> QED BY <3>2 DEF FounderOf
  <2> HIDE DEF i
  <2>2. ActiveMembers(o) \subseteq {i}
    BY <2>1 DEF ActiveMembers, MembersOf
  <2>3. IsFiniteSet({i}) /\ Cardinality({i}) = 1
    BY FS_Singleton
  <2>4. Cardinality(ActiveMembers(o)) <= 1
    BY <2>2, <2>3, FS_Subset
  <2>5. Cardinality(ActiveMembers(o)) \in Nat
    BY <1>t, CountsFinite, FS_CardinalityType
  <2> QED BY <1>2, <1>3, <1>4, <2>4, <2>5 DEF Within
<1>7. ASSUME NEW q \in Branches
      PROVE  Within(QueuesOf(q), ClearedQueues(q), maxQueuesPerBranch)
  <2>1. QueuesOf(q) = {}
    BY <1>1 DEF QueuesOf
  <2> QED BY <1>2, <1>3, <1>4, <2>1 DEF Within
<1> QED BY <1>t, <1>5, <1>6, <1>7, QuotasAre

\* However creations overlap, a plan is exceeded by no more than the requests that overlap
\* the one that reached it.
THEOREM QuotasKept == Spec => []QuotasHold
<1>1. TenantInv /\ QuotasHold /\ [Next]_vars => QuotasHold'
  <2> SUFFICES ASSUME TenantInv, QuotasHold, [Next]_vars PROVE QuotasHold'
    OBVIOUS
  <2>1. TypeOK /\ TypeOK'
    BY TypeNext DEF TenantInv
  <2>2. /\ \A o \in Orgs : /\ Within(BranchesOf(o), ClearedFor("createBranch", o), maxBranches)
                           /\ Within(ActiveMembers(o), ClearedFor("addMember", o), maxStaff + reactivated[o])
        /\ \A b \in Branches : Within(QueuesOf(b), ClearedQueues(b), maxQueuesPerBranch)
    BY <2>1, QuotasAre
  <2>3. (\A o \in Orgs : Within(BranchesOf(o), ClearedFor("createBranch", o), maxBranches))'
    BY <2>2, BranchQuotaNext
  <2>4. (\A o \in Orgs : Within(ActiveMembers(o), ClearedFor("addMember", o), maxStaff + reactivated[o]))'
    BY <2>2, StaffQuotaNext
  <2>5. (\A b \in Branches : Within(QueuesOf(b), ClearedQueues(b), maxQueuesPerBranch))'
    BY <2>2, QueueQuotaNext
  <2>6. (TypeOK =>
          (QuotasHold <=>
             /\ \A o \in Orgs :
                  /\ Within(BranchesOf(o), ClearedFor("createBranch", o), maxBranches)
                  /\ Within(ActiveMembers(o), ClearedFor("addMember", o), maxStaff + reactivated[o])
             /\ \A b \in Branches : Within(QueuesOf(b), ClearedQueues(b), maxQueuesPerBranch)))'
    BY QuotasAre, PTL
  <2> QED BY <2>1, <2>3, <2>4, <2>5, <2>6
<1> QED BY <1>1, QuotasStart, TenantsInOrder, PTL DEF Spec
=============================================================================
