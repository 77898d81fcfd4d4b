---------------------------- MODULE Memberships ----------------------------
(***************************************************************************)
(* The members of an organization (organizations/member.service.ts,        *)
(* member.rules.ts).  The reads before a transaction are separate steps;   *)
(* the transaction is the read of the user's global role and the commit.   *)
(***************************************************************************)
EXTENDS Tenants

\* Only a customer is promoted.
CustomersOnly_promotedRole(current, memberRole) ==
  IF current = "CUSTOMER" THEN memberRole ELSE current

\* The role a user has on the platform after getting `memberRole` in an organization.
promotedRole(current, memberRole) ==
  CASE current = "ADMINISTRATOR" -> current
    [] current # "ADMINISTRATOR" /\ memberRole = "MANAGER" -> "MANAGER"
    [] current = "CUSTOMER" /\ memberRole = "STAFF" -> "STAFF"
    [] OTHER -> current

\* The branch and the counter exist and are the organization's.
PlacedIn(o, branch, counter) ==
  /\ branch # null => branch \in branches /\ branch[1] = o
  /\ counter # null => counter \in counters /\ counter[1][1] = o

\* assertBranchBelongsToOrganization, assertCounterBelongsToOrganization.
PlacementAllowed(o, branch, counter) == PlacedIn(o, branch, counter)

\* The foreign keys and @@unique([userId, organizationId, branchId]), where NULLs differ.
Storable(i, row) ==
  /\ There(row.org)
  /\ row.branch \in branches \cup {null} /\ row.counter \in counters \cup {null}
  /\ \A j \in MemberIds \ {i} :
       ~(/\ row.branch # null
         /\ member[j].org = row.org /\ member[j].user = row.user /\ member[j].branch = row.branch)

\* A membership that another transaction has updated and not committed is waited for.
NoUpdaterOf(h, i) ==
  \A g \in Handlers \ {h} : ~(At(g, "write") /\ handler[g].op = "updateMember" /\ handler[g].id = i)

-----------------------------------------------------------------------------
\* addMember: the plan and the placement ...
StartAddMember(h, o, u, memberRole, place) ==
  Manage(h, "addMember", o,
    [Idle EXCEPT !.pc = "check", !.op = "addMember", !.org = o,
       !.row = [org |-> o, user |-> u, role |-> memberRole, status |-> "ACTIVE",
                branch |-> place[1], counter |-> place[2]]])

CheckAddMember(h) ==
  LET r == handler[h] IN
  /\ At(h, "check") /\ r.op = "addMember"
  /\ IF assertCanAddMember(r.org) /\ PlacementAllowed(r.org, r.row.branch, r.row.counter)
     THEN handler' = [handler EXCEPT ![h].pc = "role"]
     ELSE Finish(h)
  /\ UNCHANGED <<rowVars, requests, begun, ghostVars>>

\* ... the user's role as the transaction finds it (updateMember has updated its row by
\* then) ...
ReadRole(h) ==
  LET r == handler[h] IN
  /\ At(h, "role")
  /\ r.op = "updateMember" => NoUpdaterOf(h, r.id)
  /\ handler' = [handler EXCEPT ![h].pc = "write", ![h].read = role[r.row.user]]
  /\ UNCHANGED <<rowVars, requests, begun, ghostVars>>

\* What the user's role is made, from what was read of it.
AlignedRole(current, memberRole) == promotedRole(current, memberRole)

\* The role is written only if it is another than the one read.
PromoteUser(h) ==
  LET r == handler[h]
      next == IF r.row.role = "same" THEN r.read ELSE AlignedRole(r.read, r.row.role)
  IN
  /\ role' = IF next # r.read THEN [role EXCEPT ![r.row.user] = next] ELSE role
  /\ outrun' = IF r.read # role[r.row.user] THEN outrun \cup {r.row.user} ELSE outrun

NextId(i) == /\ i \in MemberIds /\ member[i] = NoMember
             /\ \A j \in MemberIds : member[j] = NoMember => i <= j

\* ... the membership, new, and the role.  A new account is a user with the role CUSTOMER
\* here, which ends as the same row.
AddMember(h) ==
  LET r == handler[h] IN
  /\ At(h, "write") /\ r.op = "addMember"
  /\ \E i \in MemberIds :
       /\ NextId(i) /\ Storable(i, r.row)
       /\ member' = [member EXCEPT ![i] = r.row]
  /\ PromoteUser(h)
  /\ Finish(h)
  /\ UNCHANGED <<org, branches, counters, queues, requests, begun, outpaced, reactivated, deletion>>

-----------------------------------------------------------------------------
\* What a request that gives no branch or counter writes back: what it loaded.
StartUpdateMember(h, o, i, memberRole, status, place) ==
  Manage(h, "updateMember", o,
    [Idle EXCEPT !.pc = "count", !.op = "updateMember", !.org = o, !.id = i,
       !.managers = ActiveManagers(o),
       !.row = [member[i] EXCEPT !.role = memberRole, !.status = status,
                                 !.branch = place[1], !.counter = place[2]]])

StartRemoveMember(h, o, i) ==
  Manage(h, "removeMember", o,
    [Idle EXCEPT !.pc = "count", !.op = "removeMember", !.org = o, !.id = i,
       !.managers = ActiveManagers(o), !.row = member[i]])

\* Whether the membership, as it was loaded, is a manager's and would not be any more.
Demoted_LosesManager(h) ==
  /\ handler[h].id \in handler[h].managers
  /\ handler[h].op = "updateMember" /\ handler[h].row.role \notin {"same", "MANAGER"}

LosesManager(h) ==
  LET r == handler[h] IN
  /\ r.id \in r.managers
  /\ r.op = "updateMember" => \/ r.row.role \notin {"same", "MANAGER"}
                             \/ r.row.status \notin {"same", "ACTIVE"}

\* countActiveManagers, where it matters: never the last one.
CountManagers(h) ==
  LET r == handler[h] IN
  /\ At(h, "count") /\ r.op \in {"updateMember", "removeMember"}
  /\ IF \/ LosesManager(h) /\ Cardinality(ActiveManagers(r.org)) <= 1
        \/ r.op = "updateMember" /\ ~PlacementAllowed(r.org, r.row.branch, r.row.counter)
     THEN Finish(h)
     ELSE handler' = [handler EXCEPT ![h].pc = IF r.op = "updateMember" THEN "role" ELSE "write",
                                     ![h].stale = r.managers # ActiveManagers(r.org)]
  /\ UNCHANGED <<rowVars, requests, begun, ghostVars>>

\* The row as the update leaves it.
Updated(i, given) ==
  [given EXCEPT !.role = IF @ = "same" THEN member[i].role ELSE @,
                !.status = IF @ = "same" THEN member[i].status ELSE @]

Outpaced(h) ==
  outpaced' = IF handler[h].stale \/ handler[h].managers # ActiveManagers(handler[h].org)
              THEN outpaced \cup {handler[h].org} ELSE outpaced

\* updateMember: by id, if the membership is still there.
UpdateMember(h) ==
  LET r == handler[h]
      row == Updated(r.id, r.row)
  IN
  /\ At(h, "write") /\ r.op = "updateMember"
  /\ Present(r.id) /\ Storable(r.id, row)
  /\ member' = [member EXCEPT ![r.id] = row]
  /\ reactivated' = IF row.status = "ACTIVE" /\ member[r.id].status # "ACTIVE"
                    THEN [reactivated EXCEPT ![r.org] = @ + 1] ELSE reactivated
  /\ PromoteUser(h) /\ Outpaced(h)
  /\ Finish(h)
  /\ UNCHANGED <<org, branches, counters, queues, requests, begun, deletion>>

\* removeMember: the row goes, the user and its role stay.
RemoveMember(h) ==
  LET r == handler[h] IN
  /\ At(h, "write") /\ r.op = "removeMember"
  /\ Present(r.id) /\ NoUpdaterOf(h, r.id)
  /\ member' = [member EXCEPT ![r.id] = Removed]
  /\ Outpaced(h)
  /\ Finish(h)
  /\ UNCHANGED <<org, branches, counters, queues, role, requests, begun, outrun, reactivated, deletion>>

-----------------------------------------------------------------------------
MemberArrival(h, o) ==
  \/ \E u \in Candidates, memberRole \in MemberRoles, place \in Places :
       StartAddMember(h, o, u, memberRole, place)
  \/ \E i \in MembersOf(o), memberRole \in MemberRoles \cup {"same"},
        status \in Statuses \cup {"same"} :
       \E place \in Places \cup {<<member[i].branch, member[i].counter>>} :
         StartUpdateMember(h, o, i, memberRole, status, place)
  \/ \E i \in MembersOf(o) : StartRemoveMember(h, o, i)

MemberStep(h) ==
  \/ CheckAddMember(h) \/ ReadRole(h) \/ AddMember(h)
  \/ CountManagers(h) \/ UpdateMember(h) \/ RemoveMember(h)

-----------------------------------------------------------------------------
\* An organization that has had a manager keeps one, however its managers demote, suspend
\* and remove each other, unless its managers changed between what a request read of them
\* and what it wrote (member.service.ts:201-209, 276-282).
ManagerKept ==
  \A o \in Orgs : There(o) /\ org[o].founded /\ o \notin outpaced => ActiveManagers(o) # {}

Rank(r) == CHOOSE n \in 1..4 : <<"CUSTOMER", "STAFF", "MANAGER", "ADMINISTRATOR">>[n] = r

\* The role on the platform covers every membership, unless it changed between the read
\* and the write of a promotion (member.service.ts:9-12, 129-138, 224-240).
RoleCoversMemberships ==
  \A i \in MemberIds : Present(i) /\ member[i].user \notin outrun =>
    Rank(role[member[i].user]) >= Rank(member[i].role)
=============================================================================
