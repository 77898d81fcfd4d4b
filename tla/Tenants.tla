------------------------------ MODULE Tenants ------------------------------
(***************************************************************************)
(* What an organization has: its subscription, branches, counters, queues  *)
(* and members, with the access checks of context.ts, the quotas of        *)
(* billing/plan-guard.ts and the requests that work on them.               *)
(*                                                                         *)
(* Rows never move from one organization to another, so an id says where   *)
(* its row belongs: a branch is <<organization, n>>, a counter and a queue *)
(* are <<branch, n>>.  Names, codes and descriptions are left out; a       *)
(* request that a unique index or a foreign key refuses has no effect.     *)
(***************************************************************************)
EXTENDS Integers, FiniteSets

CONSTANTS Handlers,
          Orgs, Branches, Counters, QueueIds,
          Users,
          MemberIds,            \* ids of memberships, in the order they are given out
          maxBranches, maxQueuesPerBranch, maxStaff,   \* the plan
          Candidates,           \* users that become members and founders
          Places, Statuses,     \* where members are asked to be put, and what to be made
          Beginnings,           \* where behaviours start, and what is asked of whom in them
          MaxRequests           \* bound: requests that take several statements

null == <<>>
UserRoles == {"CUSTOMER", "STAFF", "MANAGER", "ADMINISTRATOR"}
MemberRoles == {"STAFF", "MANAGER"}
MemberStatus == {"ACTIVE", "INVITED", "SUSPENDED"}

ASSUME TenantConstants ==
  /\ Branches \subseteq Orgs \X Nat
  /\ Counters \subseteq Branches \X Nat /\ QueueIds \subseteq Branches \X Nat
  /\ Places \subseteq (Branches \cup {null}) \X (Counters \cup {null})
  /\ Candidates \subseteq Users /\ Statuses \subseteq MemberStatus
  /\ MemberIds \subseteq Nat /\ MaxRequests \in Nat
  /\ {maxBranches, maxQueuesPerBranch, maxStaff} \subseteq Nat
  \* The smallest plan has room for five (billing.rules.ts:158-170).
  /\ maxStaff > 0
  /\ Handlers # {}
  /\ IsFiniteSet(Handlers) /\ IsFiniteSet(MemberIds)
  /\ IsFiniteSet(Branches) /\ IsFiniteSet(QueueIds)
  /\ "none" \notin Orgs \cup Users
  /\ \A b \in Beginnings :
       /\ b.branches \subseteq Branches /\ b.counters \subseteq Counters
       /\ \A x \in b.branches : x[1] \in DOMAIN b.founders
       /\ \A x \in b.counters : x[1] \in b.branches
       /\ DOMAIN b.founders \subseteq Orgs
       /\ \A o \in DOMAIN b.founders :
            /\ b.founders[o].id \in MemberIds /\ b.founders[o].user \in Users
            /\ \A p \in DOMAIN b.founders \ {o} : b.founders[p].id # b.founders[o].id
            /\ Cardinality({x \in b.branches : x[1] = o}) <= maxBranches

VARIABLES org,          \* each organization, its subscription, paid transactions and stored logo
          branches, counters, queues,   \* the rows there are
          member,       \* rows of `organization_members`
          role,         \* users.role
          handler,      \* each request: where it is and its local variables
          requests,     \* requests made so far
          begun,          \* what clients ask in this behaviour
          outpaced,     \* organizations whose managers changed under a request about them
          outrun,       \* users whose role changed under a request about them
          reactivated,  \* memberships made active again, of each organization
          deletion      \* the paid invoices each deletion kept in its audit row, and those it removed

rowVars == <<org, branches, counters, queues, member, role>>
ghostVars == <<outpaced, outrun, reactivated, deletion>>
vars == <<rowVars, handler, requests, begun, ghostVars>>

NoOrg == [status |-> "none", subscription |-> "none", paid |-> 0, founded |-> FALSE,
          logo |-> FALSE]
NoMember == [org |-> "none", user |-> "none", role |-> "STAFF", status |-> "SUSPENDED",
             branch |-> null, counter |-> null]
\* An id is not given out twice.
Removed == [NoMember EXCEPT !.user = "removed"]
NoDeletion == [kept |-> 0, paid |-> 0]

\* A request's local variables: the membership it adds, or changes `id` to; the branch or the
\* queue it makes; the managers and the role it has read; the paid invoices it has copied.
Idle == [pc |-> "idle", op |-> "none", org |-> "none", id |-> 0, row |-> NoMember,
         branch |-> null, queue |-> null, managers |-> {}, stale |-> FALSE, read |-> "CUSTOMER",
         kept |-> 0]

\* What selfRegisterOrganization leaves: the organization on its trial and its manager.
Founded == [status |-> "ACTIVE", subscription |-> "operational", paid |-> 0, founded |-> TRUE,
            logo |-> FALSE]
FounderOf(o, u) == [org |-> o, user |-> u, role |-> "MANAGER", status |-> "ACTIVE",
                    branch |-> null, counter |-> null]

Init ==
  \E b \in Beginnings :
    /\ begun = b
    /\ org = [o \in Orgs |-> IF o \in DOMAIN b.founders THEN Founded ELSE NoOrg]
    /\ branches = b.branches /\ counters = b.counters /\ queues = {}
    /\ member = [i \in MemberIds |->
         IF \E o \in DOMAIN b.founders : b.founders[o].id = i
         THEN LET o == CHOOSE o \in DOMAIN b.founders : b.founders[o].id = i
              IN FounderOf(o, b.founders[o].user)
         ELSE NoMember]
    /\ role = [u \in Users |->
         IF \E o \in DOMAIN b.founders : b.founders[o].user = u THEN "MANAGER" ELSE "CUSTOMER"]
    /\ handler = [h \in Handlers |-> Idle]
    /\ requests = 0
    /\ outpaced = {} /\ outrun = {}
    /\ reactivated = [o \in Orgs |-> 0]
    /\ deletion = [o \in Orgs |-> NoDeletion]

At(h, point) == handler[h].pc = point
Finish(h) == handler' = [handler EXCEPT ![h] = Idle]
There(o) == org[o].status \in {"ACTIVE", "SUSPENDED"}

Present(i) == member[i].org # "none"
MembersOf(o) == {i \in MemberIds : member[i].org = o}
ActiveMembers(o) == {i \in MembersOf(o) : member[i].status = "ACTIVE"}
ActiveManagers(o) == {i \in ActiveMembers(o) : member[i].role = "MANAGER"}

-----------------------------------------------------------------------------
\* context.ts: whose request it is, by the memberships loaded with the session.

activeMemberships(u, o) == {i \in ActiveMembers(o) : member[i].user = u}

assertManagerOfOrganization(u, o) ==
  /\ role[u] # "ADMINISTRATOR"
  /\ \E i \in activeMemberships(u, o) : member[i].role = "MANAGER"

assertBranchAccess(u, o, b) ==
  /\ role[u] # "ADMINISTRATOR"
  /\ \E i \in activeMemberships(u, o) : member[i].branch \in {null, b}

\* A manager's request begins.
Manage(h, op, o, locals) ==
  /\ At(h, "idle") /\ op \in begun.asks /\ o \in begun.orgs /\ requests < MaxRequests
  /\ \E u \in Users : assertManagerOfOrganization(u, o)
  /\ requests' = requests + 1
  /\ handler' = [handler EXCEPT ![h] = locals]
  /\ UNCHANGED <<rowVars, begun, ghostVars>>

-----------------------------------------------------------------------------
\* plan-guard.ts: what the plan leaves room for, now.

Operational(o) == There(o) /\ org[o].subscription = "operational"

assertCanCreateBranch(o) ==
  Operational(o) /\ Cardinality({b \in branches : b[1] = o}) < maxBranches

assertCanCreateQueue(b) ==
  Operational(b[1]) /\ Cardinality({q \in queues : q[1] = b}) < maxQueuesPerBranch

Lax_assertCanAddMember(o) == Operational(o) /\ Cardinality(ActiveMembers(o)) <= maxStaff

assertCanAddMember(o) == Operational(o) /\ Cardinality(ActiveMembers(o)) < maxStaff
=============================================================================
