-------------------------- MODULE MCOrganizations --------------------------
(***************************************************************************)
(* Instances of Organizations for TLC.                                     *)
(***************************************************************************)
EXTENDS Organizations, TLC

Branch(o, n) == <<o, n>>
TwoOrgs == {"o1", "o2"}
SomeBranches == {Branch("o1", 1), Branch("o1", 2), Branch("o1", 3), Branch("o2", 1)}
SomeCounters == {<<Branch("o1", 1), 1>>, <<Branch("o2", 1), 1>>}
SomeQueues == {<<Branch("o1", 1), n>> : n \in 1..3}

\* At the counter, or in the other organization's branch.
SomePlaces == {<<null, <<Branch("o1", 1), 1>>>>, <<Branch("o2", 1), null>>}

First == "o1" :> [id |-> 1, user |-> "u1"]
Both == First @@ ("o2" :> [id |-> 2, user |-> "u2"])

\* Members come and go; the plan's places fill up; organizations come and go; a logo changes
\* while its organization goes.
Starts == {
  [asks |-> {"addMember", "updateMember", "removeMember", "deleteCounter"}, orgs |-> {"o1"},
   founders |-> Both, branches |-> {Branch("o1", 1), Branch("o2", 1)},
   counters |-> {<<Branch("o1", 1), 1>>}],
  [asks |-> {"createBranch", "createQueue", "createCounter", "deleteCounter", "bill"}, orgs |-> {"o1"},
   founders |-> First, branches |-> {}, counters |-> {}],
  [asks |-> {"selfRegister", "createOrganization", "setStatus", "bill", "deleteOrganization",
             "createBranch"}, orgs |-> {"o1", "o2"},
   founders |-> First, branches |-> {Branch("o1", 1)}, counters |-> {}],
  [asks |-> {"setLogo", "clearLogo", "setStatus", "deleteOrganization"}, orgs |-> {"o1"},
   founders |-> First, branches |-> {}, counters |-> {}]}

Symmetry == Permutations(Handlers)
=============================================================================
