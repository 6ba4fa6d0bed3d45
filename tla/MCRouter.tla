------------------------------ MODULE MCRouter ------------------------------
(***************************************************************************)
(* Instances of Router for model checking.                                 *)
(***************************************************************************)
EXTENDS Router

\* Two replicas as deployed, and one Router value called by two goroutines.
TwoReplicas == [w \in {"w1", "w2"} |-> IF w = "w1" THEN "r1" ELSE "r2"]
OneRouterTwoCallers == [w \in {"w1", "w2"} |-> "r1"]

OneTenant == [i \in Iids |-> "t"]

Command(id, iid, suffix, type, data, agent, from) ==
  [id |-> id, iid |-> iid, tenant |-> "t", suffix |-> suffix, actor |-> suffix,
   type |-> type, data |-> data, agent |-> agent, from |-> from]

Start(i) == Command("s", i, "desk", Started, "", "", "")
End(i) == Command("e", i, "desk", Ended, "", "", "")
Say(i, id, who, text) == Command(id, i, who, "message.sent", text, "", "")
Assign(i, id, who) == Command(id, i, "desk", "participant.assign", "", who, "")
Unassign(i, id, who) == Command(id, i, "desk", "participant.unassign", "", who, "")
Transfer(i, id, to, from) == Command(id, i, "desk", "participant.transfer", "", to, from)

\* What the router must turn away: an agent that forges a join, one that
\* signs with another's name, a privileged command from an agent.
Forged(i) ==
  {Command("x1", i, "bob", Joined, "", "", ""),
   [Say(i, "x2", "bob", "hi") EXCEPT !.actor = "alice"],
   [Assign(i, "x3", "bob") EXCEPT !.suffix = "bob"]}

NoFacts == [i \in Iids |-> <<>>]

\* An interaction already open, with alice on it, its facts of before hashes.
LegacyFact(n, type, id, actor) ==
  [seq |-> n, pos |-> n, id |-> id, type |-> type, actor |-> actor, hash |-> NoHash,
   cause |-> id[1]]

OpenWithAlice ==
  [i \in Iids |-> <<LegacyFact(1, Started, <<"s">>, "desk"),
                    LegacyFact(2, Joined, <<"a0", Joined, "alice">>, "alice")>>]

\* The life of one interaction, an assignment, and what must be turned away.
LifecycleCommands == {Start("i1"), Assign("i1", "a", "alice"), End("i1")} \union Forged("i1")

\* alice speaks while she is being unassigned.
LeaveRace ==
  {Say("i1", "m1", "alice", "hi"), Say("i1", "m2", "alice", "yo"), Unassign("i1", "u", "alice")}

\* Two interactions whose facts take turns on the stream.
OpenInTurns ==
  [i \in Iids |->
     IF i = "i1"
     THEN <<LegacyFact(1, Started, <<"s">>, "desk"),
            [LegacyFact(2, Joined, <<"a0", Joined, "alice">>, "alice") EXCEPT !.pos = 3]>>
     ELSE <<[LegacyFact(1, Started, <<"s">>, "desk") EXCEPT !.pos = 2]>>]

\* alice hands over to bob, and says two things under one command id.
HandOver ==
  {Transfer("i1", "x", "bob", "alice"), Say("i1", "m", "alice", "hi"), Say("i1", "m", "alice", "yo")}

TransferOrEnd == {Transfer("i1", "x", "bob", "alice"), End("i1")}

\* ... while another interaction of the same stream goes on.
TransferOrEndInTurns == TransferOrEnd \union {Say("i2", "k", "desk", "hi")}

\* A transfer, and the start before which a router may look at the log too early.
StartTransfer == {Start("i1"), Transfer("i1", "x", "bob", "alice")}

\* Instances of README.md, "Other disagreements": a transfer id reused with
\* another payload while the interaction may end; a retried assignment and
\* traffic around it; one command id with two payloads, and another command to
\* fill the cache; messages that may come before the interaction has started.
TransferRetry ==
  {Transfer("i1", "x", "bob", "alice"), Transfer("i1", "x", "carol", "alice"), End("i1")}

RetriedAssign == {Assign("i1", "a", "bob"), Say("i1", "m1", "desk", "hi"), Say("i1", "m2", "desk", "yo")}

ReusedId == {Say("i1", "m", "alice", "hi"), Say("i1", "m", "alice", "yo"), Say("i1", "n", "alice", "hi")}

RefusedTooEarly == {Start("i1"), Say("i1", "m1", "desk", "hi"), Say("i1", "m2", "desk", "yo")}
=============================================================================
