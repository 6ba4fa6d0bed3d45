---------------------------- MODULE MCProjector -----------------------------
(***************************************************************************)
(* Instances of Projector for model checking.                              *)
(***************************************************************************)
EXTENDS Projector

LogFact(i, seq, type, actor) == [iid |-> i, seq |-> seq, type |-> type, actor |-> actor]

\* alice takes part and leaves, bob stays; a message after that, one that
\* does not parse, and alice comes back.
HandedOver ==
  <<LogFact("i1", 1, Joined, "alice"),
    LogFact("i1", 2, Joined, "bob"),
    LogFact("i1", 0, Corrupt, ""),
    LogFact("i1", 3, Left, "alice"),
    LogFact("i1", 4, "message.sent", "bob"),
    LogFact("i1", 5, Joined, "alice")>>

\* A join and the message the agent must then see.
JoinThenMessage ==
  <<LogFact("i1", 1, Joined, "alice"),
    LogFact("i1", 2, "message.sent", "desk")>>
=============================================================================
