--------------------------- MODULE InteractionLog ---------------------------
(***************************************************************************)
(* What the write plane promises, whatever its routers, caches, retries    *)
(* and failures do: per interaction, a log that only grows, by one fact at *)
(* a time, each legal in the status the facts before it give and each with *)
(* a command id the log does not hold yet; and a command is answered       *)
(* accepted only when its facts are in the log.                            *)
(***************************************************************************)
EXTENDS InteractionFacts

CONSTANTS
  Iids,            \* interactions
  Commands,        \* commands a client may send
  FactsOf(_),      \* the facts, as [type, id] records, a command stands for
  IidOf(_),        \* the interaction a command addresses
  InitialFacts     \* what the log holds at the start, per interaction

VARIABLES
  facts,           \* [Iids -> sequence of [type, id] records]
  accepted         \* the commands answered accepted

absVars == <<facts, accepted>>

Ids(s) == {s[k].id : k \in DOMAIN s}

Init ==
  /\ facts = InitialFacts
  /\ accepted = {}

\* One more fact of some command, legal after the facts before it and with an
\* id the log does not hold.
AppendFact(c, f) ==
  /\ LegalTransition(StatusOf(facts[IidOf(c)]), f.type)
  /\ f.id \notin Ids(facts[IidOf(c)])
  /\ facts' = [facts EXCEPT ![IidOf(c)] = Append(@, f)]

\* A command is answered accepted when everything it stands for is durable.
Accept(c) ==
  /\ {f.id : f \in FactsOf(c)} \subseteq Ids(facts'[IidOf(c)])
  /\ accepted' = accepted \union {c}

\* The step that appends a command's last fact may also be its answer.
Next ==
  /\ \/ UNCHANGED facts
     \/ \E c \in Commands : \E f \in FactsOf(c) : AppendFact(c, f)
  /\ \/ UNCHANGED accepted
     \/ \E c \in Commands : Accept(c)

Spec == Init /\ [][Next]_absVars
=============================================================================
