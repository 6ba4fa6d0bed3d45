-------------------------- MODULE InteractionFacts --------------------------
(***************************************************************************)
(* The facts of an interaction's `.log` and what is folded from them:      *)
(* the lifecycle status and the current membership.  A fact carries the    *)
(* dense per-interaction sequence number its router gave it (seq), the     *)
(* global stream sequence the broker gave it (pos), its event type, the    *)
(* affected actor, the command id it dedups on, the payload hash and the   *)
(* id of the command that caused it.  Command ids are tuples: <<id>> for   *)
(* an ordinary command, <<id, type, agent>> for a sub-fact of a privileged *)
(* one.  Payload hashes are the tuple of the hashed fields, so two hashes  *)
(* are equal exactly when the payloads are; NoHash marks a fact written    *)
(* before hashes existed.                                                  *)
(***************************************************************************)
EXTENDS Integers, Sequences

Started == "interaction.started"
Ended == "interaction.ended"
Joined == "participant.joined"
Left == "participant.left"

NoHash == <<>>

Status == {"", "started", "ended"}

\* A lifecycle verb is gated on the status; anything else is an opaque
\* annotation, legal only while the interaction is open.
LegalTransition(status, type) ==
  IF type = Started THEN status = "" ELSE status = "started"

ApplyTransition(status, type) ==
  CASE type = Started -> "started"
    [] type = Ended   -> "ended"
    [] OTHER          -> status

IsParticipationFact(type) == type \in {Joined, Left}

\* The facts of a log up to and including stream sequence p.
UpTo(facts, p) == {k \in DOMAIN facts : facts[k].pos <= p}

\* Folding applyTransition over the facts with an index in K leaves the effect
\* of the last lifecycle fact among them.
StatusAt(facts, K) ==
  LET LastIs(type, other) == \E k \in K : /\ facts[k].type = type
                                          /\ \A j \in K : facts[j].type = other => j < k
  IN  CASE LastIs(Ended, Started) -> "ended"
        [] LastIs(Started, Ended) -> "started"
        [] OTHER                  -> ""

StatusOf(facts) == StatusAt(facts, DOMAIN facts)

\* IsParticipantNow for every agent: joined, and not left since.
MembersAt(facts, K) ==
  {facts[k].actor : k \in {j \in K :
      /\ facts[j].type = Joined
      /\ \A h \in K : ~(h > j /\ facts[h].type = Left /\ facts[h].actor = facts[j].actor)}}

FoldParticipation(facts) == MembersAt(facts, DOMAIN facts)

\* One more fact on a membership folded so far.
ApplyFact(part, f) ==
  CASE f.type = Joined -> part \union {f.actor}
    [] f.type = Left   -> part \ {f.actor}
    [] OTHER           -> part

LastPos(facts) == IF facts = <<>> THEN 0 ELSE facts[Len(facts)].pos

LastSeq(facts) ==
  IF facts = <<>> THEN 0
  ELSE LET S == {facts[k].seq : k \in DOMAIN facts}
       IN  CHOOSE n \in S : \A m \in S : m <= n
=============================================================================
