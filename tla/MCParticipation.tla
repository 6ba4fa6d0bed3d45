--------------------------- MODULE MCParticipation ---------------------------
(* An instance of ParticipationProjection for TLC.                         *)
EXTENDS ParticipationProjection, Sequences

(* ann joins, bob joins, ann leaves; a stray second command claims cyd.    *)
HistoryDef == <<[who |-> "ann", assigned |-> TRUE], [who |-> "bob", assigned |-> TRUE],
                [who |-> "ann", assigned |-> FALSE]>>
StraysDef == [v \in {2} |-> [who |-> "cyd", assigned |-> TRUE]]

(* The first command never reaches the stream, so a gap is certain.        *)
SentDef == {c \in Commands : c.version > 1}
==============================================================================
