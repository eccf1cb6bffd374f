---------------------------- MODULE TaskFeedback ----------------------------
(***************************************************************************)
(* recordTaskFeedback of kit-ai-workforce, for one character and ratings   *)
(* of 4 or more: an entry of the CV, then the list of the skills, then the *)
(* first of them, one by one, each a level above the one listed.  Lists    *)
(* are copies, as from any database.                                       *)
(***************************************************************************)
EXTENDS Naturals

CONSTANTS Skills,        \* how many skills the character has, numbered as listed
          MaxPromotions, \* MAX_PROMOTIONS_PER_TASK
          Top,           \* the last of PROFICIENCY_LEVELS, counted from 0
          Feedback,      \* calls that may be under way at once
          MaxEntries     \* bound on the CV

VARIABLES level,
          entries,       \* how many entries the CV has
          feedback,
          raised,        \* history: how often the level of each skill was set
          crossed        \* history: a list was taken while another call was at its promotions

growthVars == <<level, entries, feedback, raised, crossed>>

Skill == 1 .. Skills
NoFeedback == [pc |-> "idle"]

TypeOK ==
  /\ level \in [Skill -> 0 .. Top] /\ entries \in 0 .. MaxEntries
  /\ raised \in [Skill -> Nat] /\ crossed \in BOOLEAN
  /\ feedback \in [Feedback -> [pc : {"idle", "cv", "skills"}]
                                 \cup [pc : {"promote"}, at : Skill, listed : [Skill -> 0 .. Top]]]

Init ==
  /\ level \in {l \in [Skill -> 0 .. Top] : l[1] = 0}
  /\ entries = 0 /\ crossed = FALSE
  /\ feedback = [f \in Feedback |-> NoFeedback]
  /\ raised = level

Becomes(f, x) == feedback' = [feedback EXCEPT ![f] = x]

RecordTaskFeedback(f) ==
  /\ feedback[f] = NoFeedback
  /\ Becomes(f, [pc |-> "cv"])
  /\ UNCHANGED <<level, entries, raised, crossed>>

Insert(f) ==
  /\ feedback[f].pc = "cv" /\ entries < MaxEntries
  /\ entries' = entries + 1
  /\ Becomes(f, [pc |-> "skills"])
  /\ UNCHANGED <<level, raised, crossed>>

\* On to the next skill, from i, that is promoted and not yet at the top.
Promotes(f, listed, i) ==
  LET rest == {j \in i .. Skills : j <= MaxPromotions /\ listed[j] < Top} IN
  Becomes(f, IF rest = {} THEN NoFeedback
             ELSE [pc |-> "promote", listed |-> listed, at |-> CHOOSE j \in rest : \A k \in rest : j <= k])

ListByCharacter(f) ==
  /\ feedback[f].pc = "skills"
  /\ Promotes(f, level, 1)
  /\ crossed' = (crossed \/ \E o \in Feedback : feedback[o].pc = "promote")
  /\ UNCHANGED <<level, entries, raised>>

Set(j, l) ==
  /\ level' = [level EXCEPT ![j] = l]
  /\ raised' = [raised EXCEPT ![j] = @ + 1]

SetProficiency(f) ==
  /\ feedback[f].pc = "promote"
  /\ LET x == feedback[f] IN Set(x.at, x.listed[x.at] + 1) /\ Promotes(f, x.listed, x.at + 1)
  /\ UNCHANGED <<entries, crossed>>

\* Mutant of InsertRejects: the entry is best effort.
InsertRejectsGoesOn(f) ==
  /\ feedback[f].pc = "cv"
  /\ Becomes(f, [pc |-> "skills"])
  /\ UNCHANGED <<level, entries, raised, crossed>>

\* A store rejects: the call ends, with the write done or not.
InsertRejects(f) ==
  /\ feedback[f].pc = "cv"
  /\ entries' \in {entries, entries + 1} \cap 0 .. MaxEntries
  /\ Becomes(f, NoFeedback)
  /\ UNCHANGED <<level, raised, crossed>>

SkillsReject(f) ==
  /\ feedback[f].pc \in {"skills", "promote"}
  /\ \/ UNCHANGED <<level, raised>>
     \/ feedback[f].pc = "promote" /\ Set(feedback[f].at, feedback[f].listed[feedback[f].at] + 1)
  /\ Becomes(f, NoFeedback)
  /\ UNCHANGED <<entries, crossed>>

Next ==
  \E f \in Feedback : \/ RecordTaskFeedback(f) \/ Insert(f) \/ InsertRejects(f)
                      \/ ListByCharacter(f) \/ SetProficiency(f) \/ SkillsReject(f)

-----------------------------------------------------------------------------
\* No skill has risen further than the CV has good entries to show for it, whatever
\* overlaps or is cut off; and only overlapping feedbacks lose a rise, or take one back.
LevelsAreEarned ==
  /\ level[1] <= entries
  /\ ~crossed => level = raised
=============================================================================
