--------------------------- MODULE DecisionMemory ---------------------------
(***************************************************************************)
(* DecisionService (kit-decision-memory): one extracted candidate that is  *)
(* confirmed into a decision or rejected, and decisions that are created,  *)
(* updated and deleted.  Whatever writes a text embeds it first, from the  *)
(* row it read before that await.  (Rows that the extractor inserts by     *)
(* itself, with an embedding of another form or none, are left out.)       *)
(***************************************************************************)
EXTENDS Naturals, FiniteSets

CONSTANTS Op,        \* requests that may be under way at once
          Decision,  \* bound: the decisions there can be
          NoDecision,
          Edited,    \* bound: the decisions that are updated
          Patch      \* the patches that are sent, functions from parts to values

\* A text has three parts, each of which may be changed on its own.
Part == {"subject", "context", "reason"}
Empty == 0
First == 1
Text == [Part -> {Empty, First, 2}]

\* A first text, with a context or none.
Starts(context) == [p \in Part |-> IF p = "context" THEN context ELSE First]

VARIABLES candidate,  \* status of the extracted candidate
          linked,     \* its confirmedDecisionId
          decision,   \* the decisions: text and the text their embedding is of
          op,
          made,       \* history: the decisions made from the candidate
          contended,  \* history: two reviews of the candidate were under way at once, or
                      \* one was not recorded
          mixed,      \* history: the decisions with two updates under way at once
          unread      \* history: the parts of a decision's text that its embedding has as empty

mvars == <<candidate, linked, decision, op, made, contended, mixed, unread>>

Row == [text : Text, embedded : Text]
Unused == [row |-> "unused"]
Gone == [row |-> "gone"]
NoOp == [pc |-> "idle"]
Exists(d) == decision[d] \notin {Unused, Gone}

TypeOK ==
  /\ candidate \in {"pending", "confirmed", "rejected"} /\ linked \in Decision \cup {NoDecision}
  /\ decision \in [Decision -> Row \cup {Unused, Gone}]
  /\ made \subseteq Decision /\ mixed \subseteq Decision /\ unread \in [Decision -> SUBSET Part]
  /\ \A o \in Op : op[o].pc \in {"idle", "embed", "link", "reject", "reembed"}

Init ==
  /\ candidate = "pending" /\ linked = NoDecision
  /\ decision = [d \in Decision |-> Unused]
  /\ op = [o \in Op |-> NoOp]
  /\ made = {} /\ contended = FALSE /\ mixed = {} /\ unread = [d \in Decision |-> {}]

Leave(o) == op' = [op EXCEPT ![o] = NoOp]
Reviewing == {o \in Op : op[o].pc \in {"embed", "link", "reject"}}
Fresh == {d \in Decision : decision[d] = Unused}

\* confirmPending and rejectPending find the candidate pending.
Review(o, pc) ==
  /\ op[o] = NoOp /\ candidate = "pending"
  /\ op' = [op EXCEPT ![o] = [pc |-> pc]]
  /\ contended' = (contended \/ Reviewing # {})
  /\ UNCHANGED <<candidate, linked, decision, made, mixed, unread>>

ConfirmPending(o) == Review(o, "embed")
RejectPending(o) == Review(o, "reject")

\* The decision is inserted with the raw text it was extracted from as its context,
\* and the embedding of its subject and reason alone, ...
Insert(o) ==
  /\ op[o].pc = "embed"
  /\ \E d \in Fresh :
       /\ decision' = [decision EXCEPT ![d] = [text |-> Starts(First), embedded |-> Starts(Empty)]]
       /\ unread' = [unread EXCEPT ![d] = {"context"}]
       /\ made' = made \cup {d}
       /\ op' = [op EXCEPT ![o] = [pc |-> "link", row |-> d]]
  /\ UNCHANGED <<candidate, linked, contended, mixed>>

\* Mutant of Link: the link is forgotten.
LinkForgotten(o) ==
  /\ op[o].pc = "link"
  /\ candidate' = "confirmed"
  /\ Leave(o)
  /\ UNCHANGED <<linked, decision, made, contended, mixed, unread>>

\* ... and the candidate is linked to it.
Link(o) ==
  /\ op[o].pc = "link"
  /\ candidate' = "confirmed" /\ linked' = op[o].row
  /\ Leave(o)
  /\ UNCHANGED <<decision, made, contended, mixed, unread>>

Reject(o) ==
  /\ op[o].pc = "reject"
  /\ candidate' = "rejected"
  /\ Leave(o)
  /\ UNCHANGED <<linked, decision, made, contended, mixed, unread>>

\* Embedder or store reject: what was inserted before stays.
ReviewFails(o) ==
  /\ op[o].pc \in {"embed", "link", "reject"}
  /\ contended' = (contended \/ op[o].pc = "link")
  /\ Leave(o)
  /\ UNCHANGED <<candidate, linked, decision, made, mixed, unread>>

\* create inserts a row with the embedding of its text, in one step.
Create(d, context) ==
  /\ d \in Fresh
  /\ decision' = [decision EXCEPT ![d] = [text |-> Starts(context), embedded |-> Starts(context)]]
  /\ UNCHANGED <<candidate, linked, op, made, contended, mixed, unread>>

\* A subject or a reason that is empty is not patched, ...
Blank(patch) == {p \in DOMAIN patch \ {"context"} : patch[p] = Empty}
Patches(patch) == DOMAIN patch \ Blank(patch)
Patched(text, patch) == [p \in Part |-> IF p \in Patches(patch) THEN patch[p] ELSE text[p]]

\* ... but embedded, whenever there is anything to patch.
Embedded(text, patch) == [p \in Part |-> IF p \in DOMAIN patch THEN patch[p] ELSE text[p]]
Updating(d) == {o \in Op : op[o].pc = "reembed" /\ op[o].row = d}

\* update reads the row, and embeds it with what it was given, ...
Update(o, d, patch) ==
  /\ op[o] = NoOp /\ Exists(d)
  /\ op' = [op EXCEPT ![o] = [pc |-> "reembed", row |-> d, patch |-> patch,
                             embedded |-> Embedded(decision[d].text, patch)]]
  /\ mixed' = IF Updating(d) = {} THEN mixed ELSE mixed \cup {d}
  /\ UNCHANGED <<candidate, linked, decision, made, contended, unread>>

\* Mutant of ApplyPatch: the new embedding is not stored.
ApplyPatchOnly(o) ==
  /\ op[o].pc = "reembed" /\ Exists(op[o].row)
  /\ decision' = [decision EXCEPT ![op[o].row].text = Patched(@, op[o].patch)]
  /\ Leave(o)
  /\ UNCHANGED <<candidate, linked, made, contended, mixed, unread>>

\* ... then patches the row and replaces the embedding.  An update of neither subject
\* nor context nor reason leaves both as they are.
ApplyPatch(o) ==
  /\ op[o].pc = "reembed" /\ Exists(op[o].row)
  /\ IF Patches(op[o].patch) = {} THEN UNCHANGED <<decision, unread>>
     ELSE /\ decision' = [decision EXCEPT ![op[o].row] =
               [text |-> Patched(decision[op[o].row].text, op[o].patch), embedded |-> op[o].embedded]]
          /\ unread' = [unread EXCEPT ![op[o].row] = Blank(op[o].patch)]
  /\ Leave(o)
  /\ UNCHANGED <<candidate, linked, made, contended, mixed>>

\* The row is gone, or embedder or store reject.
UpdateFails(o) ==
  /\ op[o].pc = "reembed"
  /\ Leave(o)
  /\ UNCHANGED <<candidate, linked, decision, made, contended, mixed, unread>>

Delete(d) ==
  /\ Exists(d)
  /\ decision' = [decision EXCEPT ![d] = Gone]
  /\ UNCHANGED <<candidate, linked, op, made, contended, mixed, unread>>

OpStep(o) ==
  \/ Insert(o) \/ Link(o) \/ Reject(o) \/ ReviewFails(o) \/ ApplyPatch(o) \/ UpdateFails(o)

Next ==
  \/ \E o \in Op : OpStep(o) \/ ConfirmPending(o) \/ RejectPending(o)
  \/ \E d \in Decision : Delete(d) \/ \E context \in {Empty, First} : Create(d, context)
  \/ \E o \in Op, d \in Edited, patch \in Patch : Update(o, d, patch)

-----------------------------------------------------------------------------
\* A confirmed candidate names a decision that was made from it, a rejected one
\* has none, and no candidate has two, unless two reviews crossed or one of
\* them could not be recorded.
CandidateFitsDecision ==
  /\ candidate = "confirmed" => linked \in made
  /\ ~contended => /\ candidate = "rejected" => made = {}
                   /\ Cardinality(made) <= 1

\* Unless two updates of a decision were under way at once, the embedding it is
\* searched by is that of its text, but for the context of a confirmed candidate,
\* which is not in it until an update, and a subject or a reason that the last
\* update had as the empty string: the row keeps the one it had.
EmbeddingFitsText ==
  \A d \in Decision \ mixed : Exists(d) =>
    decision[d].embedded = [p \in Part |-> IF p \in unread[d] THEN Empty ELSE decision[d].text[p]]
=============================================================================
