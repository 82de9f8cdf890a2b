------------------------------ MODULE PlanEdits ------------------------------
(***************************************************************************)
(* Changes of a page that read again what they changed, whatever their     *)
(* outcome: the facilitator's changes to the plans, and a player's ballot  *)
(* in the carbon tax vote.  The server may settle the matter meanwhile: a  *)
(* Recap locks the Round planned, leaving the Investment phase counts the  *)
(* vote.  It then tells the page.                                          *)
(*                                                                         *)
(* Both are one query here: the choice last made, and whether it is        *)
(* settled.  They differ in what is taken from an answer.                  *)
(***************************************************************************)
EXTENDS Naturals, QueryCache

CONSTANTS
    Options,     \* what the plan or the ballot may be
    MaxChoices   \* bound: changes made

Unmade   == 0
Standing == [made: Options \cup {Unmade}, settled: BOOLEAN]

ASSUME ChoiceAssumption == MaxChoices \in Nat /\ NoData \notin Standing

VARIABLES
    editing,     \* "plans" or "vote"
    choice,      \* [made, settled], as the server has it
    shown,       \* the page's cache of it
    edit,        \* the change under way.  The next one waits for it
    told,        \* a message of the server's is on its way
    made         \* changes made so far

choiceVars == <<editing, choice, shown, edit, told, made>>

NoEdit == [stage |-> "none", choice |-> Unmade, retried |-> FALSE, answer |-> NoData]

ChoiceInit ==
    /\ editing \in {"plans", "vote"}
    /\ choice = [made |-> Unmade, settled |-> FALSE]
    /\ shown = Loaded(choice)
    /\ edit = NoEdit
    /\ told = FALSE
    /\ made = 0

Choose(c) ==
    /\ made < MaxChoices
    /\ edit = NoEdit
    /\ shown.data # NoData /\ ~shown.data.settled
    /\ edit' = [NoEdit EXCEPT !.stage = "sent", !.choice = c]
    /\ made' = made + 1
    /\ UNCHANGED <<editing, choice, shown, told>>

ChoiceHandled ==
    /\ edit.stage = "sent" /\ ~choice.settled
    /\ choice' = [choice EXCEPT !.made = edit.choice]
    /\ edit' = [edit EXCEPT !.stage = "saved"]
    /\ UNCHANGED <<editing, shown, told, made>>

ChoiceAnswered ==
    /\ edit.stage = "saved"
    /\ edit' = [edit EXCEPT !.stage = "answered", !.answer = choice]
    /\ UNCHANGED <<editing, choice, shown, told, made>>

\* Refused once settled, or lost before or after it was handled.  Only a ballot is
\* sent once more.
ChoiceFails ==
    /\ edit.stage \in {"sent", "answered"}
    /\ edit' = IF editing = "vote" /\ ~edit.retried
                 THEN [NoEdit EXCEPT !.stage = "sent", !.choice = edit.choice, !.retried = TRUE]
                 ELSE [edit EXCEPT !.stage = "failed", !.answer = NoData]
    /\ UNCHANGED <<editing, choice, shown, told, made>>

\* A slip: the ballot is taken although the vote was counted since.
WithBallotAlways(entry, answer) == Put(entry, answer)

\* The ballot alone is taken, and only while the vote shown is open.
WithBallot(entry, answer) ==
    LET withBallot(vote) == [vote EXCEPT !.made = answer.made]
    IN  IF entry.data = NoData \/ entry.data.settled THEN entry
        ELSE Update(entry, withBallot)

\* onSettled: read again, which also replaces a read that started before the change.
SettleChoice(entry) == Invalidate(entry)

ChoiceSucceeds ==
    /\ edit.stage = "answered"
    /\ shown' = SettleChoice(IF editing = "vote" THEN WithBallot(shown, edit.answer)
                             ELSE Put(shown, edit.answer))
    /\ edit' = NoEdit
    /\ UNCHANGED <<editing, choice, told, made>>

ChoiceGivenUp ==
    /\ edit.stage = "failed"
    /\ shown' = SettleChoice(shown)
    /\ edit' = NoEdit
    /\ UNCHANGED <<editing, choice, told, made>>

\* The Round is locked, or the vote is counted, and the page is told.
Settles ==
    /\ ~choice.settled
    /\ choice' = [choice EXCEPT !.settled = TRUE]
    /\ told' = TRUE
    /\ UNCHANGED <<editing, shown, edit, made>>

ToldSettled ==
    /\ told
    /\ told' = FALSE
    /\ shown' = Invalidate(shown)
    /\ UNCHANGED <<editing, choice, edit, made>>

ShownRead ==
    /\ \/ shown.fetch = "asked" /\ shown' = Answer(shown, choice)
       \/ shown.fetch = "answered" /\ shown' = Land(shown)
    /\ UNCHANGED <<editing, choice, edit, told, made>>

\* The session is to be read again, for whatever reason.
ShownReread ==
    /\ shown' = Invalidate(shown)
    /\ UNCHANGED <<editing, choice, edit, told, made>>

ChoiceNext ==
    \/ \E c \in Options : Choose(c)
    \/ ChoiceHandled \/ ChoiceAnswered \/ ChoiceFails \/ ChoiceSucceeds \/ ChoiceGivenUp
    \/ Settles \/ ToldSettled \/ ShownRead \/ ShownReread
=============================================================================
