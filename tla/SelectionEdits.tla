--------------------------- MODULE SelectionEdits ----------------------------
(***************************************************************************)
(* A player's page changing their selection.  Changes are sent as they are *)
(* made, and may be handled and answered in any order.  Each answer is the *)
(* whole selection, as it is when the answer is made.  Closing the         *)
(* Investment phase buys the selection, and tells the page.                *)
(***************************************************************************)
EXTENDS Naturals, FiniteSets, QueryCache

CONSTANTS
    Facilities,
    Clicks       \* bound: the changes the player makes, each by a name of its own

ASSUME SelectionAssumption == IsFiniteSet(Clicks) /\ NoData \notin [Facilities -> Nat]

VARIABLES
    picked,      \* facility -> copies of it in the selection, as the server has it
    selection,   \* the page's cache of it
    changes,     \* click -> the change it made: see Change
    selectionChangesOverlapped,
    bought,      \* the Investment phase is closed, and what was selected is bought
    buyingTold,  \* the server's message of it is on its way
    late         \* history: an answer from before the purchase was taken after it, and the
                 \* server has answered no read since

selectionVars == <<picked, selection, changes, selectionChangesOverlapped, bought, buyingTold,
                   late>>

Selections == [Facilities -> Nat]
Nothing    == [f \in Facilities |-> 0]
NoChange   == [stage |-> "none"]
Change(f, by, stage)  == [stage |-> stage, facility |-> f, by |-> by]
ChangeAnswered(s, b)  == [stage |-> "answered", selection |-> s, bought |-> b]
ChangeFailed          == [stage |-> "failed"]

SelectionInit ==
    /\ picked = Nothing
    /\ selection = Loaded(picked)
    /\ changes = [c \in Clicks |-> NoChange]
    /\ selectionChangesOverlapped = FALSE
    /\ bought = FALSE /\ buyingTold = FALSE /\ late = FALSE

SelectionChangesInFlight == Cardinality({ c \in Clicks : changes[c].stage \notin {"none", "done"} })

\* useAddToSelection and useRemoveFromSelection.
ChangeSelection(c, f, by) ==
    /\ changes[c] = NoChange
    /\ selection.data # NoData
    /\ by = "remove" => selection.data[f] > 0
    /\ changes' = [changes EXCEPT ![c] = Change(f, by, "sent")]
    /\ selectionChangesOverlapped' =
         (selectionChangesOverlapped \/ SelectionChangesInFlight > 0)
    /\ UNCHANGED <<picked, selection, bought, buyingTold, late>>

\* The server saves the change or refuses it, once the phase is closed always.
SelectionChangeHandled(c) ==
    LET change == changes[c]
    IN  /\ change.stage = "sent"
        /\ \/ /\ change.by = "add" /\ ~bought
              /\ picked' = [picked EXCEPT ![change.facility] = @ + 1]
              /\ changes' = [changes EXCEPT ![c].stage = "saved"]
           \/ /\ change.by = "remove" /\ ~bought /\ picked[change.facility] > 0
              /\ picked' = [picked EXCEPT ![change.facility] = @ - 1]
              /\ changes' = [changes EXCEPT ![c].stage = "saved"]
           \/ /\ changes' = [changes EXCEPT ![c] = ChangeFailed]
              /\ UNCHANGED picked
    /\ UNCHANGED <<selection, selectionChangesOverlapped, bought, buyingTold, late>>

SelectionChangeAnswered(c) ==
    /\ changes[c].stage = "saved"
    /\ changes' = [changes EXCEPT ![c] = ChangeAnswered(picked, bought)]
    /\ UNCHANGED <<picked, selection, selectionChangesOverlapped, bought, buyingTold, late>>

\* The answer is lost on the way.  The change is never sent again.
SelectionAnswerLost(c) ==
    /\ changes[c].stage = "answered"
    /\ changes' = [changes EXCEPT ![c] = ChangeFailed]
    /\ UNCHANGED <<picked, selection, selectionChangesOverlapped, bought, buyingTold, late>>

Done(c) == changes' = [changes EXCEPT ![c] = [stage |-> "done"]]

\* A slip: every answer is trusted.
SettleTrusting(c, settled) ==
    /\ selectionChangesOverlapped' = FALSE
    /\ selection' = IF changes[c].stage = "answered" THEN Put(settled, changes[c].selection)
                    ELSE settled

\* onSuccess, then onSettled: answers are not trusted once two changes overlapped,
\* and the last one done has the selection read again.
Settle(c, settled) ==
    LET shown == IF changes[c].stage = "answered" /\ ~selectionChangesOverlapped
                   THEN Put(settled, changes[c].selection) ELSE settled
    IN  IF SelectionChangesInFlight > 1 \/ ~selectionChangesOverlapped
          THEN selection' = shown /\ UNCHANGED selectionChangesOverlapped
          ELSE selection' = Invalidate(shown) /\ selectionChangesOverlapped' = FALSE

SelectionChangeSucceeds(c) ==
    /\ changes[c].stage = "answered"
    /\ Settle(c, selection)
    /\ Done(c)
    /\ late' = (late \/ (~selectionChangesOverlapped /\ changes[c].bought # bought))
    /\ UNCHANGED <<picked, bought, buyingTold>>

\* Refused or lost: the session is read again, and the selection with it.
SelectionChangeFails(c) ==
    /\ changes[c].stage = "failed"
    /\ Settle(c, Invalidate(selection))
    /\ Done(c)
    /\ UNCHANGED <<picked, bought, buyingTold, late>>

\* The phase's time is over: the closer buys what is selected, and tells the pages.
SelectionBought ==
    /\ ~bought /\ bought' = TRUE
    /\ picked' = Nothing
    /\ buyingTold' = TRUE
    /\ UNCHANGED <<selection, changes, selectionChangesOverlapped, late>>

ToldBought ==
    /\ buyingTold /\ buyingTold' = FALSE
    /\ selection' = Invalidate(selection)
    /\ UNCHANGED <<picked, changes, selectionChangesOverlapped, bought, late>>

SelectionRead ==
    /\ \/ selection.fetch = "asked" /\ selection' = Answer(selection, picked) /\ late' = FALSE
       \/ selection.fetch = "answered" /\ selection' = Land(selection) /\ UNCHANGED late
    /\ UNCHANGED <<picked, changes, selectionChangesOverlapped, bought, buyingTold>>

\* The session is to be read again, for whatever reason.
SelectionReread ==
    /\ selection' = Invalidate(selection)
    /\ UNCHANGED <<picked, changes, selectionChangesOverlapped, bought, buyingTold, late>>

SelectionNext ==
    \/ \E c \in Clicks :
          \/ \E f \in Facilities, by \in {"add", "remove"} : ChangeSelection(c, f, by)
          \/ SelectionChangeHandled(c) \/ SelectionChangeAnswered(c) \/ SelectionAnswerLost(c)
          \/ SelectionChangeSucceeds(c) \/ SelectionChangeFails(c)
    \/ SelectionBought \/ ToldBought \/ SelectionRead \/ SelectionReread
=============================================================================
