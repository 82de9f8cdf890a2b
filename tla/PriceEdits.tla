----------------------------- MODULE PriceEdits ------------------------------
(***************************************************************************)
(* A player's page setting the fields of a price-setting window: prices,   *)
(* and fuel orders, which are kept as far as the stockpile has room.  Each *)
(* field's changes are sent one at a time and, as a change sets the value  *)
(* outright, once more if it fails.  What is entered shows at once.        *)
(***************************************************************************)
EXTENDS Naturals, Sequences, QueryCache

CONSTANTS
    Fields,      \* the fields of one query
    Values,      \* what the player may enter
    Room,        \* the most of it a field keeps
    MaxEntered   \* bound: values entered

ASSUME PriceAssumption ==
    /\ Values \subseteq Nat /\ Room \in Nat /\ MaxEntered \in Nat
    /\ NoData \notin [Fields -> Nat]

VARIABLES
    kept,        \* field -> its value, as the server has it
    windowOpen,  \* the price-setting window
    offer,       \* the page's cache of the values
    sending,     \* field -> its changes, of which only the first is sent
    entered      \* values entered so far

priceVars == <<kept, windowOpen, offer, sending, entered>>

Offers     == [Fields -> Nat]
Entered(v) == [value |-> v, stage |-> "sent", retried |-> FALSE, answer |-> NoData]
Fitting(v) == IF v < Room THEN v ELSE Room

PriceInit ==
    /\ kept = [f \in Fields |-> 0]
    /\ windowOpen = TRUE
    /\ offer = Loaded(kept)
    /\ sending = [f \in Fields |-> <<>>]
    /\ entered = 0

\* withPrice and withFuelOrder.
ShowValue(entry, f, v) ==
    LET withValue(values) == [values EXCEPT ![f] = v]
    IN  Update(entry, withValue)

\* The value shows straight away, also while an earlier one is under way.
SetValue(f, v) ==
    /\ entered < MaxEntered
    /\ entered' = entered + 1
    /\ offer.data # NoData
    /\ offer' = ShowValue(offer, f, v)
    /\ sending' = [sending EXCEPT ![f] = Append(@, Entered(v))]
    /\ UNCHANGED <<kept, windowOpen>>

\* f's change under way is at this stage, and becomes this.
Underway(f, stage)       == sending[f] # <<>> /\ Head(sending[f]).stage = stage
UnderwayBecomes(f, change) == sending' = [sending EXCEPT ![f][1] = change]

ValueHandled(f) ==
    /\ Underway(f, "sent") /\ windowOpen
    /\ kept' = [kept EXCEPT ![f] = Fitting(Head(sending[f]).value)]
    /\ UnderwayBecomes(f, [Head(sending[f]) EXCEPT !.stage = "saved"])
    /\ UNCHANGED <<windowOpen, offer, entered>>

\* The answer carries every field.
ValueAnswered(f) ==
    /\ Underway(f, "saved")
    /\ UnderwayBecomes(f, [Head(sending[f]) EXCEPT !.stage = "answered", !.answer = kept])
    /\ UNCHANGED <<kept, windowOpen, offer, entered>>

\* Refused once the window is closed, or lost before or after it was handled.
ValueFails(f) ==
    /\ Underway(f, "sent") \/ Underway(f, "answered")
    /\ UnderwayBecomes(f, IF Head(sending[f]).retried
                            THEN [Entered(Head(sending[f]).value) EXCEPT !.stage = "failed"]
                            ELSE [Entered(Head(sending[f]).value) EXCEPT !.retried = TRUE])
    /\ UNCHANGED <<kept, windowOpen, offer, entered>>

\* A slip: every field is taken from the answer.
AnswerTakenWhole(f) ==
    /\ Underway(f, "answered")
    /\ offer' = Put(offer, Head(sending[f]).answer)
    /\ sending' = [sending EXCEPT ![f] = Tail(@)]
    /\ UNCHANGED <<kept, windowOpen, entered>>

\* Only this field is taken from the answer.
ValueSucceeds(f) ==
    /\ Underway(f, "answered")
    /\ offer' = ShowValue(offer, f, Head(sending[f]).answer[f])
    /\ sending' = [sending EXCEPT ![f] = Tail(@)]
    /\ UNCHANGED <<kept, windowOpen, entered>>

\* Everything of the session is read again, the value shown included.
ValueGivenUp(f) ==
    /\ Underway(f, "failed")
    /\ offer' = Invalidate(offer)
    /\ sending' = [sending EXCEPT ![f] = Tail(@)]
    /\ UNCHANGED <<kept, windowOpen, entered>>

\* The window closes, and the server says so.
WindowCloses ==
    /\ windowOpen
    /\ windowOpen' = FALSE
    /\ offer' = Invalidate(offer)
    /\ UNCHANGED <<kept, sending, entered>>

OfferRead ==
    /\ \/ offer.fetch = "asked" /\ offer' = Answer(offer, kept)
       \/ offer.fetch = "answered" /\ offer' = Land(offer)
    /\ UNCHANGED <<kept, windowOpen, sending, entered>>

\* The session is to be read again, for whatever reason.
OfferReread ==
    /\ offer' = Invalidate(offer)
    /\ UNCHANGED <<kept, windowOpen, sending, entered>>

PriceNext ==
    \/ \E f \in Fields :
          \/ \E v \in Values : SetValue(f, v)
          \/ ValueHandled(f) \/ ValueAnswered(f) \/ ValueFails(f)
          \/ ValueSucceeds(f) \/ ValueGivenUp(f)
    \/ WindowCloses \/ OfferRead \/ OfferReread
=============================================================================
