------------------------------ MODULE LobbyPage ------------------------------
(***************************************************************************)
(* The lobby, where an account logs in and out and joins runs.  The page   *)
(* knows whether it is logged in only by reading the account's runs: it    *)
(* has LoggedOut when the server refuses, and how many runs were joined    *)
(* otherwise.                                                              *)
(***************************************************************************)
EXTENDS Integers, QueryCache

CONSTANTS
    MaxJoined,    \* bound: runs the account joins
    MaxCalls,     \* bound: requests to log in or out, or to join
    MaxReads      \* bound: reads begun by looking at the page again

ASSUME LobbyAssumption == MaxJoined \in Nat /\ MaxCalls \in Nat /\ MaxReads \in Nat

LoggedOut == -1
Runs      == {LoggedOut} \cup 0 .. MaxJoined
NoCall    == [kind |-> "none", stage |-> "none"]

VARIABLES
    place,     \* "picker", "login" or "logout"
    cookie,    \* the server knows the visitor's session
    joined,    \* runs the account has joined, as the server has it
    myRuns,    \* the page's cache of them
    call,      \* the request under way: [kind, stage].  "read" once only the read it
               \* caused is awaited
    spent,     \* [calls, reads] so far
    lost,      \* history: an answer to a request never came
    left       \* history: the account logged out here, and has not logged in since

lobbyVars == <<place, cookie, joined, myRuns, call, spent, lost, left>>

LobbyInit ==
    /\ place \in {"picker", "login"}
    /\ cookie \in BOOLEAN
    /\ joined = 0
    /\ myRuns = Read(Empty)
    /\ call = NoCall
    /\ spent = [calls |-> 0, reads |-> 0]
    /\ lost = FALSE /\ left = FALSE

LoggedIn == myRuns.data \notin {NoData, LoggedOut}

Begin(kind) ==
    /\ call = NoCall /\ spent.calls < MaxCalls
    /\ call' = [kind |-> kind, stage |-> "sent"]
    /\ spent' = [spent EXCEPT !.calls = @ + 1]

\* The form is there as long as the page does not know of a session.
Login ==
    /\ place = "login" /\ ~LoggedIn
    /\ Begin("login")
    /\ UNCHANGED <<place, cookie, joined, myRuns, lost, left>>

\* The logout page sends it as it opens, along with a read of the runs.
Logout ==
    /\ place = "picker"
    /\ Begin("logout")
    /\ place' = "logout"
    /\ myRuns' = Read(myRuns)
    /\ UNCHANGED <<cookie, joined, lost, left>>

Join ==
    /\ place = "picker" /\ LoggedIn
    /\ joined < MaxJoined
    /\ Begin("join")
    /\ UNCHANGED <<place, cookie, joined, myRuns, lost, left>>

\* Log in with the right password; log out, with a session or without; join, with one.
CallHandled ==
    /\ call.stage = "sent"
    /\ call.kind = "join" => cookie
    /\ cookie' = (call.kind # "logout")
    /\ joined' = IF call.kind = "join" THEN joined + 1 ELSE joined
    /\ left' = (left /\ call.kind # "login")
    /\ call' = [call EXCEPT !.stage = "saved"]
    /\ UNCHANGED <<place, myRuns, spent, lost>>

\* A slip: the read under way when the account logged out goes on.
MarkLoggedOutOnly(entry) == Put(entry, LoggedOut)

\* No new read: it would race the cookie.  The one under way is dropped.
MarkLoggedOut(entry) == Put(Cancel(entry), LoggedOut)

\* The runs are read again, and the request is over once they are.
CallSucceeds ==
    /\ call.stage = "saved" /\ call.kind # "logout"
    /\ call' = [call EXCEPT !.stage = "read"]
    /\ myRuns' = Invalidate(myRuns)
    /\ UNCHANGED <<place, cookie, joined, spent, lost, left>>

\* The login form goes to the picker after the read.
CallOver ==
    /\ call.stage = "read" /\ myRuns.fetch = "idle"
    /\ call' = NoCall
    /\ place' = "picker"
    /\ UNCHANGED <<cookie, joined, myRuns, spent, lost, left>>

LogoutSucceeds ==
    /\ call.kind = "logout" /\ call.stage = "saved"
    /\ call' = NoCall
    /\ place' = "login"
    /\ myRuns' = MarkLoggedOut(myRuns)
    /\ left' = TRUE
    /\ UNCHANGED <<cookie, joined, spent, lost>>

\* Refused, or lost before it was handled or after.  A logout goes to the login page.
CallFails ==
    /\ call.stage \in {"sent", "saved"}
    /\ call' = NoCall
    /\ place' = IF call.kind = "logout" THEN "login" ELSE place
    /\ lost' = (lost \/ call.stage = "saved")
    /\ UNCHANGED <<cookie, joined, myRuns, spent, left>>

\* The login page sends an account that is logged in to the picker.
SentToPicker ==
    /\ place = "login" /\ LoggedIn /\ call = NoCall
    /\ place' = "picker"
    /\ UNCHANGED <<cookie, joined, myRuns, call, spent, lost, left>>

\* The picker offers a visitor who is logged out the login page.
ToLogin ==
    /\ place = "picker" /\ myRuns.data = LoggedOut /\ call = NoCall
    /\ place' = "login"
    /\ UNCHANGED <<cookie, joined, myRuns, call, spent, lost, left>>

\* In another tab, or by itself.
SessionEnds ==
    /\ cookie
    /\ cookie' = FALSE
    /\ UNCHANGED <<place, joined, myRuns, call, spent, lost, left>>

LookAtPage ==
    /\ myRuns.fetch = "idle" /\ spent.reads < MaxReads
    /\ myRuns' = Read(myRuns)
    /\ spent' = [spent EXCEPT !.reads = @ + 1]
    /\ UNCHANGED <<place, cookie, joined, call, lost, left>>

RunsRead ==
    /\ \/ myRuns.fetch = "asked" /\ myRuns' = Answer(myRuns, IF cookie THEN joined ELSE LoggedOut)
       \/ myRuns.fetch = "answered" /\ myRuns' = Land(myRuns)
       \/ myRuns.fetch # "idle" /\ myRuns' = Fail(myRuns)
    /\ UNCHANGED <<place, cookie, joined, call, spent, lost, left>>

LobbyNext ==
    \/ Login \/ Logout \/ Join \/ CallHandled \/ CallSucceeds \/ CallOver
    \/ LogoutSucceeds \/ CallFails \/ SentToPicker \/ ToLogin \/ SessionEnds
    \/ LookAtPage \/ RunsRead
=============================================================================
