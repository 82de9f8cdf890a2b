----------------------------- MODULE QueryCache ------------------------------
(***************************************************************************)
(* One query of a page's cache, as the frontend uses TanStack Query for    *)
(* it: what a page in use does with one answer of the server.  It is a     *)
(* library, modelled from the calls the hooks make: useQuery,              *)
(* invalidateQueries, setQueryData and cancelQueries.                      *)
(*                                                                         *)
(* An entry has the data shown, or NoData before the first answer; the     *)
(* read in flight, if any ("asked" until the server has looked, then       *)
(* "answered" with what it saw); and whether it is known to be out of      *)
(* date.  There is one read at a time: a read that is cancelled is never   *)
(* heard of again.                                                         *)
(*                                                                         *)
(* missed is not in the library.  It remembers that an answer is on its    *)
(* way, or has landed, which the server gave before something the page was *)
(* told of since.                                                          *)
(***************************************************************************)
CONSTANT NoData   \* what a query that has never been answered holds

Empty     == [data |-> NoData, fetch |-> "idle", got |-> NoData, stale |-> FALSE,
              missed |-> FALSE]
Loaded(v) == [Empty EXCEPT !.data = v]
Entry(V)  == [data: V \cup {NoData}, fetch: {"idle", "asked", "answered"},
              got: V \cup {NoData}, stale: BOOLEAN, missed: BOOLEAN]

Asking(entry) == [entry EXCEPT !.fetch = "asked", !.got = NoData, !.missed = FALSE]

\* A page that starts to use the query, or that is looked at again.
Read(entry) == IF entry.fetch = "idle" THEN Asking(entry) ELSE entry

\* A slip: a read under way is kept rather than started over.
InvalidateJoining(entry) == [Read(entry) EXCEPT !.stale = TRUE]

\* The read under way is started over, except a first one: that is left to finish.
Invalidate(entry) ==
    IF entry.data = NoData
      THEN [Read(entry) EXCEPT !.stale = TRUE, !.missed = entry.fetch = "answered"]
      ELSE [Asking(entry) EXCEPT !.stale = TRUE]

\* The server handles the read, and sees v.
Answer(entry, v) == [entry EXCEPT !.fetch = "answered", !.got = v]

Land(entry) ==
    [entry EXCEPT !.data = entry.got, !.fetch = "idle", !.got = NoData, !.stale = FALSE]

\* The last retry failed.
Fail(entry) == [entry EXCEPT !.fetch = "idle", !.got = NoData, !.stale = TRUE]

\* A read under way stays under way, and lands over what is put now.
Put(entry, v) ==
    [entry EXCEPT !.data = v, !.stale = FALSE, !.missed = entry.fetch = "answered"]

\* Part of the data changes.  An update of nothing stays nothing.
Update(entry, F(_)) ==
    IF entry.data = NoData THEN entry
    ELSE [Put(entry, F(entry.data)) EXCEPT !.missed = @ \/ entry.missed]

Cancel(entry) == [entry EXCEPT !.fetch = "idle", !.got = NoData]
=============================================================================
