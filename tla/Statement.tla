------------------------------ MODULE Statement ------------------------------
(***************************************************************************)
(* The statement of an account in the in-memory store: Store::ledger gives *)
(* it page by page, each page in one critical section, while postings go   *)
(* on between the pages.  The reader follows next_cursor to the end, with  *)
(* any page size.  It asks for no [from, to] window, times being left out. *)
(***************************************************************************)
EXTENDS MemStore

CONSTANT Limits  \* the page sizes the reader may ask for

ASSUME LimitsOfPages == Limits \subseteq 1..200
ASSUME CursorAssumption == None \notin Nat

VARIABLES
    asked,   \* the account whose statement is being read, or None
    cursor,  \* the next_cursor of the last page
    more,    \* whether another page is due
    read     \* the items of the pages so far

reader == <<asked, cursor, more, read>>

-----------------------------------------------------------------------------
\* The account's entries after the cursor, by sequence_number.
After(account_id, from) ==
    BySequence({e \in ToSet(entries) : /\ e.account_id = account_id
                                       /\ from = None \/ e.sequence_number > from})

\* The number of the last entry of the page, if more entries follow.  The next
\* page starts behind it: to give the number of the next entry would lose that one,
\* to look one entry too far would lose the last.
NumberOfNext(rows, limit) ==
    IF Len(rows) > limit THEN rows[limit + 1].sequence_number ELSE None
OneTooFar(rows, limit) ==
    IF Len(rows) > limit + 1 THEN rows[limit].sequence_number ELSE None
NextCursor(rows, limit) ==
    IF Len(rows) > limit THEN rows[limit].sequence_number ELSE None

\* The running balance starts at zero on every page and adds up what is on it, over all
\* assets.
Running(page, k) ==
    compute_balance(ToSet(SubSeq(page, 1, k)), page[k].account_id, "")

ledger(account_id, limit, from) ==
    LET rows == After(account_id, from)
        page == SubSeq(rows, 1, IF Len(rows) > limit THEN limit ELSE Len(rows))
    IN  [entries       |-> [k \in DOMAIN page |-> [entry |-> page[k],
                                                   running_balance |-> Running(page, k)]],
         next_cursor   |-> NextCursor(rows, limit),
         final_balance |-> compute_balance(ToSet(entries), account_id, "")]

-----------------------------------------------------------------------------
\* The reader starts with an account, which may be another one than before.
Ask(account_id) ==
    /\ asked' = account_id /\ cursor' = None /\ more' = TRUE
    /\ read' = <<>>
    /\ UNCHANGED vars

ReadPage(limit) ==
    /\ more
    /\ LET page == ledger(asked, limit, cursor)
       IN  /\ read' = read \o page.entries
           /\ cursor' = page.next_cursor
           /\ more' = (page.next_cursor # None)
    /\ UNCHANGED <<vars, asked>>

-----------------------------------------------------------------------------
EntriesRead == [k \in DOMAIN read |-> read[k].entry]

\* However the pages are cut and whatever is posted between them, what has been
\* read is the beginning of the statement: no entry is skipped, repeated or out of
\* order (Store::ledger, cursor and limit).
PagesFollowOn == IsPrefix(EntriesRead, After(asked, None))

\* A reader who is told that there is no further page has read every entry the
\* account has at that moment (Store::ledger, next_cursor).
LastPageCompletes ==
    [][more /\ ~more' => EntriesRead' = After(asked, None)']_<<vars, reader>>
=============================================================================
