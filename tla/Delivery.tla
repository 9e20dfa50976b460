------------------------------ MODULE Delivery ------------------------------
(***************************************************************************)
(* What a source unit promises of the files it collects: a file is marked  *)
(* only when all its batches are in the database, marks are lost a date at *)
(* a time and never one by one, and a date is closed only with a file to   *)
(* show for it.  The unit keeps its book in memory and writes it through   *)
(* to a file; a write may fail, and then memory is ahead of the file until *)
(* the next one.  A stopped unit has forgotten its book and starts from    *)
(* the file.                                                               *)
(***************************************************************************)
EXTENDS Integers

CONSTANTS
    Dates,    \* business dates
    Files,    \* file identities
    Batches   \* batches a file is delivered in

VARIABLES
    unit,     \* "down", or "up" with its book in memory
    stored,   \* <<date, file, n>>: batch n of the file is in the database
    known,    \* the book in memory: the files marked and the dates closed
    saved     \* the book in the file

Book == [marks : [Dates -> SUBSET Files], closed : SUBSET Dates]

EmptyBook == [marks |-> [d \in Dates |-> {}], closed |-> {}]

Delivered(d, f) == \A n \in 1..Batches : <<d, f, n>> \in stored

\* Memory changes first, and the file follows unless the write fails.
Write(book) == known' = book /\ saved' \in {book, saved}

\* Each date keeps what the book has for it, or loses all of it.
Kept(new, old) ==
    /\ \A d \in Dates : new.marks[d] \in {old.marks[d], {}}
    /\ new.closed \subseteq old.closed

\* Older releases closed dates without marking files.
Init ==
    /\ unit = "down"
    /\ stored = {}
    /\ known = EmptyBook
    /\ saved \in Book /\ saved.marks = EmptyBook.marks

\* The book is loaded, and what is outdated in it goes, from memory at least.
Load ==
    /\ unit = "down" /\ unit' = "up"
    /\ known' \in Book /\ saved' \in Book
    /\ Kept(known', saved') /\ Kept(saved', saved)
    /\ UNCHANGED stored

\* The book is also written when something else in the ledger has changed.
Save == unit = "up" /\ Write(known) /\ UNCHANGED <<unit, stored>>

\* A batch arrives; a file that breaks off is noted in the ledger with it.
Store(d, f, n) ==
    /\ unit = "up"
    /\ stored' = stored \cup {<<d, f, n>>}
    /\ Write(known)
    /\ UNCHANGED unit

Mark(d, f) ==
    /\ unit = "up" /\ Delivered(d, f)
    /\ Write([known EXCEPT !.marks[d] = @ \cup {f}])
    /\ UNCHANGED <<unit, stored>>

Close(d) ==
    /\ unit = "up" /\ known.marks[d] # {}
    /\ Write([known EXCEPT !.closed = @ \cup {d}])
    /\ UNCHANGED <<unit, stored>>

\* A closed date that is collected again keeps its marks.
Reopen(d) ==
    /\ unit = "up"
    /\ Write([known EXCEPT !.closed = @ \ {d}])
    /\ UNCHANGED <<unit, stored>>

\* A date whose data is gone is forgotten as a whole.
Forget(d) ==
    /\ unit = "up"
    /\ Write([marks  |-> [known.marks EXCEPT ![d] = {}],
              closed |-> known.closed \ {d}])
    /\ UNCHANGED <<unit, stored>>

\* The unit is taken down or dies.
Stop ==
    /\ unit = "up" /\ unit' = "down"
    /\ known' = EmptyBook
    /\ UNCHANGED <<stored, saved>>

Next ==
    \/ Load \/ Save \/ Stop
    \/ \E d \in Dates : Close(d) \/ Reopen(d) \/ Forget(d)
    \/ \E d \in Dates, f \in Files :
         \/ Mark(d, f)
         \/ \E n \in 1..Batches : Store(d, f, n)

Spec == Init /\ [][Next]_<<unit, stored, known, saved>>

\* What readers of either book rely on: a marked file is in the database.
MarkedIsDelivered ==
    \A book \in {known, saved}, d \in Dates :
        \A f \in book.marks[d] : Delivered(d, f)
=============================================================================
