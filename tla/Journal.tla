------------------------------- MODULE Journal -------------------------------
(* SqliteJournal and NullJournal (journal.py): an append-only table that     *)
(* outlives the process.  A row keeps a ghost reference to what it is about: *)
(* the token minted, for a preview; the order sent, for anything else.       *)
EXTENDS Sequences, Integers

CONSTANTS
    JournalEnabled,     \* journal_enabled: SqliteJournal, or else NullJournal
    JournalMayFail      \* may an INSERT raise sqlite3.Error?

ASSUME JournalAssumption == JournalEnabled \in BOOLEAN /\ JournalMayFail \in BOOLEAN

VARIABLE rows

Event == {"preview", "executed", "rejected", "closed"}

JournalInit == rows = <<>>

\* record: never raises; an sqlite3.Error is logged and the row is lost.
Write(row) ==
    \/ JournalEnabled /\ rows' = Append(rows, row)
    \/ (~JournalEnabled \/ JournalMayFail) /\ UNCHANGED rows

\* recent, for all symbols: the newest rows first, at most `limit' of them.
Recent(limit) ==
    LET shown == IF Len(rows) < limit THEN Len(rows) ELSE limit
    IN  [i \in 1..shown |-> rows[Len(rows) + 1 - i]]
=============================================================================
