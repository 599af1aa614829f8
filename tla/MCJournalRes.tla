--------------------------- MODULE MCJournalRes ---------------------------
EXTENDS JournalRes

CONSTANTS t1, t2, w, f, b

=============================================================================
