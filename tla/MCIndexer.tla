----------------------------- MODULE MCIndexer -----------------------------
(* Small chains for Indexer: several events in one ledger, ledgers without *)
(* events, and an event the decoder does not know.                         *)
EXTENDS Indexer

\* Six events; a page of two splits the three of ledger 2.
MCLedgerOf == <<2, 2, 2, 3, 5, 6>>

\* Three events, for the runs with overlapping invocations.
MCShortLedgerOf == <<2, 2, 3>>

=============================================================================
