--------------------------- MODULE MCTransactions ---------------------------
(***************************************************************************)
(* Small instances of Transactions.  Nothing is declared symmetric: TLC's  *)
(* liveness checking does not allow it.                                    *)
(***************************************************************************)
EXTENDS Transactions

\* Every upsert says the same, with translations, of an external app, so that
\* every submission registers one.
MCEdits ==
    {[visibility |-> "public", text |-> text, type |-> "external", t |-> text] : text \in Texts}
==============================================================================
