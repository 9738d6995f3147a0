------------------------------ MODULE MCPolling ------------------------------
(***************************************************************************)
(* Small instances of Polling.  Nothing is declared symmetric: TLC's       *)
(* liveness checking does not allow it.                                    *)
(***************************************************************************)
EXTENDS Polling

\* Every version runs everywhere and is on every channel.
MCOffers == Apps \X Versions \X Keys

MCKeysOf == [r \in Reqs |-> Keys]
==============================================================================
