---------------------------- MODULE MCIngestSync ----------------------------
(* One user, one record about them, one table.                               *)
EXTENDS IngestSync

MCCascade == <<"sources">>
MCOwner == [r \in Record |-> "u"]
=============================================================================
