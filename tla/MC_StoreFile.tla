---------------------------- MODULE MC_StoreFile ----------------------------
(* Three processes on one store of each class. *)
EXTENDS StoreFile

CONSTANTS server, verifier, worker

\* Stores that differ in name only are checked once: NodeTrustStorage and NodeTrustHistory
\* are like NodeStorage, and TransactionTime is like NodeTrustFullHistory.
Distinct ==
    {BlocksStorage, NodeStorage, TransactionVerifiedStorage, ValidatorStorage,
     ValidatorAgreementStorage, ValidatorAgreementInfoStorage,
     ValidatorAgreementResultStorage, NodeTrustFullHistory, RejectedTransactions}

ServerTwice == [p \in Process |-> IF p = server THEN 2 ELSE 1]
=============================================================================
