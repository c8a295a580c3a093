--------------------------- MODULE ErrorInterpreter ---------------------------
(***************************************************************************)
(* stellar-error-interpreter.ts, of which the control flow depends on one  *)
(* column: may a transaction that was rejected with these codes be retried *)
(* as it is?  A code outside the tables may not.                           *)
(***************************************************************************)
EXTENDS Sequences

RetryableTransactionCodes ==
    {"tx_too_early", "tx_too_late", "tx_bad_seq", "tx_insufficient_balance",
     "tx_no_source_account", "tx_insufficient_fee", "tx_internal_error"}
TransactionCodes ==
    RetryableTransactionCodes \union
    {"tx_failed", "tx_missing_operation", "tx_bad_auth", "tx_not_supported"}

RetryableOperationCodes ==
    {"op_no_source_account", "op_no_trust", "op_underfunded", "op_line_full",
     "op_no_issuer", "op_low_reserve", "op_not_authorized", "op_no_destination",
     "op_src_not_authorized", "op_src_no_trust"}
OperationCodes ==
    RetryableOperationCodes \union
    {"op_inner", "op_bad_auth", "op_not_supported", "op_too_many_subentries",
     "op_exceeded_work_limit", "op_malformed"}

interpretTransactionCode(code) ==
    [known |-> code \in TransactionCodes, retryable |-> code \in RetryableTransactionCodes]
interpretOperationCode(code) ==
    [known |-> code \in OperationCodes, retryable |-> code \in RetryableOperationCodes]

\* Mutant: the operations are looked at first, and the transaction only without any.
isOperationRetryable(code) ==
    IF code.ops = <<>> THEN interpretTransactionCode(code.tx).retryable
    ELSE \A i \in DOMAIN code.ops : interpretOperationCode(code.ops[i]).retryable
isStellarErrorRetryable(code) ==
    /\ interpretTransactionCode(code.tx).retryable
    /\ \A i \in DOMAIN code.ops : interpretOperationCode(code.ops[i]).retryable
=============================================================================
