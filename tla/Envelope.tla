------------------------------ MODULE Envelope ------------------------------
(***************************************************************************)
(* The signed envelope the gateway hands to a service, and the checks both *)
(* ends run on it (packages/contracts/src/envelope.ts, signing.ts and      *)
(* errors.ts).  The MAC is idealised: a signature stands for the secret it *)
(* was made with, and verifies exactly under that secret.  Nothing in the  *)
(* model alters an envelope, so what is left to go wrong is two processes  *)
(* holding different secrets.                                              *)
(***************************************************************************)
EXTENDS Integers

\* ERROR_CODES: what a service or the gateway may answer instead of data.
ERROR_CODES ==
    {"UNAUTHORIZED", "NO_ACTIVE_ORG", "PERMISSION_DENIED", "UPGRADE_REQUIRED",
     "RATE_LIMITED", "NOT_FOUND", "CONFLICT", "INVALID_INPUT",
     "DEADLINE_EXCEEDED", "UNTRUSTED_ENVELOPE", "SERVICE_UNAVAILABLE", "INTERNAL"}

\* verifyRequest and verifyReply, on what is left of them.
verify(signedWith, secret) == signedWith = secret

Fresh == "fresh"

\* Slip: the deadline is compared without the tolerance.
checkFreshnessNoSkew(meta, transport, clock, skew, maxTimeout) ==
    IF transport = "rpc" /\ meta.deadlineAt <= clock THEN "DEADLINE_EXCEEDED" ELSE Fresh

\* Slip: only the signed budget is bounded, not the time of arrival.
checkFreshnessNoDeadline(meta, transport, clock, skew, maxTimeout) ==
    IF meta.deadlineAt - meta.issuedAt > maxTimeout + skew THEN "UNTRUSTED_ENVELOPE" ELSE Fresh

(***************************************************************************)
(* Bounds the signed clock fields.  The deadline binds an rpc only: a      *)
(* command is durable and may run long after it was issued.                *)
(***************************************************************************)
checkFreshness(meta, transport, clock, skew, maxTimeout) ==
    LET budget == meta.deadlineAt - meta.issuedAt
    IN  IF \/ meta.issuedAt > clock + skew
           \/ budget <= 0
           \/ budget > maxTimeout + skew
        THEN "UNTRUSTED_ENVELOPE"
        ELSE IF transport = "rpc" /\ meta.deadlineAt + skew <= clock
             THEN "DEADLINE_EXCEEDED"
             ELSE Fresh
=============================================================================
