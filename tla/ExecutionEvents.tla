-------------------------- MODULE ExecutionEvents --------------------------
(* The ExecutionEventMessages the gateway itself writes                    *)
(* (packages/gateway-contracts/src/protocol.ts), without ids and texts.    *)

RetryEvent(n) == [type |-> "execution:retry", attempt |-> n]
ErrorEvent == [type |-> "execution:error"]
CancelledEvent(reason) == [type |-> "execution:cancelled", reason |-> reason]
DoneEvent(code) == [type |-> "execution:done", exitCode |-> code]
=============================================================================
