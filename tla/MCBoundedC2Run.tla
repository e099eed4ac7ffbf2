--------------------------- MODULE MCBoundedC2Run ---------------------------
EXTENDS BoundedC2Run

\* States are told apart up to the text of a fault: no action reads why the ledger
\* failed or why the gate closed, and a closed gate never reads its interlocks.
GateView ==
    IF gate.state = "armed" THEN gate
    ELSE [gate EXCEPT !.reason = "none", !.deadman = "ok"]

LedgerView ==
    [ledger EXCEPT !.fault = IF Healthy(ledger) THEN "none" ELSE "device"]

View == <<LedgerView, GateView, now, hold, stopEvent, cleanStop, callbackFault,
          ownerVars, fr, pol, external, records, sig>>
=============================================================================
