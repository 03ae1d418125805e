------------------------- MODULE MCInvoiceDelivery -------------------------
(* Instances of InvoiceDelivery for TLC.                                    *)
EXTENDS InvoiceDelivery, TLC

CONSTANTS t1, t2, r1

\* One realization in one version, or in two.
OneVersion == t1 :> r1
TwoVersions == (t1 :> r1) @@ (t2 :> r1)

Reachable == {Channels}
AnyReach == {{}, {"TELEGRAM"}, Channels}

MCSymmetry == Permutations(Calls)
============================================================================
