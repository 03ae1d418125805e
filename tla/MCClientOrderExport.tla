------------------------ MODULE MCClientOrderExport ------------------------
(* Instances of ClientOrderExport for TLC.                                  *)
EXTENDS ClientOrderExport, TLC

CONSTANTS w1, w2, p1, p2

\* No worker; one run; two runs in processes of their own.
NoRuns == <<>>
OneRun == w1 :> p1
TwoProcesses == (w1 :> p1) @@ (w2 :> p2)

\* Every order names the same organization.
OneReference == [v \in Versions |-> {"organization"}]

MCSymmetry == Permutations(Clients)

\* Processes change places together with their runs.
SwapProcesses ==
  {f \in Permutations(Workers \cup Processes) :
     \A w \in Workers : f[w] \in Workers /\ f[ProcessOf[w]] = ProcessOf[f[w]]}
=============================================================================
