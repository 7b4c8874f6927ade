---------------------------- MODULE MCNodeUpdate ----------------------------
EXTENDS NodeUpdate
CONSTANTS os, vm

Node(updated, nodeReset, requests, faultKinds) ==
    [updated |-> updated, nodeReset |-> nodeReset, requests |-> requests,
     faults |-> faultKinds]

\* Campaigns over both components; one component, of either kind, and every
\* request in any order; a flash within a node verdict.
AllNodes ==
    {Node({os, vm}, {os}, {}, FaultKinds),
     Node({vm}, {}, RequestKinds, FaultKinds),
     Node({os}, {os}, RequestKinds, FaultKinds),
     Node({os, vm}, {}, {"overlap"}, {})}

\* Two guests, and verdicts on their own routes.
OwnRoutes == {Node({os, vm}, {}, {"verdict"}, {})}
=============================================================================
