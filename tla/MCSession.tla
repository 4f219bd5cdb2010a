----------------------------- MODULE MCSession ------------------------------
EXTENDS Session

Policy(body, total, on) == [maxBody |-> body, maxTotal |-> total, httpBodies |-> on]
MCPolicies == {Policy(2, 3, TRUE), Policy(2, 1, TRUE)}
MCBodySizes == {1}
MCTraffic == [type : {"other"}]
             \cup [type : {"metadata"}, req : Requests, selected : {TRUE}]
             \cup [type : {"finished"}, req : Requests, encoded : {"fits"}]
=============================================================================
