------------------------------- MODULE MCOutbox -------------------------------
EXTENDS NotificationOutbox

CONSTANTS m1, m2, w1, w2

\* All messages belong to one tenant.
MCOneScope == [m \in Messages |-> "tenantA"]
===============================================================================
