------------------------------ MODULE MCIssueCase ------------------------------
(* Instances of IssueCase. *)
EXTENDS IssueCase

CONSTANTS u1, u2, d1, d2, hourly, manual

OneUser == {u1}
OneDelivery == {d1}
TwoCheckers == {hourly, manual}
TrackerEvents == {"investigating", "resolved"}
===============================================================================
