---------------------------- MODULE MCAdmission ----------------------------
\* One user; the first two calls carry the same client_request_id.
EXTENDS Admission

MCUserOf == [r \in Requests |-> "u"]
MCKey    == [r \in Requests |-> IF r = "r3" THEN NoKey ELSE "k"]
=============================================================================
