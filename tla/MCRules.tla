------------------------------ MODULE MCRules ------------------------------
(* Rules on small patterns, spans of a few terms, and 132 years. *)
EXTENDS Rules

\* New Zealand's old summer, Newfoundland, Greenwich, India, Chatham: -12:00 to
\* +13:45.
SomeZones == {-48, -14, 0, 22, 55}
=============================================================================
