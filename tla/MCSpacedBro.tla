------------------------------ MODULE MCSpacedBro ------------------------------
EXTENDS SpacedBro

Good == [token |-> "good", port |-> TRUE, interval |-> 5, dry_run |-> TRUE,
         app_env |-> "production", provider |-> "", key |-> TRUE,
         timeout |-> 30, retries |-> 2]

Development == [Good EXCEPT !.app_env = "development", !.key = FALSE]

\* Two that boot, and one for each way not to.
EnvironmentCases ==
  {Good, Development,
   [Good EXCEPT !.token = ""],
   [Good EXCEPT !.token = "malformed"],
   [Good EXCEPT !.token = "rejected"],
   [Good EXCEPT !.port = FALSE],
   [Good EXCEPT !.key = FALSE],
   [Development EXCEPT !.provider = "openai"],
   [Good EXCEPT !.interval = 0],
   [Good EXCEPT !.timeout = 0],
   [Good EXCEPT !.retries = -1]}

Names == [german |-> "de"]
=============================================================================
