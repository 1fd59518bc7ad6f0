----------------------------- MODULE MCLlmClient -----------------------------
EXTENDS LlmClient

MCRetryAfters == {2}
=============================================================================
