------------------------------ MODULE MCServices ------------------------------
\* A small instance of Services: two phrases differ in their voice only; a cache
\* has room for one.
EXTENDS Services

CONSTANTS a, b

MCBatches == {<<a, b>>}
MCPhrases == {[words |-> "hi", caps |-> TRUE, voice |-> "v"],
              [words |-> "hi", caps |-> FALSE, voice |-> "u"]}

=============================================================================
