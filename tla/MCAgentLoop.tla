----------------------------- MODULE MCAgentLoop -----------------------------
\* Instances of AgentLoop for TLC.
EXTENDS AgentLoop

CONSTANTS a1, a2, lens

TwoAgents == {a1, a2}
OneAgent  == {a1}
Viewer    == {lens}
Nobody    == {}

Read    == [tool |-> "auto", args |-> "fine"]
Act     == [tool |-> "approval", args |-> "fine"]
Refused == [tool |-> "approval", args |-> "refused"]
Unknown == [tool |-> "unknown", args |-> "fine"]
Garbled == [tool |-> "approval", args |-> "garbled"]

\* A call of every kind, alone, before another and past the limit.
EveryKind == {<<Act, Read>>, <<Read, Act>>, <<Refused, Garbled>>, <<Unknown>>, <<Garbled>>}
OnlyReads == {<<Read>>}
==============================================================================
