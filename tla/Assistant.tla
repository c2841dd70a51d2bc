------------------------------ MODULE Assistant ------------------------------
(***************************************************************************)
(* The parts of the assistant that are modelled beside each other, in one  *)
(* specification: the server's chat over its corpus, the approval gate,    *)
(* the knowledge graph, the memory jobs, and the chat page of the user     *)
(* interface.                                                              *)
(*                                                                         *)
(* No part reads or writes a variable of another, so their steps commute   *)
(* and a property of one part holds in the interleaving of all of them iff *)
(* it holds when the others rest.  The specification therefore lets one    *)
(* part run in a behaviour, which one is chosen at the start.              *)
(***************************************************************************)
EXTENDS ChatStream, ApprovalGate, KnowledgeGraph, LensChat, MemoryJobs

VARIABLE part         \* the part that runs

restVars == <<gateVars, graphVars, lensVars, jobsVars>>

AssistantInit ==
  /\ part \in {"chat", "gate", "graph", "lens", "jobs"}
  /\ ChatInit /\ GateInit /\ GraphInit /\ LensInit /\ JobsInit

ChatRuns  == part = "chat" /\ ChatNext /\ UNCHANGED <<part, gateVars, graphVars, lensVars, jobsVars>>
GateRuns  == part = "gate" /\ GateNext /\ UNCHANGED <<part, allVars, graphVars, lensVars, jobsVars>>
GraphRuns == part = "graph" /\ GraphNext /\ UNCHANGED <<part, allVars, gateVars, lensVars, jobsVars>>
LensRuns  == part = "lens" /\ LensNext /\ UNCHANGED <<part, allVars, gateVars, graphVars, jobsVars>>
JobsRun   == part = "jobs" /\ JobsNext /\ UNCHANGED <<part, allVars, gateVars, graphVars, lensVars>>

AssistantNext == ChatRuns \/ GateRuns \/ GraphRuns \/ LensRuns \/ JobsRun

Assistant ==
  /\ AssistantInit /\ [][AssistantNext]_<<part, allVars, gateVars, graphVars, lensVars, jobsVars>>
  /\ ChatFairness /\ LensFairness /\ JobsFairness

AssistantTypeOK == ChatTypeOK /\ GateTypeOK /\ GraphTypeOK /\ LensTypeOK /\ JobsTypeOK

\* What no step of the chat or of its page may do: answer a question about a dataset from
\* an older text, show a word of a stopped answer, drop a conversation's newest exchange.
StepsSound ==
  [][DatasetCurrent /\ StopIsFinal /\ NewestKept]_<<part, allVars, gateVars, graphVars, lensVars, jobsVars>>

\* Whatever fails, requests and jobs end, and the page becomes ready for the next question.
AllEnd == AsksEnd /\ PageReady /\ JobsEnd
==============================================================================
