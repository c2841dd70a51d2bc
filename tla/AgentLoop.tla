------------------------------- MODULE AgentLoop -------------------------------
(***************************************************************************)
(* The agent of AegisMind, SovereignAgentLoop.run                          *)
(* (packages/aegismind-core/src/aegismind_core/agent/loop.py), with the    *)
(* store of proposals it adds to and the ledger of tool runs it keeps, and *)
(* the users who decide on the proposals and watch the ledger.             *)
(*                                                                         *)
(* A run is a coroutine: it lets go of the event loop while it waits for   *)
(* the model and for a tool, and everything in between is one step per     *)
(* tool call.  The store of proposals is always there, as in CoreState.    *)
(***************************************************************************)
EXTENDS Integers, Sequences

CONSTANTS
  Agents,             \* agent runs
  Replies,            \* the lists of tool calls a model can ask for
  MaxToolCalls,       \* max_tool_calls_per_turn
  Subscribers, MaxEvents, QueueSize, MaxDiskErrors,
  MaxUses,            \* bound on the notes saved by users and clears of the ledger
  MaxCrashes          \* bound on the crashes

VARIABLES
  pc,                 \* per agent, where run is
  todo,               \* per agent, the tool calls left of the model's reply
  total,              \* per agent, total_calls
  active,             \* per agent, {} or {the id of its active event}
  executed,           \* history: the calls that have been executed
  uses, crashes,
  proposals, nextProposal,                                \* see ApprovalStore
  events, nextEvent, file, diskErrors, feeds, heard, missed   \* see ActivityRecorder

runVars   == <<pc, todo, total, active, executed>>
boundVars == <<uses, crashes>>
approvalVars == <<proposals, nextProposal>>
recorderVars == <<events, nextEvent, file, diskErrors, feeds, heard, missed>>
vars == <<runVars, boundVars, approvalVars, recorderVars>>

Approvals == INSTANCE ApprovalStore
Activity  == INSTANCE ActivityRecorder

ASSUME LoopAssumption ==
  /\ MaxToolCalls \in Nat \ {0} /\ MaxEvents \in Nat \ {0} /\ QueueSize \in Nat \ {0}
  /\ MaxDiskErrors \in Nat /\ MaxUses \in Nat /\ MaxCrashes \in Nat
  /\ Replies \subseteq Seq(Approvals!Call) /\ <<>> \notin Replies

Goto(a, label) == pc' = [pc EXCEPT ![a] = label]

Begin(a) ==
  /\ pc[a] = "idle"
  /\ Goto(a, "model")
  /\ UNCHANGED <<todo, total, active, executed, boundVars, approvalVars, recorderVars>>

------------------------------------------------------------------------------
(* The model. *)

\* The model asks for tools.
ModelCalls(a) ==
  /\ pc[a] = "model"
  /\ \E reply \in Replies : todo' = [todo EXCEPT ![a] = reply]
  /\ Goto(a, "tools")
  /\ UNCHANGED <<total, active, executed, boundVars, approvalVars, recorderVars>>

\* It answers, or cannot be reached, or has been asked for its final answer.
ModelConcludes(a) ==
  /\ pc[a] \in {"model", "final"}
  /\ Goto(a, "done")
  /\ UNCHANGED <<todo, total, active, executed, boundVars, approvalVars, recorderVars>>

------------------------------------------------------------------------------
(* The tool calls of a reply. *)

Verdict(a) == Approvals!evaluate(Head(todo[a]))

\* Mutant of Exhausted: one call more is allowed.
Exhausted_Late(a) == total[a] > MaxToolCalls

Exhausted(a) == total[a] >= MaxToolCalls

\* The next call, once its arguments have been parsed.
Takes(a) ==
  /\ pc[a] = "tools"
  /\ todo[a] # <<>> /\ ~Exhausted(a)
  /\ Head(todo[a]).args # "garbled"
  /\ todo' = [todo EXCEPT ![a] = Tail(@)]

\* json.loads raises: the run ends, and what it has queued stays queued.
ParseFails(a) ==
  /\ pc[a] = "tools"
  /\ todo[a] # <<>> /\ ~Exhausted(a)
  /\ Head(todo[a]).args = "garbled"
  /\ todo' = [todo EXCEPT ![a] = <<>>]
  /\ Goto(a, "done")
  /\ UNCHANGED <<total, active, executed, boundVars, approvalVars, recorderVars>>

\* Mutant of Counts: a call that is not executed does not count.
Counts_Executed(a) == IF active[a] = {} THEN UNCHANGED total
                      ELSE total' = [total EXCEPT ![a] = @ + 1]

Counts(a) == total' = [total EXCEPT ![a] = @ + 1]

BlockCall(a) ==
  /\ Takes(a)
  /\ Verdict(a) = "deny"
  /\ Counts(a)
  /\ UNCHANGED <<pc, active, executed, boundVars, approvalVars, recorderVars>>

QueueCall(a) ==
  /\ Takes(a)
  /\ Verdict(a) = "approval"
  /\ Approvals!Create(Head(todo[a]))
  /\ Counts(a)
  /\ UNCHANGED <<pc, active, executed, boundVars, recorderVars>>

StartTool(a) ==
  /\ Takes(a)
  /\ Verdict(a) = "auto"
  /\ Activity!RecordStart
  /\ active' = [active EXCEPT ![a] = {nextEvent}]
  /\ executed' = executed \cup {Head(todo[a])}
  /\ Goto(a, "tool")
  /\ UNCHANGED <<total, boundVars, approvalVars>>

\* The tool returns or raises; either way its end is recorded.
EndTool(a) ==
  /\ pc[a] = "tool"
  /\ \E id \in active[a], status \in {"success", "failed"} :
       Activity!RecordComplete(id, status)
  /\ active' = [active EXCEPT ![a] = {}]
  /\ Counts(a)
  /\ Goto(a, "tools")
  /\ UNCHANGED <<todo, executed, boundVars, approvalVars>>

\* The reply is done with, or what is left of it is dropped.
EndReply(a) ==
  /\ pc[a] = "tools"
  /\ todo[a] = <<>> \/ Exhausted(a)
  /\ todo' = [todo EXCEPT ![a] = <<>>]
  /\ Goto(a, IF Exhausted(a) THEN "final" ELSE "model")
  /\ UNCHANGED <<total, active, executed, boundVars, approvalVars, recorderVars>>

------------------------------------------------------------------------------
(* The users and the rest of the process. *)

Decide ==
  /\ \E id \in DOMAIN proposals : Approvals!ProposalStep(id)
  /\ UNCHANGED <<runVars, boundVars, recorderVars>>

\* POST and DELETE of /notes record what they have done.
SaveNote ==
  /\ uses < MaxUses
  /\ uses' = uses + 1
  /\ \E status \in {"success", "failed"} : Activity!RecordEvent(status)
  /\ UNCHANGED <<runVars, crashes, approvalVars>>

ClearLedger ==
  /\ uses < MaxUses
  /\ uses' = uses + 1
  /\ Activity!Clear
  /\ UNCHANGED <<runVars, crashes, approvalVars>>

Watch ==
  /\ \E s \in Subscribers :
       Activity!Subscribe(s) \/ Activity!Take(s) \/ Activity!Unsubscribe(s)
  /\ UNCHANGED <<runVars, boundVars, approvalVars>>

\* The process dies and is started again.
Crash ==
  /\ crashes < MaxCrashes
  /\ crashes' = crashes + 1
  /\ pc' = [a \in Agents |-> IF pc[a] = "idle" THEN "idle" ELSE "done"]
  /\ todo' = [a \in Agents |-> <<>>]
  /\ active' = [a \in Agents |-> {}]
  /\ Activity!Reload
  /\ Approvals!ExpireOld
  /\ UNCHANGED <<total, executed, uses>>

Init ==
  /\ pc = [a \in Agents |-> "idle"]
  /\ todo = [a \in Agents |-> <<>>]
  /\ total = [a \in Agents |-> 0]
  /\ active = [a \in Agents |-> {}]
  /\ executed = {}
  /\ uses = 0 /\ crashes = 0
  /\ Approvals!Init
  /\ Activity!Init

RunStep(a) ==
  \/ ModelCalls(a) \/ ModelConcludes(a)
  \/ ParseFails(a) \/ BlockCall(a) \/ QueueCall(a)
  \/ StartTool(a) \/ EndTool(a) \/ EndReply(a)

Next ==
  \/ \E a \in Agents : Begin(a) \/ RunStep(a)
  \/ Decide \/ SaveNote \/ ClearLedger \/ Watch \/ Crash

\* The event loop runs what can run, and the calls of the model and of the
\* tools come to an end.  Nobody needs to start a run or to decide.
Fairness == \A a \in Agents : WF_vars(RunStep(a))

Spec == Init /\ [][Next]_vars /\ Fairness

------------------------------------------------------------------------------
TypeOK ==
  /\ pc \in [Agents -> {"idle", "model", "tools", "tool", "final", "done"}]
  /\ todo \in [Agents -> Seq(Approvals!Call)]
  /\ total \in [Agents -> Nat]
  /\ active \in [Agents -> SUBSET Nat]
  /\ executed \subseteq Approvals!Call
  /\ events \in Seq(Activity!Event) /\ Len(events) <= MaxEvents
  /\ Approvals!ProposalsOK

\* A run executes no tool that needs an approval, that the policy denies or
\* that it does not know: those are queued or blocked (README.md, "Unapproved
\* or rejected actions are blocked immediately").
OnlyAutoExecuted == \A call \in executed : call.tool = "auto"

\* Whatever the model replies, the calls of a run are limited, those counted
\* that are queued or blocked, in the middle of a reply too.
CallsLimited == \A a \in Agents : total[a] <= MaxToolCalls

ApprovedWithinPolicy == Approvals!ApprovedWithinPolicy

DecisionStands == Approvals!DecisionStands

ApprovedInTime == Approvals!ApprovedInTime

\* What a run has begun and the ledger shows as running is under way.
UnderWay(id) == \E a \in Agents : id \in active[a]

RunningIsUnderWay ==
  \A i \in DOMAIN events : events[i].status = "running" => UnderWay(events[i].id)

\* A client that has kept up with the stream and has seen a tool start has
\* seen it end, unless it is under way or its entry has left the ledger: by a
\* clear, or because newer ones have pushed it out before it ended.
FeedTellsEnd ==
  \A s \in Subscribers \ missed :
    feeds[s] = {<<>>} =>
      \A id \in DOMAIN heard[s] :
        heard[s][id] = "running" => UnderWay(id) \/ ~Activity!InLedger(id)

\* Unless a write has failed, what a restart would find in the file is what
\* the ledger shows.
LedgerOnDisk == diskErrors = 0 => Activity!Stored = events

\* Every run comes to an end: the model may go on asking for calls that are
\* blocked or queued for as long as it likes.
RunsEnd == \A a \in Agents : pc[a] # "idle" ~> pc[a] = "done"

\* The ledger, what its clients have heard of it and what a restart will find agree.
LedgerSound == FeedTellsEnd /\ LedgerOnDisk
==============================================================================
