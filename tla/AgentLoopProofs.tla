---------------------------- MODULE AgentLoopProofs ----------------------------
(***************************************************************************)
(* Proofs about AgentLoop for any agents, replies and limits.  The runs    *)
(* and the proposals are dealt with apart: a run only adds proposals, and  *)
(* what becomes of a proposal is nothing a run looks at.                   *)
(*                                                                         *)
(* The argument for the limit: a call is counted when it is over, so that  *)
(* a run that waits for a tool must still be below it.  The argument for   *)
(* the policy: only what needs an approval is ever queued, and an approval *)
(* evaluates the arguments it stores.                                      *)
(***************************************************************************)
EXTENDS AgentLoop, SequenceTheorems, WellFoundedInduction, TLAPS

Labels == {"idle", "model", "tools", "tool", "final", "done"}

RunsTyped ==
  /\ pc \in [Agents -> Labels]
  /\ todo \in [Agents -> Seq(Approvals!Call)]
  /\ total \in [Agents -> Nat]

BelowLimit ==
  \A a \in Agents : total[a] <= MaxToolCalls /\ (pc[a] = "tool" => total[a] < MaxToolCalls)

RunInv == RunsTyped /\ BelowLimit /\ OnlyAutoExecuted

QueuedByPolicy == \A i \in DOMAIN proposals : proposals[i].call.tool = "approval"

EditsByPolicy ==
  \A i \in DOMAIN proposals :
    proposals[i].status = "approved" => "refused" \notin proposals[i].edited

ApprovalInv ==
  /\ nextProposal \in Nat \ {0}
  /\ Approvals!ProposalsOK
  /\ QueuedByPolicy
  /\ EditsByPolicy

------------------------------------------------------------------------------
(* What the policy answers. *)

LEMMA AutoIsAuto ==
  ASSUME NEW call, Approvals!evaluate(call) = "auto"
  PROVE  call.tool = "auto"
BY DEF Approvals!evaluate

LEMMA ApprovalIsApproval ==
  ASSUME NEW call, Approvals!evaluate(call) = "approval"
  PROVE  call.tool = "approval" /\ call.args # "refused"
BY DEF Approvals!evaluate

LEMMA NotDenied ==
  ASSUME NEW call, call.tool = "approval", Approvals!evaluate(call) # "deny"
  PROVE  call.args # "refused"
BY DEF Approvals!evaluate

------------------------------------------------------------------------------
(* The runs. *)

LEMMA RunInit == Init => RunInv
<1> SUFFICES ASSUME Init PROVE RunInv
  OBVIOUS
<1>1. RunsTyped
  BY DEF Init, RunsTyped, Labels
<1>2. BelowLimit /\ OnlyAutoExecuted
  BY LoopAssumption DEF Init, BelowLimit, OnlyAutoExecuted
<1>3. QED
  BY <1>1, <1>2 DEF RunInv

\* Taking a call off a reply leaves a sequence of calls.
LEMMA TakesTyped ==
  ASSUME RunsTyped, NEW a \in Agents, Takes(a)
  PROVE  /\ todo' \in [Agents -> Seq(Approvals!Call)]
         /\ Head(todo[a]) \in Approvals!Call
<1>1. todo[a] \in Seq(Approvals!Call) /\ todo[a] # <<>>
  BY DEF RunsTyped, Takes
<1>2. Tail(todo[a]) \in Seq(Approvals!Call) /\ Head(todo[a]) \in Approvals!Call
  BY <1>1, HeadTailProperties
<1>3. QED
  BY <1>2 DEF RunsTyped, Takes

LEMMA RunNext == RunInv /\ [Next]_vars => RunInv'
<1> SUFFICES ASSUME RunInv, [Next]_vars PROVE RunInv'
  OBVIOUS
<1> USE DEF RunInv
<1>0. /\ MaxToolCalls \in Nat \ {0}
      /\ Replies \subseteq Seq(Approvals!Call)
      /\ <<>> \in Seq(Approvals!Call)
  BY LoopAssumption
<1>1. ASSUME NEW a \in Agents, Begin(a) PROVE RunInv'
  BY <1>1 DEF Begin, Goto, RunsTyped, Labels, BelowLimit, OnlyAutoExecuted
<1>2. ASSUME NEW a \in Agents, ModelCalls(a) PROVE RunInv'
  BY <1>0, <1>2 DEF ModelCalls, Goto, RunsTyped, Labels, BelowLimit, OnlyAutoExecuted
<1>3. ASSUME NEW a \in Agents, ModelConcludes(a) PROVE RunInv'
  BY <1>3 DEF ModelConcludes, Goto, RunsTyped, Labels, BelowLimit, OnlyAutoExecuted
<1>4. ASSUME NEW a \in Agents, ParseFails(a) PROVE RunInv'
  BY <1>0, <1>4 DEF ParseFails, Goto, RunsTyped, Labels, BelowLimit, OnlyAutoExecuted
<1>5. ASSUME NEW a \in Agents, BlockCall(a) PROVE RunInv'
  <2>1. Takes(a)
    BY <1>5 DEF BlockCall
  <2>2. QED
    BY <1>0, <1>5, <2>1, TakesTyped
    DEF BlockCall, Takes, Counts, Exhausted, RunsTyped, BelowLimit, OnlyAutoExecuted
<1>6. ASSUME NEW a \in Agents, QueueCall(a) PROVE RunInv'
  <2>1. Takes(a)
    BY <1>6 DEF QueueCall
  <2>2. QED
    BY <1>0, <1>6, <2>1, TakesTyped
    DEF QueueCall, Takes, Counts, Exhausted, RunsTyped, BelowLimit, OnlyAutoExecuted
<1>7. ASSUME NEW a \in Agents, StartTool(a) PROVE RunInv'
  <2>1. Takes(a)
    BY <1>7 DEF StartTool
  <2>2. RunsTyped' /\ BelowLimit'
    BY <1>0, <1>7, <2>1, TakesTyped
    DEF StartTool, Takes, Goto, Exhausted, RunsTyped, Labels, BelowLimit
  <2>3. Head(todo[a]).tool = "auto"
    BY <1>7, AutoIsAuto DEF StartTool, Verdict
  <2>4. OnlyAutoExecuted'
    BY <1>7, <2>3 DEF StartTool, OnlyAutoExecuted
  <2>5. QED
    BY <2>2, <2>4
<1>8. ASSUME NEW a \in Agents, EndTool(a) PROVE RunInv'
  BY <1>0, <1>8 DEF EndTool, Goto, Counts, RunsTyped, Labels, BelowLimit, OnlyAutoExecuted
<1>9. ASSUME NEW a \in Agents, EndReply(a) PROVE RunInv'
  BY <1>0, <1>9 DEF EndReply, Goto, RunsTyped, Labels, BelowLimit, OnlyAutoExecuted
<1>10. ASSUME UNCHANGED runVars PROVE RunInv'
  BY <1>10 DEF runVars, RunsTyped, BelowLimit, OnlyAutoExecuted
<1>11. CASE Crash
  BY <1>0, <1>11 DEF Crash, RunsTyped, Labels, BelowLimit, OnlyAutoExecuted
<1>12. CASE Decide \/ SaveNote \/ ClearLedger \/ Watch
  BY <1>10, <1>12 DEF Decide, SaveNote, ClearLedger, Watch
<1>13. CASE UNCHANGED vars
  BY <1>10, <1>13 DEF vars
<1>14. QED
  BY <1>1, <1>2, <1>3, <1>4, <1>5, <1>6, <1>7, <1>8, <1>9, <1>11, <1>12, <1>13
  DEF Next, RunStep

LEMMA RunInvariance == Spec => []RunInv
BY RunInit, RunNext, PTL DEF Spec

\* However many calls a model asks for, a run takes no more than its limit,
\* the queued and the blocked ones counted (loop.py, run).
THEOREM LimitHolds == Spec => []CallsLimited
<1>1. RunInv => CallsLimited
  BY DEF RunInv, BelowLimit, CallsLimited
<1>2. QED
  BY RunInvariance, <1>1, PTL

\* No call that needs an approval, is denied or is unknown is ever executed
\* by a run (loop.py, run and _execute_tool).
THEOREM ExecutesAutoOnly == Spec => []OnlyAutoExecuted
<1>1. RunInv => OnlyAutoExecuted
  BY DEF RunInv
<1>2. QED
  BY RunInvariance, <1>1, PTL

------------------------------------------------------------------------------
(* The proposals. *)

\* Writing a proposal, new or old, leaves the others.
LEMMA RowsWritten ==
  ASSUME NEW id, NEW row, Approvals!SetProposal(id, row)
  PROVE  /\ DOMAIN proposals' = DOMAIN proposals \cup {id}
         /\ proposals'[id] = row
         /\ \A i \in DOMAIN proposals : i # id => proposals'[i] = proposals[i]
BY DEF Approvals!SetProposal

\* What ApprovalInv says of one proposal.
RowOK(row) ==
  /\ row \in Approvals!Proposal
  /\ row.call.tool = "approval"
  /\ row.status = "approved" => "refused" \notin row.edited

LEMMA InvByRow ==
  ApprovalInv <=> /\ nextProposal \in Nat \ {0}
                  /\ DOMAIN proposals \subseteq 1 .. nextProposal - 1
                  /\ \A i \in DOMAIN proposals : RowOK(proposals[i])
BY DEF ApprovalInv, Approvals!ProposalsOK, QueuedByPolicy, EditsByPolicy, RowOK

\* The policy of the approval keeps what was queued within the policy.
LEMMA JudgedArgs ==
  ASSUME NEW id \in DOMAIN proposals, RowOK(proposals[id]),
         NEW edited \in {{}} \cup {{x} : x \in {"fine", "refused"}},
         Approvals!Judged(id, edited) # "deny"
  PROVE  /\ Approvals!FinalArgs(id, edited) \subseteq Approvals!Args
         /\ "refused" \notin Approvals!FinalArgs(id, edited)
<1>1. PICK arg \in Approvals!Args : Approvals!FinalArgs(id, edited) = {arg}
  <2>1. proposals[id].call.args \in Approvals!Args
    BY DEF RowOK, Approvals!Proposal, Approvals!Call
  <2>2. QED
    BY <2>1 DEF Approvals!FinalArgs, Approvals!Args
<1>2. (CHOOSE x \in Approvals!FinalArgs(id, edited) : TRUE) = arg
  BY <1>1
<1> DEFINE call == [proposals[id].call EXCEPT !.args = arg]
<1>3. call.tool = "approval" /\ call.args = arg
  BY DEF RowOK, Approvals!Proposal, Approvals!Call
<1>4. Approvals!evaluate(call) # "deny"
  BY <1>2 DEF Approvals!Judged
<1>5. arg # "refused"
  BY <1>3, <1>4, NotDenied
<1>6. QED
  BY <1>1, <1>5

LEMMA ApprovalInit == Init => ApprovalInv
BY DEF Init, Approvals!Init, ApprovalInv, Approvals!ProposalsOK, QueuedByPolicy, EditsByPolicy

LEMMA CreateInv ==
  ASSUME ApprovalInv, NEW call \in Approvals!Call, Approvals!evaluate(call) = "approval",
         Approvals!Create(call)
  PROVE  ApprovalInv'
<1> DEFINE row == [call |-> call, status |-> "pending", edited |-> {}, overdue |-> FALSE]
<1>1. RowOK(row)
  BY ApprovalIsApproval DEF RowOK, Approvals!Proposal, Approvals!ProposalStatus
<1>2. /\ DOMAIN proposals' = DOMAIN proposals \cup {nextProposal}
      /\ proposals'[nextProposal] = row
      /\ \A i \in DOMAIN proposals : i # nextProposal => proposals'[i] = proposals[i]
  BY RowsWritten DEF Approvals!Create
<1>3. \A i \in DOMAIN proposals' : RowOK(proposals'[i])
  BY <1>1, <1>2, InvByRow
<1>4. nextProposal' = nextProposal + 1
  BY DEF Approvals!Create
<1>5. nextProposal \in Nat \ {0} /\ DOMAIN proposals \subseteq 1 .. nextProposal - 1
  BY InvByRow
<1>6. nextProposal' \in Nat \ {0} /\ DOMAIN proposals' \subseteq 1 .. nextProposal' - 1
  BY <1>2, <1>4, <1>5
<1>7. QED
  BY <1>6, <1>3, <1>4 DEF ApprovalInv, Approvals!ProposalsOK, QueuedByPolicy, EditsByPolicy, RowOK

\* A proposal is replaced by one that satisfies the invariant.
LEMMA WrittenInv ==
  ASSUME ApprovalInv, NEW id \in DOMAIN proposals, NEW row, RowOK(row),
         Approvals!SetProposal(id, row), UNCHANGED nextProposal
  PROVE  ApprovalInv'
<1>1. /\ DOMAIN proposals' = DOMAIN proposals
      /\ proposals'[id] = row
      /\ \A i \in DOMAIN proposals : i # id => proposals'[i] = proposals[i]
  BY RowsWritten
<1>2. \A i \in DOMAIN proposals : RowOK(proposals'[i])
  BY <1>1, InvByRow
<1>3. QED
  BY <1>1, <1>2 DEF ApprovalInv, Approvals!ProposalsOK, QueuedByPolicy, EditsByPolicy, RowOK

LEMMA ProposalStepInv ==
  ASSUME ApprovalInv, NEW id \in DOMAIN proposals, Approvals!ProposalStep(id)
  PROVE  ApprovalInv'
<1>1. RowOK(proposals[id])
  BY InvByRow
<1>2. ASSUME NEW status \in {"rejected", "expired"} PROVE RowOK([proposals[id] EXCEPT !.status = status])
  BY <1>1 DEF RowOK, Approvals!Proposal, Approvals!ProposalStatus
<1>3. CASE Approvals!HourEnds(id)
  <2>1. RowOK([proposals[id] EXCEPT !.overdue = TRUE])
    BY <1>1 DEF RowOK, Approvals!Proposal
  <2>2. QED
    BY <1>3, <2>1, WrittenInv DEF Approvals!HourEnds
<1>4. CASE Approvals!Reject(id)
  BY <1>2, <1>4, WrittenInv DEF Approvals!Reject, Approvals!Decided
<1>5. CASE Approvals!Approve(id)
  <2>1. PICK edited \in {{}} \cup {{x} : x \in {"fine", "refused"}} :
          \/ Approvals!ExpireInstead(id)
          \/ Approvals!DenyInstead(id, edited)
          \/ Approvals!Accept(id, edited)
    BY <1>5 DEF Approvals!Approve
  <2>2. UNCHANGED nextProposal
    BY <1>5 DEF Approvals!Approve
  <2>3. CASE Approvals!ExpireInstead(id) \/ Approvals!DenyInstead(id, edited)
    BY <1>2, <2>2, <2>3, WrittenInv
    DEF Approvals!ExpireInstead, Approvals!DenyInstead, Approvals!Decided
  <2>4. CASE Approvals!Accept(id, edited)
    <3> DEFINE row == [proposals[id] EXCEPT !.status = "approved",
                                            !.edited = Approvals!FinalArgs(id, edited)]
    <3>1. /\ Approvals!FinalArgs(id, edited) \subseteq Approvals!Args
          /\ "refused" \notin Approvals!FinalArgs(id, edited)
      BY <1>1, <2>4, JudgedArgs DEF Approvals!Accept
    <3>2. RowOK(row)
      BY <1>1, <3>1 DEF RowOK, Approvals!Proposal, Approvals!ProposalStatus
    <3>3. QED
      BY <2>2, <2>4, <3>2, WrittenInv DEF Approvals!Accept
  <2>5. QED
    BY <2>1, <2>3, <2>4
<1>6. QED
  BY <1>3, <1>4, <1>5 DEF Approvals!ProposalStep

LEMMA ExpireOldInv ==
  ASSUME ApprovalInv, Approvals!ExpireOld
  PROVE  ApprovalInv'
<1>1. DOMAIN proposals' = DOMAIN proposals
  BY DEF Approvals!ExpireOld
<1>2. ASSUME NEW i \in DOMAIN proposals PROVE RowOK(proposals'[i])
  <2>1. RowOK(proposals[i])
    BY InvByRow
  <2>2. RowOK([proposals[i] EXCEPT !.status = "expired"])
    BY <2>1 DEF RowOK, Approvals!Proposal, Approvals!ProposalStatus
  <2>3. proposals'[i] \in {proposals[i], [proposals[i] EXCEPT !.status = "expired"]}
    BY DEF Approvals!ExpireOld
  <2>4. QED
    BY <2>1, <2>2, <2>3
<1>3. QED
  BY <1>1, <1>2
  DEF Approvals!ExpireOld, ApprovalInv, Approvals!ProposalsOK, QueuedByPolicy, EditsByPolicy, RowOK

LEMMA ApprovalNext == RunInv /\ ApprovalInv /\ [Next]_vars => ApprovalInv'
<1> SUFFICES ASSUME RunInv, ApprovalInv, [Next]_vars PROVE ApprovalInv'
  OBVIOUS
<1>1. ASSUME UNCHANGED approvalVars PROVE ApprovalInv'
  BY <1>1 DEF approvalVars, ApprovalInv, Approvals!ProposalsOK, QueuedByPolicy, EditsByPolicy
<1>2. ASSUME NEW a \in Agents, QueueCall(a) PROVE ApprovalInv'
  <2>1. Takes(a)
    BY <1>2 DEF QueueCall
  <2>2. Head(todo[a]) \in Approvals!Call
    BY <2>1, TakesTyped DEF RunInv
  <2>3. QED
    BY <1>2, <2>2, CreateInv DEF QueueCall, Verdict
<1>3. ASSUME NEW a \in Agents,
             Begin(a) \/ ModelCalls(a) \/ ModelConcludes(a) \/ ParseFails(a) \/ BlockCall(a)
               \/ StartTool(a) \/ EndTool(a) \/ EndReply(a)
      PROVE  ApprovalInv'
  BY <1>1, <1>3 DEF Begin, ModelCalls, ModelConcludes, ParseFails, BlockCall, StartTool,
                    EndTool, EndReply
<1>4. CASE Decide
  BY <1>4, ProposalStepInv DEF Decide
<1>5. CASE Crash
  BY <1>5, ExpireOldInv DEF Crash
<1>6. CASE SaveNote \/ ClearLedger \/ Watch
  BY <1>1, <1>6 DEF SaveNote, ClearLedger, Watch
<1>7. CASE UNCHANGED vars
  BY <1>1, <1>7 DEF vars
<1>8. QED
  BY <1>2, <1>3, <1>4, <1>5, <1>6, <1>7 DEF Next, RunStep

LEMMA ApprovalInvariance == Spec => []ApprovalInv
BY RunInvariance, ApprovalInit, ApprovalNext, PTL DEF Spec

\* Whatever users edit, what is approved is nothing the policy denies
\* (routes.py, approve_proposal).
THEOREM ApprovesWithinPolicy == Spec => []ApprovedWithinPolicy
<1>1. ApprovalInv => ApprovedWithinPolicy
  BY DEF ApprovalInv, QueuedByPolicy, EditsByPolicy, ApprovedWithinPolicy,
         Approvals!ApprovedWithinPolicy
<1>2. QED
  BY ApprovalInvariance, <1>1, PTL

------------------------------------------------------------------------------
(* What a step may do with a proposal. *)

RowStep(old, new) ==
  /\ old.status # "pending" => new = old
  /\ old.overdue => new.status \in {old.status, "expired", "rejected"}

LEMMA SameRow == ASSUME NEW row PROVE RowStep(row, row)
BY DEF RowStep

LEMMA ProposalStepRow ==
  ASSUME ApprovalInv, NEW id \in DOMAIN proposals, Approvals!ProposalStep(id),
         NEW i \in DOMAIN proposals
  PROVE  i \in DOMAIN proposals' /\ RowStep(proposals[i], proposals'[i])
<1>1. proposals[id] \in Approvals!Proposal
  BY InvByRow DEF RowOK
<1>2. ASSUME NEW row, Approvals!SetProposal(id, row), RowStep(proposals[id], row)
      PROVE  i \in DOMAIN proposals' /\ RowStep(proposals[i], proposals'[i])
  BY <1>2, RowsWritten, SameRow
<1>3. ASSUME NEW status \in {"rejected", "expired"}, Approvals!Pending(id)
      PROVE  RowStep(proposals[id], [proposals[id] EXCEPT !.status = status])
  BY <1>1, <1>3 DEF RowStep, Approvals!Pending, Approvals!Proposal
<1>4. CASE Approvals!HourEnds(id)
  <2>1. RowStep(proposals[id], [proposals[id] EXCEPT !.overdue = TRUE])
    BY <1>1, <1>4 DEF RowStep, Approvals!HourEnds, Approvals!Pending, Approvals!Proposal
  <2>2. QED
    BY <1>2, <1>4, <2>1 DEF Approvals!HourEnds
<1>5. CASE Approvals!Reject(id)
  BY <1>2, <1>3, <1>5 DEF Approvals!Reject, Approvals!Decided
<1>6. CASE Approvals!Approve(id)
  <2>1. PICK edited :
          \/ Approvals!ExpireInstead(id)
          \/ Approvals!DenyInstead(id, edited)
          \/ Approvals!Accept(id, edited)
    BY <1>6 DEF Approvals!Approve
  <2>2. CASE Approvals!ExpireInstead(id) \/ Approvals!DenyInstead(id, edited)
    BY <1>2, <1>3, <2>2
    DEF Approvals!ExpireInstead, Approvals!DenyInstead, Approvals!Decided
  <2>3. CASE Approvals!Accept(id, edited)
    <3> DEFINE row == [proposals[id] EXCEPT !.status = "approved",
                                            !.edited = Approvals!FinalArgs(id, edited)]
    <3>1. RowStep(proposals[id], row)
      BY <1>1, <2>3 DEF RowStep, Approvals!Accept, Approvals!Pending, Approvals!Proposal
    <3>2. QED
      BY <1>2, <2>3, <3>1 DEF Approvals!Accept
  <2>4. QED
    BY <2>1, <2>2, <2>3
<1>7. QED
  BY <1>4, <1>5, <1>6 DEF Approvals!ProposalStep

LEMMA ExpireOldRow ==
  ASSUME ApprovalInv, Approvals!ExpireOld, NEW i \in DOMAIN proposals
  PROVE  i \in DOMAIN proposals' /\ RowStep(proposals[i], proposals'[i])
<1>1. proposals[i] \in Approvals!Proposal
  BY InvByRow DEF RowOK
<1>2. i \in DOMAIN proposals'
  BY DEF Approvals!ExpireOld
<1>3. CASE Approvals!Pending(i) /\ proposals[i].overdue
  <2>1. proposals'[i] = [proposals[i] EXCEPT !.status = "expired"]
    BY <1>3 DEF Approvals!ExpireOld
  <2>2. QED
    BY <1>1, <1>2, <1>3, <2>1 DEF RowStep, Approvals!Pending, Approvals!Proposal
<1>4. CASE ~(Approvals!Pending(i) /\ proposals[i].overdue)
  <2>1. proposals'[i] = proposals[i]
    BY <1>4 DEF Approvals!ExpireOld
  <2>2. QED
    BY <1>2, <2>1, SameRow
<1>5. QED
  BY <1>3, <1>4

LEMMA StepOfRow ==
  ASSUME ApprovalInv, [Next]_vars, NEW i \in DOMAIN proposals
  PROVE  i \in DOMAIN proposals' /\ RowStep(proposals[i], proposals'[i])
<1>1. ASSUME UNCHANGED proposals
      PROVE  i \in DOMAIN proposals' /\ RowStep(proposals[i], proposals'[i])
  BY <1>1, SameRow
<1>2. ASSUME NEW a \in Agents, QueueCall(a)
      PROVE  i \in DOMAIN proposals' /\ RowStep(proposals[i], proposals'[i])
  <2>1. i # nextProposal
    BY InvByRow
  <2>2. QED
    BY <1>2, <2>1, RowsWritten, SameRow DEF QueueCall, Approvals!Create
<1>3. ASSUME NEW a \in Agents,
             Begin(a) \/ ModelCalls(a) \/ ModelConcludes(a) \/ ParseFails(a) \/ BlockCall(a)
               \/ StartTool(a) \/ EndTool(a) \/ EndReply(a)
      PROVE  UNCHANGED proposals
  BY <1>3 DEF Begin, ModelCalls, ModelConcludes, ParseFails, BlockCall, StartTool,
              EndTool, EndReply, approvalVars
<1>4. CASE Decide
  BY <1>4, ProposalStepRow DEF Decide
<1>5. CASE Crash
  BY <1>5, ExpireOldRow DEF Crash
<1>6. CASE SaveNote \/ ClearLedger \/ Watch
  BY <1>1, <1>6 DEF SaveNote, ClearLedger, Watch, approvalVars
<1>7. CASE UNCHANGED vars
  BY <1>1, <1>7 DEF vars, approvalVars
<1>8. QED
  BY <1>1, <1>2, <1>3, <1>4, <1>5, <1>6, <1>7 DEF Next, RunStep

\* A proposal that has been decided on stays decided as it is, through every
\* request, run and restart (routes.py, approve_proposal and reject_proposal;
\* store.py, expire_old).
THEOREM DecisionsStand == Spec => DecisionStands
<1>1. ApprovalInv /\ [Next]_vars =>
        [\A i \in DOMAIN proposals :
           proposals[i].status # "pending" =>
             i \in DOMAIN proposals' /\ proposals'[i].status = proposals[i].status]_proposals
  BY StepOfRow DEF RowStep
<1>2. QED
  BY ApprovalInvariance, <1>1, PTL DEF Spec, DecisionStands, Approvals!DecisionStands

\* No proposal is approved after its hour, although only approvals and starts
\* of the server look at the hour (routes.py, approve_proposal).
THEOREM NoLateApproval == Spec => ApprovedInTime
<1>1. ApprovalInv /\ [Next]_vars =>
        [\A i \in DOMAIN proposals :
           proposals[i].overdue =>
             proposals'[i].status \in {proposals[i].status, "expired", "rejected"}]_proposals
  BY StepOfRow DEF RowStep
<1>2. QED
  BY ApprovalInvariance, <1>1, PTL DEF Spec, ApprovedInTime, Approvals!ApprovedInTime
------------------------------------------------------------------------------
(* The ledger and its feed.  A client that has kept up has been told, or    *)
(* has in its queue, the last status of every entry the ledger shows: the  *)
(* argument follows an event through the queue.                            *)

\* Entries whose ids have been given out.
Given(entries, next) ==
  /\ entries \in Seq(Activity!Event)
  /\ \A i \in DOMAIN entries : entries[i].id < next

LedgerTyped ==
  /\ nextEvent \in Nat /\ diskErrors \in Nat
  /\ Given(events, nextEvent) /\ Len(events) <= MaxEvents
  /\ \A e, f \in file : e = f
  /\ \A entries \in file : Given(entries, nextEvent)

ActiveTyped ==
  /\ active \in [Agents -> SUBSET Nat]
  /\ \A a \in Agents : /\ \A id \in active[a] : id < nextEvent
                       /\ \A i, j \in active[a] : i = j
                       /\ pc[a] # "tool" => active[a] = {}

FeedsTyped ==
  /\ DOMAIN feeds = Subscribers /\ DOMAIN heard = Subscribers
  /\ \A s \in Subscribers : /\ \A p, q \in feeds[s] : p = q
                            /\ \A q \in feeds[s] : Given(q, nextEvent)
                            /\ DOMAIN heard[s] \subseteq 0 .. nextEvent - 1

\* The ledger shows no more that it is running, or it is.
Accounted(id) == UnderWay(id) \/ ~Activity!InLedger(id)

\* What a client that has kept up takes last of an event, in its queue or from it.
KeptUp ==
  \A s \in Subscribers \ missed : \A q \in feeds[s] :
    /\ \A i \in DOMAIN q :
         q[i].status = "running" /\ (\A j \in DOMAIN q : j > i => q[j].id # q[i].id) =>
           Accounted(q[i].id)
    /\ \A id \in DOMAIN heard[s] :
         heard[s][id] = "running" /\ (\A j \in DOMAIN q : q[j].id # id) => Accounted(id)

LedgerInv == LedgerTyped /\ ActiveTyped /\ FeedsTyped /\ KeptUp /\ LedgerOnDisk

------------------------------------------------------------------------------
(* The pass over the ledger at a restart.  What it returns is computed by   *)
(* recursion over the places, so that its type needs an induction: the     *)
(* first place at which the claim fails, if there were one, is the next of *)
(* one at which it holds.                                                  *)

LEMMA OrderWellFounded ==
  \E R : (\A a, b \in Nat : <<a, b>> \in R <=> a < b) /\ IsWellFoundedOn(R, Nat)
<1>1. \A a, b \in Nat : <<a, b>> \in OpToRel(<, Nat) <=> a < b
  BY DEF OpToRel
<1>2. QED
  BY <1>1, NatLessThanWellFounded, Zenon

LEMMA HasMinimum ==
  ASSUME NEW R, IsWellFoundedOn(R, Nat), NEW S \in SUBSET Nat, S # {}
  PROVE  \E k \in S : \A j \in S : ~ (<<j, k>> \in R)
<1>1. S \subseteq Nat
  OBVIOUS
<1>2. QED
  BY <1>1, WFMin, Zenon

LEMMA LeastNumber ==
  ASSUME NEW S \in SUBSET Nat, S # {}
  PROVE  \E k \in S : \A j \in Nat : j < k => j \notin S
<1>1. PICK R : (\A a, b \in Nat : <<a, b>> \in R <=> a < b) /\ IsWellFoundedOn(R, Nat)
  BY OrderWellFounded
<1>2. PICK k \in S : \A j \in S : ~ (<<j, k>> \in R)
  BY <1>1, HasMinimum
<1>3. ASSUME NEW j \in S PROVE ~ (j < k)
  BY <1>1, <1>2
<1>4. QED
  BY <1>3

\* What a look at one place of the list leaves of it.
Looked(es, i) ==
  IF es[i].status = "running"
  THEN Append(Activity!RemoveAt(es, i), [id |-> es[i].id, status |-> "failed"])
  ELSE es

LEMMA LookedTyped ==
  ASSUME NEW E, \A e \in E : [id |-> e.id, status |-> "failed"] \in E,
         NEW es \in Seq(E), NEW i \in 1 .. Len(es)
  PROVE  Looked(es, i) \in Seq(E) /\ Len(Looked(es, i)) = Len(es)
<1>1. es[i] \in E
  BY ElementOfSeq
<1> DEFINE before == SubSeq(es, 1, i - 1)
           after  == SubSeq(es, i + 1, Len(es))
           end    == [id |-> es[i].id, status |-> "failed"]
<1>2. before \in Seq(E) /\ Len(before) = i - 1
  <2>1. \A j \in 1 .. i - 1 : es[j] \in E
    BY ElementOfSeq
  <2>2. i - 1 \in Int /\ 1 \in Int
    OBVIOUS
  <2>3. before \in Seq(E) /\ Len(before) = IF 1 <= i - 1 THEN i - 1 - 1 + 1 ELSE 0
    BY <2>1, <2>2, SubSeqProperties
  <2>4. QED
    BY <2>3
<1>3. after \in Seq(E) /\ Len(after) = Len(es) - i
  <2>1. \A j \in i + 1 .. Len(es) : es[j] \in E
    BY ElementOfSeq
  <2>2. i + 1 \in Int /\ Len(es) \in Int
    OBVIOUS
  <2>3. after \in Seq(E) /\ Len(after) = IF i + 1 <= Len(es) THEN Len(es) - (i + 1) + 1 ELSE 0
    BY <2>1, <2>2, SubSeqProperties
  <2>4. QED
    BY <2>3
<1>4. end \in E
  BY <1>1
<1> HIDE DEF before, after, end
<1>5. before \o after \in Seq(E) /\ Len(before \o after) = Len(es) - 1
  BY <1>2, <1>3, ConcatProperties
<1>6. Append(before \o after, end) \in Seq(E) /\ Len(Append(before \o after, end)) = Len(es)
  BY <1>4, <1>5, AppendProperties
<1>7. QED
  BY <1>6 DEF Looked, Activity!RemoveAt, before, after, end

\* The pass over the first n places.
PassTo(f, entries, n) == f = [i \in 0 .. n |-> IF i = 0 THEN entries ELSE Looked(f[i - 1], i)]

LEMMA PassExists == ASSUME NEW entries, NEW n \in Nat PROVE \E f : PassTo(f, entries, n)
<1> DEFINE bad == {k \in Nat : ~ \E f : PassTo(f, entries, k)}
<1>1. SUFFICES ASSUME bad # {} PROVE FALSE
  OBVIOUS
<1>2. PICK k \in bad : \A j \in Nat : j < k => j \notin bad
  <2>1. bad \in SUBSET Nat
    OBVIOUS
  <2> HIDE DEF bad
  <2>2. QED
    BY <1>1, <2>1, LeastNumber
<1>3. k # 0
  <2> DEFINE g == [i \in 0 .. 0 |-> entries]
  <2>1. PassTo(g, entries, 0)
    BY DEF PassTo
  <2>2. QED
    BY <2>1
<1>4. k - 1 \in Nat /\ k - 1 < k
  BY <1>3
<1>5. PICK f : PassTo(f, entries, k - 1)
  BY <1>2, <1>4
<1> DEFINE g == [i \in 0 .. k |-> IF i = k THEN Looked(f[k - 1], k) ELSE f[i]]
<1>6. \A i \in 0 .. k : g[i] = IF i = 0 THEN entries ELSE Looked(g[i - 1], i)
  BY <1>3, <1>4, <1>5 DEF PassTo
<1>7. PassTo(g, entries, k)
  <2>1. g = [i \in 0 .. k |-> g[i]]
    OBVIOUS
  <2> HIDE DEF g
  <2>2. QED
    BY <1>6, <2>1 DEF PassTo
<1>8. QED
  BY <1>7

LEMMA PassTyped ==
  ASSUME NEW E, \A e \in E : [id |-> e.id, status |-> "failed"] \in E,
         NEW entries \in Seq(E), NEW f, PassTo(f, entries, Len(entries))
  PROVE  f[Len(entries)] \in Seq(E) /\ Len(f[Len(entries)]) = Len(entries)
<1> DEFINE bad == {k \in 0 .. Len(entries) : ~ (f[k] \in Seq(E) /\ Len(f[k]) = Len(entries))}
<1>1. SUFFICES ASSUME bad # {} PROVE FALSE
  OBVIOUS
<1>2. PICK k \in bad : \A j \in Nat : j < k => j \notin bad
  <2>1. bad \in SUBSET Nat
    OBVIOUS
  <2> HIDE DEF bad
  <2>2. QED
    BY <1>1, <2>1, LeastNumber
<1>3. k # 0
  BY DEF PassTo
<1>4. k - 1 \in Nat /\ k - 1 < k /\ k \in 1 .. Len(entries)
  BY <1>3
<1>5. f[k - 1] \in Seq(E) /\ Len(f[k - 1]) = Len(entries)
  BY <1>2, <1>4
<1>6. f[k] = Looked(f[k - 1], k)
  BY <1>3, <1>4 DEF PassTo
<1>7. f[k] \in Seq(E) /\ Len(f[k]) = Len(entries)
  BY <1>4, <1>5, <1>6, LookedTyped
<1>8. QED
  BY <1>7

\* The pass at a restart changes statuses and the order, and no more.
LEMMA InterruptedTyped ==
  ASSUME NEW E, \A e \in E : [id |-> e.id, status |-> "failed"] \in E,
         NEW entries \in Seq(E)
  PROVE  /\ Activity!Interrupted(entries) \in Seq(E)
         /\ Len(Activity!Interrupted(entries)) = Len(entries)
<1> DEFINE f == CHOOSE g : PassTo(g, entries, Len(entries))
<1>1. PassTo(f, entries, Len(entries))
  <2>1. Len(entries) \in Nat
    OBVIOUS
  <2>2. \E g : PassTo(g, entries, Len(entries))
    BY <2>1, PassExists
  <2>3. QED
    BY <2>2, Zenon
<1>2. Activity!Interrupted(entries) = f[Len(entries)]
  BY DEF Activity!Interrupted, PassTo, Looked
<1> HIDE DEF f
<1>3. QED
  BY <1>1, <1>2, PassTyped

------------------------------------------------------------------------------
(* The ledger and its file. *)

LEMMA NewestTyped ==
  ASSUME NEW E, NEW entries \in Seq(E)
  PROVE  /\ Activity!Newest(entries) \in Seq(E)
         /\ Len(Activity!Newest(entries)) <= MaxEvents
         /\ \A i \in DOMAIN Activity!Newest(entries) :
              \E j \in DOMAIN entries : Activity!Newest(entries)[i] = entries[j]
<1>1. MaxEvents \in Nat /\ Len(entries) \in Nat /\ DOMAIN entries = 1 .. Len(entries)
  BY LoopAssumption
<1>2. CASE Len(entries) <= MaxEvents
  BY <1>2 DEF Activity!Newest
<1>3. CASE ~ (Len(entries) <= MaxEvents)
  <2> DEFINE m == Len(entries) - MaxEvents + 1
             n == Len(entries)
             s == SubSeq(entries, m, n)
  <2>1. Activity!Newest(entries) = s
    BY <1>3 DEF Activity!Newest
  <2>2. m \in Int /\ n \in Int /\ m >= 1 /\ n - m + 1 = MaxEvents
    BY <1>1, <1>3
  <2>3. \A i \in m .. n : entries[i] \in E
    BY <2>2, ElementOfSeq
  <2> HIDE DEF m, n
  <2>4. /\ s \in Seq(E) /\ Len(s) = IF m <= n THEN n - m + 1 ELSE 0
        /\ \A i \in 1 .. n - m + 1 : s[i] = entries[m + i - 1]
    BY <2>2, <2>3, SubSeqProperties
  <2> HIDE DEF s
  <2>5. Len(s) <= MaxEvents /\ DOMAIN s = 1 .. Len(s) /\ Len(s) \in Nat
    BY <1>1, <2>2, <2>4
  <2>6. ASSUME NEW i \in DOMAIN s PROVE \E j \in DOMAIN entries : s[i] = entries[j]
    <3>1. i \in 1 .. n - m + 1
      BY <2>2, <2>4, <2>5, <1>1
    <3>2. m + i - 1 \in 1 .. Len(entries)
      BY <2>2, <3>1, <1>1 DEF n
    <3>3. QED
      BY <1>1, <2>4, <3>1, <3>2
  <2>7. QED
    BY <2>1, <2>4, <2>5, <2>6
<1>4. QED
  BY <1>2, <1>3

LEMMA GivenElement ==
  ASSUME NEW n, NEW q, Given(q, n), NEW i \in DOMAIN q
  PROVE  q[i] \in Activity!Event /\ q[i].id \in Nat /\ q[i].id < n
<1>1. q \in Seq(Activity!Event) /\ q[i].id < n
  BY DEF Given
<1>2. i \in 1 .. Len(q)
  BY <1>1, LenProperties
<1>3. q[i] \in Activity!Event
  BY <1>1, <1>2, ElementOfSeq
<1>4. QED
  BY <1>1, <1>3 DEF Activity!Event

LEMMA GivenAppend ==
  ASSUME NEW n \in Nat, NEW m \in Nat, n <= m, NEW q, Given(q, n),
         NEW event \in Activity!Event, event.id < m
  PROVE  /\ Given(Append(q, event), m)
         /\ Len(Append(q, event)) = Len(q) + 1 /\ DOMAIN Append(q, event) = 1 .. Len(q) + 1
         /\ Append(q, event)[Len(q) + 1] = event
         /\ DOMAIN q = 1 .. Len(q) /\ Len(q) \in Nat
         /\ \A i \in DOMAIN q : Append(q, event)[i] = q[i]
<1>1. q \in Seq(Activity!Event) /\ \A i \in DOMAIN q : q[i].id < n /\ q[i].id \in Nat
  BY GivenElement DEF Given
<1>2. DOMAIN q = 1 .. Len(q) /\ Len(q) \in Nat
  BY <1>1, LenProperties
<1>3. /\ Append(q, event) \in Seq(Activity!Event) /\ Len(Append(q, event)) = Len(q) + 1
      /\ \A i \in 1 .. Len(q) : Append(q, event)[i] = q[i]
      /\ Append(q, event)[Len(q) + 1] = event
  BY <1>1, AppendProperties
<1>4. DOMAIN Append(q, event) = 1 .. Len(q) + 1
  BY <1>3, LenProperties
<1>5. ASSUME NEW i \in 1 .. Len(q) + 1 PROVE Append(q, event)[i].id < m
  <2>1. CASE i = Len(q) + 1
    BY <1>3, <2>1
  <2>2. CASE i # Len(q) + 1
    <3>1. i \in 1 .. Len(q)
      BY <1>2, <2>2
    <3>2. Append(q, event)[i] = q[i] /\ q[i].id < n /\ q[i].id \in Nat
      BY <1>1, <1>2, <1>3, <3>1
    <3>3. QED
      BY <3>2
  <2>3. QED
    BY <2>1, <2>2
<1>6. Given(Append(q, event), m)
  BY <1>3, <1>4, <1>5 DEF Given
<1>7. QED
  BY <1>2, <1>3, <1>4, <1>6

LEMMA GivenLater ==
  ASSUME NEW n \in Nat, NEW m \in Nat, n <= m, NEW q, Given(q, n) PROVE Given(q, m)
<1>1. \A i \in DOMAIN q : q[i].id \in Nat /\ q[i].id < n
  BY GivenElement
<1>2. \A i \in DOMAIN q : q[i].id < m
  BY <1>1
<1>3. QED
  BY <1>2 DEF Given

\* Entries of the ledger survive a selection of them.
LEMMA GivenNewest ==
  ASSUME NEW n, NEW q, Given(q, n)
  PROVE  Given(Activity!Newest(q), n) /\ Len(Activity!Newest(q)) <= MaxEvents
BY NewestTyped DEF Given

LEMMA GivenInterrupted ==
  ASSUME NEW n, NEW q, Given(q, n)
  PROVE  /\ Given(Activity!Interrupted(q), n)
         /\ Len(Activity!Interrupted(q)) = Len(q)
<1> DEFINE E == {e \in Activity!Event : e.id < n}
<1>1. \A e \in E : [id |-> e.id, status |-> "failed"] \in E
  BY DEF Activity!Event, Activity!EventStatus
<1>2. q \in Seq(E)
  <2>1. q \in Seq(Activity!Event) /\ q \in [1 .. Len(q) -> Activity!Event] /\ Len(q) \in Nat
    BY LenProperties DEF Given
  <2>2. \A i \in 1 .. Len(q) : q[i] \in E
    BY <2>1 DEF Given
  <2>3. q \in [1 .. Len(q) -> E]
    BY <2>1, <2>2
  <2> HIDE DEF E
  <2>4. QED
    BY <2>1, <2>3, SeqDef
<1> HIDE DEF E
<1>3. Activity!Interrupted(q) \in Seq(E) /\ Len(Activity!Interrupted(q)) = Len(q)
  BY <1>1, <1>2, InterruptedTyped
<1>4. \A i \in DOMAIN Activity!Interrupted(q) : Activity!Interrupted(q)[i] \in E
  BY <1>3, LenProperties, ElementOfSeq
<1>5. Activity!Interrupted(q) \in Seq(Activity!Event)
  BY <1>3, SeqMonotonic DEF E
<1>6. QED
  BY <1>3, <1>4, <1>5 DEF Given, E

\* What the ledger holds is what the file holds, or a write has failed.
Persisted(es, fs, errs) ==
  \/ fs = {es} /\ errs = diskErrors
  \/ errs = diskErrors + 1 /\ fs \in {file, {}}

LEMMA PersistWrites == Activity!Persist => Persisted(events', file', diskErrors')
BY DEF Activity!Persist, Activity!DiskFails, Persisted

\* A ledger is written as it should be.
LEMMA LedgerWritten ==
  ASSUME LedgerTyped, LedgerOnDisk, nextEvent' \in Nat, nextEvent <= nextEvent',
         Given(events', nextEvent'), Len(events') <= MaxEvents,
         Persisted(events', file', diskErrors')
  PROVE  LedgerTyped' /\ LedgerOnDisk'
<1>1. \A entries \in file : Given(entries, nextEvent')
  BY GivenLater DEF LedgerTyped
<1>2. diskErrors' \in Nat /\ (diskErrors' = 0 => file' = {events'})
  BY DEF Persisted, LedgerTyped
<1>3. (\A e, f \in file' : e = f) /\ \A entries \in file' : Given(entries, nextEvent')
  BY <1>1 DEF Persisted, LedgerTyped
<1>4. LedgerTyped'
  BY <1>2, <1>3 DEF LedgerTyped, Given
<1>5. LedgerOnDisk'
  BY <1>2 DEF LedgerOnDisk, Activity!Stored
<1>6. QED
  BY <1>4, <1>5

LEMMA LedgerSame ==
  ASSUME LedgerTyped, LedgerOnDisk, UNCHANGED <<events, nextEvent, file, diskErrors>>
  PROVE  LedgerTyped' /\ LedgerOnDisk'
BY DEF LedgerTyped, LedgerOnDisk, Given, Activity!Stored

\* A new entry.
LEMMA EnterWritten ==
  ASSUME LedgerTyped, LedgerOnDisk, NEW status \in Activity!EventStatus,
         Activity!Enter(status), Activity!Persist
  PROVE  /\ LedgerTyped' /\ LedgerOnDisk' /\ nextEvent' = nextEvent + 1
         /\ \A id : id # nextEvent /\ ~Activity!InLedger(id) => ~Activity!InLedger(id)'
<1> DEFINE event == [id |-> nextEvent, status |-> status]
           more  == Append(events, event)
<1>1. /\ events' = Activity!Newest(more) /\ nextEvent' = nextEvent + 1
  BY DEF Activity!Enter
<1>2. nextEvent \in Nat /\ nextEvent' \in Nat /\ nextEvent <= nextEvent' /\ Given(events, nextEvent)
  BY <1>1 DEF LedgerTyped
<1>3. event \in Activity!Event /\ event.id = nextEvent /\ event.id < nextEvent'
  BY <1>1, <1>2 DEF Activity!Event
<1> HIDE DEF event
<1>4. /\ Given(more, nextEvent') /\ DOMAIN more = 1 .. Len(events) + 1
      /\ more[Len(events) + 1] = event /\ DOMAIN events = 1 .. Len(events) /\ Len(events) \in Nat
      /\ \A i \in DOMAIN events : more[i] = events[i]
  BY <1>2, <1>3, GivenAppend
<1> HIDE DEF more
<1>5. Given(events', nextEvent') /\ Len(events') <= MaxEvents
  BY <1>1, <1>4, GivenNewest
<1>6. LedgerTyped' /\ LedgerOnDisk'
  BY <1>2, <1>5, PersistWrites, LedgerWritten
<1>7. ASSUME NEW i \in DOMAIN events' PROVE \E j \in DOMAIN more : events'[i] = more[j]
  <2>1. more \in Seq(Activity!Event)
    BY <1>4 DEF Given
  <2>2. QED
    BY <1>1, <1>7, <2>1, NewestTyped
<1>8. ASSUME NEW id, id # nextEvent, ~Activity!InLedger(id), NEW i \in DOMAIN events'
      PROVE  events'[i].id # id
  <2>1. PICK j \in DOMAIN more : events'[i] = more[j]
    BY <1>7
  <2>2. CASE j = Len(events) + 1
    BY <1>3, <1>4, <1>8, <2>1, <2>2
  <2>3. CASE j # Len(events) + 1
    <3>1. j \in DOMAIN events
      BY <1>4, <2>3
    <3>2. events'[i] = events[j]
      BY <1>4, <2>1, <3>1
    <3>3. QED
      BY <1>8, <3>1, <3>2 DEF Activity!InLedger
  <2>4. QED
    BY <2>2, <2>3
<1>9. QED
  BY <1>1, <1>6, <1>8 DEF Activity!InLedger

\* The end of a tool that the ledger shows.
LEMMA CompleteWritten ==
  ASSUME LedgerTyped, LedgerOnDisk, NEW id \in Nat, NEW status \in Activity!EventStatus,
         Activity!InLedger(id), Activity!RecordComplete(id, status)
  PROVE  /\ LedgerTyped' /\ LedgerOnDisk' /\ UNCHANGED nextEvent
         /\ \A k : ~Activity!InLedger(k) => ~Activity!InLedger(k)'
<1> DEFINE row == [id |-> id, status |-> status]
<1>1. /\ events' = [i \in DOMAIN events |-> IF events[i].id = id THEN row ELSE events[i]]
      /\ Activity!Persist /\ UNCHANGED nextEvent
  BY DEF Activity!RecordComplete
<1>2. /\ events \in Seq(Activity!Event) /\ events \in [1 .. Len(events) -> Activity!Event]
      /\ Len(events) \in Nat /\ DOMAIN events = 1 .. Len(events)
  BY LenProperties DEF LedgerTyped, Given
<1>3. row \in Activity!Event /\ row.id = id
  BY DEF Activity!Event
<1> HIDE DEF row
<1>4. events' \in [1 .. Len(events) -> Activity!Event] /\ DOMAIN events' = DOMAIN events
  BY <1>1, <1>2, <1>3
<1>5. events' \in Seq(Activity!Event)
  BY <1>2, <1>4, SeqDef
<1>6. Len(events') = Len(events)
  <2>1. DOMAIN events' = 1 .. Len(events') /\ Len(events') \in Nat
    BY <1>5, LenProperties
  <2>2. QED
    BY <1>2, <1>4, <2>1
<1>7. \A i \in DOMAIN events : events'[i].id = events[i].id
  BY <1>1, <1>3
<1>8. Given(events', nextEvent')
  BY <1>1, <1>4, <1>5, <1>7 DEF Given, LedgerTyped
<1>9. LedgerTyped' /\ LedgerOnDisk'
  <2>1. nextEvent' \in Nat /\ nextEvent <= nextEvent' /\ Len(events') <= MaxEvents
    BY <1>1, <1>6 DEF LedgerTyped
  <2>2. QED
    BY <1>1, <1>8, <2>1, PersistWrites, LedgerWritten
<1>10. QED
  BY <1>1, <1>4, <1>7, <1>9 DEF Activity!InLedger

LEMMA ClearWritten ==
  ASSUME LedgerTyped, LedgerOnDisk, Activity!Clear
  PROVE  LedgerTyped' /\ LedgerOnDisk' /\ \A id : ~Activity!InLedger(id)'
<1>1. events' = <<>> /\ Activity!Persist /\ UNCHANGED nextEvent
  BY DEF Activity!Clear
<1>2. Given(events', nextEvent') /\ Len(events') <= MaxEvents
  BY <1>1, LoopAssumption DEF Given
<1>3. nextEvent' \in Nat /\ nextEvent <= nextEvent'
  BY <1>1 DEF LedgerTyped
<1>4. LedgerTyped' /\ LedgerOnDisk'
  BY <1>1, <1>2, <1>3, PersistWrites, LedgerWritten
<1>5. QED
  BY <1>1, <1>4 DEF Activity!InLedger

LEMMA ReloadWritten ==
  ASSUME LedgerTyped, LedgerOnDisk, Activity!Reload
  PROVE  LedgerTyped' /\ LedgerOnDisk'
<1> DEFINE kept == Activity!Newest(Activity!Stored)
<1>1. nextEvent \in Nat /\ UNCHANGED nextEvent /\ nextEvent <= nextEvent'
  BY DEF LedgerTyped, Activity!Reload
<1>2. Given(Activity!Stored, nextEvent)
  <2>1. CASE file = {}
    BY <2>1 DEF Activity!Stored, Given
  <2>2. CASE file # {}
    <3>1. Activity!Stored \in file
      BY <2>2 DEF Activity!Stored
    <3>2. QED
      BY <3>1 DEF LedgerTyped
  <2>3. QED
    BY <2>1, <2>2
<1>3. Given(kept, nextEvent) /\ Len(kept) <= MaxEvents
  BY <1>2, GivenNewest
<1>4. diskErrors = 0 => kept = Activity!Stored /\ Activity!Stored = events
  BY DEF LedgerTyped, LedgerOnDisk, Activity!Newest
<1>5. CASE /\ events' = Activity!Interrupted(kept)
           /\ IF events' = kept THEN UNCHANGED <<file, diskErrors>> ELSE Activity!Persist
  <2> HIDE DEF kept
  <2>1. Given(events', nextEvent') /\ Len(events') <= MaxEvents
    BY <1>1, <1>3, <1>5, GivenInterrupted
  <2>2. CASE events' = kept
    <3>1. UNCHANGED <<file, diskErrors>>
      BY <1>5, <2>2
    <3>2. LedgerTyped'
      BY <1>1, <2>1, <3>1 DEF LedgerTyped
    <3>3. LedgerOnDisk'
      BY <1>4, <2>2, <3>1 DEF LedgerOnDisk, Activity!Stored
    <3>4. QED
      BY <3>2, <3>3
  <2>3. CASE events' # kept
    BY <1>1, <1>5, <2>1, <2>3, PersistWrites, LedgerWritten
  <2>4. QED
    BY <2>2, <2>3
<1>6. CASE Activity!DiskFails /\ file' = {} /\ events' = <<>>
  <2>1. diskErrors' \in Nat /\ diskErrors' # 0
    BY <1>6 DEF Activity!DiskFails, LedgerTyped
  <2>2. Given(events', nextEvent') /\ Len(events') <= MaxEvents
    BY <1>6, LoopAssumption DEF Given
  <2>3. QED
    BY <1>1, <1>6, <2>1, <2>2 DEF LedgerTyped, LedgerOnDisk
<1>7. QED
  BY <1>5, <1>6 DEF Activity!Reload

------------------------------------------------------------------------------
(* The feeds. *)

LEMMA IdsGrow ==
  ASSUME NEW n \in Nat, NEW m \in Nat, n <= m PROVE 0 .. n - 1 \subseteq 0 .. m - 1
OBVIOUS

LEMMA FeedsSame ==
  ASSUME LedgerTyped, FeedsTyped, UNCHANGED <<feeds, heard>>, nextEvent' \in Nat,
         nextEvent <= nextEvent'
  PROVE  FeedsTyped'
<1>1. \A s \in Subscribers : \A q \in feeds[s] : Given(q, nextEvent')
  BY GivenLater DEF FeedsTyped, LedgerTyped
<1>2. nextEvent \in Nat
  BY DEF LedgerTyped
<1>3. 0 .. nextEvent - 1 \subseteq 0 .. nextEvent' - 1
  BY <1>2, IdsGrow
<1>4. QED
  BY <1>1, <1>3 DEF FeedsTyped

LEMMA FeedsOfBroadcast ==
  ASSUME LedgerTyped, FeedsTyped, NEW event \in Activity!Event, Activity!Broadcast(event),
         nextEvent' \in Nat, nextEvent <= nextEvent', event.id < nextEvent'
  PROVE  FeedsTyped'
<1>1. /\ feeds' = [s \in Subscribers |->
                    IF Activity!Full(s) THEN feeds[s] ELSE {Append(q, event) : q \in feeds[s]}]
      /\ UNCHANGED heard
  BY DEF Activity!Broadcast
<1>2. ASSUME NEW s \in Subscribers, NEW q \in feeds'[s] PROVE Given(q, nextEvent')
  <2>1. \A p \in feeds[s] : Given(p, nextEvent') /\ Given(Append(p, event), nextEvent')
    BY GivenLater, GivenAppend DEF FeedsTyped, LedgerTyped
  <2>2. QED
    BY <1>1, <2>1
<1>3. 0 .. nextEvent - 1 \subseteq 0 .. nextEvent' - 1
  <2>1. nextEvent \in Nat
    BY DEF LedgerTyped
  <2>2. QED
    BY <2>1, IdsGrow
<1>4. ASSUME NEW s \in Subscribers PROVE \A p, q \in feeds'[s] : p = q
  <2>1. \A p, q \in feeds[s] : p = q
    BY DEF FeedsTyped
  <2>2. feeds'[s] = feeds[s] \/ feeds'[s] = {Append(q, event) : q \in feeds[s]}
    BY <1>1
  <2>3. QED
    BY <2>1, <2>2
<1>5. QED
  BY <1>1, <1>2, <1>3, <1>4 DEF FeedsTyped

\* A client that has kept up has room in its queue.
LEMMA BroadcastReaches ==
  ASSUME NEW event, Activity!Broadcast(event), NEW s \in Subscribers \ missed'
  PROVE  /\ s \notin missed /\ heard'[s] = heard[s]
         /\ feeds'[s] = {Append(q, event) : q \in feeds[s]}
BY DEF Activity!Broadcast

\* What a client has been told stays accounted for.
LEMMA KeptUpSame ==
  ASSUME FeedsTyped, KeptUp, UNCHANGED <<feeds, heard, missed>>,
         \A id \in Nat : id < nextEvent /\ Accounted(id) => Accounted(id)', nextEvent \in Nat
  PROVE  KeptUp'
<1>1. SUFFICES ASSUME NEW s \in Subscribers \ missed, NEW q \in feeds[s]
      PROVE /\ \A i \in DOMAIN q :
                 q[i].status = "running" /\ (\A j \in DOMAIN q : j > i => q[j].id # q[i].id) =>
                   Accounted(q[i].id)'
            /\ \A id \in DOMAIN heard[s] :
                 heard[s][id] = "running" /\ (\A j \in DOMAIN q : q[j].id # id) => Accounted(id)'
  BY DEF KeptUp
<1>2. \A i \in DOMAIN q : q[i].id \in Nat /\ q[i].id < nextEvent
  BY GivenElement DEF FeedsTyped
<1>3. \A id \in DOMAIN heard[s] : id \in Nat /\ id < nextEvent
  BY DEF FeedsTyped
<1>4. QED
  BY <1>2, <1>3 DEF KeptUp

LEMMA KeptUpTold ==
  ASSUME FeedsTyped, KeptUp, NEW event \in Activity!Event, Activity!Broadcast(event),
         event.id \in Nat, nextEvent \in Nat,
         event.status = "running" => Accounted(event.id)',
         \A id \in Nat : id < nextEvent /\ id # event.id /\ Accounted(id) => Accounted(id)'
  PROVE  KeptUp'
<1>1. SUFFICES ASSUME NEW s \in Subscribers \ missed', NEW p \in feeds'[s]
      PROVE /\ \A i \in DOMAIN p :
                 p[i].status = "running" /\ (\A j \in DOMAIN p : j > i => p[j].id # p[i].id) =>
                   Accounted(p[i].id)'
            /\ \A id \in DOMAIN heard'[s] :
                 heard'[s][id] = "running" /\ (\A j \in DOMAIN p : p[j].id # id) => Accounted(id)'
  BY DEF KeptUp
<1>2. PICK q \in feeds[s] : p = Append(q, event)
  BY BroadcastReaches
<1>3. s \in Subscribers \ missed /\ heard'[s] = heard[s]
  BY BroadcastReaches
<1>4. Given(q, nextEvent)
  BY <1>3 DEF FeedsTyped
<1>5. /\ DOMAIN p = 1 .. Len(q) + 1 /\ p[Len(q) + 1] = event
      /\ DOMAIN q = 1 .. Len(q) /\ Len(q) \in Nat /\ \A i \in DOMAIN q : p[i] = q[i]
  <2>1. PICK m \in Nat : nextEvent <= m /\ event.id < m
    <3>1. nextEvent + event.id + 1 \in Nat
      OBVIOUS
    <3>2. nextEvent <= nextEvent + event.id + 1 /\ event.id < nextEvent + event.id + 1
      OBVIOUS
    <3>3. QED
      BY <3>1, <3>2
  <2>2. QED
    BY <1>2, <1>4, <2>1, GivenAppend
<1>6. \A i \in DOMAIN q : q[i].id \in Nat /\ q[i].id < nextEvent
  BY <1>4, GivenElement
<1>7. ASSUME NEW i \in DOMAIN p, p[i].status = "running",
             \A j \in DOMAIN p : j > i => p[j].id # p[i].id
      PROVE  Accounted(p[i].id)'
  <2>1. CASE i = Len(q) + 1
    BY <1>5, <1>7, <2>1
  <2>2. CASE i # Len(q) + 1
    <3>1. i \in DOMAIN q /\ p[i] = q[i] /\ Len(q) + 1 \in DOMAIN p /\ Len(q) + 1 > i
      BY <1>5, <2>2
    <3>2. q[i].id # event.id
      BY <1>5, <1>7, <3>1
    <3>3. \A j \in DOMAIN q : j > i => q[j].id # q[i].id
      BY <1>5, <1>7, <3>1
    <3>4. Accounted(q[i].id)
      BY <1>3, <1>7, <3>1, <3>3 DEF KeptUp
    <3>5. QED
      BY <1>6, <3>1, <3>2, <3>4
  <2>3. QED
    BY <2>1, <2>2
<1>8. ASSUME NEW id \in DOMAIN heard[s], heard[s][id] = "running", \A j \in DOMAIN p : p[j].id # id
      PROVE  Accounted(id)'
  <2>1. id # event.id
    BY <1>5, <1>8
  <2>2. \A j \in DOMAIN q : q[j].id # id
    BY <1>5, <1>8
  <2>3. Accounted(id)
    BY <1>3, <1>8, <2>2 DEF KeptUp
  <2>4. id \in Nat /\ id < nextEvent
    BY <1>3 DEF FeedsTyped
  <2>5. QED
    BY <2>1, <2>3, <2>4
<1>9. QED
  BY <1>3, <1>7, <1>8

LEMMA SubscribeTold ==
  ASSUME LedgerTyped, FeedsTyped, KeptUp, NEW s \in Subscribers, UNCHANGED active,
         Activity!Subscribe(s) \/ Activity!Unsubscribe(s)
  PROVE  FeedsTyped' /\ KeptUp'
<1>1. /\ \E new \in {{}, {<<>>}} : feeds' = [feeds EXCEPT ![s] = new]
      /\ heard' = [heard EXCEPT ![s] = <<>>] /\ missed' = missed \ {s}
      /\ UNCHANGED <<events, nextEvent>>
  BY DEF Activity!Subscribe, Activity!Unsubscribe, Activity!ledgerVars
<1>2. \A id : Accounted(id)' <=> Accounted(id)
  BY <1>1 DEF Accounted, UnderWay, Activity!InLedger
<1>3. /\ heard'[s] = <<>> /\ feeds'[s] \subseteq {<<>>}
      /\ \A t \in Subscribers \ {s} : feeds'[t] = feeds[t] /\ heard'[t] = heard[t]
      /\ DOMAIN feeds' = Subscribers /\ DOMAIN heard' = Subscribers
  BY <1>1 DEF FeedsTyped
<1>4. Given(<<>>, nextEvent) /\ DOMAIN <<>> = {}
  BY DEF Given
<1>5. FeedsTyped'
  BY <1>1, <1>3, <1>4 DEF FeedsTyped
<1>6. KeptUp'
  BY <1>1, <1>2, <1>3, <1>4 DEF KeptUp
<1>7. QED
  BY <1>5, <1>6

LEMMA TakeTold ==
  ASSUME LedgerTyped, FeedsTyped, KeptUp, NEW s \in Subscribers, UNCHANGED active,
         Activity!Take(s)
  PROVE  FeedsTyped' /\ KeptUp'
<1>1. PICK q \in feeds[s] :
        /\ q # <<>> /\ feeds' = [feeds EXCEPT ![s] = {Tail(q)}]
        /\ heard' = [heard EXCEPT ![s] =
                       [id \in DOMAIN @ \cup {Head(q).id} |->
                          IF id = Head(q).id THEN Head(q).status ELSE @[id]]]
  BY DEF Activity!Take
<1>2. UNCHANGED <<events, nextEvent, missed>>
  BY DEF Activity!Take, Activity!ledgerVars
<1>3. \A id : Accounted(id)' <=> Accounted(id)
  BY <1>2 DEF Accounted, UnderWay, Activity!InLedger
<1> DEFINE p == Tail(q)
<1>4. Given(q, nextEvent) /\ q \in Seq(Activity!Event)
  BY DEF FeedsTyped, Given
<1>5. /\ p \in Seq(Activity!Event) /\ Len(p) = Len(q) - 1 /\ Head(q) = q[1]
      /\ \A i \in 1 .. Len(p) : p[i] = q[i + 1]
  BY <1>1, <1>4, HeadTailProperties
<1>6. /\ DOMAIN q = 1 .. Len(q) /\ DOMAIN p = 1 .. Len(p) /\ Len(q) \in Nat \ {0} /\ Len(p) \in Nat
  BY <1>1, <1>4, <1>5, LenProperties, EmptySeq
<1> HIDE DEF p
<1>7. /\ feeds'[s] = {p}
      /\ heard'[s] = [id \in DOMAIN heard[s] \cup {q[1].id} |->
                        IF id = q[1].id THEN q[1].status ELSE heard[s][id]]
      /\ \A t \in Subscribers \ {s} : feeds'[t] = feeds[t] /\ heard'[t] = heard[t]
      /\ DOMAIN feeds' = Subscribers /\ DOMAIN heard' = Subscribers
  BY <1>1, <1>5 DEF FeedsTyped, p
<1>8. 1 \in DOMAIN q /\ q[1].id \in 0 .. nextEvent - 1
  <2>1. 1 \in DOMAIN q
    BY <1>6
  <2>2. q[1].id \in Nat /\ q[1].id < nextEvent /\ nextEvent \in Nat
    BY <1>4, <2>1, GivenElement DEF LedgerTyped
  <2>3. QED
    BY <2>1, <2>2
<1>9. \A i \in DOMAIN p : i + 1 \in DOMAIN q /\ p[i] = q[i + 1]
  BY <1>5, <1>6
<1>10. Given(p, nextEvent)
  BY <1>4, <1>5, <1>9 DEF Given
<1>11. FeedsTyped'
  BY <1>2, <1>7, <1>8, <1>10 DEF FeedsTyped
<1>12. \A j \in DOMAIN q : j > 1 => j - 1 \in DOMAIN p /\ p[j - 1] = q[j]
  BY <1>5, <1>6
<1>13. ASSUME s \notin missed, NEW i \in DOMAIN p, p[i].status = "running",
              \A j \in DOMAIN p : j > i => p[j].id # p[i].id
       PROVE  Accounted(p[i].id)
  <2>1. \A j \in DOMAIN q : j > i + 1 => q[j].id # q[i + 1].id
    <3>1. SUFFICES ASSUME NEW j \in DOMAIN q, j > i + 1 PROVE q[j].id # q[i + 1].id
      OBVIOUS
    <3>2. j > 1 /\ j - 1 > i
      BY <1>6, <3>1
    <3>3. QED
      BY <1>9, <1>12, <1>13, <3>2
  <2>2. QED
    BY <1>9, <1>13, <2>1 DEF KeptUp
<1>14. ASSUME s \notin missed, NEW id \in DOMAIN heard'[s], heard'[s][id] = "running",
              \A j \in DOMAIN p : p[j].id # id
       PROVE  Accounted(id)
  <2>1. \A j \in DOMAIN q : j > 1 => q[j].id # id
    BY <1>12, <1>14
  <2>2. CASE id = q[1].id
    BY <1>7, <1>8, <1>14, <2>1, <2>2 DEF KeptUp
  <2>3. CASE id # q[1].id
    <3>1. id \in DOMAIN heard[s] /\ heard[s][id] = "running"
      BY <1>7, <1>14, <2>3
    <3>2. \A j \in DOMAIN q : q[j].id # id
      BY <1>6, <2>1, <2>3
    <3>3. QED
      BY <1>14, <3>1, <3>2 DEF KeptUp
  <2>4. QED
    BY <2>2, <2>3
<1>15. ASSUME NEW t \in Subscribers \ missed, t # s, NEW e \in feeds[t]
       PROVE  /\ \A i \in DOMAIN e :
                   e[i].status = "running" /\ (\A j \in DOMAIN e : j > i => e[j].id # e[i].id) =>
                     Accounted(e[i].id)
              /\ \A id \in DOMAIN heard[t] :
                   heard[t][id] = "running" /\ (\A j \in DOMAIN e : e[j].id # id) => Accounted(id)
  BY <1>15 DEF KeptUp
<1>16. KeptUp'
  <2>1. SUFFICES
          ASSUME NEW t \in Subscribers \ missed, NEW e \in feeds'[t]
          PROVE  /\ \A i \in DOMAIN e :
                      e[i].status = "running" /\ (\A j \in DOMAIN e : j > i => e[j].id # e[i].id) =>
                        Accounted(e[i].id)
                 /\ \A id \in DOMAIN heard'[t] :
                      heard'[t][id] = "running" /\ (\A j \in DOMAIN e : e[j].id # id) => Accounted(id)
    BY <1>2, <1>3 DEF KeptUp
  <2>2. CASE t = s
    BY <1>7, <1>13, <1>14, <2>2
  <2>3. CASE t # s
    BY <1>7, <1>15, <2>3
  <2>4. QED
    BY <2>2, <2>3
<1>17. QED
  BY <1>11, <1>16

------------------------------------------------------------------------------
(* The steps. *)

\* What a step of a run may do with its active event.
LEMMA ActiveSame ==
  ASSUME ActiveTyped, UNCHANGED active, nextEvent \in Nat, nextEvent' \in Nat,
         nextEvent <= nextEvent', \A a \in Agents : pc'[a] = "tool" \/ pc[a] # "tool"
  PROVE  ActiveTyped'
BY DEF ActiveTyped

LEMMA StartLedger ==
  ASSUME RunInv, LedgerInv, NEW a \in Agents, StartTool(a) PROVE LedgerInv'
<1> USE DEF LedgerInv
<1>1. /\ pc[a] = "tools" /\ pc' = [pc EXCEPT ![a] = "tool"]
      /\ active' = [active EXCEPT ![a] = {nextEvent}]
      /\ Activity!Enter("running") /\ Activity!Persist
  BY DEF StartTool, Takes, Goto, Activity!RecordStart
<1>2. "running" \in Activity!EventStatus /\ nextEvent \in Nat
  BY DEF Activity!EventStatus, LedgerTyped
<1>3. /\ LedgerTyped' /\ LedgerOnDisk' /\ nextEvent' = nextEvent + 1
      /\ \A id : id # nextEvent /\ ~Activity!InLedger(id) => ~Activity!InLedger(id)'
  BY <1>1, <1>2, EnterWritten
<1>4. /\ active'[a] = {nextEvent} /\ active[a] = {}
      /\ \A b \in Agents \ {a} : active'[b] = active[b] /\ pc'[b] = pc[b]
      /\ pc'[a] = "tool" /\ active' \in [Agents -> SUBSET Nat]
  BY <1>1, <1>2 DEF ActiveTyped, RunInv, RunsTyped
<1>5. ActiveTyped'
  BY <1>2, <1>3, <1>4 DEF ActiveTyped
<1>6. PICK event \in Activity!Event : event.id = nextEvent /\ Activity!Broadcast(event)
  <2>1. [id |-> nextEvent, status |-> "running"] \in Activity!Event
    BY <1>2 DEF Activity!Event
  <2>2. Activity!Broadcast([id |-> nextEvent, status |-> "running"])
    BY <1>1 DEF Activity!Enter
  <2>3. QED
    BY <2>1, <2>2
<1>7. FeedsTyped'
  BY <1>2, <1>3, <1>6, FeedsOfBroadcast
<1>8. Accounted(event.id)'
  BY <1>4, <1>6 DEF Accounted, UnderWay
<1>9. \A id \in Nat : id < nextEvent /\ id # event.id /\ Accounted(id) => Accounted(id)'
  BY <1>3, <1>4, <1>6 DEF Accounted, UnderWay
<1>10. KeptUp'
  BY <1>2, <1>6, <1>8, <1>9, KeptUpTold
<1>11. QED
  BY <1>3, <1>5, <1>7, <1>10

LEMMA EndLedger ==
  ASSUME RunInv, LedgerInv, NEW a \in Agents, EndTool(a) PROVE LedgerInv'
<1> USE DEF LedgerInv
<1>1. PICK id \in active[a], status \in {"success", "failed"} : Activity!RecordComplete(id, status)
  BY DEF EndTool
<1>2. pc' = [pc EXCEPT ![a] = "tools"] /\ active' = [active EXCEPT ![a] = {}]
  BY DEF EndTool, Goto
<1>3. /\ active[a] = {id} /\ active'[a] = {} /\ id \in Nat /\ id < nextEvent /\ nextEvent \in Nat
      /\ \A b \in Agents \ {a} : active'[b] = active[b] /\ pc'[b] = pc[b]
      /\ pc'[a] = "tools" /\ active' \in [Agents -> SUBSET Nat]
  BY <1>1, <1>2 DEF ActiveTyped, LedgerTyped, RunInv, RunsTyped
<1>4. \A k : k # id /\ UnderWay(k) => UnderWay(k)'
  BY <1>3 DEF UnderWay
<1>5. status \in Activity!EventStatus /\ status # "running"
  BY DEF Activity!EventStatus
<1>6. CASE Activity!InLedger(id)
  <2> DEFINE event == [id |-> id, status |-> status]
  <2>1. /\ LedgerTyped' /\ LedgerOnDisk' /\ UNCHANGED nextEvent
        /\ \A k : ~Activity!InLedger(k) => ~Activity!InLedger(k)'
    BY <1>1, <1>3, <1>5, <1>6, CompleteWritten
  <2>2. /\ event \in Activity!Event /\ event.id = id /\ event.status # "running"
        /\ Activity!Broadcast(event)
    BY <1>1, <1>3, <1>5, <1>6 DEF Activity!Event, Activity!RecordComplete
  <2> HIDE DEF event
  <2>3. FeedsTyped'
    BY <1>3, <2>1, <2>2, FeedsOfBroadcast
  <2>4. \A k \in Nat : k < nextEvent /\ k # event.id /\ Accounted(k) => Accounted(k)'
    BY <1>4, <2>1, <2>2 DEF Accounted
  <2>5. KeptUp'
    BY <1>3, <2>2, <2>4, KeptUpTold
  <2>6. ActiveTyped'
    BY <1>3, <2>1 DEF ActiveTyped
  <2>7. QED
    BY <2>1, <2>3, <2>5, <2>6
<1>7. CASE ~Activity!InLedger(id)
  <2>1. UNCHANGED recorderVars
    BY <1>1, <1>7 DEF Activity!RecordComplete, Activity!recorderVars, Activity!ledgerVars,
                      Activity!feedVars, recorderVars
  <2>2. UNCHANGED <<events, nextEvent, file, diskErrors, feeds, heard, missed>>
    BY <2>1 DEF recorderVars
  <2>3. LedgerTyped' /\ LedgerOnDisk'
    BY <2>2, LedgerSame
  <2>4. FeedsTyped'
    BY <1>3, <2>2, FeedsSame
  <2>5. \A k : Activity!InLedger(k)' <=> Activity!InLedger(k)
    BY <2>2 DEF Activity!InLedger
  <2>6. \A k \in Nat : k < nextEvent /\ Accounted(k) => Accounted(k)'
    BY <1>4, <1>7, <2>5 DEF Accounted
  <2>7. KeptUp'
    BY <1>3, <2>2, <2>6, KeptUpSame
  <2>8. ActiveTyped'
    BY <1>3, <2>2 DEF ActiveTyped
  <2>9. QED
    BY <2>3, <2>4, <2>7, <2>8
<1>8. QED
  BY <1>6, <1>7

LEMMA NoteLedger == ASSUME LedgerInv, SaveNote PROVE LedgerInv'
<1> USE DEF LedgerInv
<1>1. PICK status \in {"success", "failed"} : Activity!RecordEvent(status)
  BY DEF SaveNote
<1>2. Activity!Enter(status) /\ Activity!Persist /\ UNCHANGED <<pc, active>>
  BY <1>1 DEF Activity!RecordEvent, SaveNote, runVars
<1>3. status \in Activity!EventStatus /\ status # "running" /\ nextEvent \in Nat
  BY DEF Activity!EventStatus, LedgerTyped
<1>4. /\ LedgerTyped' /\ LedgerOnDisk' /\ nextEvent' = nextEvent + 1
      /\ \A id : id # nextEvent /\ ~Activity!InLedger(id) => ~Activity!InLedger(id)'
  BY <1>2, <1>3, EnterWritten
<1>5. PICK event \in Activity!Event : /\ event.id = nextEvent /\ event.status # "running"
                                      /\ Activity!Broadcast(event)
  <2>1. [id |-> nextEvent, status |-> status] \in Activity!Event
    BY <1>3 DEF Activity!Event
  <2>2. Activity!Broadcast([id |-> nextEvent, status |-> status])
    BY <1>2 DEF Activity!Enter
  <2>3. QED
    BY <1>3, <2>1, <2>2
<1>6. FeedsTyped'
  BY <1>3, <1>4, <1>5, FeedsOfBroadcast
<1>7. \A id \in Nat : id < nextEvent /\ id # event.id /\ Accounted(id) => Accounted(id)'
  BY <1>2, <1>4, <1>5 DEF Accounted, UnderWay
<1>8. KeptUp'
  BY <1>3, <1>5, <1>7, KeptUpTold
<1>9. ActiveTyped'
  <2>1. nextEvent' \in Nat /\ nextEvent <= nextEvent'
    BY <1>3, <1>4
  <2>2. QED
    BY <1>2, <1>3, <2>1, ActiveSame
<1>10. QED
  BY <1>4, <1>6, <1>8, <1>9

LEMMA ClearLedgerInv == ASSUME LedgerInv, ClearLedger PROVE LedgerInv'
<1> USE DEF LedgerInv
<1>1. Activity!Clear /\ UNCHANGED <<pc, active>>
  BY DEF ClearLedger, runVars
<1>2. LedgerTyped' /\ LedgerOnDisk' /\ \A id : ~Activity!InLedger(id)'
  BY <1>1, ClearWritten
<1>3. UNCHANGED <<feeds, heard, missed, nextEvent>> /\ nextEvent \in Nat
  BY <1>1 DEF Activity!Clear, Activity!feedVars, LedgerTyped
<1>4. nextEvent' \in Nat /\ nextEvent <= nextEvent'
  BY <1>3
<1>5. FeedsTyped' /\ ActiveTyped'
  BY <1>1, <1>3, <1>4, FeedsSame, ActiveSame
<1>6. \A id \in Nat : id < nextEvent /\ Accounted(id) => Accounted(id)'
  BY <1>2 DEF Accounted
<1>7. KeptUp'
  BY <1>3, <1>6, KeptUpSame
<1>8. QED
  BY <1>2, <1>5, <1>7

LEMMA WatchLedger == ASSUME LedgerInv, Watch PROVE LedgerInv'
<1> USE DEF LedgerInv
<1>1. PICK s \in Subscribers : Activity!Subscribe(s) \/ Activity!Take(s) \/ Activity!Unsubscribe(s)
  BY DEF Watch
<1>2. UNCHANGED <<pc, active>>
  BY DEF Watch, runVars
<1>3. UNCHANGED <<events, nextEvent, file, diskErrors>>
  BY <1>1 DEF Activity!Subscribe, Activity!Take, Activity!Unsubscribe, Activity!ledgerVars
<1>4. LedgerTyped' /\ LedgerOnDisk'
  BY <1>3, LedgerSame
<1>5. ActiveTyped'
  BY <1>2, <1>3 DEF ActiveTyped
<1>6. FeedsTyped' /\ KeptUp'
  BY <1>1, <1>2, SubscribeTold, TakeTold
<1>7. QED
  BY <1>4, <1>5, <1>6

LEMMA CrashLedger == ASSUME LedgerInv, Crash PROVE LedgerInv'
<1> USE DEF LedgerInv
<1>1. Activity!Reload /\ active' = [a \in Agents |-> {}]
  BY DEF Crash
<1>2. LedgerTyped' /\ LedgerOnDisk'
  BY <1>1, ReloadWritten
<1>3. /\ feeds' = [s \in Subscribers |-> {}] /\ heard' = [s \in Subscribers |-> <<>>]
  BY <1>1 DEF Activity!Reload
<1>4. FeedsTyped' /\ KeptUp'
  BY <1>3 DEF FeedsTyped, KeptUp
<1>5. ActiveTyped'
  BY <1>1 DEF ActiveTyped
<1>6. QED
  BY <1>2, <1>4, <1>5

\* A step that takes no part in the ledger.
LEMMA ApartLedger ==
  ASSUME LedgerInv, UNCHANGED recorderVars, UNCHANGED active,
         \A a \in Agents : pc'[a] = "tool" \/ pc[a] # "tool"
  PROVE  LedgerInv'
<1> USE DEF LedgerInv
<1>1. /\ UNCHANGED <<events, nextEvent, file, diskErrors, feeds, heard, missed>>
      /\ nextEvent \in Nat
  BY DEF recorderVars, LedgerTyped
<1>2. nextEvent' \in Nat /\ nextEvent <= nextEvent'
  BY <1>1
<1>3. LedgerTyped' /\ LedgerOnDisk'
  BY <1>1, LedgerSame
<1>4. FeedsTyped' /\ ActiveTyped'
  BY <1>1, <1>2, FeedsSame, ActiveSame
<1>5. \A id : Accounted(id)' <=> Accounted(id)
  BY <1>1 DEF Accounted, UnderWay, Activity!InLedger
<1>6. KeptUp'
  BY <1>1, <1>5, KeptUpSame
<1>7. QED
  BY <1>3, <1>4, <1>6

LEMMA LedgerInit == Init => LedgerInv
<1> SUFFICES ASSUME Init PROVE LedgerInv
  OBVIOUS
<1>1. Given(<<>>, 1)
  BY DEF Given
<1>2. LedgerTyped /\ LedgerOnDisk
  BY <1>1, LoopAssumption DEF Init, Activity!Init, LedgerTyped, LedgerOnDisk, Activity!Stored
<1>3. ActiveTyped
  BY DEF Init, ActiveTyped
<1>4. FeedsTyped /\ KeptUp
  BY DEF Init, Activity!Init, FeedsTyped, KeptUp
<1>5. QED
  BY <1>2, <1>3, <1>4 DEF LedgerInv

LEMMA LedgerNext == RunInv /\ LedgerInv /\ [Next]_vars => LedgerInv'
<1> SUFFICES ASSUME RunInv, LedgerInv, [Next]_vars PROVE LedgerInv'
  OBVIOUS
<1>1. ASSUME NEW a \in Agents,
             Begin(a) \/ ModelCalls(a) \/ ModelConcludes(a) \/ ParseFails(a) \/ BlockCall(a)
               \/ QueueCall(a) \/ EndReply(a)
      PROVE  LedgerInv'
  <2>1. UNCHANGED recorderVars /\ UNCHANGED active
    BY <1>1 DEF Begin, ModelCalls, ModelConcludes, ParseFails, BlockCall, QueueCall, EndReply
  <2>2. pc[a] # "tool" /\ \A b \in Agents \ {a} : pc'[b] = pc[b]
    BY <1>1 DEF Begin, ModelCalls, ModelConcludes, ParseFails, BlockCall, QueueCall, EndReply,
                Takes, Goto, RunInv, RunsTyped
  <2>3. QED
    BY <2>1, <2>2, ApartLedger
<1>2. CASE Decide
  BY <1>2, ApartLedger DEF Decide, runVars
<1>3. CASE UNCHANGED vars
  BY <1>3, ApartLedger DEF vars, runVars
<1>4. QED
  BY <1>1, <1>2, <1>3, StartLedger, EndLedger, NoteLedger, ClearLedgerInv, WatchLedger, CrashLedger
  DEF Next, RunStep

LEMMA LedgerInvariance == Spec => []LedgerInv
BY RunInvariance, LedgerInit, LedgerNext, PTL DEF Spec

\* A client of the event stream that has kept up and has seen a tool start has seen it end,
\* unless it runs or has left the ledger; and unless a write has failed, the file holds what the
\* ledger shows (activity.py, _broadcast, record_complete, _persist and _load).
THEOREM LedgerStaysSound == Spec => []LedgerSound
<1>1. LedgerInv => FeedTellsEnd
  <2>1. SUFFICES ASSUME LedgerInv, NEW s \in Subscribers \ missed, feeds[s] = {<<>>},
                        NEW id \in DOMAIN heard[s], heard[s][id] = "running"
                 PROVE  Accounted(id)
    BY DEF FeedTellsEnd, Accounted
  <2>2. <<>> \in feeds[s] /\ DOMAIN <<>> = {}
    BY <2>1
  <2>3. QED
    BY <2>1, <2>2 DEF LedgerInv, KeptUp
<1>2. LedgerInv => LedgerSound
  BY <1>1 DEF LedgerInv, LedgerSound
<1>3. QED
  BY LedgerInvariance, <1>2, PTL

------------------------------------------------------------------------------
(* Types. *)

ExecutedCalls == executed \subseteq Approvals!Call

LEMMA ExecutedNext == RunInv /\ ExecutedCalls /\ [Next]_vars => ExecutedCalls'
<1> SUFFICES ASSUME RunInv, ExecutedCalls, [Next]_vars PROVE ExecutedCalls'
  OBVIOUS
<1>1. ASSUME NEW a \in Agents, StartTool(a) PROVE ExecutedCalls'
  <2>1. Head(todo[a]) \in Approvals!Call
    BY <1>1, TakesTyped DEF StartTool, RunInv
  <2>2. QED
    BY <1>1, <2>1 DEF StartTool, ExecutedCalls
<1>2. ASSUME NEW a \in Agents,
             Begin(a) \/ ModelCalls(a) \/ ModelConcludes(a) \/ ParseFails(a) \/ BlockCall(a)
               \/ QueueCall(a) \/ EndTool(a) \/ EndReply(a)
      PROVE  UNCHANGED executed
  BY <1>2 DEF Begin, ModelCalls, ModelConcludes, ParseFails, BlockCall, QueueCall, EndTool,
              EndReply
<1>3. ASSUME Decide \/ SaveNote \/ ClearLedger \/ Watch \/ Crash \/ UNCHANGED vars
      PROVE  UNCHANGED executed
  BY <1>3 DEF Decide, SaveNote, ClearLedger, Watch, Crash, vars, runVars
<1>4. ASSUME UNCHANGED executed PROVE ExecutedCalls'
  BY <1>4 DEF ExecutedCalls
<1>5. QED
  BY <1>1, <1>2, <1>3, <1>4 DEF Next, RunStep

\* The runs, the proposals and the ledger keep their types, and the ledger its size, through
\* restarts from whatever the file holds too (activity.py, max_events).
THEOREM LoopTypeCorrect == Spec => []TypeOK
<1>1. Init => ExecutedCalls
  BY DEF Init, ExecutedCalls
<1>2. RunInv /\ ApprovalInv /\ LedgerInv /\ ExecutedCalls => TypeOK
  BY DEF RunInv, RunsTyped, Labels, ApprovalInv, LedgerInv, LedgerTyped, ActiveTyped, Given,
         ExecutedCalls, TypeOK
<1>3. QED
  BY RunInvariance, ApprovalInvariance, LedgerInvariance, ExecutedNext, <1>1, <1>2, PTL DEF Spec

==============================================================================
