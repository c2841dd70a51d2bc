----------------------------- MODULE ApprovalStore -----------------------------
(***************************************************************************)
(* The proposals of the agent and the decisions of the user: ApprovalStore *)
(* (approvals/store.py of aegismind_core), the policy (policy.py) and the  *)
(* handlers of /api/v1/approvals (routes.py).                              *)
(*                                                                         *)
(* A handler reads a proposal, checks it and writes it back without        *)
(* suspending, in the only process that opens the database, so that each   *)
(* is one step.  AgentLoop takes the steps.                                *)
(***************************************************************************)
EXTENDS Integers

VARIABLES
  proposals,    \* the table proposals: id |-> row
  nextProposal  \* ids are time stamps in microseconds and never the same

ProposalStatus == {"pending", "approved", "rejected", "expired"}

(***************************************************************************)
(* A tool call, as far as the policy tells calls apart: "refused" is a     *)
(* command off the allowlist or a path with "..", "garbled" is no JSON.    *)
(***************************************************************************)
Args == {"fine", "refused", "garbled"}
Call == [tool : {"auto", "approval", "unknown"}, args : Args]

\* overdue: expires_at has passed; edited: {} or {the arguments decided on}.
Proposal ==
  [call : Call, status : ProposalStatus, edited : SUBSET Args, overdue : BOOLEAN]

evaluate(call) ==
  CASE call.tool = "auto"                              -> "auto"
    [] call.tool = "approval" /\ call.args # "refused" -> "approval"
    [] OTHER                                           -> "deny"

SetProposal(id, row) ==
  proposals' = [i \in DOMAIN proposals \cup {id} |-> IF i = id THEN row ELSE proposals[i]]

Create(call) ==
  /\ SetProposal(nextProposal,
                 [call |-> call, status |-> "pending", edited |-> {}, overdue |-> FALSE])
  /\ nextProposal' = nextProposal + 1

\* Mutant of Pending: the status is not checked.
Pending_Any(id) == id \in DOMAIN proposals

Pending(id) == id \in DOMAIN proposals /\ proposals[id].status = "pending"

Decided(id, status) == SetProposal(id, [proposals[id] EXCEPT !.status = status])

\* The arguments to decide on: the edited ones if there are any.
FinalArgs(id, edited) == IF edited = {} THEN {proposals[id].call.args} ELSE edited

\* Mutant of Judged: the policy is asked about the original arguments.
Judged_Original(id, edited) == evaluate(proposals[id].call)

Judged(id, edited) ==
  evaluate([proposals[id].call EXCEPT !.args = CHOOSE a \in FinalArgs(id, edited) : TRUE])

(***************************************************************************)
(* approve_proposal: the status, then the age, then the policy.  Requests  *)
(* that are answered 404 or 400 without a change are no steps.             *)
(***************************************************************************)
ExpireInstead(id) ==
  /\ Pending(id) /\ proposals[id].overdue
  /\ Decided(id, "expired")

DenyInstead(id, edited) ==
  /\ Pending(id) /\ ~proposals[id].overdue
  /\ Judged(id, edited) = "deny"
  /\ Decided(id, "rejected")

\* Mutant of Accept: the age is not checked.
Accept_Late(id, edited) ==
  /\ Pending(id)
  /\ Judged(id, edited) # "deny"
  /\ SetProposal(id, [proposals[id] EXCEPT !.status = "approved",
                                           !.edited = FinalArgs(id, edited)])

Accept(id, edited) ==
  /\ Pending(id) /\ ~proposals[id].overdue
  /\ Judged(id, edited) # "deny"
  /\ SetProposal(id, [proposals[id] EXCEPT !.status = "approved",
                                           !.edited = FinalArgs(id, edited)])

Approve(id) ==
  /\ \E edited \in {{}} \cup {{a} : a \in {"fine", "refused"}} :
       ExpireInstead(id) \/ DenyInstead(id, edited) \/ Accept(id, edited)
  /\ UNCHANGED nextProposal

\* reject_proposal does not look at the age.
Reject(id) ==
  /\ Pending(id)
  /\ Decided(id, "rejected")
  /\ UNCHANGED nextProposal

\* expire_old, called when the routes are created.
ExpireOld ==
  /\ proposals' = [i \in DOMAIN proposals |->
                     IF Pending(i) /\ proposals[i].overdue
                     THEN [proposals[i] EXCEPT !.status = "expired"] ELSE proposals[i]]
  /\ UNCHANGED nextProposal

\* Time passes: the hour of a proposal ends.  Once it is decided on, nothing
\* looks at that.
HourEnds(id) ==
  /\ Pending(id) /\ ~proposals[id].overdue
  /\ SetProposal(id, [proposals[id] EXCEPT !.overdue = TRUE])
  /\ UNCHANGED nextProposal

Init ==
  /\ proposals = [i \in {} |-> {}]
  /\ nextProposal = 1

ProposalStep(id) == Approve(id) \/ Reject(id) \/ HourEnds(id)

------------------------------------------------------------------------------
ProposalsOK ==
  /\ DOMAIN proposals \subseteq 1 .. nextProposal - 1
  /\ \A i \in DOMAIN proposals : proposals[i] \in Proposal

\* What has been approved, edited or not, is nothing the policy denies: the
\* arguments a proposal is created with and those of the approval are both
\* evaluated.
ApprovedWithinPolicy ==
  \A i \in DOMAIN proposals :
    proposals[i].status = "approved" =>
      proposals[i].call.tool = "approval" /\ "refused" \notin proposals[i].edited

\* A decision stands: no other request, no expiry and no restart decides
\* again on a proposal.
DecisionStands ==
  [][\A i \in DOMAIN proposals :
       proposals[i].status # "pending" =>
         i \in DOMAIN proposals' /\ proposals'[i].status = proposals[i].status]_proposals

\* No proposal is approved after its hour, although nothing but a restart or
\* the approval itself ever looks for expired ones.
ApprovedInTime ==
  [][\A i \in DOMAIN proposals :
       proposals[i].overdue =>
         proposals'[i].status \in {proposals[i].status, "expired", "rejected"}]_proposals
==============================================================================
