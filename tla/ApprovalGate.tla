------------------------------ MODULE ApprovalGate ------------------------------
(***************************************************************************)
(* The approval gate of the graph and agent routes: ApprovalGate in        *)
(* packages/aegismind-approval/src/aegismind_approval/gate.py and the      *)
(* handlers of /approval in routes.py.                                     *)
(*                                                                         *)
(* The methods never suspend; each is one step.  The id of a proposal is   *)
(* the second in which it is made, so that a proposal takes the place of   *)
(* an earlier one of the same second; the number of a proposal tells them  *)
(* apart here.  The file is emptied before it is written: a write that     *)
(* fails, or that a crash cuts short, leaves the old content or none.      *)
(***************************************************************************)
EXTENDS Values, FiniteSets

CONSTANTS
  ExpirySeconds,
  MaxSecond,            \* bound on the clock
  MaxProposals,         \* bound on the proposals made
  MaxGateErrors         \* bound on the writes that fail and the crashes

VARIABLES
  gateNow,              \* the clock, in seconds
  gateProposals,        \* _proposals: by id, the number, the second and the status
  gateFile,             \* {} if it is missing or cannot be read, or {what it holds}
  gateMade,             \* the number of proposals made
  gateErrors, gateLost, \* errors so far, and history: whether a write has failed
  gateShown,            \* what a user was last shown: the id, number, second of each
  gateSettled,          \* history: the numbers a call has reported as settled
  gateHits              \* history: of each decision, what was shown and what was hit

gateVars == <<gateNow, gateProposals, gateFile, gateMade, gateErrors, gateLost, gateShown,
              gateSettled, gateHits>>

ASSUME GateAssumption ==
  /\ ExpirySeconds \in Nat /\ MaxSecond \in Nat
  /\ MaxProposals \in Nat /\ MaxGateErrors \in Nat

GateStatus == {"pending", "approved", "rejected", "expired"}

GateInit ==
  /\ gateNow = 0
  /\ gateProposals = <<>> /\ gateFile = {}
  /\ gateMade = 0 /\ gateErrors = 0 /\ gateLost = FALSE
  /\ gateShown = {} /\ gateSettled = {} /\ gateHits = {}

PendingOf(proposals) == {id \in DOMAIN proposals : proposals[id].status = "pending"}

GateError == gateErrors < MaxGateErrors /\ gateErrors' = gateErrors + 1

Saved(proposals) == gateFile' = {proposals} /\ UNCHANGED <<gateErrors, gateLost>>

\* _save raises; before is what the file holds by then.
NotSaved(before) == GateError /\ gateLost' = TRUE /\ gateFile' \in {before, {}}

------------------------------------------------------------------------------

NewId == gateNow

propose ==
  /\ gateMade < MaxProposals
  /\ gateMade' = gateMade + 1
  /\ gateProposals' = With(gateProposals, NewId,
                            [no |-> gateMade', made |-> gateNow, status |-> "pending"])
  /\ Saved(gateProposals') \/ NotSaved(gateFile)
  /\ UNCHANGED <<gateNow, gateShown, gateSettled, gateHits>>

\* Mutant of Decided: a status of its own for what is decided.
Decided_Closed(id, verdict) ==
  /\ id \in DOMAIN gateProposals
  /\ gateProposals' = [gateProposals EXCEPT ![id].status = "closed"]
  /\ UNCHANGED <<gateNow, gateMade, gateShown>>

\* The decision is noted whatever became of the proposal before.
Decided(id, verdict) ==
  /\ id \in DOMAIN gateProposals
  /\ gateProposals' = [gateProposals EXCEPT ![id].status = verdict]
  /\ UNCHANGED <<gateNow, gateMade, gateShown>>

Hit(shown) ==
  gateHits' = gateHits \cup {[shown |-> shown.no, at |-> shown.made,
                              hit |-> gateProposals[shown.id].no,
                              hitAt |-> gateProposals[shown.id].made]}

\* Mutant of decide: the decision is not written.
decide_Unsaved(shown, verdict) ==
  /\ Decided(shown.id, verdict) /\ Hit(shown)
  /\ gateSettled' = gateSettled \cup {gateProposals[shown.id].no}
  /\ UNCHANGED <<gateFile, gateErrors, gateLost>>

\* A user decides on one of the proposals shown; an unknown id changes nothing.
decide(shown, verdict) ==
  /\ Decided(shown.id, verdict) /\ Hit(shown)
  /\ \/ /\ Saved(gateProposals')
        /\ gateSettled' = gateSettled \cup {gateProposals[shown.id].no}
     \/ NotSaved(gateFile) /\ UNCHANGED gateSettled

\* Whether a pending proposal is past its time: the clock tells fractions of a second.
Overdue(id, late) ==
  LET age == gateNow - gateProposals[id].made IN
  age > ExpirySeconds \/ (late /\ age = ExpirySeconds)

Expired(ids) ==
  [id \in DOMAIN gateProposals |->
     IF id \in ids THEN [gateProposals[id] EXCEPT !.status = "expired"] ELSE gateProposals[id]]

Expiring(late) == {id \in PendingOf(gateProposals) : Overdue(id, late)}

\* get_pending: what is past its time expires, in the order of the dictionary, with a
\* write for each; the call ends at the first write that fails.
get_pending ==
  \E late \in BOOLEAN :
    LET due == Expiring(late)
        rest == PendingOf(gateProposals) \ due
        upTo(id) == {j \in due : j < id} IN
    /\ \/ /\ gateProposals' = Expired(due)
          /\ IF due = {} THEN UNCHANGED <<gateFile, gateErrors, gateLost>>
             ELSE Saved(gateProposals')
          /\ gateShown' = {[id |-> id, no |-> gateProposals[id].no, made |-> gateProposals[id].made]
                             : id \in rest}
          /\ gateSettled' = gateSettled \cup {gateProposals[id].no : id \in due}
       \/ \E id \in due :
            /\ gateProposals' = Expired(upTo(id) \cup {id})
            /\ NotSaved(IF upTo(id) = {} THEN gateFile ELSE {Expired(upTo(id))})
            /\ gateShown' = {}
            /\ UNCHANGED gateSettled
    /\ UNCHANGED <<gateNow, gateMade, gateHits>>

Second ==
  /\ gateNow < MaxSecond
  /\ gateNow' = gateNow + 1
  /\ UNCHANGED <<gateProposals, gateFile, gateMade, gateErrors, gateLost, gateShown,
                 gateSettled, gateHits>>

\* What a start loads: the pending proposals of the file.
Loaded ==
  IF gateFile = {} THEN <<>>
  ELSE LET stored == CHOOSE p \in gateFile : TRUE IN [id \in PendingOf(stored) |-> stored[id]]

\* The process ends and starts again; the page that shows the proposals stays open.
GateRestart ==
  /\ GateError
  /\ gateProposals' = Loaded
  /\ UNCHANGED <<gateNow, gateFile, gateMade, gateLost, gateShown, gateSettled, gateHits>>

GateNext ==
  \/ propose \/ get_pending \/ Second \/ GateRestart
  \/ \E shown \in gateShown, verdict \in {"approved", "rejected"} : decide(shown, verdict)

GateSpec == GateInit /\ [][GateNext]_gateVars

------------------------------------------------------------------------------
(* Properties. *)

GateTypeOK ==
  /\ gateNow \in 0..MaxSecond /\ gateMade \in 0..MaxProposals
  /\ \A id \in DOMAIN gateProposals :
       /\ gateProposals[id].no \in 1..gateMade /\ gateProposals[id].made \in 0..gateNow
       /\ gateProposals[id].status \in GateStatus
  /\ Cardinality(gateFile) <= 1
  /\ \A s \in gateShown : s.no \in 1..gateMade
  /\ gateSettled \subseteq 1..gateMade

\* A proposal of which a call has reported that it is decided or that its time is over
\* never asks for approval again, not even after writes that failed and restarts: it is
\* pending neither in memory nor in the file.
SettledStaysSettled ==
  \A p \in gateFile \cup {gateProposals} : \A id \in PendingOf(p) : p[id].no \notin gateSettled

\* As long as no write has failed, a restart at any time finds exactly the proposals
\* that are pending.
RestartKeepsPending ==
  ~gateLost => Loaded = [id \in PendingOf(gateProposals) |-> gateProposals[id]]

\* A decision hits the proposal the user was shown, or one that was made in the same
\* second and took its id (which the code does not prevent: see the README), although
\* other proposals were made and the gate was restarted since.
DecisionMeetsShown == \A h \in gateHits : h.shown = h.hit \/ h.at = h.hitAt

\* Failed writes, restarts and shared ids neither reopen a proposal nor drop a pending one
\* nor turn a decision to one that was made at another time.
GateSound == SettledStaysSettled /\ RestartKeepsPending /\ DecisionMeetsShown
==============================================================================
