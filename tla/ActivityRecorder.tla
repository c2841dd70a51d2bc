---------------------------- MODULE ActivityRecorder ----------------------------
(***************************************************************************)
(* The ledger of tool runs and its live feed, LocalToolActivityRecorder of *)
(* packages/aegismind-core/src/aegismind_core/agent/activity.py.           *)
(*                                                                         *)
(* Every method runs in the event loop and never suspends, so each is one  *)
(* step.  The ledger is written to a file as a whole at every change; the  *)
(* file is emptied before it is written, so that a write that does not end *)
(* leaves one that cannot be read.  AgentLoop takes the steps.             *)
(***************************************************************************)
EXTENDS Integers, Sequences, SequencesExt

CONSTANTS
  Subscribers,  \* clients of the event stream
  MaxEvents,    \* size of the ledger
  QueueSize,    \* size of a subscriber's queue
  MaxDiskErrors \* bound on the writes that fail, a crash during one included

VARIABLES
  events,       \* the ledger, oldest entry first
  nextEvent,    \* event ids are uuids: the numbers from nextEvent on are unused
  file,         \* {} if it is missing or cannot be read, or {what it holds}
  diskErrors,   \* the writes that have failed
  feeds,        \* per subscriber, {} or {the events in its queue}
  heard,        \* history: per subscriber, the last status it took, by event id
  missed        \* history: the subscribers whose queue has been full

ledgerVars == <<events, nextEvent, file, diskErrors>>
feedVars   == <<feeds, heard, missed>>
recorderVars == <<ledgerVars, feedVars>>

EventStatus == {"running", "success", "failed"}

Event == [id : Nat, status : EventStatus]

InLedger(id) == \E i \in DOMAIN events : events[i].id = id

\* Mutant of Newest: nothing is dropped.
Newest_All(entries) == entries

\* self._events[-self.max_events:]
Newest(entries) ==
  IF Len(entries) <= MaxEvents THEN entries
  ELSE SubSeq(entries, Len(entries) - MaxEvents + 1, Len(entries))

Stored == IF file = {} THEN <<>> ELSE CHOOSE entries \in file : TRUE

DiskFails == diskErrors < MaxDiskErrors /\ diskErrors' = diskErrors + 1

(***************************************************************************)
(* _persist: an error is logged and no more.  It leaves the file as it was *)
(* or emptied.                                                             *)
(***************************************************************************)
Persist ==
  \/ file' = {events'} /\ UNCHANGED diskErrors
  \/ DiskFails /\ file' \in {file, {}}

(***************************************************************************)
(* _broadcast: a queue that is full refuses the event, and the exception   *)
(* is logged.                                                              *)
(***************************************************************************)
Full(s) == \E queue \in feeds[s] : Len(queue) >= QueueSize

Broadcast(event) ==
  /\ feeds' = [s \in Subscribers |->
                 IF Full(s) THEN feeds[s] ELSE {Append(q, event) : q \in feeds[s]}]
  /\ missed' = missed \cup {s \in Subscribers : Full(s)}
  /\ UNCHANGED heard

\* record_start and record_event, up to the write of the file.
Enter(status) ==
  /\ events' = Newest(Append(events, [id |-> nextEvent, status |-> status]))
  /\ nextEvent' = nextEvent + 1
  /\ Broadcast([id |-> nextEvent, status |-> status])

\* Mutant of RecordComplete: the event is broadcast as it was.
RecordComplete_Stale(id, status) ==
  \/ /\ InLedger(id)
     /\ events' = [i \in DOMAIN events |->
                     IF events[i].id = id THEN [id |-> id, status |-> status] ELSE events[i]]
     /\ Persist
     /\ Broadcast([id |-> id, status |-> "running"])
     /\ UNCHANGED nextEvent
  \/ /\ ~InLedger(id)
     /\ UNCHANGED recorderVars

\* An event that has left the ledger is neither changed nor broadcast.
RecordComplete(id, status) ==
  \/ /\ InLedger(id)
     /\ events' = [i \in DOMAIN events |->
                     IF events[i].id = id THEN [id |-> id, status |-> status] ELSE events[i]]
     /\ Persist
     /\ Broadcast([id |-> id, status |-> status])
     /\ UNCHANGED nextEvent
  \/ /\ ~InLedger(id)
     /\ UNCHANGED recorderVars

RecordStart  == Enter("running") /\ Persist

RecordEvent(status) == Enter(status) /\ Persist

Clear ==
  /\ events' = <<>>
  /\ Persist
  /\ UNCHANGED <<nextEvent, feedVars>>

(***************************************************************************)
(* The event stream of a client: subscribe, one get of the queue, and      *)
(* unsubscribe when the client has gone.                                   *)
(***************************************************************************)
Subscribe(s) ==
  /\ feeds[s] = {}
  /\ feeds' = [feeds EXCEPT ![s] = {<<>>}]
  /\ heard' = [heard EXCEPT ![s] = <<>>]
  /\ missed' = missed \ {s}
  /\ UNCHANGED ledgerVars

Take(s) ==
  /\ \E queue \in feeds[s] :
       /\ queue # <<>>
       /\ feeds' = [feeds EXCEPT ![s] = {Tail(queue)}]
       /\ LET event == Head(queue) IN
          heard' = [heard EXCEPT ![s] =
                      [id \in DOMAIN @ \cup {event.id} |->
                         IF id = event.id THEN event.status ELSE @[id]]]
  /\ UNCHANGED <<ledgerVars, missed>>

Unsubscribe(s) ==
  /\ feeds[s] # {}
  /\ feeds' = [feeds EXCEPT ![s] = {}]
  /\ heard' = [heard EXCEPT ![s] = <<>>]
  /\ missed' = missed \ {s}
  /\ UNCHANGED ledgerVars

(***************************************************************************)
(* mark_running_as_interrupted removes and appends entries of the list it  *)
(* iterates over: the iterator moves on by one place all the same, so that *)
(* the entry after a removed one is not looked at.                         *)
(***************************************************************************)
Interrupted(entries) ==
  LET looked[i \in 0 .. Len(entries)] ==
        IF i = 0 THEN entries
        ELSE IF looked[i - 1][i].status = "running"
             THEN Append(RemoveAt(looked[i - 1], i),
                         [id |-> looked[i - 1][i].id, status |-> "failed"])
             ELSE looked[i - 1]
  IN looked[Len(entries)]

(***************************************************************************)
(* The process has died, perhaps in the middle of a write, and is started  *)
(* again: _load.                                                           *)
(***************************************************************************)
Reload ==
  /\ \/ /\ events' = Interrupted(Newest(Stored))
        /\ IF events' = Newest(Stored) THEN UNCHANGED <<file, diskErrors>> ELSE Persist
     \/ DiskFails /\ file' = {} /\ events' = <<>>
  /\ feeds' = [s \in Subscribers |-> {}]
  /\ heard' = [s \in Subscribers |-> <<>>]
  /\ missed' = {}
  /\ UNCHANGED nextEvent

Init ==
  /\ events = <<>>
  /\ nextEvent = 1
  /\ file = {}
  /\ diskErrors = 0
  /\ feeds = [s \in Subscribers |-> {}]
  /\ heard = [s \in Subscribers |-> <<>>]
  /\ missed = {}
==============================================================================
