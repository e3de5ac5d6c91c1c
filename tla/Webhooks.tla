------------------------------ MODULE Webhooks ------------------------------
(***************************************************************************)
(* The webhooks of one tenant: Dispatcher.Dispatch reads the subscribers   *)
(* of an event and starts a goroutine for each; a goroutine builds its     *)
(* request, posts it once and then records the outcome with two            *)
(* statements, while other deliveries and the API's PATCH and DELETE write *)
(* the same row.  A request that cannot be built is not an outcome:        *)
(* nothing is recorded of it.  No code of the server calls Dispatch yet,   *)
(* so a dispatch may come at any time.                                     *)
(*                                                                         *)
(* URL, secret and signature are left out (they are carried along like the *)
(* events; no handler validates the URL, so that any delivery may have one *)
(* nothing can be posted to), and of last_error and last_triggered_at only *)
(* whether they are NULL is kept.                                          *)
(***************************************************************************)
EXTENDS Integers, FiniteSets

CONSTANTS
  Ids,           \* the UUIDs of webhooks
  Events,        \* event types
  Statuses,      \* values of status a PATCH may ask for, unchecked
  Procs,         \* goroutines of PATCH requests
  NoRow, Unset,
  MaxDispatches, \* bound: calls of Dispatch in a behaviour
  MaxRequests    \* bound: API requests in a behaviour

ASSUME WebhookConstants ==
  /\ "active" \in Statuses /\ Unset \notin Statuses
  /\ MaxDispatches \in Nat /\ MaxRequests \in Nat

(* error, triggered: last_error and last_triggered_at are not NULL. *)
Hook == [events : SUBSET Events, status : Statuses, retry : Nat,
         error : BOOLEAN, triggered : BOOLEAN]

ASSUME NoRowIsNoHook == NoRow \notin Hook

(* The delivery goroutines of a webhook, by what they are about to do: Marshal
   and NewRequest, POST, UpdateLastError, IncrementRetryCount, UpdateLastTriggered,
   ResetRetryCount. *)
Steps == {"build", "post", "error", "count", "trigger", "reset"}

(* History, by webhook: deliveries whose POST failed, failures a reset took out of
   retry_count, and statements without effect. *)
Ledger == [failed : Nat, forgiven : Nat,
           lostErrors : Nat, lostCounts : Nat, lostTriggers : Nat]

VARIABLES
  hooks,         \* the webhooks table
  flight,        \* flight[i][s] : how many deliveries of i are about to do s
  patch,         \* patch[p] : what the PATCH request p is about to do
  ledger,        \* history, see Ledger
  used,          \* history: the ids that have been given out
  dispatches, requests

vars == <<hooks, flight, patch, ledger, used, dispatches, requests>>

Idle == [kind |-> "idle"]
Patch == {Idle}
  \cup [kind : {"read"}, id : Ids, events : SUBSET Events,
        status : Statuses \cup {Unset}]
  \cup [kind : {"write"}, id : Ids, row : Hook]

TypeOK ==
  /\ hooks \in [Ids -> Hook \cup {NoRow}]
  /\ flight \in [Ids -> [Steps -> Nat]]
  /\ patch \in [Procs -> Patch]
  /\ ledger \in [Ids -> Ledger]
  /\ used \subseteq Ids
  /\ dispatches \in 0 .. MaxDispatches /\ requests \in 0 .. MaxRequests

NoFlight == [s \in Steps |-> 0]

Init ==
  /\ hooks = [i \in Ids |-> NoRow]
  /\ flight = [i \in Ids |-> NoFlight]
  /\ patch = [p \in Procs |-> Idle]
  /\ ledger = [i \in Ids |-> [failed |-> 0, forgiven |-> 0, lostErrors |-> 0,
                              lostCounts |-> 0, lostTriggers |-> 0]]
  /\ used = {}
  /\ dispatches = 0 /\ requests = 0

Stored(i) == hooks[i] # NoRow

Request == requests < MaxRequests /\ requests' = requests + 1

-----------------------------------------------------------------------------
(* POST /webhooks: one INSERT under a new UUID, whatever the events are. *)
Create(i, es) ==
  /\ Request
  /\ i \notin used /\ used' = used \cup {i}
  /\ hooks' = [hooks EXCEPT ![i] =
                 [events |-> es, status |-> "active", retry |-> 0,
                  error |-> FALSE, triggered |-> FALSE]]
  /\ UNCHANGED <<flight, patch, ledger, dispatches>>

(* DELETE /webhooks/:id: one statement; its deliveries go on. *)
Delete(i) ==
  /\ Request
  /\ hooks' = [hooks EXCEPT ![i] = NoRow]
  /\ UNCHANGED <<flight, patch, ledger, used, dispatches>>

(* PATCH /webhooks/:id; no events and Unset: not in the request. *)
BeginPatch(p, i, es, st) ==
  /\ Request
  /\ patch[p] = Idle
  /\ patch' = [patch EXCEPT ![p] =
                 [kind |-> "read", id |-> i, events |-> es, status |-> st]]
  /\ UNCHANGED <<hooks, flight, ledger, used, dispatches>>

(* Variant: an empty status taken for a new one. *)
MergedBlindly(row, es, st) ==
  [row EXCEPT !.events = IF es = {} THEN @ ELSE es, !.status = st]

(* A field that is not in the request keeps the value that was read. *)
Merged(row, es, st) ==
  [row EXCEPT !.events = IF es = {} THEN @ ELSE es,
              !.status = IF st = Unset THEN @ ELSE st]

(* GetByID and the merge, or 404. *)
ReadPatch(p) ==
  LET j == patch[p] IN
  /\ j.kind = "read"
  /\ patch' = [patch EXCEPT ![p] =
       IF ~Stored(j.id) THEN Idle
       ELSE [kind |-> "write", id |-> j.id,
             row |-> Merged(hooks[j.id], j.events, j.status)]]
  /\ UNCHANGED <<hooks, flight, ledger, used, dispatches, requests>>

(* Variant: INSERT OR REPLACE. *)
WritePatchUpsert(p) ==
  LET j == patch[p] IN
  /\ j.kind = "write"
  /\ hooks' = [hooks EXCEPT ![j.id] = j.row]
  /\ patch' = [patch EXCEPT ![p] = Idle]
  /\ UNCHANGED <<flight, ledger, used, dispatches, requests>>

(* Variant: every column read is written back. *)
WritePatchWhole(p) ==
  LET j == patch[p] IN
  /\ j.kind = "write"
  /\ hooks' = IF Stored(j.id) THEN [hooks EXCEPT ![j.id] = j.row] ELSE hooks
  /\ patch' = [patch EXCEPT ![p] = Idle]
  /\ UNCHANGED <<flight, ledger, used, dispatches, requests>>

(* WebhookRepository.Update: the columns a client owns, as they were read, if
   the row is still there. *)
WritePatch(p) ==
  LET j == patch[p] IN
  /\ j.kind = "write"
  /\ hooks' = IF Stored(j.id)
                THEN [hooks EXCEPT ![j.id].events = j.row.events,
                                   ![j.id].status = j.row.status]
                ELSE hooks
  /\ patch' = [patch EXCEPT ![p] = Idle]
  /\ UNCHANGED <<flight, ledger, used, dispatches, requests>>

(* A statement of the PATCH fails: 404 or 500. *)
FailPatch(p) ==
  /\ patch[p] # Idle
  /\ patch' = [patch EXCEPT ![p] = Idle]
  /\ UNCHANGED <<hooks, flight, ledger, used, dispatches, requests>>

-----------------------------------------------------------------------------
Subscribed(i, e) == Stored(i) /\ hooks[i].status = "active" /\ e \in hooks[i].events

(* Dispatch: GetByEvent in one SELECT and a goroutine for each match.  When
   the query fails nothing happens. *)
Dispatch(e) ==
  /\ dispatches < MaxDispatches
  /\ dispatches' = dispatches + 1
  /\ flight' = [i \in Ids |->
                  IF Subscribed(i, e) THEN [flight[i] EXCEPT !["build"] = @ + 1]
                                      ELSE flight[i]]
  /\ UNCHANGED <<hooks, patch, ledger, used, requests>>

(* A delivery of i goes from step s to step t, or ends. *)
Advance(i, s, t) ==
  /\ flight[i][s] > 0
  /\ flight' = [flight EXCEPT ![i] =
                  [q \in Steps |-> @[q] + (IF q = t THEN 1 ELSE 0)
                                        - (IF q = s THEN 1 ELSE 0)]]

End == "end"

BuildRequest(i) ==
  /\ Advance(i, "build", "post")
  /\ UNCHANGED <<hooks, patch, ledger, used, dispatches, requests>>

(* Data that Marshal refuses, or a URL that NewRequest does not parse: the delivery
   returns, and neither last_error nor retry_count tells of it. *)
BuildFails(i) ==
  /\ Advance(i, "build", End)
  /\ UNCHANGED <<hooks, patch, ledger, used, dispatches, requests>>

PostSucceeds(i) ==
  /\ Advance(i, "post", "trigger")
  /\ UNCHANGED <<hooks, patch, ledger, used, dispatches, requests>>

(* Variant: the failure is counted and not explained. *)
PostFailsUnexplained(i) ==
  /\ Advance(i, "post", "count")
  /\ ledger' = [ledger EXCEPT ![i].failed = @ + 1]
  /\ UNCHANGED <<hooks, patch, used, dispatches, requests>>

(* The POST is answered with 400 or more, or client.Do returns an error. *)
PostFails(i) ==
  /\ Advance(i, "post", "error")
  /\ ledger' = [ledger EXCEPT ![i].failed = @ + 1]
  /\ UNCHANGED <<hooks, patch, used, dispatches, requests>>

(* Variant: a client without a timeout. *)
PostNeverTimesOut(i) == FALSE

(* No answer within the client's ten seconds. *)
PostTimesOut(i) == PostFails(i)

(* The four statements that record an outcome; their errors are dropped, and
   on a row deleted meanwhile they have no effect. *)
RecordError(i) ==
  /\ Advance(i, "error", "count")
  /\ \/ /\ Stored(i)
        /\ hooks' = [hooks EXCEPT ![i].error = TRUE] /\ ledger' = ledger
     \/ hooks' = hooks /\ ledger' = [ledger EXCEPT ![i].lostErrors = @ + 1]
  /\ UNCHANGED <<patch, used, dispatches, requests>>

CountFailure(i) ==
  /\ Advance(i, "count", End)
  /\ \/ /\ Stored(i)
        /\ hooks' = [hooks EXCEPT ![i].retry = @ + 1] /\ ledger' = ledger
     \/ hooks' = hooks /\ ledger' = [ledger EXCEPT ![i].lostCounts = @ + 1]
  /\ UNCHANGED <<patch, used, dispatches, requests>>

RecordTrigger(i) ==
  /\ Advance(i, "trigger", "reset")
  /\ \/ /\ Stored(i)
        /\ hooks' = [hooks EXCEPT ![i].triggered = TRUE] /\ ledger' = ledger
     \/ hooks' = hooks /\ ledger' = [ledger EXCEPT ![i].lostTriggers = @ + 1]
  /\ UNCHANGED <<patch, used, dispatches, requests>>

(* Takes every failure recorded so far out of the count, those of deliveries
   that started later than this one included. *)
ResetRetries(i) ==
  /\ Advance(i, "reset", End)
  /\ \/ /\ Stored(i)
        /\ hooks' = [hooks EXCEPT ![i].retry = 0]
        /\ ledger' = [ledger EXCEPT ![i].forgiven = @ + hooks[i].retry]
     \/ UNCHANGED <<hooks, ledger>>
  /\ UNCHANGED <<patch, used, dispatches, requests>>

(* The process dies with its goroutines; what they had not recorded is lost. *)
Crash ==
  /\ flight' = [i \in Ids |-> NoFlight]
  /\ patch' = [p \in Procs |-> Idle]
  /\ ledger' = [i \in Ids |->
       [ledger[i] EXCEPT !.lostErrors = @ + flight[i]["error"],
                         !.lostCounts = @ + flight[i]["error"] + flight[i]["count"],
                         !.lostTriggers = @ + flight[i]["trigger"]]]
  /\ UNCHANGED <<hooks, used, dispatches, requests>>

(* What a delivery does of its own accord; whether the receiver answers, and how, is
   not up to it. *)
Deliver(i) ==
  \/ BuildRequest(i) \/ BuildFails(i) \/ PostTimesOut(i)
  \/ RecordError(i) \/ CountFailure(i) \/ RecordTrigger(i) \/ ResetRetries(i)

Next ==
  \/ \E i \in Ids : Deliver(i) \/ PostSucceeds(i) \/ PostFails(i) \/ Delete(i)
  \/ \E i \in Ids, es \in SUBSET Events : Create(i, es)
  \/ \E p \in Procs : ReadPatch(p) \/ WritePatch(p) \/ FailPatch(p)
  \/ \E p \in Procs, i \in used, es \in SUBSET Events, st \in Statuses \cup {Unset} :
       BeginPatch(p, i, es, st)
  \/ \E e \in Events : Dispatch(e)
  \/ Crash

(* Goroutines are scheduled and the client's timer fires; nothing is assumed of
   the receiver. *)
Spec == /\ Init /\ [][Next]_vars
        /\ \A i \in Ids : WF_vars(Deliver(i))

-----------------------------------------------------------------------------
(* Every POST that failed is in retry_count, was taken out by a reset, had its
   statement fail, or is still being recorded: neither concurrent deliveries
   nor a PATCH that read the row earlier lose or repeat one.  And retry_count has
   nothing else: a delivery that never came to its POST is not in it, which is to
   say that such a webhook looks as healthy as one without events. *)
FailuresAccounted ==
  \A i \in Ids : Stored(i) =>
    ledger[i].failed = hooks[i].retry + ledger[i].forgiven + ledger[i].lostCounts
                         + flight[i]["error"] + flight[i]["count"]

(* A webhook with failures counted has a last_error to show for them, unless
   the statement that stores it failed. *)
CountedHasError ==
  \A i \in Ids : Stored(i) =>
    (hooks[i].retry > 0 /\ ledger[i].lostErrors = 0 => hooks[i].error)

(* A deleted webhook stays deleted: neither a PATCH that read it before nor a
   delivery in flight brings the row back. *)
DeletedStaysDeleted ==
  [][\A i \in used : ~Stored(i) => ~Stored(i)']_vars

(* Every delivery comes to an end, whatever its webhook holds and the receiver does. *)
InFlight == \E i \in Ids, s \in Steps : flight[i][s] > 0
DeliveriesEnd == InFlight ~> ~InFlight
=============================================================================
