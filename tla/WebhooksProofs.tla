--------------------------- MODULE WebhooksProofs ---------------------------
(* What Webhooks promises for any webhooks, events, PATCH requests and number of
   deliveries: the books of failures balance, and a deleted row stays deleted. *)
EXTENDS Webhooks, TLAPS

-----------------------------------------------------------------------------
(* The inductive invariant. *)

(* An id that has not been given out has no row, no delivery and no history. *)
Fresh ==
  \A i \in Ids : i \notin used =>
    /\ hooks[i] = NoRow
    /\ \A s \in Steps : flight[i][s] = 0
    /\ ledger[i].failed = 0 /\ ledger[i].forgiven = 0
    /\ ledger[i].lostErrors = 0 /\ ledger[i].lostCounts = 0

(* A failure that is counted, or about to be, has its last_error. *)
Explained ==
  \A i \in Ids : Stored(i) =>
    ((hooks[i].retry > 0 \/ flight[i]["count"] > 0) /\ ledger[i].lostErrors = 0
       => hooks[i].error)

IInv == TypeOK /\ Fresh /\ FailuresAccounted /\ Explained

-----------------------------------------------------------------------------
(* What the statements do to one row and one page of the ledger. *)
LEMMA RowEdits ==
  ASSUME NEW h \in Hook
  PROVE  /\ [h EXCEPT !.error = TRUE] \in Hook
         /\ [h EXCEPT !.error = TRUE].error = TRUE
         /\ [h EXCEPT !.error = TRUE].retry = h.retry
         /\ [h EXCEPT !.retry = @ + 1] \in Hook
         /\ [h EXCEPT !.retry = @ + 1].retry = h.retry + 1
         /\ [h EXCEPT !.retry = @ + 1].error = h.error
         /\ [h EXCEPT !.retry = 0] \in Hook
         /\ [h EXCEPT !.retry = 0].retry = 0
         /\ [h EXCEPT !.retry = 0].error = h.error
         /\ [h EXCEPT !.triggered = TRUE] \in Hook
         /\ [h EXCEPT !.triggered = TRUE].retry = h.retry
         /\ [h EXCEPT !.triggered = TRUE].error = h.error
<1>1. h.retry \in Nat /\ h.retry + 1 \in Nat
  BY DEF Hook
<1> QED BY <1>1 DEF Hook

LEMMA LedgerEdits ==
  ASSUME NEW l \in Ledger, NEW n \in Nat
  PROVE  /\ [l EXCEPT !.failed = @ + n] \in Ledger
         /\ [l EXCEPT !.forgiven = @ + n] \in Ledger
         /\ [l EXCEPT !.lostErrors = @ + n] \in Ledger
         /\ [l EXCEPT !.lostCounts = @ + n] \in Ledger
         /\ [l EXCEPT !.lostTriggers = @ + n] \in Ledger
<1>1. /\ l.failed + n \in Nat /\ l.forgiven + n \in Nat /\ l.lostErrors + n \in Nat
      /\ l.lostCounts + n \in Nat /\ l.lostTriggers + n \in Nat
  BY DEF Ledger
<1> QED BY <1>1 DEF Ledger

LEMMA Numbers ==
  ASSUME TypeOK, NEW i \in Ids
  PROVE  /\ \A s \in Steps : flight[i][s] \in Nat
         /\ ledger[i] \in Ledger
         /\ ledger[i].failed \in Nat /\ ledger[i].forgiven \in Nat
         /\ ledger[i].lostErrors \in Nat /\ ledger[i].lostCounts \in Nat
         /\ ledger[i].lostTriggers \in Nat
         /\ Stored(i) => hooks[i] \in Hook /\ hooks[i].retry \in Nat
BY DEF TypeOK, Ledger, Hook, Stored

(* A delivery goes from s to t. *)
LEMMA Advanced ==
  ASSUME TypeOK, NEW i \in Ids, NEW s \in Steps, NEW t \in Steps \cup {End}, s # t,
         Advance(i, s, t)
  PROVE  /\ flight' \in [Ids -> [Steps -> Nat]]
         /\ \A j \in Ids : j # i => flight'[j] = flight[j]
         /\ flight[i][s] > 0 /\ flight'[i][s] = flight[i][s] - 1
         /\ t \in Steps => flight'[i][t] = flight[i][t] + 1
         /\ \A q \in Steps : (q # s /\ q # t) => flight'[i][q] = flight[i][q]
<1> DEFINE f == [q \in Steps |-> flight[i][q] + (IF q = t THEN 1 ELSE 0)
                                            - (IF q = s THEN 1 ELSE 0)]
<1>1. flight' = [flight EXCEPT ![i] = f] /\ flight[i][s] > 0
  BY DEF Advance
<1>2. \A q \in Steps : flight[i][q] \in Nat
  BY Numbers
<1>3. /\ f[s] = flight[i][s] - 1
      /\ t \in Steps => f[t] = flight[i][t] + 1
      /\ \A q \in Steps : (q # s /\ q # t) => f[q] = flight[i][q]
  BY <1>2
<1>4. \A q \in Steps : f[q] \in Nat
  BY <1>1, <1>2, <1>3
<1>5. f \in [Steps -> Nat]
  BY <1>4
<1> HIDE DEF f
<1> QED BY <1>1, <1>3, <1>5 DEF TypeOK

(* Everything the invariant says of one webhook, for the steps that touch only one. *)
Balanced(i) ==
  /\ i \notin used =>
       /\ hooks[i] = NoRow
       /\ \A s \in Steps : flight[i][s] = 0
       /\ ledger[i].failed = 0 /\ ledger[i].forgiven = 0
       /\ ledger[i].lostErrors = 0 /\ ledger[i].lostCounts = 0
  /\ Stored(i) =>
       /\ ledger[i].failed = hooks[i].retry + ledger[i].forgiven + ledger[i].lostCounts
                               + flight[i]["error"] + flight[i]["count"]
       /\ (hooks[i].retry > 0 \/ flight[i]["count"] > 0) /\ ledger[i].lostErrors = 0
            => hooks[i].error

LEMMA BalancedForAll == IInv <=> TypeOK /\ \A i \in Ids : Balanced(i)
BY DEF IInv, Balanced, Fresh, FailuresAccounted, Explained

LEMMA OneTouched ==
  ASSUME IInv, NEW i \in Ids, TypeOK', Balanced(i)',
         used' = used \/ used' = used \cup {i},
         \A j \in Ids : j # i => /\ hooks'[j] = hooks[j]
                                 /\ flight'[j] = flight[j] /\ ledger'[j] = ledger[j]
  PROVE  IInv'
<1>1. \A j \in Ids : j # i => Balanced(j)'
  BY BalancedForAll DEF Balanced, Stored
<1>2. \A j \in Ids : Balanced(j)'
  BY <1>1
<1> QED BY <1>2 DEF IInv, Balanced, Fresh, FailuresAccounted, Explained

-----------------------------------------------------------------------------
(* The API. *)

LEMMA CreateStep ==
  ASSUME IInv, NEW i \in Ids, NEW es \in SUBSET Events, Create(i, es)
  PROVE  IInv'
<1>1. PICK h \in Hook :
        /\ h.retry = 0 /\ hooks' = [hooks EXCEPT ![i] = h]
  <2>1. [events |-> es, status |-> "active", retry |-> 0,
         error |-> FALSE, triggered |-> FALSE] \in Hook
    BY WebhookConstants DEF Hook
  <2> QED BY <2>1 DEF Create
<1>2. /\ i \notin used /\ used' = used \cup {i} /\ requests' = requests + 1
      /\ requests < MaxRequests /\ UNCHANGED <<flight, patch, ledger, dispatches>>
  BY DEF Create, Request
<1>3. hooks' \in [Ids -> Hook \cup {NoRow}] /\ hooks'[i] = h
      /\ \A j \in Ids : j # i => hooks'[j] = hooks[j]
  BY <1>1 DEF IInv, TypeOK
<1>4. requests' \in 0 .. MaxRequests
  BY <1>2, WebhookConstants DEF IInv, TypeOK
<1>5. TypeOK'
  BY <1>2, <1>3, <1>4 DEF IInv, TypeOK
<1>6. Balanced(i)'
  <2>1. /\ flight[i]["error"] = 0 /\ flight[i]["count"] = 0 /\ ledger[i].failed = 0
        /\ ledger[i].forgiven = 0 /\ ledger[i].lostCounts = 0
    BY <1>2 DEF IInv, Fresh, Steps
  <2> QED BY <1>1, <1>2, <1>3, <2>1 DEF Balanced
<1> QED BY <1>2, <1>3, <1>5, <1>6, OneTouched

LEMMA DeleteStep ==
  ASSUME IInv, NEW i \in Ids, Delete(i)
  PROVE  IInv'
<1>1. /\ hooks' = [hooks EXCEPT ![i] = NoRow] /\ requests' = requests + 1
      /\ requests < MaxRequests /\ UNCHANGED <<flight, patch, ledger, used, dispatches>>
  BY DEF Delete, Request
<1>2. hooks' \in [Ids -> Hook \cup {NoRow}] /\ hooks'[i] = NoRow
      /\ \A j \in Ids : j # i => hooks'[j] = hooks[j]
  BY <1>1 DEF IInv, TypeOK
<1>3. requests' \in 0 .. MaxRequests
  BY <1>1, WebhookConstants DEF IInv, TypeOK
<1>4. TypeOK'
  BY <1>1, <1>2, <1>3 DEF IInv, TypeOK
<1>5. Balanced(i)'
  BY <1>1, <1>2, BalancedForAll DEF Balanced, Stored
<1> QED BY <1>1, <1>2, <1>4, <1>5, OneTouched

(* A PATCH that has not come to its UPDATE writes nothing but itself. *)
LEMMA PatchOnly ==
  ASSUME IInv, patch' \in [Procs -> Patch], requests' \in 0 .. MaxRequests,
         UNCHANGED <<hooks, flight, ledger, used, dispatches>>
  PROVE  IInv'
BY DEF IInv, TypeOK, Fresh, FailuresAccounted, Explained, Stored

LEMMA PatchStep ==
  ASSUME IInv, NEW p \in Procs,
         \/ ReadPatch(p) \/ FailPatch(p)
         \/ \E i \in used, es \in SUBSET Events, st \in Statuses \cup {Unset} :
              BeginPatch(p, i, es, st)
  PROVE  IInv'
<1>1. used \subseteq Ids /\ requests \in 0 .. MaxRequests /\ patch \in [Procs -> Patch]
  BY DEF IInv, TypeOK
<1>2. Idle \in Patch
  BY DEF Patch
<1>3. CASE FailPatch(p)
  BY <1>1, <1>2, <1>3, PatchOnly DEF FailPatch
<1>4. ASSUME NEW i \in used, NEW es \in SUBSET Events, NEW st \in Statuses \cup {Unset},
             BeginPatch(p, i, es, st)
      PROVE  IInv'
  <2>1. [kind |-> "read", id |-> i, events |-> es, status |-> st] \in Patch
    BY <1>1 DEF Patch
  <2>2. patch' \in [Procs -> Patch]
    BY <1>1, <1>4, <2>1 DEF BeginPatch
  <2>3. requests' \in 0 .. MaxRequests
    BY <1>1, <1>4, WebhookConstants DEF BeginPatch, Request
  <2> QED BY <1>4, <2>2, <2>3, PatchOnly DEF BeginPatch
<1>5. CASE ReadPatch(p)
  <2>1. patch[p] \in Patch /\ patch[p].kind = "read"
    BY <1>1, <1>5 DEF ReadPatch
  <2>2. /\ patch[p].id \in Ids /\ patch[p].events \in SUBSET Events
        /\ patch[p].status \in Statuses \cup {Unset}
    BY <2>1 DEF Patch, Idle
  <2>3. Stored(patch[p].id) =>
          Merged(hooks[patch[p].id], patch[p].events, patch[p].status) \in Hook
    <3>1. ASSUME NEW h \in Hook, NEW es \in SUBSET Events, NEW st \in Statuses \cup {Unset}
          PROVE  Merged(h, es, st) \in Hook
      BY DEF Merged, Hook
    <3> QED BY <2>2, <3>1, Numbers DEF IInv
  <2>4. PICK c \in Patch : patch' = [patch EXCEPT ![p] = c]
    BY <1>2, <1>5, <2>2, <2>3 DEF ReadPatch, Patch
  <2>5. patch' \in [Procs -> Patch]
    BY <1>1, <2>4
  <2> QED BY <1>1, <1>5, <2>5, PatchOnly DEF ReadPatch
<1> QED BY <1>3, <1>4, <1>5

LEMMA WritePatchStep ==
  ASSUME IInv, NEW p \in Procs, WritePatch(p)
  PROVE  IInv'
<1>1. patch[p] \in Patch /\ patch[p].kind = "write" /\ hooks \in [Ids -> Hook \cup {NoRow}]
  BY DEF IInv, TypeOK, WritePatch
<1>2. PICK i \in Ids, row \in Hook : i = patch[p].id /\ row = patch[p].row
  BY <1>1 DEF Patch, Idle
<1>3. UNCHANGED <<flight, ledger, used, dispatches, requests>>
  BY DEF WritePatch
<1>4. patch' \in [Procs -> Patch]
  BY DEF WritePatch, IInv, TypeOK, Patch
<1>5. CASE ~Stored(i)
  <2>1. hooks' = hooks
    BY <1>2, <1>5 DEF WritePatch
  <2> QED BY <1>3, <1>4, <2>1, PatchOnly DEF IInv, TypeOK
<1>6. CASE Stored(i)
  <2>1. PICK h \in Hook : h = hooks[i]
    BY <1>6, Numbers DEF IInv
  <2>2. PICK n \in Hook : /\ n = [[h EXCEPT !.events = row.events] EXCEPT !.status = row.status]
                          /\ n.retry = h.retry /\ n.error = h.error
    <3> DEFINE n == [h EXCEPT !.events = row.events, !.status = row.status]
    <3>1. n \in Hook /\ n.retry = h.retry /\ n.error = h.error
      BY DEF Hook
    <3> QED BY <3>1
  <2>3. hooks' = [hooks EXCEPT ![i] = n]
    BY <1>1, <1>2, <1>6, <2>1, <2>2 DEF WritePatch
  <2>4. hooks' \in [Ids -> Hook \cup {NoRow}] /\ hooks'[i] = n
        /\ \A j \in Ids : j # i => hooks'[j] = hooks[j]
    BY <1>1, <2>3
  <2>5. TypeOK'
    BY <1>3, <1>4, <2>4 DEF IInv, TypeOK
  <2>6. Balanced(i)
    BY BalancedForAll
  <2>7. Balanced(i)'
    BY <1>3, <1>6, <2>1, <2>2, <2>4, <2>6 DEF Balanced, Stored
  <2> QED BY <1>3, <2>4, <2>5, <2>7, OneTouched
<1> QED BY <1>5, <1>6

-----------------------------------------------------------------------------
(* Deliveries. *)

LEMMA DispatchStep ==
  ASSUME IInv, NEW e \in Events, Dispatch(e)
  PROVE  IInv'
<1>1. /\ flight' = [i \in Ids |->
                      IF Subscribed(i, e) THEN [flight[i] EXCEPT !["build"] = @ + 1]
                                          ELSE flight[i]]
      /\ dispatches' = dispatches + 1 /\ dispatches < MaxDispatches
      /\ UNCHANGED <<hooks, patch, ledger, used, requests>>
  BY DEF Dispatch
<1>2. ASSUME NEW i \in Ids
      PROVE  /\ flight'[i] \in [Steps -> Nat]
             /\ \A s \in Steps : s # "build" => flight'[i][s] = flight[i][s]
             /\ ~Stored(i) => flight'[i] = flight[i]
  <2>1. flight[i] \in [Steps -> Nat] /\ "build" \in Steps
    BY DEF IInv, TypeOK, Steps
  <2>2. \/ flight'[i] = flight[i]
        \/ Stored(i) /\ flight'[i] = [flight[i] EXCEPT !["build"] = @ + 1]
    BY <1>1 DEF Subscribed
  <2> QED BY <2>1, <2>2
<1>3. flight' \in [Ids -> [Steps -> Nat]]
  BY <1>1, <1>2
<1>4. dispatches' \in 0 .. MaxDispatches
  BY <1>1, WebhookConstants DEF IInv, TypeOK
<1>5. TypeOK'
  BY <1>1, <1>3, <1>4 DEF IInv, TypeOK
<1>6. ASSUME NEW i \in Ids PROVE Balanced(i)'
  <2>1. Balanced(i)
    BY BalancedForAll
  <2>2. flight'[i]["error"] = flight[i]["error"] /\ flight'[i]["count"] = flight[i]["count"]
    BY <1>2 DEF Steps
  <2>3. i \notin used => \A s \in Steps : flight'[i][s] = 0
    BY <1>2, <2>1 DEF Balanced, Stored
  <2> QED BY <1>1, <2>1, <2>2, <2>3 DEF Balanced, Stored
<1> QED BY <1>5, <1>6 DEF IInv, Balanced, Fresh, FailuresAccounted, Explained

(* What a step of a delivery has to say for itself: where it goes, and that row and
   ledger of its webhook still balance. *)
LEMMA DeliveryStep ==
  ASSUME IInv, NEW i \in Ids, NEW s \in Steps, NEW t \in Steps \cup {End}, s # t,
         Advance(i, s, t), UNCHANGED <<patch, used, dispatches, requests>>,
         NEW h \in Hook \cup {NoRow}, NEW l \in Ledger,
         hooks' = [hooks EXCEPT ![i] = h], ledger' = [ledger EXCEPT ![i] = l],
         h = NoRow <=> hooks[i] = NoRow,
         Stored(i) =>
           /\ l.failed = h.retry + l.forgiven + l.lostCounts
                          + flight'[i]["error"] + flight'[i]["count"]
           /\ (h.retry > 0 \/ flight'[i]["count"] > 0) /\ l.lostErrors = 0 => h.error
  PROVE  IInv'
<1>1. TypeOK
  BY DEF IInv
<1>2. /\ hooks' \in [Ids -> Hook \cup {NoRow}] /\ hooks'[i] = h
      /\ ledger' \in [Ids -> Ledger] /\ ledger'[i] = l
      /\ \A j \in Ids : j # i => hooks'[j] = hooks[j] /\ ledger'[j] = ledger[j]
  BY <1>1 DEF TypeOK
<1>3. /\ flight' \in [Ids -> [Steps -> Nat]] /\ flight[i][s] > 0
      /\ \A j \in Ids : j # i => flight'[j] = flight[j]
  BY <1>1, Advanced
<1>4. TypeOK'
  BY <1>1, <1>2, <1>3 DEF TypeOK
<1>5. i \in used
  BY <1>3 DEF IInv, Fresh
<1>6. Balanced(i)'
  BY <1>2, <1>5 DEF Balanced, Stored
<1> QED BY <1>2, <1>3, <1>4, <1>6, OneTouched

(* The state of one webhook before a step of a delivery, and the ways to go. *)
LEMMA Before ==
  ASSUME IInv, NEW i \in Ids
  PROVE  /\ TypeOK /\ Balanced(i) /\ ledger[i] \in Ledger
         /\ hooks = [hooks EXCEPT ![i] = hooks[i]]
         /\ ledger = [ledger EXCEPT ![i] = ledger[i]]
         /\ hooks[i] \in Hook \cup {NoRow}
         /\ flight[i]["error"] \in Nat /\ flight[i]["count"] \in Nat
         /\ Stored(i) => hooks[i] \in Hook /\ hooks[i].retry \in Nat
BY BalancedForAll, Numbers DEF IInv, TypeOK, Steps, Stored

LEMMA StepNames ==
  /\ "build" \in Steps /\ "post" \in Steps /\ "error" \in Steps /\ "count" \in Steps
  /\ "trigger" \in Steps /\ "reset" \in Steps /\ End \notin Steps
BY DEF Steps, End

(* The steps that write neither the row nor the ledger. *)
LEMMA QuietStep ==
  ASSUME IInv, NEW i \in Ids, BuildRequest(i) \/ BuildFails(i) \/ PostSucceeds(i)
  PROVE  IInv'
<1>1. PICK s \in {"build", "post"}, t \in {"post", "trigger", End} :
        /\ s # t /\ Advance(i, s, t)
        /\ UNCHANGED <<hooks, patch, ledger, used, dispatches, requests>>
  BY StepNames DEF BuildRequest, BuildFails, PostSucceeds
<1>2. flight'[i]["error"] = flight[i]["error"] /\ flight'[i]["count"] = flight[i]["count"]
  BY <1>1, Before, StepNames, Advanced DEF End
<1>3. PICK h \in Hook \cup {NoRow}, l \in Ledger : h = hooks[i] /\ l = ledger[i]
  BY Before
<1>4. Stored(i) =>
        /\ l.failed = h.retry + l.forgiven + l.lostCounts
                       + flight'[i]["error"] + flight'[i]["count"]
        /\ (h.retry > 0 \/ flight'[i]["count"] > 0) /\ l.lostErrors = 0 => h.error
  BY <1>2, <1>3, Before DEF Balanced
<1>5. hooks' = [hooks EXCEPT ![i] = h] /\ ledger' = [ledger EXCEPT ![i] = l]
  BY <1>1, <1>3, Before
<1>6. s \in Steps /\ t \in Steps \cup {End} /\ UNCHANGED <<patch, used, dispatches, requests>>
  BY <1>1, StepNames
<1>7. h = NoRow <=> hooks[i] = NoRow
  BY <1>3
<1> QED BY <1>1, <1>4, <1>5, <1>6, <1>7, DeliveryStep

LEMMA PostFailsStep ==
  ASSUME IInv, NEW i \in Ids, PostFails(i)
  PROVE  IInv'
<1>1. /\ Advance(i, "post", "error") /\ UNCHANGED <<hooks, patch, used, dispatches, requests>>
      /\ ledger' = [ledger EXCEPT ![i].failed = @ + 1]
  BY DEF PostFails
<1>2. /\ flight'[i]["error"] = flight[i]["error"] + 1
      /\ flight'[i]["count"] = flight[i]["count"]
  BY <1>1, Before, StepNames, Advanced
<1>3. PICK h \in Hook \cup {NoRow}, m \in Ledger : h = hooks[i] /\ m = ledger[i]
  BY Before
<1>4. PICK l \in Ledger : l = [m EXCEPT !.failed = @ + 1]
  BY LedgerEdits
<1>5. /\ l.failed = m.failed + 1 /\ l.forgiven = m.forgiven
      /\ l.lostCounts = m.lostCounts /\ l.lostErrors = m.lostErrors
      /\ m.failed \in Nat /\ m.forgiven \in Nat /\ m.lostCounts \in Nat
  BY <1>4 DEF Ledger
<1>6. hooks' = [hooks EXCEPT ![i] = h] /\ ledger' = [ledger EXCEPT ![i] = l]
  BY <1>1, <1>3, <1>4, Before
<1>7. /\ flight[i]["error"] \in Nat /\ flight[i]["count"] \in Nat
      /\ Stored(i) => h.retry \in Nat
  BY <1>3, Before
<1>8. Stored(i) =>
        /\ m.failed = h.retry + m.forgiven + m.lostCounts
                         + flight[i]["error"] + flight[i]["count"]
        /\ (h.retry > 0 \/ flight[i]["count"] > 0) /\ m.lostErrors = 0 => h.error
  BY <1>3, Before DEF Balanced
<1>9. Stored(i) =>
        /\ l.failed = h.retry + l.forgiven + l.lostCounts
                         + flight'[i]["error"] + flight'[i]["count"]
        /\ (h.retry > 0 \/ flight'[i]["count"] > 0) /\ l.lostErrors = 0 => h.error
  BY <1>2, <1>5, <1>7, <1>8
<1> QED BY <1>1, <1>3, <1>6, <1>9, StepNames, DeliveryStep

LEMMA RecordErrorStep ==
  ASSUME IInv, NEW i \in Ids, RecordError(i)
  PROVE  IInv'
<1>1. Advance(i, "error", "count") /\ UNCHANGED <<patch, used, dispatches, requests>>
  BY DEF RecordError
<1>2. /\ flight'[i]["error"] = flight[i]["error"] - 1
      /\ flight'[i]["count"] = flight[i]["count"] + 1
  BY <1>1, Before, StepNames, Advanced
<1>3. PICK h \in Hook \cup {NoRow}, m \in Ledger : h = hooks[i] /\ m = ledger[i]
  BY Before
<1>4. /\ flight[i]["error"] \in Nat /\ flight[i]["count"] \in Nat
      /\ Stored(i) => h \in Hook /\ h.retry \in Nat
      /\ m.failed \in Nat /\ m.forgiven \in Nat /\ m.lostCounts \in Nat
      /\ m.lostErrors \in Nat
  BY <1>3, Before DEF Ledger
<1>5. Stored(i) => m.failed = h.retry + m.forgiven + m.lostCounts
                                + flight[i]["error"] + flight[i]["count"]
  BY <1>3, Before DEF Balanced
<1>6. CASE Stored(i) /\ hooks' = [hooks EXCEPT ![i].error = TRUE] /\ ledger' = ledger
  <2>1. PICK n \in Hook : n = [h EXCEPT !.error = TRUE]
    BY <1>4, <1>6, RowEdits
  <2>2. n.error = TRUE /\ n.retry = h.retry
    BY <1>4, <1>6, <2>1, RowEdits
  <2>3. hooks' = [hooks EXCEPT ![i] = n] /\ ledger' = [ledger EXCEPT ![i] = m]
    BY <1>3, <1>6, <2>1, Before
  <2>4. m.failed = n.retry + m.forgiven + m.lostCounts
                     + flight'[i]["error"] + flight'[i]["count"]
    BY <1>2, <1>4, <1>5, <1>6, <2>2
  <2>5. n = NoRow <=> hooks[i] = NoRow
    BY <1>6, NoRowIsNoHook DEF Stored
  <2> QED BY <1>1, <2>2, <2>3, <2>4, <2>5, StepNames, DeliveryStep
<1>7. CASE hooks' = hooks /\ ledger' = [ledger EXCEPT ![i].lostErrors = @ + 1]
  <2>1. PICK l \in Ledger : l = [m EXCEPT !.lostErrors = @ + 1]
    BY LedgerEdits
  <2>2. /\ l.lostErrors = m.lostErrors + 1 /\ l.failed = m.failed
        /\ l.forgiven = m.forgiven /\ l.lostCounts = m.lostCounts
    BY <2>1 DEF Ledger
  <2>3. hooks' = [hooks EXCEPT ![i] = h] /\ ledger' = [ledger EXCEPT ![i] = l]
    BY <1>3, <1>7, <2>1, Before
  <2>4. ASSUME Stored(i)
        PROVE  l.failed = h.retry + l.forgiven + l.lostCounts
                            + flight'[i]["error"] + flight'[i]["count"]
    <3>1. m.failed = h.retry + m.forgiven + m.lostCounts
                       + flight[i]["error"] + flight[i]["count"]
      BY <1>5, <2>4
    <3>2. h.retry \in Nat
      BY <1>4, <2>4
    <3> QED BY <1>2, <1>4, <2>2, <3>1, <3>2
  <2>5. l.lostErrors # 0
    BY <1>4, <2>2
  <2> QED BY <1>1, <1>3, <2>3, <2>4, <2>5, StepNames, DeliveryStep
<1> QED BY <1>6, <1>7 DEF RecordError

LEMMA CountFailureStep ==
  ASSUME IInv, NEW i \in Ids, CountFailure(i)
  PROVE  IInv'
<1>1. Advance(i, "count", End) /\ UNCHANGED <<patch, used, dispatches, requests>>
  BY DEF CountFailure
<1>2. /\ flight'[i]["error"] = flight[i]["error"]
      /\ flight'[i]["count"] = flight[i]["count"] - 1 /\ flight[i]["count"] > 0
  BY <1>1, Before, StepNames, Advanced
<1>3. PICK h \in Hook \cup {NoRow}, m \in Ledger : h = hooks[i] /\ m = ledger[i]
  BY Before
<1>4. /\ flight[i]["error"] \in Nat /\ flight[i]["count"] \in Nat
      /\ Stored(i) => h \in Hook /\ h.retry \in Nat
      /\ m.failed \in Nat /\ m.forgiven \in Nat /\ m.lostCounts \in Nat
  BY <1>3, Before DEF Ledger
<1>5. Stored(i) =>
        /\ m.failed = h.retry + m.forgiven + m.lostCounts
                         + flight[i]["error"] + flight[i]["count"]
        /\ m.lostErrors = 0 => h.error
  BY <1>2, <1>3, Before DEF Balanced
<1>6. CASE Stored(i) /\ hooks' = [hooks EXCEPT ![i].retry = @ + 1] /\ ledger' = ledger
  <2>1. PICK n \in Hook : n = [h EXCEPT !.retry = @ + 1]
    BY <1>4, <1>6, RowEdits
  <2>2. n.error = h.error /\ n.retry = h.retry + 1
    BY <1>4, <1>6, <2>1, RowEdits
  <2>3. hooks' = [hooks EXCEPT ![i] = n] /\ ledger' = [ledger EXCEPT ![i] = m]
    BY <1>3, <1>6, <2>1, Before
  <2>4. m.failed = n.retry + m.forgiven + m.lostCounts
                     + flight'[i]["error"] + flight'[i]["count"]
    BY <1>2, <1>4, <1>5, <1>6, <2>2
  <2>5. n = NoRow <=> hooks[i] = NoRow
    BY <1>6, NoRowIsNoHook DEF Stored
  <2>6. m.lostErrors = 0 => n.error
    BY <1>5, <1>6, <2>2
  <2> QED BY <1>1, <2>3, <2>4, <2>5, <2>6, StepNames, DeliveryStep
<1>7. CASE hooks' = hooks /\ ledger' = [ledger EXCEPT ![i].lostCounts = @ + 1]
  <2>1. PICK l \in Ledger : l = [m EXCEPT !.lostCounts = @ + 1]
    BY LedgerEdits
  <2>2. /\ l.lostErrors = m.lostErrors /\ l.failed = m.failed
        /\ l.forgiven = m.forgiven /\ l.lostCounts = m.lostCounts + 1
    BY <2>1 DEF Ledger
  <2>3. hooks' = [hooks EXCEPT ![i] = h] /\ ledger' = [ledger EXCEPT ![i] = l]
    BY <1>3, <1>7, <2>1, Before
  <2>4. ASSUME Stored(i)
        PROVE  l.failed = h.retry + l.forgiven + l.lostCounts
                            + flight'[i]["error"] + flight'[i]["count"]
    BY <1>2, <1>4, <1>5, <2>2, <2>4
  <2>5. Stored(i) => (l.lostErrors = 0 => h.error)
    BY <1>5, <2>2
  <2> QED BY <1>1, <1>3, <2>3, <2>4, <2>5, StepNames, DeliveryStep
<1> QED BY <1>6, <1>7 DEF CountFailure

LEMMA RecordTriggerStep ==
  ASSUME IInv, NEW i \in Ids, RecordTrigger(i)
  PROVE  IInv'
<1>1. Advance(i, "trigger", "reset") /\ UNCHANGED <<patch, used, dispatches, requests>>
  BY DEF RecordTrigger
<1>2. /\ flight'[i]["error"] = flight[i]["error"]
      /\ flight'[i]["count"] = flight[i]["count"]
  BY <1>1, Before, StepNames, Advanced
<1>3. PICK h \in Hook \cup {NoRow}, m \in Ledger : h = hooks[i] /\ m = ledger[i]
  BY Before
<1>4. Stored(i) =>
        /\ h \in Hook
        /\ m.failed = h.retry + m.forgiven + m.lostCounts
                         + flight'[i]["error"] + flight'[i]["count"]
        /\ (h.retry > 0 \/ flight'[i]["count"] > 0) /\ m.lostErrors = 0 => h.error
  BY <1>2, <1>3, Before DEF Balanced
<1>5. CASE Stored(i) /\ hooks' = [hooks EXCEPT ![i].triggered = TRUE] /\ ledger' = ledger
  <2>1. PICK n \in Hook : n = [h EXCEPT !.triggered = TRUE]
    BY <1>4, <1>5, RowEdits
  <2>2. n.error = h.error /\ n.retry = h.retry
    BY <1>4, <1>5, <2>1, RowEdits
  <2>3. hooks' = [hooks EXCEPT ![i] = n] /\ ledger' = [ledger EXCEPT ![i] = m]
    BY <1>3, <1>5, <2>1, Before
  <2>4. n = NoRow <=> hooks[i] = NoRow
    BY <1>5, NoRowIsNoHook DEF Stored
  <2>5. /\ m.failed = n.retry + m.forgiven + m.lostCounts
                         + flight'[i]["error"] + flight'[i]["count"]
        /\ (n.retry > 0 \/ flight'[i]["count"] > 0) /\ m.lostErrors = 0 => n.error
    BY <1>4, <1>5, <2>2
  <2> QED BY <1>1, <2>3, <2>4, <2>5, StepNames, DeliveryStep
<1>6. CASE hooks' = hooks /\ ledger' = [ledger EXCEPT ![i].lostTriggers = @ + 1]
  <2>1. PICK l \in Ledger : l = [m EXCEPT !.lostTriggers = @ + 1]
    BY LedgerEdits
  <2>2. /\ l.lostErrors = m.lostErrors /\ l.failed = m.failed
        /\ l.forgiven = m.forgiven /\ l.lostCounts = m.lostCounts
    BY <2>1 DEF Ledger
  <2>3. hooks' = [hooks EXCEPT ![i] = h] /\ ledger' = [ledger EXCEPT ![i] = l]
    BY <1>3, <1>6, <2>1, Before
  <2>4. Stored(i) =>
          /\ l.failed = h.retry + l.forgiven + l.lostCounts
                           + flight'[i]["error"] + flight'[i]["count"]
          /\ (h.retry > 0 \/ flight'[i]["count"] > 0) /\ l.lostErrors = 0 => h.error
    BY <1>4, <2>2
  <2> QED BY <1>1, <1>3, <2>3, <2>4, StepNames, DeliveryStep
<1> QED BY <1>5, <1>6 DEF RecordTrigger

LEMMA ResetRetriesStep ==
  ASSUME IInv, NEW i \in Ids, ResetRetries(i)
  PROVE  IInv'
<1>1. Advance(i, "reset", End) /\ UNCHANGED <<patch, used, dispatches, requests>>
  BY DEF ResetRetries
<1>2. /\ flight'[i]["error"] = flight[i]["error"]
      /\ flight'[i]["count"] = flight[i]["count"]
  BY <1>1, Before, StepNames, Advanced
<1>3. PICK h \in Hook \cup {NoRow}, m \in Ledger : h = hooks[i] /\ m = ledger[i]
  BY Before
<1>4. /\ flight[i]["error"] \in Nat /\ flight[i]["count"] \in Nat
      /\ Stored(i) => h \in Hook /\ h.retry \in Nat
      /\ m.failed \in Nat /\ m.forgiven \in Nat /\ m.lostCounts \in Nat
  BY <1>3, Before DEF Ledger
<1>5. Stored(i) =>
        /\ m.failed = h.retry + m.forgiven + m.lostCounts
                         + flight[i]["error"] + flight[i]["count"]
        /\ (h.retry > 0 \/ flight[i]["count"] > 0) /\ m.lostErrors = 0 => h.error
  BY <1>3, Before DEF Balanced
<1>6. CASE /\ Stored(i) /\ hooks' = [hooks EXCEPT ![i].retry = 0]
           /\ ledger' = [ledger EXCEPT ![i].forgiven = @ + hooks[i].retry]
  <2>1. PICK n \in Hook : n = [h EXCEPT !.retry = 0]
    BY <1>4, <1>6, RowEdits
  <2>2. n.error = h.error /\ n.retry = 0
    BY <1>4, <1>6, <2>1, RowEdits
  <2>3. PICK l \in Ledger : l = [m EXCEPT !.forgiven = @ + h.retry]
    BY <1>4, <1>6, LedgerEdits
  <2>4. /\ l.lostErrors = m.lostErrors /\ l.failed = m.failed
        /\ l.forgiven = m.forgiven + h.retry /\ l.lostCounts = m.lostCounts
    BY <2>3 DEF Ledger
  <2>5. hooks' = [hooks EXCEPT ![i] = n] /\ ledger' = [ledger EXCEPT ![i] = l]
    BY <1>3, <1>6, <2>1, <2>3, Before
  <2>6. l.failed = n.retry + l.forgiven + l.lostCounts
                     + flight'[i]["error"] + flight'[i]["count"]
    BY <1>2, <1>4, <1>5, <1>6, <2>2, <2>4
  <2>7. n = NoRow <=> hooks[i] = NoRow
    BY <1>6, NoRowIsNoHook DEF Stored
  <2>8. (n.retry > 0 \/ flight'[i]["count"] > 0) /\ l.lostErrors = 0 => n.error
    BY <1>2, <1>5, <1>6, <2>2, <2>4
  <2> QED BY <1>1, <2>5, <2>6, <2>7, <2>8, StepNames, DeliveryStep
<1>7. CASE UNCHANGED <<hooks, ledger>>
  <2>1. hooks' = [hooks EXCEPT ![i] = h] /\ ledger' = [ledger EXCEPT ![i] = m]
    BY <1>3, <1>7, Before
  <2>2. Stored(i) =>
          /\ m.failed = h.retry + m.forgiven + m.lostCounts
                           + flight'[i]["error"] + flight'[i]["count"]
          /\ (h.retry > 0 \/ flight'[i]["count"] > 0) /\ m.lostErrors = 0 => h.error
    BY <1>2, <1>5
  <2> QED BY <1>1, <1>3, <2>1, <2>2, StepNames, DeliveryStep
<1> QED BY <1>6, <1>7 DEF ResetRetries

LEMMA CrashStep ==
  ASSUME IInv, Crash
  PROVE  IInv'
<1>1. /\ flight' = [i \in Ids |-> NoFlight] /\ patch' = [p \in Procs |-> Idle]
      /\ UNCHANGED <<hooks, used, dispatches, requests>>
  BY DEF Crash
<1>2. ASSUME NEW i \in Ids
      PROVE  /\ ledger'[i] \in Ledger
             /\ ledger'[i].failed = ledger[i].failed
             /\ ledger'[i].forgiven = ledger[i].forgiven
             /\ ledger'[i].lostErrors = ledger[i].lostErrors + flight[i]["error"]
             /\ ledger'[i].lostCounts = ledger[i].lostCounts + flight[i]["error"]
                                           + flight[i]["count"]
  <2>1. PICK m \in Ledger : m = ledger[i]
    BY Before
  <2>2. PICK e \in Nat, c \in Nat, t \in Nat :
          e = flight[i]["error"] /\ c = flight[i]["count"] /\ t = flight[i]["trigger"]
    BY Before, StepNames, Numbers
  <2>3. /\ m.lostErrors + e \in Nat /\ m.lostCounts + e + c \in Nat
        /\ m.lostTriggers + t \in Nat
    BY DEF Ledger
  <2>4. ledger'[i] = [failed |-> m.failed, forgiven |-> m.forgiven,
                      lostErrors |-> m.lostErrors + e,
                      lostCounts |-> m.lostCounts + e + c,
                      lostTriggers |-> m.lostTriggers + t]
    BY <2>1, <2>2 DEF Crash, Ledger
  <2> QED BY <2>1, <2>2, <2>3, <2>4 DEF Ledger
<1>3. \A i \in Ids, s \in Steps : flight'[i][s] = 0
  BY <1>1 DEF NoFlight
<1>4. TypeOK'
  <2>1. ledger' \in [Ids -> Ledger]
    BY <1>2 DEF Crash
  <2>2. flight' \in [Ids -> [Steps -> Nat]] /\ patch' \in [Procs -> Patch]
    BY <1>1 DEF NoFlight, Patch
  <2> QED BY <1>1, <2>1, <2>2 DEF IInv, TypeOK
<1>5. ASSUME NEW i \in Ids PROVE Balanced(i)'
  <2>1. /\ Balanced(i) /\ flight[i]["error"] \in Nat /\ flight[i]["count"] \in Nat
        /\ ledger[i].failed \in Nat /\ ledger[i].forgiven \in Nat
        /\ ledger[i].lostErrors \in Nat /\ ledger[i].lostCounts \in Nat
        /\ Stored(i) => hooks[i].retry \in Nat
    BY Before, Numbers
  <2>2. flight'[i]["error"] = 0 /\ flight'[i]["count"] = 0
    BY <1>3, StepNames
  <2>3. i \notin used => flight[i]["error"] = 0 /\ flight[i]["count"] = 0
    BY <2>1, StepNames DEF Balanced
  <2>4. ASSUME i \notin used'
        PROVE  /\ hooks'[i] = NoRow /\ \A s \in Steps : flight'[i][s] = 0
               /\ ledger'[i].failed = 0 /\ ledger'[i].forgiven = 0
               /\ ledger'[i].lostErrors = 0 /\ ledger'[i].lostCounts = 0
    BY <1>1, <1>2, <1>3, <2>1, <2>3, <2>4 DEF Balanced
  <2>5. ASSUME Stored(i)'
        PROVE  /\ ledger'[i].failed = hooks'[i].retry + ledger'[i].forgiven
                     + ledger'[i].lostCounts + flight'[i]["error"] + flight'[i]["count"]
               /\ (hooks'[i].retry > 0 \/ flight'[i]["count"] > 0)
                    /\ ledger'[i].lostErrors = 0 => hooks'[i].error
    <3>1. Stored(i) /\ hooks'[i] = hooks[i]
      BY <1>1, <2>5 DEF Stored
    <3>2. ledger[i].failed = hooks[i].retry + ledger[i].forgiven + ledger[i].lostCounts
                               + flight[i]["error"] + flight[i]["count"]
      BY <2>1, <3>1 DEF Balanced
    <3>3. (hooks[i].retry > 0 /\ ledger[i].lostErrors = 0) => hooks[i].error
      BY <2>1, <3>1 DEF Balanced
    <3> QED BY <1>2, <2>1, <2>2, <3>1, <3>2, <3>3
  <2> QED BY <2>4, <2>5 DEF Balanced
<1> QED BY <1>4, <1>5 DEF IInv, Balanced, Fresh, FailuresAccounted, Explained

-----------------------------------------------------------------------------
LEMMA Start == Init => IInv
<1> SUFFICES ASSUME Init PROVE IInv
  OBVIOUS
<1>1. TypeOK
  BY WebhookConstants DEF Init, TypeOK, Patch, Ledger, NoFlight
<1>2. ASSUME NEW i \in Ids PROVE Balanced(i)
  BY DEF Init, Balanced, Stored, NoFlight
<1> QED BY <1>1, <1>2, BalancedForAll

LEMMA Inductive == IInv /\ [Next]_vars => IInv'
<1> SUFFICES ASSUME IInv, [Next]_vars PROVE IInv'
  OBVIOUS
<1>1. ASSUME NEW i \in Ids, Deliver(i) \/ PostSucceeds(i) \/ PostFails(i) \/ Delete(i)
      PROVE  IInv'
  BY <1>1, QuietStep, PostFailsStep, RecordErrorStep, CountFailureStep, RecordTriggerStep,
     ResetRetriesStep, DeleteStep DEF Deliver, PostTimesOut
<1>2. ASSUME NEW i \in Ids, NEW es \in SUBSET Events, Create(i, es)
      PROVE  IInv'
  BY <1>2, CreateStep
<1>3. ASSUME NEW p \in Procs, ReadPatch(p) \/ WritePatch(p) \/ FailPatch(p)
      PROVE  IInv'
  BY <1>3, PatchStep, WritePatchStep
<1>4. ASSUME NEW p \in Procs, NEW i \in used, NEW es \in SUBSET Events,
             NEW st \in Statuses \cup {Unset}, BeginPatch(p, i, es, st)
      PROVE  IInv'
  BY <1>4, PatchStep
<1>5. ASSUME NEW e \in Events, Dispatch(e)
      PROVE  IInv'
  BY <1>5, DispatchStep
<1>6. CASE Crash
  BY <1>6, CrashStep
<1>7. CASE UNCHANGED vars
  BY <1>7, PatchOnly DEF vars, IInv, TypeOK
<1> QED BY <1>1, <1>2, <1>3, <1>4, <1>5, <1>6, <1>7 DEF Next

(* No step but Create gives an id a row, and Create takes an id that is new. *)
LEMMA NoRevival ==
  ASSUME TypeOK, [Next]_vars, NEW i \in used, ~Stored(i)
  PROVE  ~Stored(i)'
<1>1. i \in Ids /\ hooks \in [Ids -> Hook \cup {NoRow}] /\ hooks[i] = NoRow
  BY DEF TypeOK, Stored
<1>2. CASE hooks' = hooks
  BY <1>2 DEF Stored
<1>3. ASSUME NEW j \in Ids, Deliver(j) \/ PostSucceeds(j) \/ PostFails(j) \/ Delete(j)
      PROVE  hooks'[i] = NoRow
  <2>1. CASE j # i
    BY <1>1, <1>3, <2>1 DEF Deliver, PostTimesOut, BuildRequest, BuildFails,
       PostSucceeds, PostFails, Delete, RecordError, CountFailure, RecordTrigger, ResetRetries
  <2>2. CASE j = i
    BY <1>1, <1>3, <2>2 DEF Deliver, PostTimesOut, BuildRequest, BuildFails,
       PostSucceeds, PostFails, Delete, RecordError, CountFailure, RecordTrigger, ResetRetries, Stored
  <2> QED BY <2>1, <2>2
<1>4. ASSUME NEW j \in Ids, NEW es \in SUBSET Events, Create(j, es)
      PROVE  hooks'[i] = NoRow
  BY <1>1, <1>4 DEF Create
<1>5. ASSUME NEW p \in Procs, WritePatch(p)
      PROVE  hooks'[i] = NoRow
  <2>1. patch[p] \in Patch /\ patch[p].kind = "write"
    BY <1>5 DEF TypeOK, WritePatch
  <2>2. patch[p].id \in Ids
    BY <2>1 DEF Patch, Idle
  <2>3. CASE patch[p].id = i
    BY <1>1, <1>5, <2>3 DEF WritePatch, Stored
  <2>4. CASE patch[p].id # i
    BY <1>1, <1>5, <2>2, <2>4 DEF WritePatch
  <2> QED BY <2>3, <2>4
<1>6. ASSUME NEW p \in Procs, ReadPatch(p) \/ FailPatch(p)
      PROVE  hooks' = hooks
  BY <1>6 DEF ReadPatch, FailPatch
<1>7. ASSUME NEW p \in Procs, NEW j \in used, NEW es \in SUBSET Events,
             NEW st \in Statuses \cup {Unset}, BeginPatch(p, j, es, st)
      PROVE  hooks' = hooks
  BY <1>7 DEF BeginPatch
<1>8. (\E e \in Events : Dispatch(e)) \/ Crash \/ UNCHANGED vars => hooks' = hooks
  BY DEF Dispatch, Crash, vars
<1> QED BY <1>2, <1>3, <1>4, <1>5, <1>6, <1>7, <1>8 DEF Next, Stored

LEMMA AlwaysIInv == Spec => []IInv
BY Start, Inductive, PTL DEF Spec

(* Every variable keeps its type. *)
THEOREM WebhookTypes == Spec => []TypeOK
<1>1. IInv => TypeOK
  BY DEF IInv
<1> QED BY <1>1, AlwaysIInv, PTL

(* The POSTs that failed, and they alone, are in retry_count, forgiven by a reset,
   lost with a failed statement or still being recorded, whatever deliveries,
   requests and crashes interleave, and however many deliveries end before their
   POST with nothing recorded. *)
THEOREM WebhookFailuresAccounted == Spec => []FailuresAccounted
<1>1. IInv => FailuresAccounted
  BY DEF IInv
<1> QED BY <1>1, AlwaysIInv, PTL

(* A webhook that counts failures shows a last_error, unless storing it failed. *)
THEOREM WebhookCountsAreExplained == Spec => []CountedHasError
<1>1. IInv => CountedHasError
  BY DEF IInv, Explained, CountedHasError
<1> QED BY <1>1, AlwaysIInv, PTL

(* No delivery in flight and no PATCH that read the row before its DELETE brings a
   deleted webhook back. *)
THEOREM WebhooksStayDeleted == Spec => DeletedStaysDeleted
<1>1. IInv /\ [Next]_vars => [\A i \in used : ~Stored(i) => ~Stored(i)']_vars
  BY NoRevival DEF IInv
<1> QED BY <1>1, AlwaysIInv, PTL DEF Spec, DeletedStaysDeleted
-----------------------------------------------------------------------------
(* What DeliveriesEnd rests on, and that a delivery is made once: both are about the
   deliveries of a webhook that have not ended. *)

(* The steps that the deliveries of i have before them, at most. *)
WorkLeft(i) ==
  4 * flight[i]["build"] + 3 * flight[i]["post"]
    + 2 * flight[i]["error"] + 2 * flight[i]["trigger"] + flight[i]["count"] + flight[i]["reset"]

(* A failure of i stands for a call of Dispatch, and so does a delivery that can
   still fail or has succeeded and is being recorded: none for two of them. *)
FailedOnceEach ==
  \A i \in Ids :
    ledger[i].failed + flight[i]["build"] + flight[i]["post"]
      + flight[i]["trigger"] + flight[i]["reset"] <= dispatches

RunsDown ==
  \A i \in Ids : /\ Deliver(i) => WorkLeft(i)' < WorkLeft(i)
                 /\ dispatches' = dispatches => WorkLeft(i)' <= WorkLeft(i)

(* A step of a delivery of j. *)
DeliveryMoves(j) ==
  \E s \in Steps, t \in Steps \cup {End} :
    /\ Advance(j, s, t)
    /\ <<s, t>> \in {<<"build", "post">>, <<"build", End>>,
                     <<"post", "trigger">>, <<"post", "error">>, <<"error", "count">>,
                     <<"count", End>>, <<"trigger", "reset">>, <<"reset", End>>}
    /\ dispatches' = dispatches
    /\ \A i \in Ids : ledger'[i].failed =
         IF i = j /\ <<s, t>> = <<"post", "error">> THEN ledger[i].failed + 1
                                                  ELSE ledger[i].failed

LEMMA RecordsMove ==
  ASSUME TypeOK, NEW j \in Ids,
         RecordError(j) \/ CountFailure(j) \/ RecordTrigger(j) \/ ResetRetries(j)
  PROVE  DeliveryMoves(j)
<1>1. \A i \in Ids : ledger'[i].failed = ledger[i].failed
  <2>1. CASE RecordError(j)
    BY <2>1 DEF RecordError, TypeOK, Ledger
  <2>2. CASE CountFailure(j)
    BY <2>2 DEF CountFailure, TypeOK, Ledger
  <2>3. CASE RecordTrigger(j)
    BY <2>3 DEF RecordTrigger, TypeOK, Ledger
  <2>4. CASE ResetRetries(j)
    BY <2>4 DEF ResetRetries, TypeOK, Ledger
  <2> QED BY <2>1, <2>2, <2>3, <2>4
<1>2. CASE RecordError(j)
  BY <1>1, <1>2 DEF RecordError, DeliveryMoves, Steps
<1>3. CASE CountFailure(j)
  BY <1>1, <1>3 DEF CountFailure, DeliveryMoves, Steps
<1>4. CASE RecordTrigger(j)
  BY <1>1, <1>4 DEF RecordTrigger, DeliveryMoves, Steps
<1>5. CASE ResetRetries(j)
  BY <1>1, <1>5 DEF ResetRetries, DeliveryMoves, Steps
<1> QED BY <1>2, <1>3, <1>4, <1>5

LEMMA PostsMove ==
  ASSUME TypeOK, NEW j \in Ids,
         BuildRequest(j) \/ BuildFails(j) \/ PostSucceeds(j) \/ PostFails(j)
  PROVE  DeliveryMoves(j)
<1>0. CASE BuildRequest(j) \/ BuildFails(j)
  BY <1>0 DEF BuildRequest, BuildFails, DeliveryMoves, Steps
<1>1. CASE PostSucceeds(j)
  BY <1>1 DEF PostSucceeds, DeliveryMoves, Steps
<1>2. CASE PostFails(j)
  <2>1. \A i \in Ids : ledger'[i].failed =
          IF i = j THEN ledger[i].failed + 1 ELSE ledger[i].failed
    BY <1>2 DEF PostFails, TypeOK, Ledger
  <2> QED BY <1>2, <2>1 DEF PostFails, DeliveryMoves, Steps
<1> QED BY <1>0, <1>1, <1>2

(* Its effect on the two sums. *)
LEMMA MoveSums ==
  ASSUME TypeOK, TypeOK', FailedOnceEach, NEW j \in Ids, DeliveryMoves(j)
  PROVE  /\ FailedOnceEach'
         /\ WorkLeft(j)' < WorkLeft(j)
         /\ \A i \in Ids : i # j => WorkLeft(i)' = WorkLeft(i)
<1>1. PICK s \in Steps, t \in Steps \cup {End} :
        /\ Advance(j, s, t)
        /\ <<s, t>> \in {<<"build", "post">>, <<"build", End>>,
                     <<"post", "trigger">>, <<"post", "error">>, <<"error", "count">>,
                         <<"count", End>>, <<"trigger", "reset">>, <<"reset", End>>}
        /\ dispatches' = dispatches
        /\ \A i \in Ids : ledger'[i].failed =
             IF i = j /\ <<s, t>> = <<"post", "error">> THEN ledger[i].failed + 1
                                                      ELSE ledger[i].failed
  BY DEF DeliveryMoves
<1>2. s # t
  BY <1>1 DEF End
<1>3. /\ \A i \in Ids : i # j => flight'[i] = flight[i]
      /\ flight[j][s] > 0 /\ flight'[j][s] = flight[j][s] - 1
      /\ t \in Steps => flight'[j][t] = flight[j][t] + 1
      /\ \A q \in Steps : (q # s /\ q # t) => flight'[j][q] = flight[j][q]
  BY <1>1, <1>2, Advanced
<1>4. /\ \A q \in Steps : flight[j][q] \in Nat /\ flight'[j][q] \in Nat
      /\ ledger[j].failed \in Nat /\ dispatches \in Nat
  BY DEF TypeOK, Ledger
<1>5. \A i \in Ids : i # j => WorkLeft(i)' = WorkLeft(i)
  BY <1>3 DEF WorkLeft
<1>6. /\ WorkLeft(j)' < WorkLeft(j)
      /\ ledger'[j].failed + flight'[j]["build"] + flight'[j]["post"]
           + flight'[j]["trigger"] + flight'[j]["reset"]
           <= ledger[j].failed + flight[j]["build"] + flight[j]["post"]
                + flight[j]["trigger"] + flight[j]["reset"]
  <2>1. CASE s = "post" /\ t = "trigger"
    BY <1>1, <1>3, <1>4, <2>1 DEF WorkLeft, Steps
  <2>2. CASE s = "post" /\ t = "error"
    BY <1>1, <1>3, <1>4, <2>2 DEF WorkLeft, Steps
  <2>3. CASE s = "error" /\ t = "count"
    BY <1>1, <1>3, <1>4, <2>3 DEF WorkLeft, Steps
  <2>4. CASE s = "count" /\ t = End
    BY <1>1, <1>3, <1>4, <2>4 DEF WorkLeft, Steps, End
  <2>5. CASE s = "trigger" /\ t = "reset"
    BY <1>1, <1>3, <1>4, <2>5 DEF WorkLeft, Steps
  <2>6. CASE s = "reset" /\ t = End
    BY <1>1, <1>3, <1>4, <2>6 DEF WorkLeft, Steps, End
  <2>7. CASE s = "build" /\ t = "post"
    BY <1>1, <1>3, <1>4, <2>7 DEF WorkLeft, Steps
  <2>8. CASE s = "build" /\ t = End
    BY <1>1, <1>3, <1>4, <2>8 DEF WorkLeft, Steps, End
  <2> QED BY <1>1, <2>1, <2>2, <2>3, <2>4, <2>5, <2>6, <2>7, <2>8
<1>7. FailedOnceEach'
  <2> SUFFICES ASSUME NEW i \in Ids
               PROVE  ledger'[i].failed + flight'[i]["build"] + flight'[i]["post"]
                        + flight'[i]["trigger"] + flight'[i]["reset"] <= dispatches'
    BY DEF FailedOnceEach
  <2>1. CASE i = j
    <3>1. /\ ledger'[j].failed \in Nat
          /\ \A q \in {"build", "post", "trigger", "reset"} :
               flight[j][q] \in Nat /\ flight'[j][q] \in Nat
      BY <1>1, <1>4 DEF Steps
    <3> QED BY <1>1, <1>4, <1>6, <2>1, <3>1 DEF FailedOnceEach
  <2>2. CASE i # j
    BY <1>1, <1>3, <2>2 DEF FailedOnceEach
  <2> QED BY <2>1, <2>2
<1> QED BY <1>5, <1>6, <1>7

(* A step that is no delivery's: Dispatch adds a delivery at most, a crash takes the
   deliveries away, the API leaves them alone. *)
LEMMA StepKinds ==
  ASSUME TypeOK, [Next]_vars
  PROVE  \/ \E j \in Ids : DeliveryMoves(j)
         \/ /\ \A i \in Ids : ledger'[i].failed = ledger[i].failed
            /\ \/ \E e \in Events : Dispatch(e)
               \/ dispatches' = dispatches /\ flight' \in {flight, [i \in Ids |-> NoFlight]}
<1> DEFINE Failed == \A i \in Ids : ledger'[i].failed = ledger[i].failed
           Same == Failed /\ dispatches' = dispatches /\ flight' = flight
<1>1. ASSUME NEW j \in Ids, Deliver(j) \/ PostSucceeds(j) \/ PostFails(j)
      PROVE  DeliveryMoves(j)
  BY <1>1, RecordsMove, PostsMove DEF Deliver, PostTimesOut
<1>2. ASSUME NEW j \in Ids, Delete(j) \/ \E es \in SUBSET Events : Create(j, es)
      PROVE  Same
  BY <1>2 DEF Delete, Create
<1>3. ASSUME NEW p \in Procs, ReadPatch(p) \/ WritePatch(p) \/ FailPatch(p)
      PROVE  Same
  BY <1>3 DEF ReadPatch, WritePatch, FailPatch
<1>4. ASSUME NEW p \in Procs, NEW i \in used, NEW es \in SUBSET Events,
             NEW st \in Statuses \cup {Unset}, BeginPatch(p, i, es, st)
      PROVE  Same
  BY <1>4 DEF BeginPatch
<1>5. ASSUME NEW e \in Events, Dispatch(e)
      PROVE  Failed
  BY <1>5 DEF Dispatch
<1>6. ASSUME Crash
      PROVE  Failed /\ dispatches' = dispatches /\ flight' = [i \in Ids |-> NoFlight]
  <2>1. Failed
    BY <1>6 DEF Crash, TypeOK, Ledger
  <2> QED BY <1>6, <2>1 DEF Crash
<1>7. UNCHANGED vars => Same
  BY DEF vars
<1> HIDE DEF Failed
<1>8. Same => Failed /\ dispatches' = dispatches /\ flight' \in {flight, [i \in Ids |-> NoFlight]}
  OBVIOUS
<1> HIDE DEF Same
<1>9. \/ \E j \in Ids : DeliveryMoves(j)
      \/ Same
      \/ Failed /\ \E e \in Events : Dispatch(e)
      \/ Failed /\ dispatches' = dispatches /\ flight' \in {flight, [i \in Ids |-> NoFlight]}
  <2>1. CASE \E i \in Ids : Deliver(i) \/ PostSucceeds(i) \/ PostFails(i)
    BY <1>1, <2>1
  <2>2. CASE (\E i \in Ids : Delete(i)) \/ \E i \in Ids, es \in SUBSET Events : Create(i, es)
    BY <1>2, <2>2
  <2>3. CASE \E p \in Procs : ReadPatch(p) \/ WritePatch(p) \/ FailPatch(p)
    BY <1>3, <2>3
  <2>4. CASE \E p \in Procs, i \in used, es \in SUBSET Events,
              st \in Statuses \cup {Unset} : BeginPatch(p, i, es, st)
    BY <1>4, <2>4
  <2>5. CASE \E e \in Events : Dispatch(e)
    BY <1>5, <2>5
  <2> QED BY <1>6, <1>7, <2>1, <2>2, <2>3, <2>4, <2>5 DEF Next
<1> QED BY <1>8, <1>9 DEF Failed

LEMMA DispatchSums ==
  ASSUME TypeOK, NEW e \in Events, Dispatch(e), NEW i \in Ids
  PROVE  /\ dispatches' = dispatches + 1
         /\ flight'[i]["build"] \in {flight[i]["build"], flight[i]["build"] + 1}
         /\ \A s \in Steps : s # "build" => flight'[i][s] = flight[i][s]
BY DEF Dispatch, TypeOK, Steps

LEMMA SumsKept ==
  ASSUME TypeOK, TypeOK', FailedOnceEach, [Next]_vars
  PROVE  FailedOnceEach' /\ (dispatches' = dispatches =>
                               \A i \in Ids : WorkLeft(i)' <= WorkLeft(i))
<1>1. \A i \in Ids : WorkLeft(i) \in Nat /\ WorkLeft(i)' \in Nat
  BY DEF WorkLeft, TypeOK, Steps
<1>2. \A i \in Ids : /\ \A s \in Steps : flight[i][s] \in Nat
                      /\ ledger[i].failed \in Nat /\ dispatches \in Nat
  BY DEF TypeOK, Ledger
<1>3. ASSUME NEW j \in Ids, DeliveryMoves(j)
      PROVE  FailedOnceEach' /\ \A i \in Ids : WorkLeft(i)' <= WorkLeft(i)
  BY <1>1, <1>3, MoveSums
<1>4. ASSUME \A i \in Ids : ledger'[i].failed = ledger[i].failed,
             NEW e \in Events, Dispatch(e)
      PROVE  FailedOnceEach' /\ dispatches' # dispatches
  <2>1. dispatches' = dispatches + 1 /\ dispatches \in Nat
    BY <1>4 DEF Dispatch, TypeOK
  <2> SUFFICES ASSUME NEW i \in Ids
               PROVE  ledger'[i].failed + flight'[i]["build"] + flight'[i]["post"]
                        + flight'[i]["trigger"] + flight'[i]["reset"] <= dispatches'
    BY <2>1 DEF FailedOnceEach
  <2> QED BY <1>2, <1>4, <2>1, DispatchSums DEF FailedOnceEach, Steps
<1>5. ASSUME \A i \in Ids : ledger'[i].failed = ledger[i].failed,
             dispatches' = dispatches, flight' = flight
      PROVE  FailedOnceEach' /\ \A i \in Ids : WorkLeft(i)' = WorkLeft(i)
  BY <1>5 DEF FailedOnceEach, WorkLeft
<1>6. ASSUME \A i \in Ids : ledger'[i].failed = ledger[i].failed,
             dispatches' = dispatches, flight' = [i \in Ids |-> NoFlight]
      PROVE  FailedOnceEach' /\ \A i \in Ids : WorkLeft(i)' <= WorkLeft(i)
  <2>1. \A i \in Ids, s \in Steps : flight'[i][s] = 0
    BY <1>6 DEF NoFlight
  <2>2. \A i \in Ids : WorkLeft(i)' = 0
    BY <2>1 DEF WorkLeft, Steps
  <2>3. \A i \in Ids : WorkLeft(i)' <= WorkLeft(i)
    BY <1>1, <2>2
  <2> SUFFICES ASSUME NEW i \in Ids
               PROVE  ledger'[i].failed + flight'[i]["build"] + flight'[i]["post"]
                        + flight'[i]["trigger"] + flight'[i]["reset"] <= dispatches'
    BY <2>3 DEF FailedOnceEach
  <2> QED BY <1>2, <1>6, <2>1 DEF FailedOnceEach, Steps
<1>7. \A i \in Ids : WorkLeft(i)' = WorkLeft(i) => WorkLeft(i)' <= WorkLeft(i)
  BY <1>1
<1> QED BY <1>3, <1>4, <1>5, <1>6, <1>7, StepKinds

LEMMA AlwaysOnce == Spec => [](IInv /\ FailedOnceEach)
<1>1. Init => FailedOnceEach
  BY WebhookConstants DEF Init, FailedOnceEach, NoFlight, Steps
<1>2. IInv /\ IInv' /\ FailedOnceEach /\ [Next]_vars => FailedOnceEach'
  BY SumsKept DEF IInv
<1> QED BY <1>1, <1>2, AlwaysIInv, PTL DEF Spec

(* A webhook fails at most once for a call of Dispatch: an outcome that is being
   recorded is never posted or counted again, whatever crashes and requests come
   between. *)
THEOREM FailuresOncePerDispatch == Spec => []FailedOnceEach
BY AlwaysOnce, PTL

(* A delivery only goes forward: each step the scheduler or the client's timer owes
   it brings its end nearer, and nothing but a new call of Dispatch puts it off. *)
THEOREM DeliveriesRunDown == Spec => [][RunsDown]_vars
<1>1. IInv /\ IInv' /\ FailedOnceEach /\ [Next]_vars => RunsDown
  <2> SUFFICES ASSUME IInv, IInv', FailedOnceEach, [Next]_vars
               PROVE  RunsDown
    OBVIOUS
  <2>1. ASSUME NEW i \in Ids, Deliver(i) PROVE WorkLeft(i)' < WorkLeft(i)
    BY <2>1, RecordsMove, PostsMove, MoveSums DEF Deliver, PostTimesOut, IInv
  <2> QED BY <2>1, SumsKept DEF RunsDown, IInv
<1> QED BY <1>1, AlwaysOnce, PTL DEF Spec
=============================================================================
