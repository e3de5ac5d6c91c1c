-------------------------- MODULE TenantPoolProofs --------------------------
(* What TenantPool promises for any number of goroutines, tenants and handles.
   The lock comes first: whoever is in a writing section is the one announced
   writer, and no reader is in.  Then the books: every open handle is in the map
   or in the hands of that writer. *)
EXTENDS TenantPool, TLAPS

-----------------------------------------------------------------------------
(* The inductive invariant. *)

Holds(p) == call[p].at \in {"announced", "draining", "locked", "store", "leave", "closing"}

Locked ==
  /\ \A p \in Procs : Holds(p) => writer = p
  /\ \A p \in Procs : InSection(p) => readers = {}

Storing(p, o, h) == call[p].at = "store" /\ call[p].org = o /\ call[p].handle = h

(* CloseAll is past the handle of o. *)
PastClosing(p, o) == call[p].at = "closing" /\ o \notin call[p].left

Booked ==
  /\ \A o, q \in Orgs, h \in Handles :
       (<<o, h>> \in opened /\ <<q, h>> \in opened) => o = q
  /\ \A h \in closed : \E o \in Orgs : <<o, h>> \in opened
  /\ \A o \in Orgs : pools[o] # NoHandle => <<o, pools[o]>> \in opened
  /\ \A p \in Procs, o \in Orgs, h \in Handles : Storing(p, o, h) =>
       <<o, h>> \in opened /\ h \notin closed /\ pools[o] = NoHandle
  /\ \A o \in Orgs, h \in Handles : (<<o, h>> \in opened /\ h \notin closed) =>
       pools[o] = h \/ \E p \in Procs : Storing(p, o, h)
  /\ \A o \in Orgs : pools[o] \in closed => \E p \in Procs : PastClosing(p, o)
  /\ \A p \in Procs, o \in Orgs : PastClosing(p, o) => pools[o] \in closed \cup {NoHandle}
  /\ \A p \in Procs : call[p].at \in {"close", "draining"} => call[p].left = Orgs

IInv == TypeOK /\ Locked /\ Booked

-----------------------------------------------------------------------------
(* The fields of a call by where it is. *)
LEMMA CallKinds ==
  ASSUME NEW c \in Call
  PROVE  /\ c.at \in {"start", "read", "upgrade", "announced", "locked"} =>
              c.org \in Orgs /\ c = [at |-> c.at, org |-> c.org]
         /\ c.at = "store" => c.org \in Orgs /\ c.handle \in Handles
         /\ c.at \in {"close", "draining", "closing"} =>
              c.left \subseteq Orgs /\ c = [at |-> c.at, left |-> c.left]
         /\ c.at \in {"idle", "start", "read", "upgrade", "announced", "locked", "store",
                      "leave", "close", "draining", "closing"}
BY DEF Call, Idle, GetCall, StoreCall, LeaveCall, CloseCall

(* A call moves. *)
LEMMA Moved ==
  ASSUME TypeOK, NEW p \in Procs, NEW c \in Call, Goto(p, c)
  PROVE  /\ call' \in [Procs -> Call] /\ call'[p] = c
         /\ \A q \in Procs : q # p => call'[q] = call[q]
BY DEF TypeOK, Goto

(* A call moves and touches neither map nor handles, on its way to no place where
   they would matter. *)
LEMMA MovedOn ==
  ASSUME IInv, NEW p \in Procs, NEW c \in Call, Goto(p, c),
         UNCHANGED <<pools, opened, closed>>,
         call[p].at \notin {"store", "closing"}, c.at # "store",
         c.at \in {"close", "draining", "closing"} => c.left = Orgs
  PROVE  Booked'
<1>1. /\ call' \in [Procs -> Call] /\ call'[p] = c
      /\ \A q \in Procs : q # p => call'[q] = call[q]
  BY Moved DEF IInv
<1>2. \A q \in Procs, o \in Orgs, h \in Handles : Storing(q, o, h)' <=> Storing(q, o, h)
  BY <1>1 DEF Storing
<1>3. \A q \in Procs, o \in Orgs : PastClosing(q, o)' <=> PastClosing(q, o)
  BY <1>1 DEF PastClosing
<1>4. \A q \in Procs : call'[q].at \in {"close", "draining"} => call'[q].left = Orgs
  BY <1>1 DEF IInv, Booked
<1> QED BY <1>2, <1>3, <1>4 DEF IInv, Booked

(* The lock is kept by a step that leaves it alone and takes no goroutine into a
   place that needs it. *)
LEMMA LockKept ==
  ASSUME IInv, NEW p \in Procs, NEW c \in Call, Goto(p, c),
         UNCHANGED <<readers, writer>>,
         c.at \in {"announced", "draining", "locked", "store", "leave", "closing"} =>
           Holds(p),
         c.at \in {"locked", "store", "leave", "closing"} => InSection(p)
  PROVE  Locked'
<1>1. call'[p] = c /\ \A q \in Procs : q # p => call'[q] = call[q]
  BY Moved DEF IInv
<1> QED BY <1>1 DEF IInv, Locked, Holds, InSection

-----------------------------------------------------------------------------
(* Steps outside the map. *)

LEMMA BeginStep ==
  ASSUME IInv, NEW p \in Procs, CloseAll(p) \/ \E o \in Orgs : Get(p, o)
  PROVE  IInv'
<1>1. PICK c \in Call : /\ Begin(p, c) /\ c.at \in {"start", "close"}
                        /\ c.at = "close" => c.left = Orgs
  <2>1. CASE CloseAll(p)
    BY <2>1 DEF CloseAll, Call, CloseCall
  <2>2. ASSUME NEW o \in Orgs, Get(p, o)
        PROVE  \E c \in Call : Begin(p, c) /\ c.at = "start"
    BY <2>2 DEF Get, Call, GetCall
  <2> QED BY <2>1, <2>2
<1>2. Goto(p, c) /\ UNCHANGED <<pools, readers, writer, opened, closed>> /\ call[p].at = "idle"
  BY <1>1 DEF Begin, Idle
<1>3. Booked'
  BY <1>1, <1>2, MovedOn
<1>4. Locked'
  BY <1>1, <1>2, LockKept
<1>5. TypeOK'
  BY <1>2, Moved DEF IInv, TypeOK
<1> QED BY <1>3, <1>4, <1>5 DEF IInv

LEMMA ReadLockStep ==
  ASSUME IInv, NEW p \in Procs, ReadLock(p)
  PROVE  IInv'
<1>1. PICK c \in Call : c = [call[p] EXCEPT !.at = "read"] /\ c.at = "read"
  <2>1. call[p] \in Call /\ call[p].at = "start"
    BY DEF IInv, TypeOK, ReadLock
  <2>2. call[p] = [at |-> "start", org |-> call[p].org] /\ call[p].org \in Orgs
    BY <2>1, CallKinds
  <2>3. [at |-> "read", org |-> call[p].org] \in Call
    BY <2>2 DEF Call, GetCall
  <2>4. [call[p] EXCEPT !.at = "read"] = [at |-> "read", org |-> call[p].org]
    BY <2>2
  <2> QED BY <2>3, <2>4
<1>2. /\ Goto(p, c) /\ call[p].at = "start" /\ writer = NoProc
      /\ readers' = readers \cup {p} /\ UNCHANGED <<pools, writer, opened, closed>>
  BY <1>1 DEF ReadLock
<1>3. Booked'
  BY <1>1, <1>2, MovedOn
<1>4. call'[p] = c /\ \A q \in Procs : q # p => call'[q] = call[q]
  BY <1>2, Moved DEF IInv
<1>5. Locked'
  <2>1. \A q \in Procs : ~Holds(q)
    BY <1>2, PoolConstants DEF IInv, Locked
  <2>2. \A q \in Procs : ~Holds(q)' /\ ~InSection(q)'
    BY <1>1, <1>4, <2>1 DEF Holds, InSection
  <2> QED BY <2>2 DEF Locked
<1>6. TypeOK'
  BY <1>2, Moved DEF IInv, TypeOK
<1> QED BY <1>3, <1>5, <1>6 DEF IInv

LEMMA ReadPoolStep ==
  ASSUME IInv, NEW p \in Procs, ReadPool(p)
  PROVE  IInv'
<1>1. PICK c \in Call : Goto(p, c) /\ c.at \in {"idle", "upgrade"}
  <2>1. call[p] \in Call /\ call[p].at = "read"
    BY DEF IInv, TypeOK, ReadPool
  <2>2. call[p] = [at |-> "read", org |-> call[p].org] /\ call[p].org \in Orgs
    BY <2>1, CallKinds
  <2>3. [at |-> "upgrade", org |-> call[p].org] \in Call /\ Idle \in Call
    BY <2>2 DEF Call, GetCall
  <2>4. [call[p] EXCEPT !.at = "upgrade"] = [at |-> "upgrade", org |-> call[p].org]
    BY <2>2
  <2>5. Idle.at = "idle"
    BY DEF Idle
  <2>6. \/ Goto(p, Idle)
        \/ Goto(p, [at |-> "upgrade", org |-> call[p].org])
    BY <2>4 DEF ReadPool
  <2> QED BY <2>3, <2>5, <2>6
<1>2. /\ call[p].at = "read" /\ readers' = readers \ {p}
      /\ UNCHANGED <<pools, writer, opened, closed>>
  BY DEF ReadPool
<1>3. Booked'
  BY <1>1, <1>2, MovedOn
<1>4. call'[p] = c /\ \A q \in Procs : q # p => call'[q] = call[q]
  BY <1>1, Moved DEF IInv
<1>5. Locked'
  BY <1>1, <1>2, <1>4 DEF IInv, Locked, Holds, InSection
<1>6. TypeOK'
  BY <1>1, <1>2, Moved DEF IInv, TypeOK
<1> QED BY <1>3, <1>5, <1>6 DEF IInv

LEMMA AnnounceStep ==
  ASSUME IInv, NEW p \in Procs, Announce(p)
  PROVE  IInv'
<1>1. PICK c \in Call : /\ Goto(p, c) /\ c.at \in {"announced", "draining"}
                        /\ c.at = "draining" => c.left = Orgs
  <2>1. call[p] \in Call /\ call[p].at \in {"upgrade", "close"}
    BY DEF IInv, TypeOK, Announce
  <2>2. CASE call[p].at = "upgrade"
    <3>1. call[p] = [at |-> "upgrade", org |-> call[p].org] /\ call[p].org \in Orgs
      BY <2>1, <2>2, CallKinds
    <3>2. [at |-> "announced", org |-> call[p].org] \in Call
      BY <3>1 DEF Call, GetCall
    <3>3. [call[p] EXCEPT !.at = "announced"] = [at |-> "announced", org |-> call[p].org]
      BY <3>1
    <3> QED BY <2>2, <3>2, <3>3 DEF Announce
  <2>3. CASE call[p].at = "close"
    <3>1. call[p] = [at |-> "close", left |-> call[p].left] /\ call[p].left = Orgs
      BY <2>1, <2>3, CallKinds DEF IInv, Booked
    <3>2. [at |-> "draining", left |-> Orgs] \in Call
      BY DEF Call, CloseCall
    <3>3. [call[p] EXCEPT !.at = "draining"] = [at |-> "draining", left |-> Orgs]
      BY <3>1
    <3> QED BY <2>3, <3>2, <3>3 DEF Announce
  <2> QED BY <2>1, <2>2, <2>3
<1>2. /\ call[p].at \in {"upgrade", "close"} /\ writer = NoProc /\ writer' = p
      /\ UNCHANGED <<pools, readers, opened, closed>>
  BY DEF Announce
<1>3. Booked'
  BY <1>1, <1>2, MovedOn
<1>4. call'[p] = c /\ \A q \in Procs : q # p => call'[q] = call[q]
  BY <1>1, Moved DEF IInv
<1>5. Locked'
  <2>1. \A q \in Procs : ~Holds(q)
    BY <1>2, PoolConstants DEF IInv, Locked
  <2>2. \A q \in Procs : q # p => ~Holds(q)' /\ ~InSection(q)'
    BY <1>4, <2>1 DEF Holds, InSection
  <2>3. ~InSection(p)'
    BY <1>1, <1>4 DEF InSection
  <2> QED BY <1>2, <2>2, <2>3 DEF Locked
<1>6. TypeOK'
  BY <1>1, <1>2, Moved DEF IInv, TypeOK
<1> QED BY <1>3, <1>5, <1>6 DEF IInv

LEMMA GrantedStep ==
  ASSUME IInv, NEW p \in Procs, Granted(p)
  PROVE  IInv'
<1>1. PICK c \in Call : /\ Goto(p, c) /\ c.at \in {"locked", "closing"}
                        /\ c.at = "closing" => c.left = Orgs
  <2>1. call[p] \in Call /\ call[p].at \in {"announced", "draining"}
    BY DEF IInv, TypeOK, Granted
  <2>2. CASE call[p].at = "announced"
    <3>1. call[p] = [at |-> "announced", org |-> call[p].org] /\ call[p].org \in Orgs
      BY <2>1, <2>2, CallKinds
    <3>2. [at |-> "locked", org |-> call[p].org] \in Call
      BY <3>1 DEF Call, GetCall
    <3>3. [call[p] EXCEPT !.at = "locked"] = [at |-> "locked", org |-> call[p].org]
      BY <3>1
    <3> QED BY <2>2, <3>2, <3>3 DEF Granted
  <2>3. CASE call[p].at = "draining"
    <3>1. call[p] = [at |-> "draining", left |-> call[p].left] /\ call[p].left = Orgs
      BY <2>1, <2>3, CallKinds DEF IInv, Booked
    <3>2. [at |-> "closing", left |-> Orgs] \in Call
      BY DEF Call, CloseCall
    <3>3. [call[p] EXCEPT !.at = "closing"] = [at |-> "closing", left |-> Orgs]
      BY <3>1
    <3> QED BY <2>3, <3>2, <3>3 DEF Granted
  <2> QED BY <2>1, <2>2, <2>3
<1>2. /\ call[p].at \in {"announced", "draining"} /\ readers = {}
      /\ UNCHANGED <<pools, readers, writer, opened, closed>>
  BY DEF Granted
<1>3. Booked'
  BY <1>1, <1>2, MovedOn
<1>4. call'[p] = c /\ \A q \in Procs : q # p => call'[q] = call[q]
  BY <1>1, Moved DEF IInv
<1>5. Locked'
  BY <1>1, <1>2, <1>4 DEF IInv, Locked, Holds
<1>6. TypeOK'
  BY <1>1, <1>2, Moved DEF IInv, TypeOK
<1> QED BY <1>3, <1>5, <1>6 DEF IInv

(* Get gives up or has found a handle: on to the deferred Unlock. *)
LEMMA LeaveStep ==
  ASSUME IInv, NEW p \in Procs, FoundAfterAll(p) \/ OpenFails(p)
  PROVE  IInv'
<1>1. /\ Goto(p, Leave) /\ call[p].at = "locked"
      /\ UNCHANGED <<pools, readers, writer, opened, closed>>
  BY DEF FoundAfterAll, OpenFails
<1>2. Leave \in Call /\ Leave.at = "leave"
  BY DEF Leave, Call, LeaveCall
<1>3. Booked'
  BY <1>1, <1>2, MovedOn
<1>4. Locked'
  BY <1>1, <1>2, LockKept DEF Holds, InSection
<1>5. TypeOK'
  BY <1>1, <1>2, Moved DEF IInv, TypeOK
<1> QED BY <1>3, <1>4, <1>5 DEF IInv

LEMMA UnlockStep ==
  ASSUME IInv, NEW p \in Procs, Unlock(p)
  PROVE  IInv'
<1>1. /\ Goto(p, Idle) /\ call[p].at = "leave" /\ writer' = NoProc
      /\ UNCHANGED <<pools, readers, opened, closed>>
  BY DEF Unlock
<1>2. Idle \in Call /\ Idle.at = "idle"
  BY DEF Idle, Call
<1>3. Booked'
  BY <1>1, <1>2, MovedOn
<1>4. call'[p] = Idle /\ \A q \in Procs : q # p => call'[q] = call[q]
  BY <1>1, <1>2, Moved DEF IInv
<1>5. Locked'
  <2>1. writer = p
    BY <1>1 DEF IInv, Locked, Holds
  <2>2. \A q \in Procs : q # p => ~Holds(q)
    BY <2>1 DEF IInv, Locked
  <2>3. \A q \in Procs : ~Holds(q)' /\ ~InSection(q)'
    BY <1>2, <1>4, <2>2 DEF Holds, InSection
  <2> QED BY <2>3 DEF Locked
<1>6. TypeOK'
  BY <1>1, <1>2, Moved DEF IInv, TypeOK
<1> QED BY <1>3, <1>5, <1>6 DEF IInv

-----------------------------------------------------------------------------
(* Steps that open, store and close handles, all under the lock. *)

(* Whoever is in a section is alone in it. *)
LEMMA Alone ==
  ASSUME IInv, NEW p \in Procs, InSection(p)
  PROVE  \A q \in Procs : q # p => ~Holds(q) /\ ~InSection(q)
BY DEF IInv, Locked, Holds, InSection

LEMMA OpenStep ==
  ASSUME IInv, NEW p \in Procs, NEW h \in Handles, Open(p, h)
  PROVE  IInv'
<1>1. PICK w \in Orgs :
        /\ w = call[p].org /\ pools[w] = NoHandle /\ opened' = opened \cup {<<w, h>>}
        /\ Goto(p, [at |-> "store", org |-> w, handle |-> h])
  <2>1. call[p] \in Call /\ call[p].at = "locked"
    BY DEF IInv, TypeOK, Open
  <2>2. call[p].org \in Orgs
    BY <2>1, CallKinds
  <2> QED BY <2>2 DEF Open
<1>2. PICK c \in Call :
        /\ Goto(p, c) /\ c = [at |-> "store", org |-> w, handle |-> h]
  BY <1>1 DEF Call, StoreCall
<1>3. c.at = "store" /\ c.org = w /\ c.handle = h
  BY <1>2
<1>4. /\ call[p].at = "locked" /\ UNCHANGED <<pools, readers, writer, closed>>
      /\ \A o \in Orgs : <<o, h>> \notin opened
  BY DEF Open
<1>5. call'[p] = c /\ \A q \in Procs : q # p => call'[q] = call[q]
  BY <1>2, Moved DEF IInv
<1>6. h \notin closed
  BY <1>4 DEF IInv, Booked
<1>7. \A q \in Procs : q # p => call'[q].at \notin {"store", "closing"}
  BY <1>4, <1>5, Alone DEF Holds, InSection
<1>8. \A q \in Procs : call[q].at \notin {"store", "closing"}
  BY <1>4, Alone DEF Holds, InSection
<1>9. \A q \in Procs, o \in Orgs, g \in Handles :
        Storing(q, o, g)' <=> (q = p /\ o = w /\ g = h)
  BY <1>3, <1>5, <1>7 DEF Storing
<1>10. \A q \in Procs, o \in Orgs : ~PastClosing(q, o)' /\ ~PastClosing(q, o)
  BY <1>3, <1>5, <1>7, <1>8 DEF PastClosing
<1>11. \A o \in Orgs, g \in Handles :
         <<o, g>> \in opened' <=> (<<o, g>> \in opened \/ (o = w /\ g = h))
  BY <1>1
<1>12. Booked'
  <2>1. \A o, q \in Orgs, g \in Handles :
          (<<o, g>> \in opened' /\ <<q, g>> \in opened') => o = q
    BY <1>4, <1>11 DEF IInv, Booked
  <2>2. \A g \in closed' : \E o \in Orgs : <<o, g>> \in opened'
    BY <1>1, <1>4 DEF IInv, Booked
  <2>3. \A o \in Orgs : pools'[o] # NoHandle => <<o, pools'[o]>> \in opened'
    BY <1>1, <1>4 DEF IInv, Booked
  <2>4. \A q \in Procs, o \in Orgs, g \in Handles : Storing(q, o, g)' =>
          <<o, g>> \in opened' /\ g \notin closed' /\ pools'[o] = NoHandle
    BY <1>1, <1>4, <1>6, <1>9
  <2>5. \A o \in Orgs, g \in Handles : (<<o, g>> \in opened' /\ g \notin closed') =>
          pools'[o] = g \/ \E q \in Procs : Storing(q, o, g)'
    <3>1. \A o \in Orgs, g \in Handles : (<<o, g>> \in opened /\ g \notin closed) =>
            pools[o] = g
      BY <1>8 DEF IInv, Booked, Storing
    <3> QED BY <1>4, <1>9, <1>11, <3>1
  <2>6. \A o \in Orgs : pools'[o] \notin closed'
    BY <1>4, <1>10 DEF IInv, Booked
  <2>7. \A q \in Procs : call'[q].at \in {"close", "draining"} => call'[q].left = Orgs
    BY <1>3, <1>5 DEF IInv, Booked
  <2> QED BY <1>10, <2>1, <2>2, <2>3, <2>4, <2>5, <2>6, <2>7 DEF Booked
<1>13. Locked'
  BY <1>2, <1>3, <1>4, LockKept DEF Holds, InSection
<1>14. TypeOK'
  <2>1. opened' \subseteq Orgs \X Handles
    BY <1>1 DEF IInv, TypeOK
  <2> QED BY <1>2, <1>4, <2>1, Moved DEF IInv, TypeOK
<1> QED BY <1>12, <1>13, <1>14 DEF IInv

LEMMA StoreStep ==
  ASSUME IInv, NEW p \in Procs, Store(p)
  PROVE  IInv'
<1>1. PICK w \in Orgs, h \in Handles :
        /\ w = call[p].org /\ h = call[p].handle /\ pools' = [pools EXCEPT ![w] = h]
  <2>1. call[p] \in Call /\ call[p].at = "store"
    BY DEF IInv, TypeOK, Store
  <2>2. call[p].org \in Orgs /\ call[p].handle \in Handles
    BY <2>1, CallKinds
  <2> QED BY <2>2 DEF Store
<1>2. /\ call[p].at = "store" /\ Goto(p, Leave) /\ UNCHANGED <<readers, writer, opened, closed>>
  BY DEF Store
<1>3. Leave \in Call /\ Leave.at = "leave"
  BY DEF Leave, Call, LeaveCall
<1>4. call'[p] = Leave /\ \A q \in Procs : q # p => call'[q] = call[q]
  BY <1>2, <1>3, Moved DEF IInv
<1>5. \A q \in Procs : call'[q].at \notin {"store", "closing"}
  BY <1>2, <1>3, <1>4, Alone DEF Holds, InSection
<1>6. \A q \in Procs, o \in Orgs, g \in Handles :
        Storing(q, o, g) <=> (q = p /\ o = w /\ g = h)
  BY <1>1, <1>2, Alone DEF Holds, InSection, Storing
<1>7. \A q \in Procs, o \in Orgs : ~PastClosing(q, o) /\ ~PastClosing(q, o)'
  BY <1>2, <1>5, Alone DEF InSection, PastClosing
<1>8. pools[w] = NoHandle /\ <<w, h>> \in opened /\ h \notin closed
  BY <1>6 DEF IInv, Booked
<1>9. pools'[w] = h /\ \A o \in Orgs : o # w => pools'[o] = pools[o]
  BY <1>1 DEF IInv, TypeOK
<1>10. Booked'
  <2>1. \A o, q \in Orgs, g \in Handles :
          (<<o, g>> \in opened' /\ <<q, g>> \in opened') => o = q
    BY <1>2 DEF IInv, Booked
  <2>2. \A g \in closed' : \E o \in Orgs : <<o, g>> \in opened'
    BY <1>2 DEF IInv, Booked
  <2>3. \A o \in Orgs : pools'[o] # NoHandle => <<o, pools'[o]>> \in opened'
    BY <1>2, <1>8, <1>9 DEF IInv, Booked
  <2>4. \A q \in Procs, o \in Orgs, g \in Handles : ~Storing(q, o, g)'
    BY <1>5 DEF Storing
  <2>5. \A o \in Orgs, g \in Handles : (<<o, g>> \in opened' /\ g \notin closed') =>
          pools'[o] = g
    <3> SUFFICES ASSUME NEW o \in Orgs, NEW g \in Handles, <<o, g>> \in opened, g \notin closed
                 PROVE  pools'[o] = g
      BY <1>2
    <3>1. pools[o] = g \/ (o = w /\ g = h)
      BY <1>6 DEF IInv, Booked
    <3> QED BY <1>8, <1>9, <3>1, PoolConstants
  <2>6. \A o \in Orgs : pools'[o] \notin closed'
    BY <1>2, <1>7, <1>8, <1>9 DEF IInv, Booked
  <2>7. \A q \in Procs : call'[q].at \in {"close", "draining"} => call'[q].left = Orgs
    BY <1>3, <1>4 DEF IInv, Booked
  <2> QED BY <1>7, <2>1, <2>2, <2>3, <2>4, <2>5, <2>6, <2>7 DEF Booked
<1>11. Locked'
  BY <1>2, <1>3, LockKept DEF Holds, InSection
<1>12. TypeOK'
  BY <1>1, <1>2, <1>3, Moved DEF IInv, TypeOK
<1> QED BY <1>10, <1>11, <1>12 DEF IInv

LEMMA CloseOneStep ==
  ASSUME IInv, NEW p \in Procs, NEW w \in Orgs, CloseOne(p, w)
  PROVE  IInv'
<1>1. /\ call[p].at = "closing" /\ w \in call[p].left
      /\ closed' = closed \cup ({pools[w]} \ {NoHandle})
      /\ UNCHANGED <<pools, readers, writer, opened>>
  BY DEF CloseOne
<1>2. PICK c \in Call : /\ Goto(p, c) /\ c.at = "closing"
                        /\ c.left = call[p].left \ {w}
  <2>1. call[p] \in Call
    BY DEF IInv, TypeOK
  <2>2. call[p] = [at |-> "closing", left |-> call[p].left] /\ call[p].left \subseteq Orgs
    BY <1>1, <2>1, CallKinds
  <2>3. [at |-> "closing", left |-> call[p].left \ {w}] \in Call
    BY <2>2 DEF Call, CloseCall
  <2>4. [call[p] EXCEPT !.left = @ \ {w}] = [at |-> "closing", left |-> call[p].left \ {w}]
    BY <2>2
  <2> QED BY <2>3, <2>4 DEF CloseOne
<1>3. call'[p] = c /\ \A q \in Procs : q # p => call'[q] = call[q]
  BY <1>2, Moved DEF IInv
<1>4. \A q \in Procs : q # p => ~Holds(q) /\ ~InSection(q)
  BY <1>1, Alone DEF InSection
<1>5. \A q \in Procs, o \in Orgs, g \in Handles : ~Storing(q, o, g)
  BY <1>1, <1>4 DEF InSection, Storing
<1>6. \A q \in Procs, o \in Orgs, g \in Handles : ~Storing(q, o, g)'
  BY <1>2, <1>3, <1>5 DEF Storing
<1>7. \A q \in Procs, o \in Orgs : PastClosing(q, o) <=> (q = p /\ o \notin call[p].left)
  BY <1>1, <1>4 DEF InSection, PastClosing
<1>8. \A q \in Procs, o \in Orgs : PastClosing(q, o)' <=> (q = p /\ (o = w \/ o \notin call[p].left))
  BY <1>2, <1>3, <1>4 DEF InSection, PastClosing
<1>9. Booked'
  <2>1. \A o, q \in Orgs, g \in Handles :
          (<<o, g>> \in opened' /\ <<q, g>> \in opened') => o = q
    BY <1>1 DEF IInv, Booked
  <2>2. \A g \in closed' : \E o \in Orgs : <<o, g>> \in opened'
    BY <1>1 DEF IInv, Booked
  <2>3. \A o \in Orgs : pools'[o] # NoHandle => <<o, pools'[o]>> \in opened'
    BY <1>1 DEF IInv, Booked
  <2>4. \A o \in Orgs, g \in Handles : (<<o, g>> \in opened' /\ g \notin closed') =>
          pools'[o] = g
    BY <1>1, <1>5 DEF IInv, Booked
  <2>5. ASSUME NEW o \in Orgs, pools'[o] \in closed'
        PROVE  PastClosing(p, o)'
    <3>1. pools[o] \in closed \/ (pools[o] = pools[w] /\ pools[w] # NoHandle)
      BY <1>1, <2>5
    <3>2. CASE pools[o] \in closed
      <4>1. \E q \in Procs : PastClosing(q, o)
        BY <3>2 DEF IInv, Booked
      <4> QED BY <1>7, <1>8, <4>1
    <3>3. CASE pools[o] = pools[w] /\ pools[w] # NoHandle
      <4>1. <<o, pools[o]>> \in opened /\ <<w, pools[o]>> \in opened /\ pools[o] \in Handles
        BY <3>3 DEF IInv, Booked, TypeOK
      <4>2. o = w
        BY <4>1 DEF IInv, Booked
      <4> QED BY <1>8, <4>2
    <3> QED BY <3>1, <3>2, <3>3
  <2>6. \A q \in Procs, o \in Orgs : PastClosing(q, o)' => pools'[o] \in closed' \cup {NoHandle}
    BY <1>1, <1>7, <1>8 DEF IInv, Booked
  <2>7. \A q \in Procs : call'[q].at \in {"close", "draining"} => call'[q].left = Orgs
    BY <1>2, <1>3 DEF IInv, Booked
  <2> QED BY <1>6, <2>1, <2>2, <2>3, <2>4, <2>5, <2>6, <2>7 DEF Booked
<1>10. Locked'
  BY <1>1, <1>2, LockKept DEF Holds, InSection
<1>11. TypeOK'
  <2>1. closed' \subseteq Handles
    BY <1>1 DEF IInv, TypeOK
  <2> QED BY <1>1, <1>2, <2>1, Moved DEF IInv, TypeOK
<1> QED BY <1>9, <1>10, <1>11 DEF IInv

LEMMA ResetMapStep ==
  ASSUME IInv, NEW p \in Procs, ResetMap(p)
  PROVE  IInv'
<1>1. /\ call[p].at = "closing" /\ call[p].left = {} /\ Goto(p, Leave)
      /\ pools' = [o \in Orgs |-> NoHandle] /\ UNCHANGED <<readers, writer, opened, closed>>
  BY DEF ResetMap
<1>2. Leave \in Call /\ Leave.at = "leave"
  BY DEF Leave, Call, LeaveCall
<1>3. call'[p] = Leave /\ \A q \in Procs : q # p => call'[q] = call[q]
  BY <1>1, <1>2, Moved DEF IInv
<1>4. \A q \in Procs : q # p => ~Holds(q) /\ ~InSection(q)
  BY <1>1, Alone DEF InSection
<1>5. \A q \in Procs, o \in Orgs, g \in Handles : ~Storing(q, o, g) /\ ~Storing(q, o, g)'
  BY <1>1, <1>2, <1>3, <1>4 DEF InSection, Storing
<1>6. \A q \in Procs, o \in Orgs : ~PastClosing(q, o)'
  BY <1>2, <1>3, <1>4 DEF InSection, PastClosing
<1>7. \A o \in Orgs : PastClosing(p, o)
  BY <1>1 DEF PastClosing
<1>8. \A o \in Orgs, g \in Handles : <<o, g>> \in opened => g \in closed
  BY <1>5, <1>7, PoolConstants DEF IInv, Booked
<1>9. Booked'
  <2>1. \A o, q \in Orgs, g \in Handles :
          (<<o, g>> \in opened' /\ <<q, g>> \in opened') => o = q
    BY <1>1 DEF IInv, Booked
  <2>2. \A g \in closed' : \E o \in Orgs : <<o, g>> \in opened'
    BY <1>1 DEF IInv, Booked
  <2>3. \A o \in Orgs : pools'[o] = NoHandle /\ pools'[o] \notin closed'
    BY <1>1, PoolConstants DEF IInv, TypeOK
  <2>4. \A q \in Procs : call'[q].at \in {"close", "draining"} => call'[q].left = Orgs
    BY <1>2, <1>3 DEF IInv, Booked
  <2> QED BY <1>1, <1>5, <1>6, <1>8, <2>1, <2>2, <2>3, <2>4 DEF Booked
<1>10. Locked'
  BY <1>1, <1>2, LockKept DEF Holds, InSection
<1>11. TypeOK'
  <2>1. pools' \in [Orgs -> Handles \cup {NoHandle}]
    BY <1>1
  <2> QED BY <1>1, <1>2, <2>1, Moved DEF IInv, TypeOK
<1> QED BY <1>9, <1>10, <1>11 DEF IInv

-----------------------------------------------------------------------------
LEMMA Start == Init => IInv
<1> SUFFICES ASSUME Init PROVE IInv
  OBVIOUS
<1>1. \A p \in Procs : call[p] = Idle /\ call[p].at = "idle"
  BY DEF Init, Idle
<1>2. TypeOK
  BY DEF Init, TypeOK, Call
<1>3. Locked
  BY <1>1 DEF Locked, Holds, InSection
<1>4. Booked
  BY <1>1, PoolConstants DEF Init, Booked, Storing, PastClosing
<1> QED BY <1>2, <1>3, <1>4 DEF IInv

LEMMA Inductive == IInv /\ [Next]_vars => IInv'
<1> SUFFICES ASSUME IInv, [Next]_vars PROVE IInv'
  OBVIOUS
<1>1. ASSUME NEW p \in Procs, CloseAll(p) \/ \E o \in Orgs : Get(p, o)
      PROVE  IInv'
  BY <1>1, BeginStep
<1>2. ASSUME NEW p \in Procs, Proceed(p)
      PROVE  IInv'
  BY <1>2, ReadLockStep, ReadPoolStep, AnnounceStep, GrantedStep, LeaveStep, OpenStep,
     StoreStep, UnlockStep, CloseOneStep, ResetMapStep DEF Proceed
<1>3. CASE UNCHANGED vars
  <2>1. UNCHANGED <<pools, readers, writer, call, opened, closed>>
    BY <1>3 DEF vars
  <2>2. TypeOK' /\ Locked'
    BY <2>1 DEF IInv, TypeOK, Locked, Holds, InSection
  <2>3. /\ \A p \in Procs, o \in Orgs, h \in Handles : Storing(p, o, h)' <=> Storing(p, o, h)
        /\ \A p \in Procs, o \in Orgs : PastClosing(p, o)' <=> PastClosing(p, o)
    BY <2>1 DEF Storing, PastClosing
  <2>4. Booked'
    BY <2>1, <2>3 DEF IInv, Booked
  <2> QED BY <2>2, <2>4 DEF IInv
<1> QED BY <1>1, <1>2, <1>3 DEF Next

LEMMA OneHandle == IInv => OneHandlePerOrg
<1> SUFFICES ASSUME IInv, NEW o \in Orgs, NEW g \in OpenHandles(o), NEW h \in OpenHandles(o)
             PROVE  g = h
  BY DEF OneHandlePerOrg
<1>1. /\ g \in Handles /\ <<o, g>> \in opened /\ g \notin closed
      /\ h \in Handles /\ <<o, h>> \in opened /\ h \notin closed
  BY DEF OpenHandles, IInv, TypeOK
<1>2. /\ pools[o] = g \/ \E p \in Procs : Storing(p, o, g)
      /\ pools[o] = h \/ \E p \in Procs : Storing(p, o, h)
  BY <1>1 DEF IInv, Booked
<1>3. \A p \in Procs, k \in Handles : Storing(p, o, k) => pools[o] = NoHandle
  BY DEF IInv, Booked
<1>4. \A p, q \in Procs : (Storing(p, o, g) /\ Storing(q, o, h)) => p = q
  BY Alone DEF Storing, InSection
<1> QED BY <1>1, <1>2, <1>3, <1>4, PoolConstants DEF Storing

LEMMA Exact == IInv => MapIsExact
<1> SUFFICES ASSUME IInv, NEW o \in Orgs
             PROVE  /\ \A h \in OpenHandles(o) :
                         pools[o] = h \/ \E p \in Procs : /\ call[p].at = "store"
                                                          /\ call[p].handle = h
                    /\ pools[o] \in OpenHandles(o) \cup {NoHandle}
                         \/ \E p \in Procs : call[p].at = "closing"
  BY DEF MapIsExact
<1>1. \A h \in Handles : h \in OpenHandles(o) <=> (<<o, h>> \in opened /\ h \notin closed)
  BY DEF OpenHandles, IInv, TypeOK
<1>2. OpenHandles(o) \subseteq Handles
  BY DEF OpenHandles, IInv, TypeOK
<1>3. ASSUME pools[o] # NoHandle, pools[o] \notin OpenHandles(o)
      PROVE  \E p \in Procs : call[p].at = "closing"
  <2>1. pools[o] \in Handles /\ <<o, pools[o]>> \in opened
    BY <1>3 DEF IInv, TypeOK, Booked
  <2> QED BY <1>1, <1>3, <2>1 DEF IInv, Booked, PastClosing
<1>4. ASSUME NEW h \in OpenHandles(o)
      PROVE  pools[o] = h \/ \E p \in Procs : /\ call[p].at = "store"
                                              /\ call[p].handle = h
  <2>1. h \in Handles /\ <<o, h>> \in opened /\ h \notin closed
    BY <1>1, <1>2
  <2>2. pools[o] = h \/ \E p \in Procs : Storing(p, o, h)
    BY <2>1 DEF IInv, Booked
  <2> QED BY <2>2 DEF Storing
<1> QED BY <1>3, <1>4

LEMMA NoRace == IInv => NoMapRace
BY Alone DEF NoMapRace, IInv, Locked

LEMMA AlwaysIInv == Safety => []IInv
BY Start, Inductive, PTL DEF Safety

(* Every variable keeps its type. *)
THEOREM PoolTypes == Spec => []TypeOK
<1>1. IInv => TypeOK
  BY DEF IInv
<1> QED BY <1>1, AlwaysIInv, PTL DEF Spec

(* However many requests miss on a tenant at the same moment, and whenever CloseAll
   comes in between, no tenant has two open handles. *)
THEOREM PoolOpensOnce == Spec => []OneHandlePerOrg
BY AlwaysIInv, OneHandle, PTL DEF Spec

(* No handle is open and out of the map, and none in the map is closed, but for
   the one being stored and while CloseAll is at work. *)
THEOREM PoolMapIsExact == Spec => []MapIsExact
BY AlwaysIInv, Exact, PTL DEF Spec

(* The map is never read or written while another goroutine writes it. *)
THEOREM PoolHasNoMapRace == Spec => []NoMapRace
BY AlwaysIInv, NoRace, PTL DEF Spec
-----------------------------------------------------------------------------
(* What CallsReturn rests on, for any number of goroutines. *)

(* The lock is held by nobody who is not at work: the announced writer is on its
   way to its Unlock, the readers are at their lookup. *)
LockExact ==
  /\ writer # NoProc => Holds(writer)
  /\ readers = {p \in Procs : call[p].at = "read"}

(* The guards of Proceed: p waits for nobody. *)
CanProceed(p) ==
  \/ call[p].at \in {"read", "locked", "store", "leave", "closing"}
  \/ call[p].at \in {"start", "upgrade", "close"} /\ writer = NoProc
  \/ call[p].at \in {"announced", "draining"} /\ readers = {}

SomeoneProceeds == (\E p \in Procs : call[p] # Idle) => \E p \in Procs : CanProceed(p)

Rank(c) ==
  CASE c.at = "idle" -> 0
    [] c.at = "leave" -> 1
    [] c.at = "store" -> 2
    [] c.at \in {"locked", "closing"} -> 3
    [] c.at \in {"announced", "draining"} -> 4
    [] c.at \in {"upgrade", "close"} -> 5
    [] c.at = "read" -> 6
    [] c.at = "start" -> 7

(* A call goes on to its return, or closes one handle more on the way. *)
Nearer ==
  \A p \in Procs : (call[p] # Idle /\ call'[p] # call[p]) =>
    \/ Rank(call'[p]) < Rank(call[p])
    \/ /\ call[p].at = "closing" /\ call'[p].at = "closing"
       /\ call'[p].left \subseteq call[p].left /\ call'[p].left # call[p].left

(* A step of a call by where it was, where it goes and what the lock does. *)
Shape(p) ==
  \/ /\ call[p].at = "start" /\ call'[p].at = "read"
     /\ readers' = readers \cup {p} /\ writer' = writer
  \/ /\ call[p].at = "read" /\ call'[p].at \in {"idle", "upgrade"}
     /\ readers' = readers \ {p} /\ writer' = writer
  \/ /\ call[p].at \in {"upgrade", "close"} /\ call'[p].at \in {"announced", "draining"}
     /\ readers' = readers /\ writer' = p
  \/ /\ Holds(p) /\ call'[p].at \in {"locked", "store", "leave", "closing"}
     /\ readers' = readers /\ writer' = writer
     /\ \/ Rank(call'[p]) < Rank(call[p])
        \/ /\ call[p].at = "closing" /\ call'[p].at = "closing"
           /\ call'[p].left \subseteq call[p].left /\ call'[p].left # call[p].left
  \/ /\ call[p].at = "leave" /\ call'[p].at = "idle"
     /\ readers' = readers /\ writer' = NoProc

LEMMA SetCall ==
  ASSUME TypeOK, NEW p \in Procs, NEW c, Goto(p, c)
  PROVE  call'[p] = c /\ \A q \in Procs : q # p => call'[q] = call[q]
BY DEF TypeOK, Goto

LEMMA AtPlace ==
  ASSUME TypeOK, NEW p \in Procs, NEW k, Goto(p, [call[p] EXCEPT !.at = k])
  PROVE  call'[p].at = k
<1>1. PICK c \in Call : c = call[p]
  BY DEF TypeOK
<1>2. PICK d : d = [c EXCEPT !.at = k]
  OBVIOUS
<1>3. d.at = k
  BY <1>2 DEF Call, Idle, GetCall, StoreCall, LeaveCall, CloseCall
<1> QED BY <1>1, <1>2, <1>3, SetCall

LEMMA Ranks ==
  ASSUME NEW c
  PROVE  /\ c.at = "idle" => Rank(c) = 0
         /\ c.at = "leave" => Rank(c) = 1
         /\ c.at = "store" => Rank(c) = 2
         /\ c.at \in {"locked", "closing"} => Rank(c) = 3
         /\ c.at \in {"announced", "draining"} => Rank(c) = 4
         /\ c.at \in {"upgrade", "close"} => Rank(c) = 5
         /\ c.at = "read" => Rank(c) = 6
         /\ c.at = "start" => Rank(c) = 7
BY DEF Rank

LEMMA LookupShape ==
  ASSUME TypeOK, NEW p \in Procs, ReadLock(p) \/ ReadPool(p) \/ Announce(p)
  PROVE  Shape(p)
<1>1. CASE ReadLock(p)
  <2>1. Goto(p, [call[p] EXCEPT !.at = "read"])
    BY <1>1 DEF ReadLock
  <2> QED BY <1>1, <2>1, AtPlace DEF ReadLock, Shape
<1>2. CASE ReadPool(p)
  <2>1. Goto(p, Idle) \/ Goto(p, [call[p] EXCEPT !.at = "upgrade"])
    BY <1>2 DEF ReadPool
  <2>2. call'[p].at \in {"idle", "upgrade"}
    BY <2>1, AtPlace, SetCall DEF Idle
  <2> QED BY <1>2, <2>2 DEF ReadPool, Shape
<1>3. CASE Announce(p)
  <2>1. \/ Goto(p, [call[p] EXCEPT !.at = "draining"])
        \/ Goto(p, [call[p] EXCEPT !.at = "announced"])
    BY <1>3 DEF Announce
  <2>2. call'[p].at \in {"announced", "draining"}
    BY <2>1, AtPlace
  <2> QED BY <1>3, <2>2 DEF Announce, Shape
<1> QED BY <1>1, <1>2, <1>3

LEMMA HolderShape ==
  ASSUME TypeOK, NEW p \in Procs,
         \/ Granted(p) \/ FoundAfterAll(p) \/ OpenFails(p) \/ Store(p) \/ ResetMap(p)
         \/ \E h \in Handles : Open(p, h)
  PROVE  Shape(p)
<1>1. /\ Holds(p) /\ readers' = readers /\ writer' = writer
      /\ \/ call[p].at \in {"announced", "draining"} /\ call'[p].at \in {"locked", "closing"}
         \/ call[p].at = "locked" /\ call'[p].at \in {"store", "leave"}
         \/ call[p].at \in {"store", "closing"} /\ call'[p].at = "leave"
  <2>1. CASE Granted(p)
    <3>1. \/ Goto(p, [call[p] EXCEPT !.at = "closing"])
          \/ Goto(p, [call[p] EXCEPT !.at = "locked"])
      BY <2>1 DEF Granted
    <3>2. call'[p].at \in {"locked", "closing"}
      BY <3>1, AtPlace
    <3> QED BY <2>1, <3>2 DEF Granted, Holds
  <2>2. CASE FoundAfterAll(p) \/ OpenFails(p) \/ Store(p) \/ ResetMap(p)
    BY <2>2, SetCall DEF FoundAfterAll, OpenFails, Store, ResetMap, Leave, Holds
  <2>3. ASSUME NEW h \in Handles, Open(p, h)
        PROVE  /\ call[p].at = "locked" /\ call'[p].at = "store"
               /\ readers' = readers /\ writer' = writer
    BY <2>3, SetCall DEF Open
  <2> QED BY <2>1, <2>2, <2>3 DEF Holds
<1>2. Rank(call'[p]) < Rank(call[p])
  BY <1>1, Ranks
<1> QED BY <1>1, <1>2 DEF Shape

LEMMA EndShape ==
  ASSUME TypeOK, NEW p \in Procs, Unlock(p) \/ \E o \in Orgs : CloseOne(p, o)
  PROVE  Shape(p)
<1>1. CASE Unlock(p)
  BY <1>1, SetCall DEF Unlock, Idle, Shape
<1>2. ASSUME NEW o \in Orgs, CloseOne(p, o)
      PROVE  Shape(p)
  <2>1. call[p].at = "closing" /\ call[p] \in Call /\ o \in call[p].left
    BY <1>2 DEF CloseOne, TypeOK
  <2>2. call[p] = [at |-> "closing", left |-> call[p].left]
    BY <2>1, CallKinds
  <2>3. [call[p] EXCEPT !.left = @ \ {o}] = [at |-> "closing", left |-> call[p].left \ {o}]
    BY <2>2
  <2>4. call'[p] = [at |-> "closing", left |-> call[p].left \ {o}]
    BY <1>2, <2>3, SetCall DEF CloseOne
  <2>5. readers' = readers /\ writer' = writer
    BY <1>2 DEF CloseOne
  <2> QED BY <2>1, <2>4, <2>5 DEF Shape, Holds
<1> QED BY <1>1, <1>2

LEMMA LockStep ==
  ASSUME IInv, LockExact, [Next]_vars
  PROVE  LockExact' /\ Nearer
<1> USE DEF IInv
<1>1. ASSUME NEW p \in Procs, CloseAll(p) \/ \E o \in Orgs : Get(p, o)
      PROVE  LockExact' /\ Nearer
  <2>1. /\ call[p] = Idle /\ call'[p].at \in {"start", "close"}
        /\ \A q \in Procs : q # p => call'[q] = call[q]
        /\ UNCHANGED <<readers, writer>>
    <3>1. PICK c : Begin(p, c) /\ c.at \in {"start", "close"}
      <4>1. CASE CloseAll(p)
        BY <4>1 DEF CloseAll
      <4>2. ASSUME NEW o \in Orgs, Get(p, o)
            PROVE  \E c : Begin(p, c) /\ c.at = "start"
        BY <4>2 DEF Get
      <4> QED BY <1>1, <4>1, <4>2
    <3> QED BY <3>1, SetCall DEF Begin
  <2>2. call[p].at = "idle"
    BY <2>1 DEF Idle
  <2>3. LockExact'
    BY <2>1, <2>2, PoolConstants DEF TypeOK, LockExact, Holds
  <2> QED BY <2>1, <2>3 DEF Nearer
<1>2. ASSUME NEW p \in Procs, Proceed(p)
      PROVE  LockExact' /\ Nearer
  <2>1. Shape(p)
    BY <1>2, LookupShape, HolderShape, EndShape DEF Proceed
  <2>2. \A q \in Procs : q # p => call'[q] = call[q]
    BY <1>2, SetCall DEF Proceed, ReadLock, ReadPool, Announce, Granted, FoundAfterAll,
       OpenFails, Open, Store, Unlock, CloseOne, ResetMap
  <2>3. Nearer
    <3>1. \/ Rank(call'[p]) < Rank(call[p])
          \/ /\ call[p].at = "closing" /\ call'[p].at = "closing"
             /\ call'[p].left \subseteq call[p].left /\ call'[p].left # call[p].left
      BY <2>1, Ranks DEF Shape
    <3> QED BY <2>2, <3>1 DEF Nearer
  <2>4. writer' # NoProc => Holds(writer)'
    BY <2>1, <2>2, PoolConstants DEF TypeOK, LockExact, Shape, Holds, Locked
  <2>5. readers' = {q \in Procs : call'[q].at = "read"}
    BY <2>1, <2>2 DEF LockExact, Shape, Holds
  <2> QED BY <2>3, <2>4, <2>5 DEF LockExact
<1>3. CASE UNCHANGED vars
  BY <1>3 DEF vars, LockExact, Nearer, Holds
<1> QED BY <1>1, <1>2, <1>3 DEF Next

LEMMA AlwaysExact == Safety => []LockExact
<1>1. Init => LockExact
  BY DEF Init, LockExact, Idle
<1>2. IInv /\ LockExact /\ [Next]_vars => LockExact'
  BY LockStep
<1> QED BY <1>1, <1>2, AlwaysIInv, PTL DEF Safety

(* Get and CloseAll never block each other for good: whenever a call is under way,
   some call waits for nobody. *)
THEOREM PoolNeverDeadlocks == Spec => []SomeoneProceeds
<1>1. ASSUME IInv, LockExact PROVE SomeoneProceeds
  <2> SUFFICES ASSUME NEW p \in Procs, call[p] # Idle
               PROVE  \E q \in Procs : CanProceed(q)
    BY DEF SomeoneProceeds
  <2>1. CASE writer = NoProc
    <3>1. call[p].at # "idle" /\ call[p] \in Call
      BY <1>1 DEF IInv, TypeOK, Call, Idle, GetCall, StoreCall, LeaveCall, CloseCall
    <3>2. ~Holds(p)
      BY <1>1, <2>1, PoolConstants DEF IInv, Locked
    <3> QED BY <2>1, <3>1, <3>2, CallKinds DEF CanProceed, Holds
  <2>2. CASE writer # NoProc
    <3>1. writer \in Procs /\ Holds(writer)
      BY <1>1, <2>2 DEF IInv, TypeOK, LockExact
    <3>2. CASE readers = {}
      BY <3>1, <3>2 DEF CanProceed, Holds
    <3>3. CASE readers # {}
      BY <1>1, <3>3 DEF LockExact, CanProceed
    <3> QED BY <3>2, <3>3
  <2> QED BY <2>1, <2>2
<1> QED BY <1>1, AlwaysIInv, AlwaysExact, PTL DEF Spec

(* A call never starts over: each of its steps takes it nearer to its return, so
   that it ends unless it waits for ever. *)
THEOREM CallsComeNearer == Spec => [][Nearer]_vars
<1>1. IInv /\ LockExact /\ [Next]_vars => [Nearer]_vars
  BY LockStep
<1> QED BY <1>1, AlwaysIInv, AlwaysExact, PTL DEF Spec, Safety

-----------------------------------------------------------------------------
(* What Get hands out. *)

(* The handle that Get is about to return, from either lookup or newly opened, is
   open, and its own tenant's. *)
HandsOutOpen ==
  \A p \in Procs :
    /\ (call[p].at \in {"read", "locked"} /\ pools[call[p].org] # NoHandle) =>
         pools[call[p].org] \in OpenHandles(call[p].org)
    /\ call[p].at = "store" => call[p].handle \in OpenHandles(call[p].org)

(* A request never gets a handle that CloseAll has already closed: CloseAll keeps
   the lock until the map is empty again. *)
THEOREM GetHandsOutOpen == Spec => []HandsOutOpen
<1>1. ASSUME IInv, LockExact PROVE HandsOutOpen
  <2> SUFFICES ASSUME NEW p \in Procs
               PROVE  /\ (call[p].at \in {"read", "locked"} /\ pools[call[p].org] # NoHandle) =>
                           pools[call[p].org] \in OpenHandles(call[p].org)
                      /\ call[p].at = "store" => call[p].handle \in OpenHandles(call[p].org)
    BY DEF HandsOutOpen
  <2>1. call[p] \in Call
    BY <1>1 DEF IInv, TypeOK
  <2>2. CASE call[p].at \in {"read", "locked"}
    <3>1. call[p].org \in Orgs
      BY <2>1, <2>2, CallKinds
    <3>2. \A q \in Procs : call[q].at # "closing"
      <4>1. CASE call[p].at = "read"
        BY <1>1, <4>1 DEF IInv, Locked, LockExact, InSection
      <4>2. CASE call[p].at = "locked"
        BY <1>1, <4>2, Alone DEF InSection
      <4> QED BY <2>2, <4>1, <4>2
    <3> QED BY <1>1, <2>2, <3>1, <3>2, Exact DEF MapIsExact
  <2>3. CASE call[p].at = "store"
    <3>1. call[p].org \in Orgs /\ call[p].handle \in Handles
      BY <2>1, <2>3, CallKinds
    <3>2. Storing(p, call[p].org, call[p].handle)
      BY <2>3 DEF Storing
    <3>3. /\ <<call[p].org, call[p].handle>> \in opened
          /\ call[p].handle \notin closed
      BY <1>1, <3>1, <3>2 DEF IInv, Booked
    <3> QED BY <2>3, <3>3 DEF OpenHandles
  <2> QED BY <2>2, <2>3
<1> QED BY <1>1, AlwaysIInv, AlwaysExact, PTL DEF Spec
=============================================================================
