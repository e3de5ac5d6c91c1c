----------------------------- MODULE TenantPool -----------------------------
(***************************************************************************)
(* TenantDBPool: the map of open tenant databases behind a sync.RWMutex.   *)
(* Get looks an organization up under the read lock, and when it is absent *)
(* looks again under the write lock and opens it; CloseAll closes every    *)
(* handle and empties the map.                                             *)
(*                                                                         *)
(* The lock is Go's: Lock first takes the writers' mutex and announces     *)
(* itself, which holds back new readers, and is granted when the readers   *)
(* that were in have left.                                                 *)
(***************************************************************************)
EXTENDS Integers, FiniteSets

CONSTANTS
  Orgs,
  Handles,       \* the *sql.DB values sql.Open can return, each once
                 \* (their number bounds how often it succeeds)
  Procs,         \* goroutines
  NoHandle, NoProc

ASSUME PoolConstants == NoHandle \notin Handles /\ NoProc \notin Procs

VARIABLES
  pools,         \* pools[o] : the handle under key o
  readers,       \* goroutines inside the read lock
  writer,        \* the goroutine that has announced a write lock
  call,          \* call[p] : where p is in Get or CloseAll
  opened,        \* history: <<org, handle>> that sql.Open has returned
  closed         \* handles that have been closed

vars == <<pools, readers, writer, call, opened, closed>>

-----------------------------------------------------------------------------
Idle == [at |-> "idle"]
GetCall == [at : {"start", "read", "upgrade", "announced", "locked"}, org : Orgs]
StoreCall == [at : {"store"}, org : Orgs, handle : Handles]
LeaveCall == [at : {"leave"}]
CloseCall == [at : {"close", "draining", "closing"}, left : SUBSET Orgs]
Call == {Idle} \cup GetCall \cup StoreCall \cup LeaveCall \cup CloseCall

TypeOK ==
  /\ pools \in [Orgs -> Handles \cup {NoHandle}]
  /\ readers \subseteq Procs
  /\ writer \in Procs \cup {NoProc}
  /\ call \in [Procs -> Call]
  /\ opened \subseteq Orgs \X Handles
  /\ closed \subseteq Handles

Init ==
  /\ pools = [o \in Orgs |-> NoHandle]
  /\ readers = {}
  /\ writer = NoProc
  /\ call = [p \in Procs |-> Idle]
  /\ opened = {} /\ closed = {}

Goto(p, c) == call' = [call EXCEPT ![p] = c]

Begin(p, c) ==
  /\ call[p] = Idle
  /\ Goto(p, c)
  /\ UNCHANGED <<pools, readers, writer, opened, closed>>

Get(p, o) == Begin(p, [at |-> "start", org |-> o])
CloseAll(p) == Begin(p, [at |-> "close", left |-> Orgs])

-----------------------------------------------------------------------------
(* mu.RLock *)
ReadLock(p) ==
  /\ call[p].at = "start" /\ writer = NoProc
  /\ readers' = readers \cup {p}
  /\ Goto(p, [call[p] EXCEPT !.at = "read"])
  /\ UNCHANGED <<pools, writer, opened, closed>>

(* Variant: the write lock forgotten after a miss. *)
ReadPoolNoUpgrade(p) ==
  LET c == call[p] IN
  /\ c.at = "read"
  /\ readers' = readers \ {p}
  /\ Goto(p, IF pools[c.org] # NoHandle THEN Idle ELSE [c EXCEPT !.at = "locked"])
  /\ UNCHANGED <<pools, writer, opened, closed>>

(* The first lookup and mu.RUnlock: Get returns the handle, or goes on. *)
ReadPool(p) ==
  LET c == call[p] IN
  /\ c.at = "read"
  /\ readers' = readers \ {p}
  /\ Goto(p, IF pools[c.org] # NoHandle THEN Idle ELSE [c EXCEPT !.at = "upgrade"])
  /\ UNCHANGED <<pools, writer, opened, closed>>

(* mu.Lock: the writers' mutex and the announcement, ... *)
Announce(p) ==
  LET c == call[p] IN
  /\ c.at \in {"upgrade", "close"} /\ writer = NoProc
  /\ writer' = p
  /\ Goto(p, [c EXCEPT !.at = IF c.at = "close" THEN "draining" ELSE "announced"])
  /\ UNCHANGED <<pools, readers, opened, closed>>

(* ... then the last reader leaves. *)
Granted(p) ==
  LET c == call[p] IN
  /\ c.at \in {"announced", "draining"} /\ readers = {}
  /\ Goto(p, [c EXCEPT !.at = IF c.at = "draining" THEN "closing" ELSE "locked"])
  /\ UNCHANGED <<pools, readers, writer, opened, closed>>

Leave == [at |-> "leave"]

(* The second lookup of Get, then sql.Open. *)
FoundAfterAll(p) ==
  LET c == call[p] IN
  /\ c.at = "locked" /\ pools[c.org] # NoHandle
  /\ Goto(p, Leave)
  /\ UNCHANGED <<pools, readers, writer, opened, closed>>

(* Variant: no second lookup. *)
OpenUnconditionally(p, h) ==
  LET c == call[p] IN
  /\ c.at = "locked"
  /\ \A k \in opened : k[2] # h
  /\ opened' = opened \cup {<<c.org, h>>}
  /\ Goto(p, [at |-> "store", org |-> c.org, handle |-> h])
  /\ UNCHANGED <<pools, readers, writer, closed>>

Open(p, h) ==
  LET c == call[p] IN
  /\ c.at = "locked" /\ pools[c.org] = NoHandle
  /\ \A k \in opened : k[2] # h
  /\ opened' = opened \cup {<<c.org, h>>}
  /\ Goto(p, [at |-> "store", org |-> c.org, handle |-> h])
  /\ UNCHANGED <<pools, readers, writer, closed>>

(* Variant: the error return that forgets the lock. *)
OpenFailsLocked(p) ==
  /\ call[p].at = "locked" /\ pools[call[p].org] = NoHandle
  /\ Goto(p, Idle)
  /\ UNCHANGED <<pools, readers, writer, opened, closed>>

(* sql.Open fails: nothing is stored, and the deferred Unlock runs. *)
OpenFails(p) ==
  /\ call[p].at = "locked" /\ pools[call[p].org] = NoHandle
  /\ Goto(p, Leave)
  /\ UNCHANGED <<pools, readers, writer, opened, closed>>

Store(p) ==
  LET c == call[p] IN
  /\ c.at = "store"
  /\ pools' = [pools EXCEPT ![c.org] = c.handle]
  /\ Goto(p, Leave)
  /\ UNCHANGED <<readers, writer, opened, closed>>

(* The deferred Unlock. *)
Unlock(p) ==
  /\ call[p].at = "leave"
  /\ writer' = NoProc
  /\ Goto(p, Idle)
  /\ UNCHANGED <<pools, readers, opened, closed>>

(* Variant: every key of the map is taken to have a handle. *)
CloseNil(p, o) ==
  LET c == call[p] IN
  /\ c.at = "closing" /\ o \in c.left
  /\ closed' = closed \cup {pools[o]}
  /\ Goto(p, [c EXCEPT !.left = @ \ {o}])
  /\ UNCHANGED <<pools, readers, writer, opened>>

(* CloseAll under the lock: close the handles one by one, ... *)
CloseOne(p, o) ==
  LET c == call[p] IN
  /\ c.at = "closing" /\ o \in c.left
  /\ closed' = closed \cup ({pools[o]} \ {NoHandle})
  /\ Goto(p, [c EXCEPT !.left = @ \ {o}])
  /\ UNCHANGED <<pools, readers, writer, opened>>

(* Variant: the map is kept, closed handles and all. *)
KeepMap(p) ==
  /\ call[p].at = "closing" /\ call[p].left = {}
  /\ Goto(p, Leave)
  /\ UNCHANGED <<pools, readers, writer, opened, closed>>

(* ... then make a new map. *)
ResetMap(p) ==
  /\ call[p].at = "closing" /\ call[p].left = {}
  /\ pools' = [o \in Orgs |-> NoHandle]
  /\ Goto(p, Leave)
  /\ UNCHANGED <<readers, writer, opened, closed>>

Proceed(p) ==
  \/ ReadLock(p) \/ ReadPool(p) \/ Announce(p) \/ Granted(p)
  \/ FoundAfterAll(p) \/ OpenFails(p)
  \/ \E h \in Handles : Open(p, h)
  \/ Store(p) \/ Unlock(p)
  \/ \E o \in Orgs : CloseOne(p, o)
  \/ ResetMap(p)

Next ==
  \E p \in Procs :
    \/ \E o \in Orgs : Get(p, o)
    \/ CloseAll(p) \/ Proceed(p)

Safety == Init /\ [][Next]_vars

(* A runnable goroutine runs.  Neither waiting readers nor waiting writers are
   passed over for ever: Unlock lets in the readers that wait before the next
   writer is announced, and the writers' mutex has a starvation mode. *)
Spec == /\ Safety
        /\ \A p \in Procs : /\ WF_vars(Proceed(p))
                            /\ SF_vars(ReadLock(p))
                            /\ SF_vars(Announce(p))

-----------------------------------------------------------------------------
OpenHandles(o) == {k[2] : k \in {x \in opened : x[1] = o}} \ closed

(* Two requests that miss at the same moment never leave two handles open on
   the same tenant's file. *)
OneHandlePerOrg ==
  \A o \in Orgs : \A g, h \in OpenHandles(o) : g = h

(* No handle leaks and none is found dead: what is open is in the map, or in
   the hands of the goroutine that is about to put it there; what is in the
   map is open, except while CloseAll is at work. *)
MapIsExact ==
  \A o \in Orgs :
    /\ \A h \in OpenHandles(o) :
         pools[o] = h \/ \E p \in Procs : /\ call[p].at = "store"
                                          /\ call[p].handle = h
    /\ pools[o] \in OpenHandles(o) \cup {NoHandle}
         \/ \E p \in Procs : call[p].at = "closing"

(* The map is never written while another goroutine is reading or writing it:
   what the runtime would end the process for. *)
InSection(p) == call[p].at \in {"locked", "store", "leave", "closing"}

NoMapRace ==
  \A p, q \in Procs : (InSection(p) /\ p # q) => ~InSection(q) /\ q \notin readers

(* Every Get and CloseAll returns, error returns included. *)
CallsReturn == \A p \in Procs : call[p] # Idle ~> call[p] = Idle
=============================================================================
