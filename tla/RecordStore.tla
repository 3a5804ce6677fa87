----------------------------- MODULE RecordStore -----------------------------
(***************************************************************************)
(* The store of gloqtest.Recorder, whatever the records say: goroutines put*)
(* records into it under its mutex, while it is reset and a test asserts   *)
(* what was logged. Records copies the store under the mutex; AssertLogged *)
(* searches one copy and, if that finds nothing, lists another.            *)
(***************************************************************************)
EXTENDS Naturals, Sequences

CONSTANTS
  Records,   \* records logged, each once
  MaxResets, \* bound on calls of Reset
  None

Points == {"lock", "append", "done"}

(* A call of Handle: where it is, and the slice that append looks at.      *)
HandleCalls == [point : Points, seen : Seq(Records)]

ASSUME StoreAssumption ==
  /\ MaxResets \in Nat
  /\ None \notin Records
  /\ None \notin HandleCalls

VARIABLES
  log,     \* per record: its call of Handle, or None
  mu,      \* the record whose call holds store.mu, or None
  store,   \* store.records
  resets,  \* calls of Reset so far
  dropped, \* the records that Reset has dropped
  test     \* where the assertion is

storeVars == <<log, mu, store, resets, dropped, test>>

Idle == [point |-> "idle"]

StoreInit ==
  /\ log = [r \in Records |-> None]
  /\ mu = None
  /\ store = <<>>
  /\ resets = 0
  /\ dropped = {}
  /\ test = Idle

(* Handle begins and puts the attributes together.                         *)
Log(r) ==
  /\ log[r] = None
  /\ log' = [log EXCEPT ![r] = [point |-> "lock", seen |-> <<>>]]
  /\ UNCHANGED <<mu, store, resets, dropped, test>>

(* As Lock, but the mutex is not waited for.                               *)
LockNever(r) ==
  /\ log[r] # None
  /\ log[r].point = "lock"
  /\ mu' = r
  /\ log' = [log EXCEPT ![r] = [point |-> "append", seen |-> store]]
  /\ UNCHANGED <<store, resets, dropped, test>>

(* The mutex is taken, and append looks at the slice.                      *)
Lock(r) ==
  /\ log[r] # None
  /\ log[r].point = "lock"
  /\ mu = None
  /\ mu' = r
  /\ log' = [log EXCEPT ![r] = [point |-> "append", seen |-> store]]
  /\ UNCHANGED <<store, resets, dropped, test>>

(* As Store, but the newest record comes first.                            *)
StoreInFront(r) ==
  /\ log[r] # None
  /\ log[r].point = "append"
  /\ store' = <<r>> \o log[r].seen
  /\ mu' = None
  /\ log' = [log EXCEPT ![r] = [point |-> "done", seen |-> <<>>]]
  /\ UNCHANGED <<resets, dropped, test>>

(* What it returns is stored, the mutex released, and Handle returns.      *)
Store(r) ==
  /\ log[r] # None
  /\ log[r].point = "append"
  /\ store' = Append(log[r].seen, r)
  /\ mu' = None
  /\ log' = [log EXCEPT ![r] = [point |-> "done", seen |-> <<>>]]
  /\ UNCHANGED <<resets, dropped, test>>

Reset ==
  /\ mu = None
  /\ resets < MaxResets
  /\ resets' = resets + 1
  /\ dropped' = dropped \cup {store[i] : i \in DOMAIN store}
  /\ store' = <<>>
  /\ UNCHANGED <<log, mu, test>>

(* AssertLogged for what the records in hits match: the search.            *)
Search(hits) ==
  /\ test.point = "idle"
  /\ mu = None
  /\ test' = IF \E i \in DOMAIN store : store[i] \in hits THEN Idle
             ELSE [point |-> "dump", hits |-> hits, searched |-> store]
  /\ UNCHANGED <<log, mu, store, resets, dropped>>

(* The listing for the failure.                                            *)
Dump ==
  /\ test.point = "dump"
  /\ mu = None
  /\ test' = [point |-> "failed", hits |-> test.hits,
              searched |-> test.searched, listed |-> store]
  /\ UNCHANGED <<log, mu, store, resets, dropped>>

(* Errorf reports it, and the test goes on.                                *)
Errorf ==
  /\ test.point = "failed"
  /\ test' = Idle
  /\ UNCHANGED <<log, mu, store, resets, dropped>>

StoreNext ==
  \/ \E r \in Records : Log(r) \/ Lock(r) \/ Store(r)
  \/ \E hits \in SUBSET Records : Search(hits)
  \/ Reset \/ Dump \/ Errorf

StoreSpec == StoreInit /\ [][StoreNext]_storeVars

-----------------------------------------------------------------------------
Stored == {store[i] : i \in DOMAIN store}

At(point) == {r \in Records : log[r] # None /\ log[r].point = point}

(* The type invariant; the mutex is held by the call that appends.         *)
TypeOK ==
  /\ \A r \in Records : log[r] # None => log[r] \in HandleCalls
  /\ mu \in Records \cup {None}
  /\ \A r \in Records : mu = r <=> r \in At("append")
  /\ store \in Seq(Records)
  /\ resets \in 0..MaxResets
  /\ dropped \subseteq Records
  /\ test.point \in {"idle", "dump", "failed"}

(* "Records every record", "safe for concurrent use": once a logging call  *)
(* has returned its record is there, once and until Reset, whatever other  *)
(* calls of Handle, Reset and assertions were under way.                   *)
StoredOnce ==
  /\ Stored \cup dropped = At("done")
  /\ Stored \cap dropped = {}
  /\ \A i, j \in DOMAIN store : store[i] = store[j] => i = j

Begins(s, t) == Len(s) <= Len(t) /\ \A i \in DOMAIN s : t[i] = s[i]

(* "A failed assertion lists every recorded record": the listing is made   *)
(* after the search, so it has all that was searched, first and in order,  *)
(* unless Reset was called between the two; none of that matches. A record *)
(* it has beyond that may match, but was logged after the search.          *)
FailureListsSearched ==
  test.point = "failed" =>
    /\ \A i \in DOMAIN test.searched : test.searched[i] \notin test.hits
    /\ \/ Begins(test.searched, test.listed)
       \/ \E i \in DOMAIN test.searched : test.searched[i] \in dropped
=============================================================================
