------------------------------- MODULE Cache -------------------------------
(***************************************************************************)
(* resolve.Cache (resolve/cache.go): an LRU cache with a TTL in front of a *)
(* Source.  Concurrent lookups of one key join the one that is filling its *)
(* entry; failures are not remembered; Purge empties it.                   *)
(*                                                                         *)
(* A cacheEntry is an id of Ids.  An id nothing refers to is free and      *)
(* blank, as the garbage collector reclaims entries.  `order' is the list  *)
(* of elements, each named by the entry it was pushed for.  Steps under    *)
(* Cache.mu are one action.  Time is the age of a filled entry, counted up *)
(* to TTL.                                                                 *)
(***************************************************************************)
EXTENDS Integers, Sequences

CONSTANTS Procs,       \* goroutines calling the cache
          Keys,        \* cacheKeys
          Ids,         \* entry identities, a finite set of numbers
          None,        \* nil
          MaxEntries,  \* Cache.MaxEntries; negative: no cap
          TTL          \* Cache.TTL in ticks; 0: entries never expire

ASSUME CacheAssumption ==
  /\ TTL \in Nat
  /\ MaxEntries \in Int /\ MaxEntries # 0   \* 0 stands for DefaultCacheEntries
  /\ Ids \subseteq Nat /\ None \notin Ids /\ None \notin Keys

VARIABLES entries,   \* Cache.entries: key -> entry, None when absent
          order,     \* Cache.order: elements, least recently used first
          entry,     \* the cacheEntry records
          panicked,  \* evict dereferenced a nil entry
          pc, key, ref, ctxDone,   \* per lookup
          purged     \* history: the live entries that were there at a Purge

vars == <<entries, order, entry, panicked, pc, key, ref, ctxDone, purged>>

Answers == {"answer"}             \* a value or ErrNotFound: what the cache may remember
Errors  == {"failed", "ctxErr"}   \* what it may not
Results == Answers \cup Errors

Entry == [key : Keys \cup {None}, age : 0..TTL, err : Results \cup {"none"}, ready : BOOLEAN]
NewEntry(k) == [key |-> k, age |-> 0, err |-> "none", ready |-> FALSE]
Blank == NewEntry(None)

Init ==
  /\ entries = [k \in Keys |-> None]
  /\ order = <<>>
  /\ entry = [i \in Ids |-> Blank]
  /\ panicked = FALSE
  /\ pc = [p \in Procs |-> "idle"]
  /\ key = [p \in Procs |-> None]
  /\ ref = [p \in Procs |-> None]
  /\ ctxDone = [p \in Procs |-> FALSE]
  /\ purged = {}

----------------------------------------------------------------------------
(* Entries something still refers to. *)
Live == {i \in Ids : \/ \E k \in Keys : entries[k] = i
                     \/ \E n \in DOMAIN order : order[n] = i
                     \/ \E p \in Procs : ref[p] = i}

Reclaim(e) == [i \in Ids |-> IF i \in Live' THEN e[i] ELSE Blank]

(* Mutant: the zero time of an entry being filled counts as long ago. *)
ExpiresInFlight(i) == TTL = 0 \/ (entry[i].err # "none" /\ entry[i].age < TTL)

(* An entry still being filled is fresh: a lookup joins it. *)
fresh(i) == TTL = 0 \/ ~entry[i].ready \/ entry[i].age < TTL

(* list.Remove: the list without the element of i. *)
Without(s, i) ==
  LET at == CHOOSE n \in DOMAIN s : s[n] = i
  IN  IF \E n \in DOMAIN s : s[n] = i
        THEN [n \in 1..(Len(s) - 1) |-> IF n < at THEN s[n] ELSE s[n + 1]]
        ELSE s

(* GetSet, OriginatedRoutes, MembersByRef, AutNum, InetRtr: build the key and
   call lookup. *)
Begin(p, k) ==
  /\ pc[p] = "idle"
  /\ pc' = [pc EXCEPT ![p] = "lock"]
  /\ key' = [key EXCEPT ![p] = k]
  /\ UNCHANGED <<entries, order, entry, panicked, ref, ctxDone, purged>>

(* The lookup ends. *)
Return(p) ==
  /\ pc' = [pc EXCEPT ![p] = "idle"]
  /\ key' = [key EXCEPT ![p] = None]
  /\ ref' = [ref EXCEPT ![p] = None]
  /\ ctxDone' = [ctxDone EXCEPT ![p] = FALSE]

(* Mutant: a hit does not touch the entry. *)
HitUntouched(p) ==
  LET i == entries[key[p]] IN
  /\ pc[p] = "lock" /\ ~panicked
  /\ i # None /\ fresh(i)
  /\ pc' = [pc EXCEPT ![p] = "wait"]
  /\ ref' = [ref EXCEPT ![p] = i]
  /\ UNCHANGED <<entries, order, entry, panicked, key, ctxDone, purged>>

(* A fresh entry: touch it and wait until it is ready. *)
Hit(p) ==
  LET i == entries[key[p]] IN
  /\ pc[p] = "lock" /\ ~panicked
  /\ i # None /\ fresh(i)
  /\ order' = Append(Without(order, i), i)
  /\ pc' = [pc EXCEPT ![p] = "wait"]
  /\ ref' = [ref EXCEPT ![p] = i]
  /\ UNCHANGED <<entries, entry, panicked, key, ctxDone, purged>>

(* evict, after i was pushed for k: while the list is over the cap, remove the
   map's entry for the key of the front element, and that entry's own element.
   The list was within the cap before the push, so one removal is enough. *)
OverCap(o) == MaxEntries > 0 /\ Len(o) > MaxEntries

\* Mutant: the evicted key stays in the map.
EvictsListOnly(ents, o, keyOf) ==
  /\ entries' = ents /\ panicked' = FALSE
  /\ order' = IF OverCap(o) THEN Tail(o) ELSE o

evict(ents, o, keyOf) ==
  LET k == keyOf[Head(o)] IN
  IF ~OverCap(o) THEN /\ entries' = ents
                      /\ order' = o
                      /\ panicked' = FALSE
  ELSE /\ entries' = [ents EXCEPT ![k] = None]
       /\ panicked' = (ents[k] = None)
       /\ order' = Without(o, ents[k])

(* No fresh entry: put a new one in and evict; the lookup goes on to fill it. *)
Miss(p) ==
  LET k == key[p] IN
  /\ pc[p] = "lock" /\ ~panicked
  /\ ~(entries[k] # None /\ fresh(entries[k]))
  /\ \E i \in Ids \ Live :
       /\ \A j \in Ids \ Live : i <= j
       /\ evict([entries EXCEPT ![k] = i], Append(order, i),
                [j \in Ids |-> IF j = i THEN k ELSE entry[j].key])
       /\ pc' = [pc EXCEPT ![p] = IF panicked' THEN "dead" ELSE "fill"]
       /\ ref' = [ref EXCEPT ![p] = i]
       /\ purged' = purged \cap Live'
       /\ entry' = Reclaim([entry EXCEPT ![i] = NewEntry(k)])
  /\ UNCHANGED <<key, ctxDone>>

(* Mutant: after the fill the entry is read again from the map. *)
FillsMapped(p, r) ==
  /\ pc[p] = "fill"
  /\ entry' = [entry EXCEPT ![ref[p]] = [key |-> @.key, age |-> 0, err |-> r, ready |-> @.ready]]
  /\ pc' = [pc EXCEPT ![p] = IF r \in Errors THEN "drop" ELSE "close"]
  /\ ref' = [ref EXCEPT ![p] = entries[key[p]]]
  /\ UNCHANGED <<entries, order, panicked, key, ctxDone, purged>>

(* The Source answers.  A context error may be the caller's, or a deadline of
   the Source's own. *)
Fill(p, r) ==
  /\ pc[p] = "fill"
  /\ entry' = [entry EXCEPT ![ref[p]] = [key |-> @.key, age |-> 0, err |-> r, ready |-> @.ready]]
  /\ pc' = [pc EXCEPT ![p] = IF r \in Errors THEN "drop" ELSE "close"]
  /\ UNCHANGED <<entries, order, panicked, key, ref, ctxDone, purged>>

(* Mutant: failures are remembered. *)
KeepsFailure(p) ==
  /\ pc[p] = "drop" /\ ~panicked
  /\ pc' = [pc EXCEPT ![p] = "close"]
  /\ UNCHANGED <<entries, order, entry, panicked, key, ref, ctxDone, purged>>

(* A failure is not remembered: the entry goes, if it is still the key's. *)
Drop(p) ==
  LET k == key[p] IN
  /\ pc[p] = "drop" /\ ~panicked
  /\ pc' = [pc EXCEPT ![p] = "close"]
  /\ IF entries[k] = ref[p]
       THEN /\ entries' = [entries EXCEPT ![k] = None]
            /\ order' = Without(order, ref[p])
       ELSE UNCHANGED <<entries, order>>
  /\ UNCHANGED <<entry, panicked, key, ref, ctxDone, purged>>

(* Mutant: the failure path returns without closing ready. *)
ClosesAnswersOnly(p) ==
  LET i == ref[p] IN
  /\ pc[p] = "close"
  /\ Return(p)
  /\ UNCHANGED <<entries, order, panicked>>
  /\ purged' = purged \cap Live'
  /\ entry' = Reclaim([entry EXCEPT ![i] =
       [key |-> @.key, age |-> @.age, err |-> @.err, ready |-> @.err \in Answers]])

(* close(e.ready) wakes the waiters; the filler returns the entry. *)
Close(p) ==
  LET i == ref[p] IN
  /\ pc[p] = "close"
  /\ Return(p)
  /\ UNCHANGED <<entries, order, panicked>>
  /\ purged' = purged \cap Live'
  /\ entry' = Reclaim([entry EXCEPT ![i] = [key |-> @.key, age |-> @.age, err |-> @.err, ready |-> TRUE]])

(* Mutant: a waiter looks up again after any failure of the filler. *)
RetriesOnFailure(p) ==
  LET i == ref[p] IN
  /\ pc[p] = "wait"
  /\ entry[i].ready
  /\ IF entry[i].err \in Errors /\ ~ctxDone[p]
       THEN /\ pc' = [pc EXCEPT ![p] = "lock"]
            /\ ref' = [ref EXCEPT ![p] = None]
            /\ UNCHANGED <<key, ctxDone>>
       ELSE Return(p)
  /\ UNCHANGED <<entries, order, panicked>>
  /\ purged' = purged \cap Live'
  /\ entry' = Reclaim(entry)

(* The entry is ready.  A context error was its filler's: a waiter whose own
   context is fine looks up again. *)
Wake(p) ==
  LET i == ref[p] IN
  /\ pc[p] = "wait"
  /\ entry[i].ready
  /\ IF entry[i].err = "ctxErr" /\ ~ctxDone[p]
       THEN /\ pc' = [pc EXCEPT ![p] = "lock"]
            /\ ref' = [ref EXCEPT ![p] = None]
            /\ UNCHANGED <<key, ctxDone>>
       ELSE Return(p)   \* with the entry
  /\ UNCHANGED <<entries, order, panicked>>
  /\ purged' = purged \cap Live'
  /\ entry' = Reclaim(entry)

(* Mutant: a waiter looks at its context only once the entry is ready. *)
GivesUpLate(p) ==
  /\ pc[p] = "wait"
  /\ ctxDone[p] /\ entry[ref[p]].ready
  /\ Return(p)
  /\ UNCHANGED <<entries, order, panicked>>
  /\ purged' = purged \cap Live'
  /\ entry' = Reclaim(entry)

(* The waiter's own context ended. *)
GiveUp(p) ==
  /\ pc[p] = "wait"
  /\ ctxDone[p]
  /\ Return(p)
  /\ UNCHANGED <<entries, order, panicked>>
  /\ purged' = purged \cap Live'
  /\ entry' = Reclaim(entry)

(* Mutant: Purge leaves what is in flight. *)
PurgesReady ==
  /\ ~panicked
  /\ entries' = [k \in Keys |-> IF entries[k] # None /\ ~entry[entries[k]].ready THEN entries[k] ELSE None]
  /\ order' = SelectSeq(order, LAMBDA i : ~entry[i].ready)
  /\ UNCHANGED <<panicked, pc, key, ref, ctxDone>>
  /\ purged' = Live'
  /\ entry' = Reclaim(entry)

Purge ==
  /\ ~panicked
  /\ entries' = [k \in Keys |-> None]
  /\ order' = <<>>
  /\ UNCHANGED <<panicked, pc, key, ref, ctxDone>>
  /\ purged' = Live'
  /\ entry' = Reclaim(entry)

----------------------------------------------------------------------------
(* Environment: a caller's context ends; time passes. *)
Cancel(p) ==
  /\ pc[p] # "idle" /\ ~ctxDone[p]
  /\ ctxDone' = [ctxDone EXCEPT ![p] = TRUE]
  /\ UNCHANGED <<entries, order, entry, panicked, pc, key, ref, purged>>

(* e.at is set when the Source has answered. *)
Aging(i) == entry[i].err # "none" /\ entry[i].age < TTL
Older(e) == [key |-> e.key, age |-> e.age + 1, err |-> e.err, ready |-> e.ready]
Tick ==
  /\ \E i \in Ids : Aging(i)
  /\ entry' = [i \in Ids |->
       IF Aging(i) THEN Older(entry[i]) ELSE entry[i]]
  /\ UNCHANGED <<entries, order, panicked, pc, key, ref, ctxDone, purged>>

Next ==
  \/ \E p \in Procs :
       \/ \E k \in Keys : Begin(p, k)
       \/ Hit(p)
       \/ Miss(p)
       \/ \E r \in Results : Fill(p, r)
       \/ Drop(p)
       \/ Close(p)
       \/ Wake(p)
       \/ GiveUp(p)
       \/ Cancel(p)
  \/ Purge
  \/ Tick

Spec == Init /\ [][Next]_vars

(* The scheduler runs every goroutine that can run.  The Source is not assumed
   to answer: nothing is said of Fill. *)
Fairness == \A p \in Procs :
  WF_vars(Hit(p) \/ Miss(p)) /\ WF_vars(Drop(p)) /\ WF_vars(Close(p))
    /\ WF_vars(Wake(p)) /\ WF_vars(GiveUp(p))

FairSpec == Spec /\ Fairness

----------------------------------------------------------------------------
States == {"idle", "lock", "wait", "fill", "drop", "close", "dead"}
Filling == {"fill", "drop", "close"}

Held == \A p \in Procs :
  /\ pc[p] # "idle" => key[p] \in Keys
  /\ pc[p] \in Filling \cup {"wait"} => ref[p] \in Ids

\* Type invariant of the cache's fields and of every lookup in progress: it has
\* its key throughout, and its entry from the map to its end, whatever is
\* evicted or purged under it.
TypeOK ==
  /\ entries \in [Keys -> Ids \cup {None}]
  /\ order \in Seq(Ids)
  /\ entry \in [Ids -> Entry]
  /\ panicked \in BOOLEAN
  /\ pc \in [Procs -> States]
  /\ key \in [Procs -> Keys \cup {None}]
  /\ ref \in [Procs -> Ids \cup {None}]
  /\ ctxDone \in [Procs -> BOOLEAN]
  /\ purged \subseteq Ids
  /\ Held

----------------------------------------------------------------------------
\* An entry under way is not ready and knows its key; once it has failed and
\* its filler has passed the check, the map no longer holds it.
FillerInv == \A p \in Procs :
  /\ pc[p] \in {"idle", "lock"} => ref[p] = None
  /\ pc[p] \in Filling => ~entry[ref[p]].ready /\ entry[ref[p]].key = key[p]
  /\ pc[p] \in {"drop", "close"} => entry[ref[p]].err # "none"
  /\ pc[p] = "close" /\ entry[ref[p]].err \in Errors => entries[key[p]] # ref[p]

OneFiller == \A p, q \in Procs :
  pc[p] \in Filling /\ pc[q] \in Filling /\ ref[p] = ref[q] => p = q

ReadyFilled == \A i \in Ids : entry[i].ready => entry[i].err # "none"

\* A failed entry is in the map only while its filler is about to take it out,
\* and nothing a Purge found is in the map.
MapInv == \A k \in Keys : entries[k] # None =>
  /\ entry[entries[k]].key = k
  /\ entries[k] \notin purged
  /\ entry[entries[k]].err \in Errors => \E p \in Procs : pc[p] = "drop" /\ ref[p] = entries[k]

\* An entry a Purge found is out of the list; only lookups in progress keep it.
PurgedHeld == \A i \in purged :
  /\ \A n \in DOMAIN order : order[n] # i
  /\ \E p \in Procs : ref[p] = i

\* Strengthens ErrorsNotRemembered and PurgeBarrier to an inductive invariant.
EntryInv == FillerInv /\ OneFiller /\ ReadyFilled /\ MapInv /\ PurgedHeld

\* cache.go:257-260.  An entry a later lookup can find and need not wait for
\* holds an answer, never a failure or a cancellation.
ErrorsNotRemembered ==
  \A k \in Keys : entries[k] # None /\ entry[entries[k]].ready => entry[entries[k]].err \in Answers

\* cache.go:33-35.  Two calls to the Source for one key are in flight together
\* only when a Purge came between them.
OneCallPerKey ==
  \A p, q \in Procs :
    p # q /\ pc[p] = "fill" /\ pc[q] = "fill" /\ key[p] = key[q]
      => ref[p] \in purged \/ ref[q] \in purged

\* The list and the map agree: every element is the one of its key's entry,
\* every entry has its element, once, whatever is in flight, fails or is
\* purged.  evict and remove rely on it.  It holds as long as no entry expires:
\* a lookup that replaces an expired entry leaves its element behind.
ListMatchesMap ==
  /\ \A n \in DOMAIN order : entries[entry[order[n]].key] = order[n]
  /\ \A m, n \in DOMAIN order : order[m] = order[n] => m = n
  /\ \A k \in Keys : entries[k] # None => \E n \in DOMAIN order : order[n] = entries[k]

\* evict never meets a list element whose key the map has lost (a nil entry
\* dereferenced with the mutex held: every later lookup would block).
NoPanic == ~panicked

\* cache.go:323.  After Purge no lookup is answered from, or joins, an entry
\* whose fill began before it, in flight or not.
PurgeBarrier ==
  [][\A p \in Procs : pc[p] = "lock" /\ pc'[p] = "wait" => ref'[p] \notin purged]_vars

\* A waiter whose context ends returns, whatever the Source does.
CancelledReturns ==
  \A p \in Procs : (pc[p] = "wait" /\ ctxDone[p]) ~> (pc[p] # "wait")

\* Once the Source has answered the filler, every lookup that joined it wakes,
\* on the failure path too.
WaitersWake ==
  \A p \in Procs : (pc[p] = "wait" /\ entry[ref[p]].err # "none") ~> (pc[p] # "wait")

\* cache.go:236-246, 257-260.  As long as the Source ends the calls made to it,
\* and from some time on no filler is cancelled, every lookup returns: one that
\* joins another's call and sees it cancelled starts over, and cannot start
\* over for ever because others fail.
LookupReturns ==
  /\ \A p \in Procs : []<>(pc[p] # "fill")
  /\ <>[](\A i \in Ids : entry[i].err # "ctxErr")
  => \A p \in Procs : pc[p] = "lock" ~> pc[p] = "idle"

----------------------------------------------------------------------------
\* The remembered keys, least recently used first.
Remembered ==
  LET cached == SelectSeq(order, LAMBDA i : entries[entry[i].key] = i)
  IN  [n \in 1..Len(cached) |-> entry[cached[n]].key]

\* Those whose answer has come, and what each lookup is about to ask for.
Known == {k \in Keys : entries[k] # None /\ entry[entries[k]].err \in Answers}
Asking == [p \in Procs |-> IF pc[p] = "lock" THEN key[p] ELSE None]

L == INSTANCE LRU WITH lru <- Remembered, known <- Known, asks <- Asking, Cap <- MaxEntries

\* cache.go:29-31, 49-50, 257-260.  The cache remembers what an LRU list of
\* MaxEntries keys would: every lookup makes its key the most recently used,
\* hit, miss or retry; an answer, once in, goes only by eviction of the least
\* recently used or by Purge, whatever other lookups fail or are cancelled.
ImplementsLRU == L!Spec
=============================================================================
