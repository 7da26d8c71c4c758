---------------------------- MODULE CacheProofs ----------------------------
(***************************************************************************)
(* Theorems about resolve.Cache for any number of goroutines, keys and     *)
(* entries, any cap and any TTL.                                           *)
(***************************************************************************)
EXTENDS Cache, SequenceTheorems, TLAPS

\* list.Remove leaves a list of the same kind of elements, none of them new.
LEMMA WithoutType ==
  ASSUME NEW S, NEW s \in Seq(S), NEW i
  PROVE  /\ Without(s, i) \in Seq(S)
         /\ \A n \in DOMAIN Without(s, i) : \E m \in DOMAIN s : Without(s, i)[n] = s[m]
<1>1. CASE ~\E n \in DOMAIN s : s[n] = i
  BY <1>1 DEF Without
<1>2. CASE \E n \in DOMAIN s : s[n] = i
  <2> DEFINE at == CHOOSE n \in DOMAIN s : s[n] = i
             t == [n \in 1..(Len(s) - 1) |-> IF n < at THEN s[n] ELSE s[n + 1]]
  <2>1. at \in 1..Len(s) /\ DOMAIN s = 1..Len(s) /\ Len(s) \in Nat
    BY <1>2, LenProperties
  <2>2. \A n \in 1..(Len(s) - 1) : n \in 1..Len(s) /\ n + 1 \in 1..Len(s)
    BY <2>1
  <2>3. \A n \in 1..(Len(s) - 1) : t[n] \in S /\ \E m \in DOMAIN s : t[n] = s[m]
    BY <2>1, <2>2, ElementOfSeq
  <2>4. Len(s) - 1 \in Nat
    BY <2>1
  <2>5. t \in [1..(Len(s) - 1) -> S]
    BY <2>3
  <2>6. t \in Seq(S)
    BY <2>4, <2>5, SeqDef
  <2>7. Without(s, i) = t
    BY <1>2 DEF Without
  <2> QED BY <2>3, <2>5, <2>6, <2>7
<1> QED BY <1>1, <1>2

\* What the collector does to the entries that stay and to those that go.
LEMMA ReclaimType ==
  ASSUME NEW e \in [Ids -> Entry]
  PROVE  /\ Reclaim(e) \in [Ids -> Entry]
         /\ \A i \in Ids : i \in Live' => Reclaim(e)[i] = e[i]
         /\ \A i \in Ids : i \notin Live' => Reclaim(e)[i] = Blank
BY CacheAssumption DEF Reclaim, Entry, Blank, NewEntry, Results

\* The type invariant holds of every step.
LEMMA TypeStep == TypeOK /\ EntryInv /\ [Next]_vars => TypeOK'
<1> SUFFICES ASSUME TypeOK, EntryInv, [Next]_vars PROVE TypeOK'
  OBVIOUS
<1> USE CacheAssumption
<1>1. ASSUME NEW p \in Procs, NEW k \in Keys, Begin(p, k) PROVE TypeOK'
  <2>1. Held'
    BY <1>1 DEF Begin, TypeOK, Held, Filling
  <2> QED BY <1>1, <2>1 DEF TypeOK, Begin, States
<1>2. ASSUME NEW p \in Procs, Hit(p) PROVE TypeOK'
  <2>1. entries[key[p]] \in Ids
    BY <1>2 DEF TypeOK, Hit, Held
  <2>2. order' \in Seq(Ids)
    BY <1>2, <2>1, WithoutType, AppendProperties DEF Hit, TypeOK
  <2>3. Held'
    BY <1>2, <2>1 DEF Hit, TypeOK, Held, Filling
  <2> QED BY <1>2, <2>1, <2>2, <2>3 DEF TypeOK, Hit, States
<1>3. ASSUME NEW p \in Procs, Miss(p) PROVE TypeOK'
  <2> DEFINE k == key[p]
  <2>1. k \in Keys
    BY <1>3 DEF Miss, TypeOK, Held
  <2>2. PICK i \in Ids :
          /\ evict([entries EXCEPT ![k] = i], Append(order, i),
                   [j \in Ids |-> IF j = i THEN k ELSE entry[j].key])
          /\ pc' = [pc EXCEPT ![p] = IF panicked' THEN "dead" ELSE "fill"]
          /\ ref' = [ref EXCEPT ![p] = i]
          /\ purged' = purged \cap Live'
          /\ entry' = Reclaim([entry EXCEPT ![i] = NewEntry(k)])
    BY <1>3 DEF Miss
  <2>3. [entry EXCEPT ![i] = NewEntry(k)] \in [Ids -> Entry]
    BY <2>1 DEF TypeOK, NewEntry, Entry
  <2>4. entry' \in [Ids -> Entry]
    BY <2>2, <2>3, ReclaimType
  <2>5. [entries EXCEPT ![k] = i] \in [Keys -> Ids \cup {None}] /\ Append(order, i) \in Seq(Ids)
    BY <2>1, AppendProperties DEF TypeOK
  <2>6. entries' \in [Keys -> Ids \cup {None}] /\ order' \in Seq(Ids) /\ panicked' \in BOOLEAN
    <3> DEFINE e == [entries EXCEPT ![k] = i]
               o == Append(order, i)
               h == [j \in Ids |-> IF j = i THEN k ELSE entry[j].key][Head(o)]
    <3>1. e \in [Keys -> Ids \cup {None}] /\ o \in Seq(Ids)
      BY <2>5
    <3>2. Without(o, e[h]) \in Seq(Ids)
      BY <3>1, WithoutType
    <3>3. [e EXCEPT ![h] = None] \in [Keys -> Ids \cup {None}]
      BY <3>1
    <3>4. \/ entries' = e /\ order' = o /\ panicked' = FALSE
          \/ entries' = [e EXCEPT ![h] = None] /\ order' = Without(o, e[h]) /\ panicked' = (e[h] = None)
      BY <2>2 DEF evict
    <3> QED BY <3>1, <3>2, <3>3, <3>4
  <2>7. UNCHANGED <<key, ctxDone>>
    BY <1>3 DEF Miss
  <2>8. Held'
    BY <2>1, <2>2, <2>7 DEF TypeOK, Held, Filling
  <2> QED BY <2>2, <2>4, <2>6, <2>7, <2>8 DEF TypeOK, States
<1>4. ASSUME NEW p \in Procs, NEW r \in Results, Fill(p, r) PROVE TypeOK'
  <2>1. ref[p] \in Ids
    BY <1>4 DEF Fill, TypeOK, Held, Filling
  <2>2. entry' \in [Ids -> Entry]
    <3>1. entry[ref[p]] \in Entry
      BY <2>1 DEF TypeOK
    <3>2. [key |-> entry[ref[p]].key, age |-> 0, err |-> r, ready |-> entry[ref[p]].ready] \in Entry
      BY <3>1 DEF Entry
    <3> QED BY <1>4, <2>1, <3>2 DEF Fill, TypeOK
  <2>3. Held'
    BY <1>4 DEF Fill, TypeOK, Held, Filling
  <2> QED BY <1>4, <2>2, <2>3 DEF TypeOK, Fill, States
<1>5. ASSUME NEW p \in Procs, Drop(p) PROVE TypeOK'
  <2>1. Held'
    BY <1>5 DEF Drop, TypeOK, Held, Filling
  <2> QED BY <1>5, <2>1, WithoutType DEF TypeOK, Drop, States
<1>6. ASSUME NEW p \in Procs, Close(p) PROVE TypeOK'
  <2>1. ref[p] \in Ids
    BY <1>6 DEF Close, TypeOK, Held, Filling
  <2>2. [entry EXCEPT ![ref[p]] = [key |-> @.key, age |-> @.age, err |-> @.err, ready |-> TRUE]] \in [Ids -> Entry]
    BY <2>1 DEF TypeOK, Entry
  <2>3. entry' \in [Ids -> Entry]
    BY <1>6, <2>2, ReclaimType DEF Close
  <2>4. Held'
    BY <1>6 DEF Close, Return, TypeOK, Held, Filling
  <2> QED BY <1>6, <2>3, <2>4 DEF TypeOK, Close, Return, States
<1>7. ASSUME NEW p \in Procs, Wake(p) PROVE TypeOK'
  <2>1. entry' \in [Ids -> Entry]
    BY <1>7, ReclaimType DEF Wake, TypeOK
  <2>2. Held'
    BY <1>7 DEF Wake, Return, TypeOK, Held, Filling
  <2> QED BY <1>7, <2>1, <2>2 DEF TypeOK, Wake, Return, States
<1>8. ASSUME NEW p \in Procs, GiveUp(p) PROVE TypeOK'
  <2>1. entry' \in [Ids -> Entry]
    BY <1>8, ReclaimType DEF GiveUp, TypeOK
  <2>2. Held'
    BY <1>8 DEF GiveUp, Return, TypeOK, Held, Filling
  <2> QED BY <1>8, <2>1, <2>2 DEF TypeOK, GiveUp, Return, States
<1>9. CASE Purge
  <2>1. entry' \in [Ids -> Entry]
    BY <1>9, ReclaimType DEF Purge, TypeOK
  <2>2. Held'
    BY <1>9 DEF Purge, TypeOK, Held, Filling
  <2> QED BY <1>9, <2>1, <2>2, EmptySeq DEF TypeOK, Purge, Live
<1>10. ASSUME NEW p \in Procs, Cancel(p) PROVE TypeOK'
  <2>1. Held'
    BY <1>10 DEF Cancel, TypeOK, Held, Filling
  <2> QED BY <1>10, <2>1 DEF TypeOK, Cancel
<1>11. CASE Tick
  <2>1. entry' \in [Ids -> Entry]
    BY <1>11 DEF Tick, TypeOK, Entry, Aging, Older
  <2>2. Held'
    BY <1>11 DEF Tick, TypeOK, Held, Filling
  <2> QED BY <1>11, <2>1, <2>2 DEF TypeOK, Tick
<1>12. CASE UNCHANGED vars
  BY <1>12 DEF TypeOK, Held, vars
<1> QED BY <1>1, <1>2, <1>3, <1>4, <1>5, <1>6, <1>7, <1>8, <1>9, <1>10, <1>11, <1>12 DEF Next

\* What the map, the list or a lookup refers to is not collected.
LEMMA Referred ==
  ASSUME TypeOK'
  PROVE  /\ \A k \in Keys : entries'[k] # None => entries'[k] \in Ids /\ entries'[k] \in Live'
         /\ \A p \in Procs : ref'[p] # None => ref'[p] \in Ids /\ ref'[p] \in Live'
BY DEF TypeOK, Live

\* A waiter that leaves its entry, to return or to look up again, keeps EntryInv.
LEMMA LeaveStep ==
  ASSUME TypeOK, TypeOK', EntryInv,
         NEW p \in Procs, NEW x \in {"lock", "idle"}, NEW k \in Keys \cup {None},
         pc[p] = "wait", x = "lock" => k \in Keys,
         pc' = [pc EXCEPT ![p] = x], ref' = [ref EXCEPT ![p] = None], key' = [key EXCEPT ![p] = k],
         UNCHANGED <<entries, order>>,
         purged' = purged \cap Live', entry' = Reclaim(entry)
  PROVE  EntryInv'
<1>1. /\ \A j \in Keys : entries'[j] # None => entry'[entries'[j]] = entry[entries'[j]]
      /\ \A q \in Procs : ref'[q] # None => entry'[ref'[q]] = entry[ref'[q]]
  BY Referred, ReclaimType DEF TypeOK
<1>2. FillerInv'
  <2> SUFFICES ASSUME NEW q \in Procs PROVE FillerInv!(q)'
    BY DEF FillerInv
  <2>1. FillerInv!(q) /\ Held!(q)
    BY DEF EntryInv, FillerInv, TypeOK, Held
  <2>2. CASE q = p
    BY <2>2 DEF TypeOK, Filling
  <2>3. CASE q # p
    <3>1. pc'[q] = pc[q] /\ ref'[q] = ref[q] /\ key'[q] = key[q]
      BY <2>3 DEF TypeOK
    <3>2. pc[q] \in Filling => entry'[ref[q]] = entry[ref[q]]
      BY <1>1, <2>1, <3>1, CacheAssumption
    <3> QED BY <2>1, <3>1, <3>2 DEF Filling
  <2> QED BY <2>2, <2>3
<1>3. OneFiller'
  BY DEF TypeOK, EntryInv, OneFiller, Filling
<1>4. ReadyFilled'
  <2>1. \A j \in Ids : entry'[j] = entry[j] \/ entry'[j] = Blank
    BY ReclaimType DEF TypeOK
  <2>2. ~Blank.ready
    BY DEF Blank, NewEntry
  <2> QED BY <2>1, <2>2 DEF EntryInv, ReadyFilled
<1>5. MapInv'
  BY <1>1 DEF TypeOK, EntryInv, MapInv
<1>6. PurgedHeld'
  BY DEF TypeOK, EntryInv, PurgedHeld, MapInv, Live
<1> QED BY <1>2, <1>3, <1>4, <1>5, <1>6 DEF EntryInv

\* EntryInv holds of every step.
LEMMA EntryStep == TypeOK /\ EntryInv /\ [Next]_vars => EntryInv'
<1> SUFFICES ASSUME TypeOK, EntryInv, [Next]_vars PROVE EntryInv'
  OBVIOUS
<1> USE CacheAssumption
<1>0. TypeOK'
  BY TypeStep
<1>1. ASSUME NEW p \in Procs, NEW k \in Keys, Begin(p, k) PROVE EntryInv'
  BY <1>1 DEF TypeOK, Begin, EntryInv, FillerInv, OneFiller, ReadyFilled, MapInv, PurgedHeld, Filling
<1>2. ASSUME NEW p \in Procs, Hit(p) PROVE EntryInv'
  <2>1. FillerInv' /\ OneFiller' /\ ReadyFilled' /\ MapInv'
    BY <1>2 DEF TypeOK, Held, Hit, EntryInv, FillerInv, OneFiller, ReadyFilled, MapInv, Filling
  <2> DEFINE i == entries[key[p]]
  <2>2. i \in Ids /\ i \notin purged
    BY <1>2 DEF Hit, TypeOK, Held, EntryInv, MapInv
  <2>3. \A n \in DOMAIN order' : order'[n] = i \/ \E m \in DOMAIN order : order'[n] = order[m]
    <3>1. Without(order, i) \in Seq(Ids)
      BY WithoutType DEF TypeOK
    <3> QED BY <1>2, <2>2, <3>1, WithoutType, AppendProperties, LenProperties DEF Hit, TypeOK
  <2>4. PurgedHeld'
    BY <1>2, <2>2, <2>3 DEF Hit, TypeOK, EntryInv, FillerInv, PurgedHeld
  <2> QED BY <2>1, <2>4 DEF EntryInv
<1>3. ASSUME NEW p \in Procs, Miss(p) PROVE EntryInv'
  <2> DEFINE k == key[p]
  <2>1. k \in Keys /\ pc[p] = "lock" /\ ref[p] = None /\ UNCHANGED key
    BY <1>3 DEF Miss, TypeOK, Held, EntryInv, FillerInv
  <2>2. PICK i \in Ids \ Live :
          /\ evict([entries EXCEPT ![k] = i], Append(order, i),
                   [j \in Ids |-> IF j = i THEN k ELSE entry[j].key])
          /\ pc' = [pc EXCEPT ![p] = IF panicked' THEN "dead" ELSE "fill"]
          /\ ref' = [ref EXCEPT ![p] = i]
          /\ purged' = purged \cap Live'
          /\ entry' = Reclaim([entry EXCEPT ![i] = NewEntry(k)])
    BY <1>3 DEF Miss
  <2> DEFINE e == [entry EXCEPT ![i] = NewEntry(k)]
             o == Append(order, i)
  <2>3. /\ i \notin purged
        /\ \A q \in Procs : ref[q] # i
        /\ \A j \in Keys : entries[j] # i
    BY <2>2 DEF Live, TypeOK, EntryInv, PurgedHeld
  <2>4. e \in [Ids -> Entry] /\ e[i] = NewEntry(k) /\ \A j \in Ids : j # i => e[j] = entry[j]
    BY <2>1 DEF TypeOK, NewEntry, Entry
  <2>5. \A j \in Keys : entries'[j] = None \/ (entries'[j] = entries[j] /\ j # k) \/ (entries'[j] = i /\ j = k)
    BY <2>1, <2>2 DEF evict, TypeOK
  <2>6. \A n \in DOMAIN order' : order'[n] = i \/ \E m \in DOMAIN order : order'[n] = order[m]
    <3>1. o \in Seq(Ids) /\ \A n \in DOMAIN o : o[n] = i \/ \E m \in DOMAIN order : o[n] = order[m]
      BY <2>2, AppendProperties, LenProperties DEF TypeOK
    <3>2. order' = o \/ \E x : order' = Without(o, x)
      BY <2>2 DEF evict
    <3>3. ASSUME NEW x PROVE \A n \in DOMAIN Without(o, x) : \E m \in DOMAIN o : Without(o, x)[n] = o[m]
      <4>1. o \in Seq(Ids)
        BY <3>1
      <4> HIDE DEF o
      <4> QED BY <4>1, WithoutType
    <3>4. CASE order' = o
      BY <3>1, <3>4
    <3>5. CASE \E x : order' = Without(o, x)
      <4>1. \A n \in DOMAIN order' : \E m \in DOMAIN o : order'[n] = o[m]
        BY <3>3, <3>5
      <4> QED BY <3>1, <4>1
    <3> QED BY <3>2, <3>4, <3>5
  <2>7. /\ \A j \in Keys : entries'[j] # None => entry'[entries'[j]] = e[entries'[j]]
        /\ \A q \in Procs : ref'[q] # None => entry'[ref'[q]] = e[ref'[q]]
    BY <1>0, <2>2, <2>4, Referred, ReclaimType
  <2>8. NewEntry(k).key = k /\ NewEntry(k).err = "none" /\ NewEntry(k).ready = FALSE
    BY DEF NewEntry
  <2>9. ref'[p] = i /\ \A q \in Procs : q # p => pc'[q] = pc[q] /\ ref'[q] = ref[q]
    BY <2>2 DEF TypeOK
  <2>10. pc'[p] \in {"dead", "fill"} /\ entry'[i] = NewEntry(k)
    <3>1. pc'[p] \in {"dead", "fill"}
      BY <2>2 DEF TypeOK
    <3>2. ref'[p] # None
      BY <2>2, <2>9
    <3> QED BY <2>4, <2>7, <2>9, <3>1, <3>2
  <2>11. FillerInv'
    <3> SUFFICES ASSUME NEW q \in Procs PROVE FillerInv!(q)'
      BY DEF FillerInv
    <3>1. FillerInv!(q) /\ Held!(q)
      BY DEF EntryInv, FillerInv, TypeOK, Held
    <3>2. CASE q = p
      BY <2>1, <2>2, <2>8, <2>9, <2>10, <3>2 DEF Filling
    <3>3. CASE q # p
      <4>1. pc[q] \in Filling => entry'[ref[q]] = entry[ref[q]]
        BY <2>3, <2>4, <2>7, <2>9, <3>1, <3>3
      <4>2. pc[q] = "close" => key[q] \in Keys /\ ref[q] \in Ids
        BY <3>1 DEF Filling
      <4> QED BY <2>1, <2>3, <2>5, <2>9, <3>1, <3>3, <4>1, <4>2 DEF Filling
    <3> QED BY <3>2, <3>3
  <2>12. OneFiller'
    BY <2>3, <2>9, <2>10, <2>1 DEF EntryInv, OneFiller, Filling
  <2>13. ReadyFilled'
    <3>1. \A j \in Ids : entry'[j] = e[j] \/ entry'[j] = Blank
      BY <2>2, <2>4, ReclaimType
    <3>2. ~Blank.ready
      BY DEF Blank, NewEntry
    <3> QED BY <2>4, <2>8, <3>1, <3>2 DEF EntryInv, ReadyFilled
  <2>14. MapInv'
    <3> SUFFICES ASSUME NEW j \in Keys, entries'[j] # None PROVE MapInv!(j)'
      BY DEF MapInv
    <3>1. CASE j = k
      BY <2>2, <2>3, <2>5, <2>8, <2>10, <3>1 DEF Errors
    <3>2. CASE j # k
      <4>1. entries'[j] = entries[j] /\ entries[j] # i /\ entries[j] \in Ids
        BY <2>3, <2>5, <3>2 DEF TypeOK
      <4>2. MapInv!(j)
        BY <4>1 DEF EntryInv, MapInv
      <4>3. entry'[entries'[j]] = entry[entries[j]]
        BY <2>4, <2>7, <4>1
      <4>4. \A q \in Procs : pc[q] = "drop" => pc'[q] = "drop" /\ ref'[q] = ref[q]
        BY <2>1, <2>9
      <4> QED BY <2>2, <4>1, <4>2, <4>3, <4>4
    <3> QED BY <3>1, <3>2
  <2>15. PurgedHeld'
    BY <2>1, <2>2, <2>3, <2>6, <2>9, CacheAssumption DEF EntryInv, PurgedHeld, TypeOK
  <2> QED BY <2>11, <2>12, <2>13, <2>14, <2>15 DEF EntryInv
<1>4. ASSUME NEW p \in Procs, NEW r \in Results, Fill(p, r) PROVE EntryInv'
  <2> DEFINE i == ref[p]
  <2>1. /\ i \in Ids
        /\ entry'[i].key = entry[i].key /\ entry'[i].err = r /\ entry'[i].ready = entry[i].ready
        /\ \A j \in Ids : j # i => entry'[j] = entry[j]
    BY <1>4 DEF Fill, TypeOK, Held, EntryInv, FillerInv, Filling
  <2>2. r # "none"
    BY DEF Results, Answers, Errors
  <2>3. /\ pc' = [pc EXCEPT ![p] = IF r \in Errors THEN "drop" ELSE "close"] /\ pc[p] = "fill"
        /\ UNCHANGED <<entries, order, key, ref, purged>>
    BY <1>4 DEF Fill
  <2>4. FillerInv'
    <3> SUFFICES ASSUME NEW q \in Procs PROVE FillerInv!(q)'
      BY DEF FillerInv
    <3>1. FillerInv!(q) /\ Held!(q)
      BY DEF EntryInv, FillerInv, TypeOK, Held
    <3>2. CASE q = p
      BY <2>1, <2>2, <2>3, <3>1, <3>2 DEF TypeOK, Filling
    <3>3. CASE q # p
      <4>1. pc'[q] = pc[q]
        BY <2>3, <3>3 DEF TypeOK
      <4>2. pc[q] \in Filling => entry'[ref[q]] = entry[ref[q]]
        BY <2>1, <2>3, <3>1, <3>3 DEF EntryInv, OneFiller, Filling
      <4> QED BY <2>3, <3>1, <4>1, <4>2 DEF Filling
    <3> QED BY <3>2, <3>3
  <2>5. OneFiller'
    BY <2>3 DEF TypeOK, EntryInv, OneFiller, Filling
  <2>6. ReadyFilled'
    BY <2>1, <2>2 DEF EntryInv, ReadyFilled
  <2>7. MapInv'
    <3> SUFFICES ASSUME NEW j \in Keys, entries[j] # None PROVE MapInv!(j)'
      BY <2>3 DEF MapInv
    <3>1. MapInv!(j) /\ entries[j] \in Ids
      BY DEF EntryInv, MapInv, TypeOK
    <3>2. CASE entries[j] = i
      <4>1. r \in Errors => pc'[p] = "drop"
        BY <2>3 DEF TypeOK
      <4> QED BY <2>1, <2>3, <3>1, <3>2, <4>1
    <3>3. CASE entries[j] # i
      <4>1. \A q \in Procs : pc[q] = "drop" => pc'[q] = "drop"
        BY <2>3 DEF TypeOK
      <4> QED BY <2>1, <2>3, <3>1, <3>3, <4>1
    <3> QED BY <3>2, <3>3
  <2> QED BY <2>3, <2>4, <2>5, <2>6, <2>7 DEF EntryInv, PurgedHeld
<1>5. ASSUME NEW p \in Procs, Drop(p) PROVE EntryInv'
  <2>1. FillerInv' /\ OneFiller' /\ ReadyFilled' /\ MapInv'
    BY <1>5 DEF TypeOK, Held, Drop, EntryInv, FillerInv, OneFiller, ReadyFilled, MapInv, Filling
  <2>2. \A n \in DOMAIN order' : \E m \in DOMAIN order : order'[n] = order[m]
    BY <1>5, WithoutType DEF Drop, TypeOK
  <2>3. PurgedHeld'
    BY <1>5, <2>2 DEF Drop, EntryInv, PurgedHeld
  <2> QED BY <2>1, <2>3 DEF EntryInv
<1>6. ASSUME NEW p \in Procs, Close(p) PROVE EntryInv'
  <2> DEFINE i == ref[p]
             e == [entry EXCEPT ![i] = [key |-> @.key, age |-> @.age, err |-> @.err, ready |-> TRUE]]
  <2>1. i \in Ids /\ e \in [Ids -> Entry] /\ entry' = Reclaim(e) /\ purged' = purged \cap Live'
    BY <1>6 DEF Close, TypeOK, Held, EntryInv, FillerInv, Filling, Entry
  <2>2. /\ e[i].key = entry[i].key /\ e[i].err = entry[i].err /\ e[i].ready
        /\ \A j \in Ids : j # i => e[j] = entry[j]
    BY <2>1 DEF TypeOK
  <2>3. /\ pc[p] = "close" /\ pc' = [pc EXCEPT ![p] = "idle"]
        /\ ref' = [ref EXCEPT ![p] = None] /\ key' = [key EXCEPT ![p] = None]
        /\ UNCHANGED <<entries, order>>
    BY <1>6 DEF Close, Return
  <2>4. /\ \A k \in Keys : entries'[k] # None => entry'[entries'[k]] = e[entries'[k]]
        /\ \A q \in Procs : ref'[q] # None => entry'[ref'[q]] = e[ref'[q]]
    BY <1>0, <2>1, Referred, ReclaimType
  <2>5. FillerInv'
    <3> SUFFICES ASSUME NEW q \in Procs PROVE FillerInv!(q)'
      BY DEF FillerInv
    <3>1. FillerInv!(q) /\ Held!(q)
      BY DEF EntryInv, FillerInv, TypeOK, Held
    <3>2. CASE q = p
      BY <2>3, <3>2 DEF TypeOK, Filling
    <3>3. CASE q # p
      <4>1. pc'[q] = pc[q] /\ ref'[q] = ref[q] /\ key'[q] = key[q]
        BY <2>3, <3>3 DEF TypeOK
      <4>2. pc[q] \in Filling => entry'[ref[q]] = entry[ref[q]]
        BY <2>2, <2>3, <2>4, <3>1, <3>3, <4>1 DEF EntryInv, OneFiller, Filling
      <4> QED BY <2>3, <3>1, <4>1, <4>2 DEF Filling
    <3> QED BY <3>2, <3>3
  <2>6. OneFiller'
    BY <2>3 DEF TypeOK, EntryInv, OneFiller, Filling
  <2>7. ReadyFilled'
    <3>1. e[i].err # "none"
      BY <2>2, <2>3 DEF EntryInv, FillerInv
    <3>2. \A j \in Ids : e[j].ready => e[j].err # "none"
      BY <3>1, <2>2 DEF EntryInv, ReadyFilled
    <3>3. \A j \in Ids : entry'[j] = e[j] \/ entry'[j] = Blank
      BY <2>1, ReclaimType
    <3>4. ~Blank.ready
      BY DEF Blank, NewEntry
    <3> QED BY <3>2, <3>3, <3>4 DEF ReadyFilled
  <2>8. MapInv'
    <3> SUFFICES ASSUME NEW k \in Keys, entries[k] # None PROVE MapInv!(k)'
      BY <2>3 DEF MapInv
    <3>1. MapInv!(k) /\ entries[k] \in Ids
      BY DEF EntryInv, MapInv, TypeOK
    <3>2. entry'[entries[k]].key = entry[entries[k]].key /\ entry'[entries[k]].err = entry[entries[k]].err
      BY <2>2, <2>3, <2>4, <3>1
    <3>3. \A q \in Procs : pc[q] = "drop" => pc'[q] = "drop" /\ ref'[q] = ref[q]
      BY <2>3 DEF TypeOK
    <3> QED BY <2>1, <2>3, <3>1, <3>2, <3>3
  <2>9. PurgedHeld'
    BY <2>1, <2>3 DEF TypeOK, EntryInv, PurgedHeld, MapInv, Live
  <2> QED BY <2>5, <2>6, <2>7, <2>8, <2>9 DEF EntryInv
<1>7. ASSUME NEW p \in Procs, Wake(p) PROVE EntryInv'
  <2>1. CASE entry[ref[p]].err = "ctxErr" /\ ~ctxDone[p]
    <3>1. key[p] \in Keys /\ key' = [key EXCEPT ![p] = key[p]]
      BY <1>7, <2>1 DEF Wake, Held, TypeOK
    <3> QED BY <1>0, <1>7, <2>1, <3>1, LeaveStep DEF Wake
  <2>2. CASE ~(entry[ref[p]].err = "ctxErr" /\ ~ctxDone[p])
    BY <1>0, <1>7, <2>2, LeaveStep DEF Wake, Return
  <2> QED BY <2>1, <2>2
<1>8. ASSUME NEW p \in Procs, GiveUp(p) PROVE EntryInv'
  BY <1>0, <1>8, LeaveStep DEF GiveUp, Return
<1>9. CASE Purge
  <2>1. /\ entries' = [k \in Keys |-> None] /\ order' = <<>> /\ UNCHANGED <<pc, key, ref>>
        /\ purged' = Live' /\ entry' = Reclaim(entry)
    BY <1>9 DEF Purge
  <2>2. \A q \in Procs : ref[q] # None => entry'[ref[q]] = entry[ref[q]]
    BY <1>0, <2>1, Referred, ReclaimType DEF TypeOK
  <2>3. FillerInv'
    BY <2>1, <2>2 DEF TypeOK, Held, EntryInv, FillerInv, Filling
  <2>4. OneFiller' /\ MapInv'
    BY <2>1 DEF EntryInv, OneFiller, MapInv, Filling
  <2>5. ReadyFilled'
    <3>1. \A j \in Ids : entry'[j] = entry[j] \/ entry'[j] = Blank
      BY <2>1, ReclaimType DEF TypeOK
    <3>2. ~Blank.ready
      BY DEF Blank, NewEntry
    <3> QED BY <3>1, <3>2 DEF EntryInv, ReadyFilled
  <2>6. PurgedHeld'
    BY <2>1 DEF PurgedHeld, Live
  <2> QED BY <2>3, <2>4, <2>5, <2>6 DEF EntryInv
<1>10. ASSUME NEW p \in Procs, Cancel(p) PROVE EntryInv'
  BY <1>10 DEF TypeOK, Cancel, EntryInv, FillerInv, OneFiller, ReadyFilled, MapInv, PurgedHeld, Filling
<1>11. CASE Tick
  <2>1. \A i \in Ids : /\ entry'[i].key = entry[i].key /\ entry'[i].err = entry[i].err
                       /\ entry'[i].ready = entry[i].ready
    BY <1>11 DEF Tick, TypeOK, Older, Entry
  <2>2. UNCHANGED <<entries, order, pc, key, ref, purged>>
    BY <1>11 DEF Tick
  <2>3. FillerInv'
    <3> SUFFICES ASSUME NEW q \in Procs PROVE FillerInv!(q)'
      BY DEF FillerInv
    <3>1. FillerInv!(q) /\ Held!(q)
      BY DEF EntryInv, FillerInv, TypeOK, Held
    <3>2. pc[q] \in Filling => /\ entry'[ref[q]].key = entry[ref[q]].key
                              /\ entry'[ref[q]].err = entry[ref[q]].err
                              /\ entry'[ref[q]].ready = entry[ref[q]].ready
      BY <2>1, <3>1
    <3> QED BY <2>2, <3>1, <3>2 DEF Filling
  <2>4. OneFiller' /\ PurgedHeld'
    BY <2>2 DEF EntryInv, OneFiller, PurgedHeld
  <2>5. ReadyFilled'
    BY <2>1 DEF EntryInv, ReadyFilled
  <2>6. MapInv'
    <3> SUFFICES ASSUME NEW k \in Keys, entries[k] # None PROVE MapInv!(k)'
      BY <2>2 DEF MapInv
    <3>1. MapInv!(k) /\ entries[k] \in Ids
      BY DEF EntryInv, MapInv, TypeOK
    <3>2. entry'[entries[k]].key = entry[entries[k]].key /\ entry'[entries[k]].err = entry[entries[k]].err
      BY <2>1, <3>1
    <3> QED BY <2>2, <3>1, <3>2
  <2> QED BY <2>3, <2>4, <2>5, <2>6 DEF EntryInv
<1>12. CASE UNCHANGED vars
  BY <1>12 DEF vars, EntryInv, FillerInv, OneFiller, ReadyFilled, MapInv, PurgedHeld, Filling
<1> QED BY <1>1, <1>2, <1>3, <1>4, <1>5, <1>6, <1>7, <1>8, <1>9, <1>10, <1>11, <1>12 DEF Next

(* The invariant holds of the empty cache NewCache builds. *)
LEMMA InvInit == Init => TypeOK /\ EntryInv
<1> SUFFICES ASSUME Init PROVE TypeOK /\ EntryInv
  OBVIOUS
<1>1. TypeOK
  <2>1. Blank \in Entry
    BY CacheAssumption DEF Entry, Blank, NewEntry
  <2> QED BY <2>1, EmptySeq DEF Init, TypeOK, Held, Filling, States
<1>2. EntryInv
  BY DEF Init, EntryInv, FillerInv, OneFiller, ReadyFilled, MapInv, PurgedHeld, Filling, Blank, NewEntry
<1> QED BY <1>1, <1>2

\* Every reachable state is well typed and satisfies the strengthened invariant.
THEOREM Inductive == Spec => [](TypeOK /\ EntryInv)
<1>1. TypeOK /\ EntryInv /\ [Next]_vars => (TypeOK /\ EntryInv)'
  BY TypeStep, EntryStep
<1> QED BY InvInit, <1>1, PTL DEF Spec

\* cache.go:257-260.  No failure or cancellation is ever remembered as an
\* answer, however fills, evictions, purges and retries interleave.
THEOREM NoErrorRemembered == Spec => []ErrorsNotRemembered
<1>1. TypeOK /\ EntryInv => ErrorsNotRemembered
  <2> SUFFICES ASSUME TypeOK, EntryInv, NEW k \in Keys, entries[k] # None, entry[entries[k]].ready
               PROVE  entry[entries[k]].err \in Answers
    BY DEF ErrorsNotRemembered
  <2>1. entries[k] \in Ids /\ entry[entries[k]] \in Entry
    BY DEF TypeOK
  <2>2. entry[entries[k]].err # "none"
    BY <2>1 DEF EntryInv, ReadyFilled
  <2>3. entry[entries[k]].err \notin Errors
    BY DEF EntryInv, MapInv, FillerInv, Filling
  <2> QED BY <2>1, <2>2, <2>3 DEF Entry, Results
<1> QED BY Inductive, <1>1, PTL

\* cache.go:323.  No lookup is answered from an entry whose fill began before
\* a Purge that came before it.
THEOREM PurgeIsABarrier == Spec => PurgeBarrier
<1> DEFINE A == \A p \in Procs : pc[p] = "lock" /\ pc'[p] = "wait" => ref'[p] \notin purged
<1>1. TypeOK /\ EntryInv /\ [Next]_vars => [A]_vars
  <2> SUFFICES ASSUME TypeOK, EntryInv, Next, NEW p \in Procs, pc[p] = "lock", pc'[p] = "wait"
               PROVE  ref'[p] \notin purged
    OBVIOUS
  <2>1. CASE \E q \in Procs : Hit(q)
    BY <2>1 DEF Hit, TypeOK, Held, EntryInv, MapInv
  <2>2. CASE ~\E q \in Procs : Hit(q)
    <3>1. \A q \in Procs : pc[q] = "lock" => ~Wake(q) /\ ~GiveUp(q) /\ ~Close(q) /\ ~Drop(q) /\ \A r \in Results : ~Fill(q, r)
      BY DEF Wake, GiveUp, Close, Drop, Fill
    <3>2. pc'[p] # "wait"
      BY <2>2 DEF Next, Begin, Miss, Fill, Drop, Close, Wake, GiveUp, Return, Purge, Cancel, Tick, TypeOK
    <3> QED BY <3>2
  <2> QED BY <2>1, <2>2
<1>2. Spec => [][A]_vars
  BY Inductive, <1>1, PTL DEF Spec
<1> QED BY <1>2 DEF PurgeBarrier

=============================================================================
