-------------------------------- MODULE LRU --------------------------------
(***************************************************************************)
(* What resolve.Cache promises about what it remembers                     *)
(* (resolve/cache.go:29-31, 49-50, 257-260): at most Cap keys, each lookup *)
(* making its key the most recently used; when one more comes the least    *)
(* recently used goes; an answer is forgotten in no other way but a Purge. *)
(***************************************************************************)
EXTENDS Integers, Sequences

CONSTANTS Procs, Keys, None, Cap   \* Cap < 0: no cap

VARIABLES lru,    \* the remembered keys, least recently used first
          known,  \* those whose answer has come
          asks    \* the key each caller is about to look up

Listed(s) == {s[n] : n \in DOMAIN s}

Init == lru = <<>> /\ known = {} /\ asks = [p \in Procs |-> None]

Ask(p, k) ==
  /\ asks[p] = None /\ asks' = [asks EXCEPT ![p] = k]
  /\ UNCHANGED <<lru, known>>

\* A lookup, hit or miss, makes its key the most recently used; a miss at the
\* cap forgets the oldest key alone.
Use(p) ==
  LET touched == Append(SelectSeq(lru, LAMBDA x : x # asks[p]), asks[p]) IN
  /\ asks[p] # None /\ asks' = [asks EXCEPT ![p] = None]
  /\ lru' = IF Cap >= 0 /\ Len(touched) > Cap THEN Tail(touched) ELSE touched
  /\ known' = known \cap Listed(lru')

Learn(k) ==
  /\ k \in Listed(lru) \ known /\ known' = known \cup {k}
  /\ UNCHANGED <<lru, asks>>

\* A lookup that failed is not remembered.
Forget(k) ==
  /\ k \notin known /\ lru' = SelectSeq(lru, LAMBDA x : x # k)
  /\ UNCHANGED <<known, asks>>

Purge == lru' = <<>> /\ known' = {} /\ UNCHANGED asks

Next ==
  \/ \E p \in Procs : Use(p) \/ \E k \in Keys : Ask(p, k)
  \/ \E k \in Keys : Learn(k) \/ Forget(k)
  \/ Purge

Spec == Init /\ [][Next]_<<lru, known, asks>>
=============================================================================
