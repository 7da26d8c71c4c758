# TLA+ verification of rpsl

Models, model-checking runs and machine-checked proofs for the parts of
`github.com/rkolesnichenko/rpsl` whose correctness depends on interleaving,
failure and order. Every definition is translated from the Go source;
`PROJECT.json` maps each one to the lines it stands for.

## 1. The system

`rpsl` parses RPSL objects, expands their sets, and serves and mirrors IRR
databases. Its parts, the state they keep and what makes them hard:

| Part | State | Operations | Hard behaviour |
| --- | --- | --- | --- |
| `resolve.Cache` | map of entries, LRU list, fills in flight | lookup, evict, Purge | joins, cancellation, expiry and eviction of entries in flight |
| `resolve/nrtm4` Client | session, version, corpus, hashes seen, keys, failures, published view | Sync, Source, Status, CopyTo, Run | stale files, gaps, new sessions, rewritten history, key rotation, partial failure |
| `rpsld` mirror loop | published (session, version), saved key, served registry | startup, follow, saveKey | crash and restart, failed saves and rebuilds |
| `rpsld` publish and watchers | registries, VRPs, current snapshot | publish, watchDump, fanOut, refreshVRPs, stop | concurrent publishers, reload while reading |
| `resolve/irrdserver` Server | listeners, connections, slots, closing | Serve, handle, Shutdown, refusal log | Shutdown against accept, read and write; pipelined commands |
| `resolve/irrdq` | snapshot, session (`!!`, `!s`, `!t`) | Do | answers come from one snapshot |
| `resolve/irrd` pool | slots, idle connections, learnt registries | do, acquire, release, Close | shared slots, stale connections and their retry |
| `resolve/irrd` pipelining | pipes, queues, waiters for a slot | doPipelined, call, read, retire | answers matched by order; handing a slot over |
| `resolve.FilterMemo`, `consist` memo | two LRU pools by weight, layers | get, put | bounds under concurrent computation |
| `resolve.Expander` | visited sets, results | discover, each, walk | concurrent fetches, limits, cycles |
| `resolve.Corpus`, `MemSource` | objects by key, load order | Put, Delete, Merge, Source | precedence and reduction of routes |
| `rpslcheck` sweep | window of results | ordered | work finishing out of order, early stop |
| `NormalizeFilter`, `types.PrefixSpace`, `peval`, `consist`, `rpki`, `auth`, `policy.Flatten` | none | pure functions | algebra over prefixes and policies |
| `lexer`, `ast`, `object`, `policy` parser, `stream`, `rtconfig`, `filtergen`, `rpslconf`, `rpslq`, `whois`, `rdap` | little | text in, text out | — |

They interact as follows. `rpsld` drives an `nrtm4.Client` per mirror, turns
each version into an `irrdq.Registry`, and publishes a snapshot that
`irrdserver` answers from. Clients of such a server use `irrd.Source`, often
behind `resolve.Cache`, as the `Source` of an `Expander`.

## 2. Modules

| Module | Models |
| --- | --- |
| `LRU` | abstract: the keys a cache of `Cap` entries remembers, and when it may forget one |
| `Cache` | `resolve/cache.go` |
| `MCCache` | constants and symmetry for the Cache runs |
| `CacheProofs` | proofs about `Cache` |
| `NRTM4` | `nrtm4.Client` with the server and network it meets |
| `Mirror` | rpsld's loop for one mirror, composed with `NRTM4` |
| `IRRdServer`, `MCIRRdServer` | `irrdserver.Server` |

### Cache

A `cacheEntry` is an id, blank again once nothing refers to it. `entries` is the
map and `order` the list, whose elements are named by the entry they were pushed
for: an element left behind by an expired entry is therefore still there, as in
the code. A goroutine goes `idle`, `lock`, then `wait` (a hit) or `fill`,
`drop`, `close` (a miss). Everything under `Cache.mu` is one step; `Fill` is the
call to the Source, `Drop` the second critical section, `Close` the closing of
`ready`. A panic in `evict` leaves the mutex held: `panicked` blocks every step
that takes it. Time is an entry's age in ticks up to `TTL`. A value and
`ErrNotFound` are both `"answer"`, since the cache treats them alike.
`purged` is a history variable: the live entries that a Purge found. `TypeOK`
says, besides the types, that a lookup in progress has its key and its entry.

`Cache` implements `LRU` by a refinement mapping: `lru` is the keys of the list,
`known` the keys whose entry has its answer, `asks` the key a lookup is about to
take the mutex for. Because the abstract caller's request is visible, a hit that
forgot to touch its entry is not a stutter, and because `known` is, an answer
that goes in any way but eviction or Purge is refused.

### NRTM4

The server is external: `Commit`, `CommitSnapshot`, `TakeSnapshot`, `Prune`,
`NewSession`, `AnnounceKey`, `RotateKey`, `Rewrite`. Each publishes a
notification file; the network serves any file published so far. A delta is
`<<version, session, edition>>` and a database the sequence of its deltas, so
that a missed, repeated or reordered delta shows, and one of another session
too. `clock` is the wall clock: `Tick` moves it at any time, also when the
server rests; a file is stamped with it, so several files may bear one stamp,
and `TooOld` compares a file's stamp with it as `Sync` does. The client's `Sync` is `Poll` (fetch,
verification, refusals, the reason for a snapshot, `history`), or one of the
ways `notification` fails (`Unfetched`, `Unverified`, and `Unparsed`, which
leaves the keys rotated and the announced one unlearnt), then
`loadSnapshot` or its failure, then one `applyDelta` at a time, then `Done` or
`DeltaFails`, both of which `publish`. Steps of the server interleave with them.
`FetchFails` stands for `open` and `fetch` with their retries, and for the checks
of hash and size. `failures` counts to 3, the only number it is compared with. `settled` says that the server has stopped and the network now
delivers; `base` is a history variable, the snapshot the corpus began with.

### Mirror

EXTENDS `NRTM4` and takes its actions as the steps of the `Sync` that `follow`
calls. After a `Sync` it saves the key if it changed (which may fail), and
rebuilds and publishes the registry if (session, version) changed (which may
fail). `-state-dir` is set. `Crash` ends the process anywhere; only `saved` survives. At startup a
failed `Sync` ends the process. `knew` is a history variable, the keys the last
process trusted.

### IRRdServer

Each listener has a `Serve`: it registers the listener unless Shutdown has begun,
then accepts, takes a token, and registers the connection under the lock; on its
return the listener leaves `lns` and is closed. Each connection runs `arm`,
`read`, `do`, `flush`, ..., `end`, `linger`, `leave`, and handle's deferred
function in its three steps: out of `conns` (`Leave`), the token back
(`Release`), `wg.Done` (`Done`), after which nothing refers to it and its state
is blank. Lines and answers are counted: sent and unread (`net`), in the read
buffer (`buf`), answered and not written (`out`). A last line without a newline
(`part`) is no line for `lineBuffered`, and becomes one for `readLine` when the
end of the input is read (`Ends`). `halt` moves the read deadline to now, so a
socket read fails, but a line in the buffer is returned without one. Shutdown
halts the connections one by one with the lock held, waits, and at its context's
end cancels and closes. `failed` and `late` are history variables. What a client
sends before its connection is handled is modelled as sent when it first is:
nothing reads it before.

## 3. Runs

| Run | Bounds | Checks |
| --- | --- | --- |
| `Cache_ttl` | 3 goroutines, 1 key, 4 entries, no cap, TTL 1 | `TypeOK`, `ErrorsNotRemembered`, `OneCallPerKey`, `PurgeBarrier` |
| `Cache_lru` | 2 goroutines, 3 keys, cap 2, no TTL | `ListMatchesMap`, `ImplementsLRU` |
| `Cache_live` | 2 goroutines, 2 keys, cap 1, no TTL | `CancelledReturns`, `WaitersWake`, `LookupReturns` |
| `NRTM4_mirror` | 5 files, 2 times, 3 versions, 2 sessions, 3 keys, 1 rewrite | `TypeOK`, `Faithful`, `NoSessionRollback`, `RewriteRefused`, `OldKeyNeverUsed`, `CatchesUp` |
| `Mirror_serve` | 4 files, 3 times, 2 versions, 2 sessions, 2 keys, no rewrite, MaxAge 1 | `ServedFaithful`, `FollowsUp` |
| `IRRdServer_serve` | 2 listeners, 2 connections, 1 place, 2 lines from one client and none from the other | `TypeOK`, `TokensKept`, `QuietAfterShutdown`, `AnswersWritten`, `AtMostOneLate`, `ShutdownReturns`, `ServeReturns` |

Six runs record a disagreement between the code and what it says of itself; TLC
finds the property violated, and `findings` in `PROJECT.json` quotes the text:

| Run | Property | What happens |
| --- | --- | --- |
| `Cache_ttl_panic` | `NoPanic` | with a TTL and a cap, an expired entry's list element is never removed; `evict` drops the newer entry in its stead, and later dereferences a nil entry with the mutex held |
| `Cache_collapse` | `OneCallPerKey` | an entry in flight is evicted, and an identical lookup calls the Source again |
| `NRTM4_older` | `OlderRefused` | after three failed deltas an older file of the session is worked from |
| `NRTM4_currentkey` | `CurrentKeyReported` | a rotation proved by a file that is then refused is not in `Status`; nor is one proved by a file that then does not parse |
| `Mirror_rotation` | `RotationWhileDown` | the announced key is not saved, so a rotation while rpsld is down leaves nothing that verifies |
| `IRRdServer_late` | `NoLateCommand` | a line already buffered when Shutdown halts a connection is still answered; `AtMostOneLate` shows that it is one at most |

What the less obvious properties leave open. `ListMatchesMap` holds while no
entry expires; `Cache_ttl_panic` is what happens when one does. `RewriteRefused`
speaks of the deltas since the last snapshot loaded, because `Sync` forgets the
hashes it has seen when it loads one (client.go:222). `NoSessionRollback` allows
the return to an earlier session whose file bears the very timestamp of one of
the later session, since the code refuses an older one only (client.go:195); such
returns happen in the run. `Faithful`, `ServedFaithful`, `CatchesUp` and
`FollowsUp` are about servers that rewrite nothing. `CatchesUp` and `FollowsUp`
promise nothing once the file the server rests on is older than `MaxAge`: the
code refuses it until a newer one is published (client.go:192; docs/rpsld.md:196
for rpsld's 24 hours). A sync that fails after some deltas publishes the version
it reached, and rpsld then serves it under its own serial (rpsld.go:440-446), so
docs/rpsld.md:173 ("the registry keeps its previous data and its serial") is to be
read of syncs that got no further; `ServedFaithful` holds either way.
`LookupReturns` assumes that fillers stop being cancelled: a waiter may meet
cancelled fillers for ever.

**Why the bounds are enough.** Cache: three goroutines give a filler, a waiter
and a newcomer; three keys over a cap of two give an eviction after a touch;
four entries suffice for what goroutines and the map can hold. NRTM4: three
versions give a gap before and after the snapshot; two sessions give a rollback;
five files, the first included, allow a commit, a rewrite, a snapshot and a
pruning in one history; two times give files of equal and of different stamps;
three keys give two rotations. Failures reach three without further files.
Mirror: three times with MaxAge 1 give a file that is fresh, at the limit and too
old; two versions give a snapshot and a delta after it, which is where a sync can
stop half way (`NRTM4_mirror` has the longer chains). IRRdServer: one place for
two connections gives refusals and reuse, through one listener or two; two lines
give pipelining and a cut-off line after a whole one. The other client sends
nothing: with one place no two connections run commands together.

**Deadlock** is checked except for IRRdServer, where a stopped server with no
client left is the proper end.

**Fairness.** Cache: goroutines that can run do; the Source is not assumed to
answer. NRTM4: `Client.Run` calls `Sync` for ever. Mirror: the timer fires again
and iterations end. IRRdServer: handlers and Shutdown are scheduled, a wait on a
client ends by its deadline, `Do` returns, and Accept fails on a closed
listener; no client is assumed to do anything,
and Shutdown's context need not end. `settled` is part of the model, not a
fairness assumption: `CatchesUp` and `FollowsUp` speak of what follows it.

## 4. Proofs

`CacheProofs` proves, for any goroutines, keys, entries, cap and TTL that
satisfy `CacheAssumption`:

* `Inductive`: `Spec => [](TypeOK /\ EntryInv)`.
* `NoErrorRemembered`: `Spec => []ErrorsNotRemembered`.
* `PurgeIsABarrier`: `Spec => PurgeBarrier`.

`ErrorsNotRemembered` is not inductive by itself. A failed entry is in the map
for a while, not ready, until its filler's second critical section; that this
filler exists, holds this entry alone, and has removed it before it reaches
`close` is what `EntryInv` adds (`FillerInv`, `OneFiller`, `ReadyFilled`,
`MapInv`). `PurgeBarrier` needs that no purged entry returns to the map, hence
that a purged id is not handed out again while a goroutine still refers to it
(`PurgedHeld`). The proof is one step per action: first the types
(`TypeStep`), then the invariant (`EntryStep`), with `LeaveStep` for the three
ways a goroutine lets go of an entry.

Only model-checked: `OneCallPerKey`, the agreement of list and map and the LRU
refinement, all liveness (fairness is beyond the prover), and everything about
`NRTM4`, `Mirror` and `IRRdServer` so far.

## 5. Not modelled

Texts (parsing, formatting, log lines), cryptography and hashing (a file checks
out or it does not), and the contents of objects. In `Cache` the counters of `Stats`, and a Source that
panics. In `NRTM4` the
retries of transient HTTP failures inside one `Sync`, and `Stale`. In `Mirror`
the waits between syncs. In `IRRdServer` the log of refused connections. A
repeated temporary accept error changes nothing and is left out. The parts listed
in section 1 without a module are in `PROJECT.json` with the reason.

## 6. Plan

1. `Rpsld`: `state.publish`, `watchDump`, `fanOut`, `refreshVRPs`, stop; no lost
   update between publishers, every reload and change served in the end.
   Composition with `IRRdServer` through the snapshot pointer.
2. `IRRdPool` and `IRRdPipe`: slots within MaxConns and never leaked, answers
   matched to calls, a slot handed over once, every call returns.
3. `FilterMemo`, `Ordered`, the log of refused connections: bounds and order.
4. `Expander` against a reference closure; `Corpus` against a reference map.
5. Pure algorithms over small universes against set semantics: range operators
   and `PrefixSpace`, RFC 6811 validation, `policy.Flatten`, `NormalizeFilter`,
   the rules of `auth`.
6. Proofs: the agreement of list and map without a TTL;
   `TokensKept` and `QuietAfterShutdown` for any number of connections;
   `Faithful` and `NoSessionRollback` for any history; slots of the pool.
