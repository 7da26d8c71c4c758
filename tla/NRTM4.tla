------------------------------- MODULE NRTM4 -------------------------------
(***************************************************************************)
(* nrtm4.Client (resolve/nrtm4): the mirror of one IRR database over       *)
(* NRTMv4, and the server and network it meets.                            *)
(*                                                                         *)
(* The server is external: it commits changes as deltas, takes snapshots,  *)
(* drops old deltas, starts sessions, announces and rotates its signing    *)
(* key, and may rewrite its last delta.  Each step publishes a signed      *)
(* notification file, stamped with the clock, which goes on while the      *)
(* server rests and may not move between two files; the network may serve  *)
(* any file ever published, as caches do.  A delta is the triple           *)
(* <<version, session, edition>>, so that no two sessions share one; a     *)
(* database is the sequence of the deltas that lead to it, and stands for  *)
(* its snapshot too.  A file's hash is its content.                        *)
(***************************************************************************)
EXTENDS Integers, Sequences, FiniteSets

CONSTANTS MaxFiles,     \* bound: notification files published
          MaxClock,     \* bound: ticks of the clock
          MaxVersion,   \* bound: versions of a session
          MaxSession,   \* bound: sessions
          MaxKey,       \* bound: signing keys
          MaxEdition,   \* bound: rewrites of a delta
          MaxAge        \* Client.MaxAge in ticks; 0 accepts any age

ASSUME NRTM4Assumption ==
  /\ MaxFiles \in Nat \ {0} /\ MaxClock \in Nat /\ MaxVersion \in Nat \ {0} /\ MaxSession \in Nat \ {0}
  /\ MaxKey \in Nat \ {0} /\ MaxEdition \in Nat /\ MaxAge \in Nat

VARIABLES clock,      \* the time, in ticks (external)
          srv,        \* the server's current notification file (external)
          db,         \* session -> its database now (external)
          published,  \* every file the network may serve (external)
          settled,    \* the server has stopped and the network delivers (external)
          st,         \* Client.st
          failures,   \* Client.failures, counted up to 3
          view,       \* Client.view
          pc,         \* where Sync stands
          file,       \* the notification file Sync works from
          loaded,     \* this Sync loaded a snapshot
          from,       \* the version this Sync began with
          base        \* the snapshot the corpus began with (history variable)

server == <<clock, srv, db, published, settled>>
client == <<st, failures, view, pc, file, loaded, from, base>>
vars == <<server, client>>

None == 0
Change == (1..MaxVersion) \X (1..MaxSession) \X (0..MaxEdition)
Databases == UNION {[1..n -> Change] : n \in 0..MaxVersion}

(* A notification file.  `deltas' are the referenced deltas, contiguous and
   ascending; the snapshot is the database at snap. *)
Notification ==
  [session : 1..MaxSession, version : 1..MaxVersion, stamp : 0..MaxClock,
   snap : 1..MaxVersion, snapDB : Databases, deltas : Databases,
   key : 1..MaxKey, next : 0..MaxKey]

First(n) == n.deltas[1][1]
Last(n) == n.deltas[Len(n.deltas)][1]

----------------------------------------------------------------------------
(* The server. *)
DB0(s) == <<<<1, s, 0>>>>
File0 == [session |-> 1, version |-> 1, stamp |-> 0, snap |-> 1, snapDB |-> DB0(1),
          deltas |-> <<>>, key |-> 1, next |-> None]

Publish(n, d) ==
  LET m == [n EXCEPT !.stamp = clock] IN
  /\ ~settled /\ Cardinality(published) < MaxFiles
  /\ srv' = m
  /\ published' = published \cup {m}
  /\ db' = [db EXCEPT ![n.session] = d]
  /\ UNCHANGED <<clock, settled, client>>

Here == db[srv.session]

Commit ==
  LET c == <<srv.version + 1, srv.session, 0>> IN
  /\ srv.version < MaxVersion
  /\ Publish([srv EXCEPT !.version = @ + 1,
                         !.deltas = IF @ # <<>> /\ Last(srv) < srv.version THEN <<c>> ELSE Append(@, c)],
             Append(Here, c))

(* A new version that only the snapshot holds. *)
CommitSnapshot ==
  LET d == Append(Here, <<srv.version + 1, srv.session, 0>>) IN
  /\ srv.version < MaxVersion
  /\ Publish([srv EXCEPT !.version = @ + 1, !.snap = srv.version + 1, !.snapDB = d], d)

TakeSnapshot ==
  /\ srv.snap < srv.version
  /\ Publish([srv EXCEPT !.snap = srv.version, !.snapDB = Here], Here)

Prune ==
  /\ srv.deltas # <<>> /\ (Len(srv.deltas) > 1 \/ srv.snap = srv.version)
  /\ Publish([srv EXCEPT !.deltas = Tail(@)], Here)

NewSession ==
  /\ srv.session < MaxSession
  /\ Publish([srv EXCEPT !.session = @ + 1, !.version = 1, !.snap = 1,
                         !.snapDB = DB0(srv.session + 1), !.deltas = <<>>],
             DB0(srv.session + 1))

AnnounceKey ==
  /\ srv.next = None /\ srv.key < MaxKey
  /\ Publish([srv EXCEPT !.next = srv.key + 1], Here)

RotateKey ==
  /\ srv.next # None
  /\ Publish([srv EXCEPT !.key = srv.next, !.next = None], Here)

(* A broken server: the last delta is not the one it was. *)
Rewrite ==
  LET e == Here[srv.version][3] + 1
      c == <<srv.version, srv.session, e>> IN
  /\ srv.deltas # <<>> /\ Last(srv) = srv.version /\ srv.snap < srv.version
  /\ e <= MaxEdition
  /\ Publish([srv EXCEPT !.deltas = [@ EXCEPT ![Len(@)] = c]],
             [Here EXCEPT ![srv.version] = c])

Settle ==
  /\ ~settled /\ settled' = TRUE
  /\ UNCHANGED <<clock, srv, db, published, client>>

(* Time passes, whatever the server and the client do. *)
Tick ==
  /\ clock < MaxClock /\ clock' = clock + 1
  /\ UNCHANGED <<srv, db, published, settled, client>>

ServerNext ==
  Commit \/ CommitSnapshot \/ TakeSnapshot \/ Prune \/ NewSession \/ AnnounceKey \/ RotateKey
    \/ Rewrite \/ Settle \/ Tick

(* What a fetch of the notification file may return. *)
Served == IF settled THEN {srv} ELSE published

----------------------------------------------------------------------------
(* The client. *)
NoView == [session |-> None, version |-> 0, src |-> <<>>, cur |-> None, next |-> None]

(* A new Client whose PublicKey is k. *)
NewState(k) ==
  [session |-> None, version |-> 0, cur |-> k, next |-> None, seen |-> {},
   corpus |-> <<>>, stamp |-> 0]

Init ==
  /\ clock = 0 /\ srv = File0 /\ published = {File0} /\ settled = FALSE
  /\ db = [s \in 1..MaxSession |-> DB0(s)]
  /\ st = NewState(1)
  /\ failures = 0 /\ view = NoView /\ pc = "idle" /\ file = File0
  /\ loaded = FALSE /\ from = 0 /\ base = 0

(* The references of a file, each with its hash. *)
refs(n) ==
  {[kind |-> "snapshot", version |-> n.snap, hash |-> n.snapDB]}
    \cup {[kind |-> "delta", version |-> n.deltas[i][1], hash |-> <<n.deltas[i]>>] : i \in DOMAIN n.deltas}

(* verifyJWS with the current key, or else with the announced one. *)
Verifies(n) == n.key = st.cur \/ (st.next # None /\ n.key = st.next)

(* Mutant: the announced key verifies, and the old one stays. *)
KeepsOldKey(n) ==
  IF n.next # None /\ n.next # st.cur THEN [st EXCEPT !.next = n.next] ELSE st

(* The keys after n has verified: the rotation it proves. *)
Rotated(n) == IF n.key = st.cur THEN st ELSE [st EXCEPT !.cur = st.next, !.next = None]

(* Then, once n has been parsed, the key it announces. *)
Announced(n, s) == IF n.next # None /\ n.next # s.cur THEN [s EXCEPT !.next = n.next] ELSE s

Keys(n) == Announced(n, Rotated(n))

(* The age of the file is that of its stamp: the current file too grows old
   while the server rests. *)
TooOld(n) == MaxAge > 0 /\ clock - n.stamp > MaxAge

(* Mutant: a new session is always taken. *)
NoRollback(n) == FALSE

Rollback(n) == st.version # 0 /\ n.session # st.session /\ n.stamp < st.stamp

(* The reasons for a snapshot, and what is refused when there is none. *)
Unreached(n) ==
  /\ n.version >= st.version + 1
  /\ \/ n.deltas = <<>>
     \/ First(n) > st.version + 1
     \/ Last(n) < n.version

(* Mutant: a gap before the first delta is no reason to reload. *)
GapIgnored(n) == st.version = 0 \/ n.session # st.session \/ failures >= 3

Reason(n) == st.version = 0 \/ n.session # st.session \/ failures >= 3 \/ Unreached(n)

older(n) == ~Reason(n) /\ n.version < st.version

history(n) ==
  n.session = st.session =>
    \A r \in refs(n), s \in st.seen : r.kind = s.kind /\ r.version = s.version => r.hash = s.hash

Accepted(n) == ~TooOld(n) /\ ~Rollback(n) /\ ~older(n) /\ history(n)

(* Mutant: only the last file's references are kept. *)
Forgets(s, n) == [s EXCEPT !.seen = refs(n), !.stamp = n.stamp]

(* Client.remember and the stamp, on the state s. *)
remember(s, n) == [s EXCEPT !.seen = @ \cup refs(n), !.stamp = n.stamp]

(* A file cannot be opened, retries included, or is cut, too large or of
   another hash: anything may fail until the network delivers. *)
FetchFails == ~settled

(* The notification file cannot be fetched. *)
Unfetched ==
  /\ pc = "idle" /\ FetchFails
  /\ UNCHANGED vars

(* A notification file that does not verify. *)
Unverified ==
  /\ pc = "idle" /\ \E n \in Served : ~Verifies(n)
  /\ UNCHANGED vars

(* A file signed with the key of n verifies, and then does not parse or is for
   another source: the rotation it proves stays, what it announces is not
   learnt. *)
Unparsed(n) ==
  /\ pc = "idle" /\ n \in Served /\ Verifies(n) /\ FetchFails
  /\ st' = Rotated(n)
  /\ UNCHANGED <<server, failures, view, pc, file, loaded, from, base>>

(* Sync up to its first fetch of a snapshot or delta. *)
Poll(n) ==
  /\ pc = "idle" /\ n \in Served /\ Verifies(n)
  /\ pc' = IF ~Accepted(n) THEN "idle" ELSE IF Reason(n) THEN "snapshot" ELSE "deltas"
  /\ st' = IF Accepted(n) /\ ~Reason(n) THEN remember(Keys(n), n) ELSE Keys(n)
  /\ file' = IF Accepted(n) THEN n ELSE file
  /\ loaded' = FALSE /\ from' = IF Accepted(n) THEN st.version ELSE 0
  /\ UNCHANGED <<server, failures, view, base>>

loadSnapshot ==
  /\ pc = "snapshot" /\ pc' = "deltas"
  /\ st' = remember([st EXCEPT !.session = file.session, !.version = file.snap,
                               !.corpus = file.snapDB, !.seen = {}], file)
  /\ failures' = 0 /\ loaded' = TRUE /\ base' = file.snap
  /\ UNCHANGED <<server, view, file, from>>

(* The snapshot cannot be fetched, or does not check out. *)
SnapshotFails ==
  /\ pc = "snapshot" /\ FetchFails /\ pc' = "idle" /\ file' = File0
  /\ loaded' = FALSE /\ from' = 0
  /\ UNCHANGED <<server, st, failures, view, base>>

(* The deltas after the version held, oldest first. *)
Pending == SelectSeq(file.deltas, LAMBDA d : d[1] > st.version)

(* Mutant: the next delta is taken whatever its version. *)
AnyLeads == Pending # <<>>

Leads == Pending # <<>> /\ Pending[1][1] = st.version + 1

(* Mutant: a delta is applied and its application retried. *)
AppliesTwice ==
  /\ pc = "deltas" /\ Leads
  /\ st' = [st EXCEPT !.version = Pending[1][1], !.corpus = @ \o <<Pending[1], Pending[1]>>]
  /\ UNCHANGED <<server, failures, view, pc, file, loaded, from, base>>

applyDelta ==
  /\ pc = "deltas" /\ Leads
  /\ st' = [st EXCEPT !.version = Pending[1][1], !.corpus = Append(@, Pending[1])]
  /\ UNCHANGED <<server, failures, view, pc, file, loaded, from, base>>

(* Client.publish(changed), which ends a Sync that got past the snapshot. *)
publish(changed) ==
  /\ view' = [session |-> st.session, version |-> st.version, cur |-> st.cur, next |-> st.next,
              src |-> IF changed \/ view = NoView THEN st.corpus ELSE view.src]
  /\ pc' = "idle" /\ file' = File0
  /\ loaded' = FALSE /\ from' = 0
  /\ UNCHANGED <<server, st, base>>

Changed == loaded \/ st.version > from

(* No delta leads on, or the one that does cannot be fetched or does not
   check out. *)
DeltaFails ==
  /\ pc = "deltas" /\ Pending # <<>>
  /\ Leads => FetchFails
  /\ failures' = IF failures < 3 THEN failures + 1 ELSE failures
  /\ publish(Changed)

Done ==
  /\ pc = "deltas" /\ Pending = <<>>
  /\ failures' = 0
  /\ publish(Changed)

Sync ==
  \/ Unfetched \/ Unverified \/ \E n \in published : Unparsed(n) \/ Poll(n)
  \/ loadSnapshot \/ SnapshotFails \/ applyDelta \/ DeltaFails \/ Done

Next == ServerNext \/ Sync

Spec == Init /\ [][Next]_vars

(* Client.Run calls Sync for ever, and once the network delivers every Sync
   runs to its end. *)
Fairness == WF_vars(Sync)

FairSpec == Spec /\ Fairness

----------------------------------------------------------------------------
TypeOK ==
  /\ clock \in 0..MaxClock /\ srv \in Notification /\ published \subseteq Notification /\ settled \in BOOLEAN
  /\ db \in [1..MaxSession -> Databases]
  /\ st.session \in 0..MaxSession /\ st.version \in 0..MaxVersion
  /\ st.cur \in 1..MaxKey /\ st.next \in 0..MaxKey
  /\ st.corpus \in Databases /\ st.stamp \in 0..MaxClock
  /\ st.seen \subseteq [kind : {"snapshot", "delta"}, version : 1..MaxVersion, hash : Databases]
  /\ failures \in 0..3 /\ view.src \in Databases
  /\ pc \in {"idle", "snapshot", "deltas"} /\ file \in Notification
  /\ loaded \in BOOLEAN /\ from \in 0..MaxVersion /\ base \in 0..MaxVersion

(* The server has rewritten a delta. *)
Rewritten == \E s \in DOMAIN db : \E i \in DOMAIN db[s] : db[s][i][3] # 0

(* Whatever files a cache served and whichever fetches failed, what Source()
   returns is the server's database at the session and version Status()
   names: no delta is missed, repeated or applied out of order, and no Sync
   shows a version half applied (Sync, publish).  For a server that rewrites
   nothing. *)
Faithful ==
  view # NoView /\ ~Rewritten => view.src = SubSeq(db[view.session], 1, view.version)

(* A Sync that goes on from the version held works from a file whose deltas
   are, where they overlap the ones applied since the snapshot, the very ones
   applied: a server that rewrote a delta the mirror holds is refused, however
   many Syncs, failures and stale files ago it was applied (history,
   remember). *)
RewriteRefused ==
  [][pc = "idle" /\ pc' = "deltas" =>
       \A i \in DOMAIN file'.deltas :
         LET d == file'.deltas[i] IN d[1] \in base + 1 .. st.version => st.corpus[d[1]] = d]_vars

(* Files of an earlier session that a cache serves again do not take the
   mirror back to it, whichever files of the later session it came from and
   however its own stamp has moved since: only a file that bears the stamp of
   one of the later session can, since Sync refuses an older stamp and not an
   equal one (Sync, client.go:195). *)
NoSessionRollback ==
  [][st'.session < st.session =>
       \E a, b \in published :
         a.session = st'.session /\ b.session = st.session /\ a.stamp = b.stamp]_vars

(* Once a file has verified with the announced key, no file signed with an
   earlier one is worked from (notification: "the old key is never used
   again"). *)
OldKeyNeverUsed ==
  [][pc = "idle" /\ pc' # "idle" => file'.key = st'.cur /\ st'.cur >= st.cur]_vars

(* "older refuses a notification file of the same session older than the
   version held" (older, client.go:300). *)
OlderRefused ==
  [][pc = "idle" /\ pc' # "idle" /\ file'.session = st.session => file'.version >= st.version]_vars

(* "CurrentKey is the PEM of the key the last notification file verified
   with" (Status, client.go:123), between Syncs. *)
CurrentKeyReported == pc = "idle" /\ view # NoView => view.cur = st.cur

(* The current file can be worked from: its key is known, and its deltas
   start no later than after its snapshot. *)
Usable ==
  /\ srv.key \in {st.cur, st.next}
  /\ srv.deltas = <<>> \/ First(srv) <= srv.snap + 1

(* Once the server rests and the network delivers, the mirror reaches the
   server's version, whatever failures, stale files and sessions came before:
   Sync always finds a way on, by deltas or by a reload (Sync, Run).  A server
   that rests until its file is older than MaxAge, where that is set, is
   refused. *)
CatchesUp ==
  settled /\ Usable /\ ~Rewritten
    ~> (view.session = srv.session /\ view.version = srv.version) \/ TooOld(srv)
=============================================================================
