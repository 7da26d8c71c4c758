------------------------------ MODULE Mirror -------------------------------
(***************************************************************************)
(* rpsld's goroutine for one NRTMv4 mirror (resolve/internal/rpsld: run's  *)
(* startup, follow, newMirror, mirrorRegistry, saveKey), composed with the *)
(* nrtm4.Client it drives and the server that client mirrors.              *)
(*                                                                         *)
(* What survives the process is the signing key -state-dir holds.  Its     *)
(* write is atomic (a temporary file, renamed), so a crash finds the old   *)
(* key or the new.                                                         *)
(***************************************************************************)
EXTENDS NRTM4

VARIABLES saved,     \* the key -state-dir holds, None before the first save
          phase,     \* "down", "starting" (before listening) or "up"
          ctl,       \* follow: "wait" for the timer, "sync", then "synced"
          failed,    \* Sync returned an error
          savedKey,  \* the key follow knows to be saved
          pub,       \* the session and version follow published last
          reg,       \* the registry queries are answered from
          knew       \* the keys the last process trusted (history variable)

daemon == <<saved, phase, ctl, failed, savedKey, pub, reg, knew>>
all == <<vars, daemon>>

NoRegistry == [session |-> None, serial |-> 0, data |-> <<>>]

MInit ==
  /\ Init
  /\ saved = None /\ phase = "down" /\ ctl = "wait" /\ failed = FALSE /\ savedKey = None
  /\ pub = <<None, 0>> /\ reg = NoRegistry /\ knew = {}

(* newMirror: a new client, with the saved key or, when there is none, the
   key the command line names. *)
newMirror ==
  /\ phase = "down" /\ phase' = "starting"
  /\ st' = NewState(IF saved # None THEN saved ELSE 1)
  /\ UNCHANGED <<server, failures, view, pc, file, loaded, from, base,
                 saved, ctl, failed, savedKey, pub, reg, knew>>

(* A step of Sync; err is what Sync returns if the step ends it. *)
Step(A, err) ==
  /\ A
  /\ ctl' = IF pc' = "idle" THEN "synced" ELSE "sync"
  /\ failed' = (pc' = "idle" /\ err)
  /\ UNCHANGED <<saved, phase, savedKey, pub, reg, knew>>

Begin ==
  /\ phase # "down" /\ ctl = "wait"
  /\ Step(Unfetched \/ Unverified \/ \E n \in published : Unparsed(n) \/ Poll(n), TRUE)

InSync ==
  /\ ctl = "sync"
  /\ \/ Step(loadSnapshot \/ applyDelta, FALSE)
     \/ Step(SnapshotFails \/ DeltaFails, TRUE)
     \/ Step(Done, FALSE)

(* The process ends, by a crash or a signal: the client, the registry and
   what follow knows are gone. *)
Exit ==
  /\ phase' = "down" /\ ctl' = "wait" /\ failed' = FALSE /\ savedKey' = None
  /\ pub' = <<None, 0>> /\ reg' = NoRegistry
  /\ knew' = {st.cur, st.next}
  /\ st' = NewState(1) /\ failures' = 0 /\ view' = NoView /\ pc' = "idle" /\ file' = File0
  /\ loaded' = FALSE /\ from' = 0 /\ base' = 0
  /\ UNCHANGED <<server, saved>>

Crash == phase # "down" /\ ~settled /\ Exit

(* A failed first Sync ends the process with status 3. *)
StartFails == phase = "starting" /\ ctl = "synced" /\ failed /\ Exit

(* saveKey(ok), when the client's current key is not the one saved. *)
saveKey(ok) ==
  LET now == view.cur IN
  IF now # savedKey /\ ok THEN saved' = now /\ savedKey' = now ELSE UNCHANGED <<saved, savedKey>>

(* Mutant: the serial moves and the data does not. *)
PublishesSerial ==
  /\ reg' = [session |-> view.session, serial |-> view.version,
             data |-> IF reg = NoRegistry THEN st.corpus ELSE reg.data]
  /\ pub' = <<view.session, view.version>>

(* mirrorRegistry and state.publish: what CopyTo copies, under the version
   Status reports. *)
publishRegistry ==
  /\ reg' = [session |-> view.session, serial |-> view.version, data |-> st.corpus]
  /\ pub' = <<view.session, view.version>>

(* The rest of the startup: a key that cannot be saved is tried again after
   the next sync. *)
Started(ok) ==
  /\ phase = "starting" /\ ctl = "synced" /\ ~failed
  /\ saveKey(ok) /\ publishRegistry
  /\ phase' = "up" /\ ctl' = "wait"
  /\ UNCHANGED <<vars, failed, knew>>

(* Mutant: only the version is compared. *)
FollowsVersion(kept, built) ==
  /\ phase = "up" /\ ctl = "synced" /\ ctl' = "wait" /\ failed' = FALSE
  /\ saveKey(kept)
  /\ IF view.version # pub[2] /\ built THEN publishRegistry ELSE UNCHANGED <<reg, pub>>
  /\ UNCHANGED <<vars, phase, knew>>

(* The rest of an iteration of follow: kept tells whether the key could be
   written, built whether the registry could be rebuilt. *)
follow(kept, built) ==
  /\ phase = "up" /\ ctl = "synced" /\ ctl' = "wait" /\ failed' = FALSE
  /\ saveKey(kept)
  /\ IF <<view.session, view.version>> # pub /\ built
     THEN publishRegistry
     ELSE UNCHANGED <<reg, pub>>
  /\ UNCHANGED <<vars, phase, knew>>

(* What fails on this side too stops failing once the run has settled. *)
Outcome == IF settled THEN {TRUE} ELSE BOOLEAN

MNext ==
  \/ ServerNext /\ UNCHANGED daemon
  \/ newMirror \/ Begin \/ InSync \/ Crash \/ StartFails
  \/ \E ok \in Outcome : Started(ok)
  \/ \E kept, built \in Outcome : follow(kept, built)

MSpec == MInit /\ [][MNext]_all

(* The timer fires again and again, and each iteration runs to its end. *)
MFairness ==
  /\ WF_all(Begin) /\ WF_all(InSync)
  /\ WF_all(\E ok \in Outcome : Started(ok))
  /\ WF_all(\E kept, built \in Outcome : follow(kept, built))

MFairSpec == MSpec /\ MFairness

----------------------------------------------------------------------------
(* Queries are answered from the server's database at exactly the serial
   "!j" reports, through failed syncs, failed rebuilds, reloads of the
   snapshot and restarts (follow, mirrorRegistry).  For a server that
   rewrites nothing. *)
ServedFaithful ==
  reg # NoRegistry /\ ~Rewritten => reg.data = SubSeq(db[reg.session], 1, reg.serial)

(* Once the server rests and nothing fails any more, rpsld serves the
   server's version and has saved its key, whatever failed before (follow:
   "a save that failed is tried again", "which the next sync retries"), or
   the file the server rests on has become older than MaxAge first: from then
   on it is refused (docs/rpsld.md:196). *)
FollowsUp ==
  settled /\ phase = "up" /\ Usable /\ ~Rewritten
    ~> \/ reg.session = srv.session /\ reg.serial = srv.version /\ saved = srv.key
       \/ TooOld(srv)

(* "so that a rotation while rpsld was down still verifies" (newMirror,
   registry.go:84): a process that had learnt the announced key starts, after
   the rotation to it, with a key that verifies. *)
RotationWhileDown ==
  [][newMirror /\ saved # None /\ srv.key \in knew => srv.key = st'.cur]_all
=============================================================================
