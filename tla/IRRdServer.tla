---------------------------- MODULE IRRdServer -----------------------------
(***************************************************************************)
(* irrdserver.Server (resolve/irrdserver): an accept loop per listener, a  *)
(* goroutine per connection, and Shutdown.                                 *)
(*                                                                         *)
(* A command line and an answer are counted, not spelled: what matters is  *)
(* how many lines a client has sent, how many are in the connection's      *)
(* read buffer, and how many answers are complete, buffered and written.   *)
(***************************************************************************)
EXTENDS Integers, FiniteSets

CONSTANTS Conns,     \* the connections clients may open
          None,
          Listeners, \* the listeners Serve may be called with
          MaxConns,  \* Limits.MaxConns
          Lines      \* bound: lines the client of each connection sends

ASSUME ServerAssumption ==
  /\ None \notin Conns /\ IsFiniteSet(Conns)
  /\ IsFiniteSet(Listeners)
  /\ MaxConns \in Nat \ {0} /\ Lines \in [Conns -> Nat]

VARIABLES serve,    \* where the Serve of each listener is
          hand,     \* the connection each Serve has accepted
          open,     \* the listeners that are open
          backlog,  \* the connections waiting on each listener
          closing,  \* Server.closing
          sem,      \* tokens taken from Server.sem
          conns,    \* Server.conns
          base,     \* Server.base has been cancelled
          shut,     \* where Shutdown is
          pc,       \* where each connection's handle is
          stop,     \* conn.stop
          past,     \* the read deadline has been moved to now (halt)
          cut,      \* the connection was closed by Shutdown
          net,      \* lines (or a cut-off last one) the client has sent, not read yet
          eof,      \* the client has finished sending
          part,     \* its last line has no newline, and the end is not read yet
          buf,      \* lines in the read buffer
          out,      \* answers complete and not written out
          quit,     \* the last answer closes the connection
          asked,    \* lines sent so far
          failed,   \* a write failed, or the command panicked (history)
          late      \* commands started since stop was set (history)

serving == <<serve, hand, open, backlog>>
shutting == <<closing, base, shut, stop, past, cut>>
history == <<failed, late>>
client == <<net, eof, part, asked>>
vars == <<serving, shutting, sem, conns, pc, client, buf, out, quit, history>>

Zero == [c \in Conns |-> 0]
No == [c \in Conns |-> FALSE]

Init ==
  /\ serve = [l \in Listeners |-> "new"] /\ hand = [l \in Listeners |-> None]
  /\ open = Listeners /\ backlog = [l \in Listeners |-> {}] /\ closing = FALSE
  /\ sem = 0 /\ conns = {} /\ base = FALSE /\ shut = "running"
  /\ pc = [c \in Conns |-> "away"] /\ stop = No /\ past = No /\ cut = No
  /\ net = Zero /\ eof = No /\ part = No /\ buf = Zero /\ out = Zero /\ quit = No /\ asked = Zero
  /\ failed = No /\ late = Zero

(* Mutant: Shutdown waits with the lock held. *)
HeldWhileWaiting == shut \notin {"halting", "waiting", "closing"}

(* Shutdown holds Server.mu while it halts and while it closes connections. *)
Unlocked == shut \notin {"halting", "closing"}

Goto(c, l) == pc' = [pc EXCEPT ![c] = l]

----------------------------------------------------------------------------
(* The clients. *)
Connect(c, l) ==
  /\ pc[c] = "away" /\ l \in open /\ Goto(c, "backlog")
  /\ backlog' = [backlog EXCEPT ![l] = @ \cup {c}]
  /\ UNCHANGED <<serve, hand, open, shutting, sem, conns, client, buf, out, quit, history>>

(* A client sends as long as what it sends may still be read; what it sends
   before its connection is handled counts as sent when it is. *)
Heard(c) == pc[c] \in {"arm", "read", "do", "flush"} /\ ~eof[c]

(* One more line on the way. *)
Sends(c) ==
  /\ Heard(c) /\ asked[c] < Lines[c]
  /\ asked' = [asked EXCEPT ![c] = @ + 1] /\ net' = [net EXCEPT ![c] = @ + 1]
  /\ UNCHANGED <<serving, shutting, sem, conns, pc, buf, out, quit, history>>

Send(c) == Sends(c) /\ UNCHANGED <<eof, part>>

CloseSend(c) ==
  /\ Heard(c) /\ eof' = [eof EXCEPT ![c] = TRUE]
  /\ UNCHANGED <<serving, shutting, sem, conns, pc, net, part, asked, buf, out, quit, history>>

(* The client finishes sending in the middle of a line. *)
CutOff(c) ==
  /\ Sends(c)
  /\ eof' = [eof EXCEPT ![c] = TRUE] /\ part' = [part EXCEPT ![c] = TRUE]

----------------------------------------------------------------------------
(* Serve, with the listener l.  Server.lns holds the listeners registered. *)
lns == {l \in Listeners : serve[l] \notin {"new", "returned"}}

To(l, x) == serve' = [serve EXCEPT ![l] = x]

(* Listeners close, and the connections waiting on them are gone. *)
Closes(ls) ==
  /\ open' = open \ ls
  /\ backlog' = [l \in Listeners |-> IF l \in ls THEN {} ELSE backlog[l]]
  /\ pc' = [c \in Conns |-> IF \E l \in ls : c \in backlog[l] THEN "gone" ELSE pc[c]]

(* Mutant: Serve does not look at closing before it registers the listener. *)
ListensAnyway(l) ==
  /\ serve[l] = "new" /\ Unlocked
  /\ To(l, "accept") /\ UNCHANGED <<open, backlog, pc>>
  /\ UNCHANGED <<hand, shutting, sem, conns, client, buf, out, quit, history>>

(* Serve is called: it registers the listener, unless Shutdown has begun. *)
Serve(l) ==
  /\ serve[l] = "new" /\ Unlocked
  /\ IF closing THEN To(l, "returned") /\ Closes({l})
     ELSE To(l, "accept") /\ UNCHANGED <<open, backlog, pc>>
  /\ UNCHANGED <<hand, shutting, sem, conns, client, buf, out, quit, history>>

Accept(l, c) ==
  /\ serve[l] = "accept" /\ l \in open /\ c \in backlog[l]
  /\ backlog' = [backlog EXCEPT ![l] = @ \ {c}]
  /\ To(l, "sem") /\ hand' = [hand EXCEPT ![l] = c] /\ Goto(c, "accepted")
  /\ UNCHANGED <<open, shutting, sem, conns, client, buf, out, quit, history>>

(* Accept fails: for good when the listener is closed or the error does not
   pass (a passing one is retried after a pause, and changes nothing). *)
AcceptFails(l) ==
  /\ serve[l] = "accept" /\ To(l, "return")
  /\ UNCHANGED <<hand, open, backlog, shutting, sem, conns, pc, client, buf, out, quit, history>>

(* The select on Server.sem: a token, or the connection is refused. *)
Acquire(l) ==
  /\ serve[l] = "sem" /\ sem < MaxConns
  /\ sem' = sem + 1 /\ To(l, "register")
  /\ UNCHANGED <<hand, open, backlog, shutting, conns, pc, client, buf, out, quit, history>>

(* The Serve of l is done with the connection in its hand. *)
Handed(l, x, y) ==
  /\ To(l, x) /\ Goto(hand[l], y) /\ hand' = [hand EXCEPT ![l] = None]
  /\ UNCHANGED <<open, backlog, shutting, client, buf, out, quit, history>>

Refuse(l) ==
  /\ serve[l] = "sem" /\ sem = MaxConns /\ Handed(l, "accept", "gone")
  /\ UNCHANGED <<sem, conns>>

(* Mutant: closing is not looked at again under the lock. *)
RegistersAnyway(l) ==
  /\ serve[l] = "register" /\ Unlocked /\ Handed(l, "accept", "arm")
  /\ conns' = conns \cup {hand[l]} /\ UNCHANGED sem

Register(l) ==
  /\ serve[l] = "register" /\ Unlocked /\ ~closing /\ Handed(l, "accept", "arm")
  /\ conns' = conns \cup {hand[l]} /\ UNCHANGED sem

(* Mutant: the token is not given back. *)
TurnsAwayWithToken(l) ==
  /\ serve[l] = "register" /\ Unlocked /\ closing /\ Handed(l, "return", "gone")
  /\ UNCHANGED <<sem, conns>>

(* Shutdown has begun since the connection was accepted. *)
TurnAway(l) ==
  /\ serve[l] = "register" /\ Unlocked /\ closing /\ Handed(l, "return", "gone")
  /\ sem' = sem - 1 /\ UNCHANGED conns

(* Serve's deferred functions: the listener leaves lns, and is closed. *)
Return(l) ==
  /\ serve[l] = "return" /\ Unlocked /\ To(l, "returned") /\ Closes({l})
  /\ UNCHANGED <<hand, shutting, sem, conns, client, buf, out, quit, history>>

(* What Serve does by itself, between two waits for a connection. *)
Runs(l) == Acquire(l) \/ Refuse(l) \/ Register(l) \/ TurnAway(l) \/ Return(l)

----------------------------------------------------------------------------
(* Mutant: a halted connection leaves with its answers unwritten. *)
ArmDrops(c) ==
  /\ pc[c] = "arm"
  /\ IF stop[c]
     THEN Goto(c, "leave") /\ UNCHANGED past
     ELSE Goto(c, "read") /\ past' = [past EXCEPT ![c] = FALSE]
  /\ UNCHANGED <<serving, closing, base, shut, stop, cut, sem, conns, client, buf, out, quit, history>>

(* Mutant: the deadline is set without a look at stop. *)
ArmsAlways(c) ==
  /\ pc[c] = "arm" /\ Goto(c, "read") /\ past' = [past EXCEPT ![c] = FALSE]
  /\ UNCHANGED <<serving, closing, base, shut, stop, cut, sem, conns, client, buf, out, quit, history>>

(* handle.  arm and halt are atomic under conn.mu. *)
arm(c) ==
  /\ pc[c] = "arm"
  /\ IF stop[c]
     THEN Goto(c, "end") /\ UNCHANGED past
     ELSE Goto(c, "read") /\ past' = [past EXCEPT ![c] = FALSE]
  /\ UNCHANGED <<serving, closing, base, shut, stop, cut, sem, conns, client, buf, out, quit, history>>

(* A whole line is buffered: one the client has cut off is not. *)
lineBuffered(c) == buf[c] > (IF part[c] /\ net[c] = 0 THEN 1 ELSE 0)

(* readLine's wait on the socket, when no line is buffered: it gets some of
   what the client has sent. *)
Fill(c) ==
  /\ pc[c] = "read" /\ buf[c] = 0 /\ ~past[c] /\ ~cut[c]
  /\ \E n \in 1..net[c] :
       buf' = [buf EXCEPT ![c] = n] /\ net' = [net EXCEPT ![c] = @ - n]
  /\ UNCHANGED <<serving, shutting, sem, conns, pc, eof, part, asked, out, quit, history>>

(* It reads the end of the input: a line cut off there is a line. *)
Ends(c) ==
  /\ pc[c] = "read" /\ buf[c] > 0 /\ ~lineBuffered(c) /\ ~past[c] /\ ~cut[c]
  /\ part' = [part EXCEPT ![c] = FALSE]
  /\ UNCHANGED <<serving, shutting, sem, conns, pc, net, eof, asked, buf, out, quit, history>>

(* readLine returns a line, without touching the socket; Do starts on it. *)
Start(c) ==
  /\ pc[c] = "read" /\ lineBuffered(c) /\ Goto(c, "do")
  /\ buf' = [buf EXCEPT ![c] = @ - 1]
  /\ late' = [late EXCEPT ![c] = IF stop[c] THEN @ + 1 ELSE @]
  /\ UNCHANGED <<serving, shutting, sem, conns, client, out, quit, failed>>

(* readLine refuses a line over MaxLine, cut off or not: the refusal is the last answer. *)
TooLong(c) ==
  /\ pc[c] = "read" /\ buf[c] > 0 /\ Goto(c, "end")
  /\ out' = [out EXCEPT ![c] = @ + 1]
  /\ UNCHANGED <<serving, shutting, sem, conns, client, buf, quit, history>>

(* The wait ends without a line: the end of the input with nothing before it, the idle deadline,
   halt's deadline or a closed connection. *)
ReadFails(c) ==
  /\ pc[c] = "read" /\ ~lineBuffered(c) /\ Goto(c, "end")
  /\ UNCHANGED <<serving, shutting, sem, conns, client, buf, out, quit, history>>

(* Do returns and the answer is buffered: flushed when it is the last one or
   no further line waits.  A command that took too long is answered too, by a
   refusal. *)
Do(c) ==
  /\ pc[c] = "do" /\ ~base
  /\ out' = [out EXCEPT ![c] = @ + 1]
  /\ \E q \in BOOLEAN :
       /\ quit' = [quit EXCEPT ![c] = q]
       /\ Goto(c, IF q \/ ~lineBuffered(c) THEN "flush" ELSE "arm")
  /\ UNCHANGED <<serving, shutting, sem, conns, client, buf, history>>

(* Mutant: the token is given back here, and again on leaving. *)
AbandonsTwice(c) ==
  /\ pc[c] = "do" /\ base /\ Goto(c, "leave") /\ sem' = sem - 1
  /\ UNCHANGED <<serving, shutting, conns, client, buf, out, quit, history>>

(* Shutdown has given up: the command is abandoned, unanswered. *)
Abandon(c) ==
  /\ pc[c] = "do" /\ base /\ Goto(c, "leave")
  /\ UNCHANGED <<serving, shutting, sem, conns, client, buf, out, quit, history>>

(* Do panics, and handle recovers; or the answer overflows the write buffer
   and a write fails. *)
Break(c) ==
  /\ pc[c] = "do" /\ Goto(c, "leave") /\ failed' = [failed EXCEPT ![c] = TRUE]
  /\ UNCHANGED <<serving, shutting, sem, conns, client, buf, out, quit, late>>

(* bw.Flush, after an answer ("flush") or in end ("end"). *)
Flush(c) ==
  /\ pc[c] \in {"flush", "end"} /\ (out[c] = 0 \/ ~cut[c])
  /\ out' = [out EXCEPT ![c] = 0]
  /\ Goto(c, IF pc[c] = "end" THEN "linger" ELSE IF quit[c] THEN "end" ELSE "arm")
  /\ UNCHANGED <<serving, shutting, sem, conns, client, buf, quit, history>>

(* The client is gone or does not read before the write deadline. *)
FlushFails(c) ==
  /\ pc[c] \in {"flush", "end"} /\ out[c] > 0 /\ Goto(c, "leave")
  /\ failed' = [failed EXCEPT ![c] = TRUE]
  /\ UNCHANGED <<serving, shutting, sem, conns, client, buf, out, quit, late>>

(* linger, until the client closes too or its time passes. *)
linger(c) ==
  /\ pc[c] = "linger" /\ Goto(c, "leave")
  /\ UNCHANGED <<serving, shutting, sem, conns, client, buf, out, quit, history>>

(* handle's deferred function: out of conns, the token back, wg.Done.  Then
   nothing refers to the connection. *)
Leave(c) ==
  /\ pc[c] = "leave" /\ Unlocked /\ Goto(c, "left") /\ conns' = conns \ {c}
  /\ UNCHANGED <<serving, shutting, sem, client, buf, out, quit, history>>

Release(c) ==
  /\ pc[c] = "left" /\ Goto(c, "done") /\ sem' = sem - 1
  /\ UNCHANGED <<serving, shutting, conns, client, buf, out, quit, history>>

Done(c) ==
  /\ pc[c] = "done" /\ Goto(c, "gone")
  /\ net' = [net EXCEPT ![c] = 0] /\ asked' = [asked EXCEPT ![c] = 0]
  /\ eof' = [eof EXCEPT ![c] = FALSE] /\ part' = [part EXCEPT ![c] = FALSE]
  /\ stop' = [stop EXCEPT ![c] = FALSE] /\ past' = [past EXCEPT ![c] = FALSE]
  /\ buf' = [buf EXCEPT ![c] = 0] /\ out' = [out EXCEPT ![c] = 0]
  /\ quit' = [quit EXCEPT ![c] = FALSE] /\ cut' = [cut EXCEPT ![c] = FALSE]
  /\ failed' = [failed EXCEPT ![c] = FALSE] /\ late' = [late EXCEPT ![c] = 0]
  /\ UNCHANGED <<serving, closing, base, shut, sem, conns>>

handle(c) ==
  arm(c) \/ Fill(c) \/ Ends(c) \/ Start(c) \/ TooLong(c) \/ ReadFails(c) \/ Do(c) \/ Abandon(c)
    \/ Break(c) \/ Flush(c) \/ FlushFails(c) \/ linger(c) \/ Leave(c) \/ Release(c) \/ Done(c)

----------------------------------------------------------------------------
(* Shutdown.  Under Server.mu it marks the server closing, closes the
   listeners and halts each connection in turn. *)
Shutdown ==
  /\ shut = "running" /\ shut' = "halting" /\ closing' = TRUE /\ Closes(lns)
  /\ UNCHANGED <<serve, hand, base, stop, past, cut, sem, conns, client, buf, out, quit, history>>

halt(c) ==
  /\ shut = "halting" /\ c \in conns /\ ~stop[c]
  /\ stop' = [stop EXCEPT ![c] = TRUE] /\ past' = [past EXCEPT ![c] = TRUE]
  /\ UNCHANGED <<serving, closing, base, shut, cut, sem, conns, pc, client, buf, out, quit, history>>

Halted ==
  /\ shut = "halting" /\ \A c \in conns : stop[c]
  /\ shut' = "waiting"
  /\ UNCHANGED <<serving, closing, base, stop, past, cut, sem, conns, pc, client, buf, out, quit, history>>

(* WaitGroup: one for each registered connection, until its wg.Done. *)
Handled == {c \in Conns : pc[c] \notin {"away", "backlog", "accepted", "gone"}}
wg == Cardinality(Handled)

Finished ==
  /\ shut \in {"waiting", "closed"} /\ wg = 0
  /\ shut' = "returned" /\ base' = TRUE
  /\ UNCHANGED <<serving, closing, stop, past, cut, sem, conns, pc, client, buf, out, quit, history>>

(* Shutdown's context ends. *)
GiveUp ==
  /\ shut = "waiting" /\ shut' = "closing" /\ base' = TRUE
  /\ UNCHANGED <<serving, closing, stop, past, cut, sem, conns, pc, client, buf, out, quit, history>>

CloseAll ==
  /\ shut = "closing" /\ shut' = "closed"
  /\ cut' = [c \in Conns |-> cut[c] \/ c \in conns]
  /\ UNCHANGED <<serving, closing, base, stop, past, sem, conns, pc, client, buf, out, quit, history>>

Stopping == (\E c \in Conns : halt(c)) \/ Halted \/ Finished \/ CloseAll

Next ==
  \/ \E c \in Conns : Send(c) \/ CloseSend(c) \/ CutOff(c) \/ handle(c)
  \/ \E l \in Listeners :
       Serve(l) \/ AcceptFails(l) \/ Runs(l) \/ \E c \in Conns : Connect(c, l) \/ Accept(l, c)
  \/ Shutdown \/ Stopping \/ GiveUp

Spec == Init /\ [][Next]_vars

(* Goroutines are scheduled; a wait on a client ends by its deadline; Do
   returns.  Nothing obliges a client to connect or to send, anyone to call
   Serve or Shutdown, or its context to end. *)
Fairness ==
  /\ \A c \in Conns : WF_vars(handle(c))
  /\ \A l \in Listeners : WF_vars(Runs(l) \/ (l \notin open /\ AcceptFails(l)))
  /\ WF_vars(Stopping)

FairSpec == Spec /\ Fairness

----------------------------------------------------------------------------
Places == {"away", "backlog", "accepted", "arm", "read", "do", "flush", "end", "linger", "leave", "left",
           "done", "gone"}

TypeOK ==
  /\ serve \in [Listeners -> {"new", "accept", "sem", "register", "return", "returned"}]
  /\ hand \in [Listeners -> Conns \cup {None}] /\ backlog \in [Listeners -> SUBSET Conns]
  /\ open \subseteq Listeners /\ closing \in BOOLEAN /\ base \in BOOLEAN
  /\ sem \in Nat /\ conns \subseteq Conns
  /\ shut \in {"running", "halting", "waiting", "closing", "closed", "returned"}
  /\ pc \in [Conns -> Places]
  /\ \A f \in {stop, past, cut, eof, part, quit, failed} : f \in [Conns -> BOOLEAN]
  /\ \A f \in {net, buf, out, asked, late} : f \in [Conns -> Nat]

(* No token of Server.sem is lost or returned twice: those taken are the
   connections being handled, and the ones a Serve is about to register.  With
   Refuse's test it follows that at most MaxConns are handled, whichever
   listeners they came by, and that a place is free again when a connection
   ends, whichever way it ends. *)
Registering == {l \in Listeners : serve[l] = "register"}
TokensKept ==
  /\ sem = Cardinality({c \in Handled : pc[c] # "done"}) + Cardinality(Registering)
  /\ sem <= MaxConns

(* When Shutdown has returned no connection is being handled or still holds
   its place, and none will be handled: one accepted as it began is turned
   away (Serve's second look at closing, under the lock Shutdown halts under;
   handle's wg.Done, after all else). *)
QuietAfterShutdown ==
  shut = "returned" => wg = 0 /\ conns = {} /\ sem = Cardinality(Registering)

(* "writes out every answer completed so far, whole": unless a write failed,
   the command panicked or Shutdown gave up, a connection ends with every
   answer written, in whatever order commands, pipelined lines, deadlines and
   Shutdown came (handle, end). *)
AnswersWritten ==
  \A c \in Conns : pc[c] = "done" /\ ~failed[c] /\ ~base => out[c] = 0

(* A connection that Shutdown has halted starts at most the one command whose
   line it was about to return (arm, halt, readLine). *)
AtMostOneLate == \A c \in Conns : late[c] <= 1

(* "no further command is started" (Shutdown, server.go:525). *)
NoLateCommand == \A c \in Conns : late[c] = 0

(* Shutdown returns although its context never ends: no client can hold it,
   by sending nothing, by sending on, or by not reading. *)
ShutdownReturns == shut = "halting" ~> shut = "returned"

(* After Shutdown every Serve returns too, wherever its accept loop was, and
   also when it is called as Shutdown runs or later: rpsld waits for it before
   it exits. *)
ServeReturns ==
  \A l \in Listeners : shut = "returned" /\ serve[l] # "new" ~> serve[l] = "returned"
=============================================================================
