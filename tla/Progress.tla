------------------------------- MODULE Progress -------------------------------
(***************************************************************************)
(* The progress of one scan, from its row to the tabs of one user:         *)
(* tasks/_progress.py publishes on a channel what the worker has committed,*)
(* api/v1/ws.py greets a socket with the row and then forwards the         *)
(* channel, and the hook useScanWebSocket.ts shows the last frame and      *)
(* reconnects.  The sockets of a user are counted in each backend process; *)
(* here there is one process.  A tab may have several sockets: the hook    *)
(* opens one beside another that is closing, and is told later that the    *)
(* other one has closed.                                                   *)
(***************************************************************************)
EXTENDS Portal, Naturals, Sequences

CONSTANTS
  Tabs,     \* tabs that show the scan
  Slots,    \* tell the sockets of a tab from each other: a bound on their number
  Cap,      \* websocket_max_connections_per_user
  Stages,   \* the number of the last stage, "finalize"; "bootstrap" is 0
  MaxRuns   \* how often the pipeline is run: a bound

ASSUME ProgressAssumption ==
  Cap \in Nat /\ Stages \in Nat /\ MaxRuns \in Nat \ {0}

VARIABLES
  row,     \* scans.current_step and status, with the number of the run
  news,    \* the frame that is committed and not yet published, in a set
  bucket,  \* _registry: the sockets of the user, oldest first
  conn,    \* the handler of each socket
  wire,    \* what it has sent and the tab has not received
  sock,    \* the socket in the browser: closing for good, or for the hook to reconnect
  tab      \* the hook

progressVars == <<row, news, bucket, conn, wire, sock, tab>>

\* A socket is named for its tab.
Sockets == Tabs \X Slots

\* Percents and stage names follow from the number of the stage.
Frame(at, end) == [run |-> row.run, at |-> at, end |-> end]

Ended(f) == f.end \in {"succeeded", "failed"}

\* Close code 1001, "newer_connection".
Newer == [run |-> 0, at |-> 0, end |-> "newer"]

NoConn == [pc |-> "none", frame |-> {}, victim |-> {}, greeted |-> FALSE, subscribed |-> FALSE]

\* The handler, but for the socket that it has to close.
Released(t) == [NoConn EXCEPT !.victim = conn[t].victim]

\* bucket.remove: a sequence without the first of its t.
Without(q, t) ==
  IF \E i \in 1..Len(q) : q[i] = t
  THEN LET i == CHOOSE i \in 1..Len(q) : q[i] = t /\ \A j \in 1..(i - 1) : q[j] # t
       IN  SubSeq(q, 1, i - 1) \o SubSeq(q, i + 1, Len(q))
  ELSE q

\* The socket of t is closed and its handler has unregistered it.
HangUp(t) ==
  /\ conn' = [u \in Sockets |->
       [(IF u = t THEN Released(t) ELSE conn[u]) EXCEPT !.victim = conn[u].victim \ {t}]]
  /\ bucket' = Without(bucket, t)

\* socketRef and lastMessage in a set; timeouts that will open a socket, and whether the
\* hook has the handle of the last one; whether a frame was terminal.  History: the last
\* socket was opened beside one that was not closing.
NewHook ==
  [ref |-> {}, timers |-> 0, armed |-> FALSE, last |-> {}, over |-> FALSE, beside |-> FALSE]

ProgressInit ==
  /\ row = [run |-> 1, at |-> 0, status |-> "running"]
  /\ news = {}
  /\ bucket = <<>>
  /\ conn = [t \in Sockets |-> NoConn]
  /\ wire = [t \in Sockets |-> <<>>]
  /\ sock = [t \in Sockets |-> "none"]
  /\ tab = [t \in Tabs |-> NewHook]

(***************************************************************************)
(* The worker.                                                             *)
(***************************************************************************)

\* _set_stage, to its commit.
SetStage ==
  /\ row.status = "running" /\ news = {}
  /\ row.at < Stages
  /\ row' = [row EXCEPT !.at = @ + 1]
  /\ news' = {Frame(row.at + 1, "no")}
  /\ UNCHANGED <<bucket, conn, wire, sock, tab>>

\* _mark_succeeded: the row says "finalize", the frame says "succeeded".
Succeed ==
  /\ row.status = "running" /\ news = {}
  /\ row.at = Stages
  /\ row' = [row EXCEPT !.status = "succeeded"]
  /\ news' = {Frame(Stages, "succeeded")}
  /\ UNCHANGED <<bucket, conn, wire, sock, tab>>

\* _mark_failed: the row keeps its stage.
Fail ==
  /\ row.status = "running" /\ news = {}
  /\ row' = [row EXCEPT !.status = "failed"]
  /\ news' = {Frame(row.at, "failed")}
  /\ UNCHANGED <<bucket, conn, wire, sock, tab>>

\* publish_progress: every subscriber forwards the frame; Redis may fail, and the
\* worker may be lost, before it is sent.
Publish(sent) ==
  /\ news # {}
  /\ news' = {}
  /\ wire' = [t \in Sockets |->
       IF sent /\ conn[t].subscribed THEN wire[t] \o <<CHOOSE f \in news : TRUE>> ELSE wire[t]]
  /\ UNCHANGED <<row, bucket, conn, sock, tab>>

\* The message comes back and _mark_running starts over, publishing nothing.
RunAgain ==
  /\ row.status # "succeeded" /\ news = {}
  /\ row.run < MaxRuns
  /\ row' = [run |-> row.run + 1, at |-> 0, status |-> "running"]
  /\ UNCHANGED <<news, bucket, conn, wire, sock, tab>>

(***************************************************************************)
(* The socket's handler.                                                   *)
(***************************************************************************)

\* The handshake, the token and the scan are right: the first frame is made.
ReadRow(t) ==
  /\ conn[t].pc = "accepted"
  /\ conn' = [conn EXCEPT ![t].pc = "read", ![t].frame = {Frame(row.at, "no")}]
  /\ UNCHANGED <<row, news, bucket, wire, sock, tab>>

\* _register_connection: over the cap, the oldest is popped, to be closed.
Register(t) ==
  LET queue == Append(bucket, t) IN
  /\ conn[t].pc = "read"
  /\ bucket' = IF Len(queue) > Cap THEN Tail(queue) ELSE queue
  /\ conn' = [conn EXCEPT ![t].pc = "registered",
                          ![t].victim = IF Len(queue) > Cap THEN @ \union {Head(queue)} ELSE @]
  /\ UNCHANGED <<row, news, wire, sock, tab>>

\* Wrong on purpose: the evicted socket is forgotten.
ForgetEvicted(t) ==
  /\ conn[t].victim # {}
  /\ conn' = [conn EXCEPT ![t].victim = {}]
  /\ UNCHANGED <<row, news, bucket, wire, sock, tab>>

\* close(1001): the evicted socket's handler ends at its next send.
CloseEvicted(t) ==
  /\ conn[t].victim # {}
  /\ conn' = [v \in Sockets |-> IF v \in conn[t].victim THEN Released(v)
                                ELSE IF v = t THEN [conn[t] EXCEPT !.victim = {}]
                                ELSE conn[v]]
  /\ wire' = [v \in Sockets |-> IF v \in conn[t].victim THEN Append(wire[v], Newer) ELSE wire[v]]
  /\ UNCHANGED <<row, news, bucket, sock, tab>>

\* The first frame is sent.
Greet(t) ==
  /\ conn[t].pc = "registered" /\ conn[t].victim = {} /\ ~conn[t].greeted
  /\ conn' = [conn EXCEPT ![t].greeted = TRUE, ![t].frame = {}]
  /\ wire' = [wire EXCEPT ![t] = @ \o <<CHOOSE f \in conn[t].frame : TRUE>>]
  /\ UNCHANGED <<row, news, bucket, sock, tab>>

\* Wrong on purpose: the subscription does not wait for the first frame.
SubscribeEarly(t) ==
  /\ conn[t].pc = "registered" /\ ~conn[t].subscribed
  /\ conn' = [conn EXCEPT ![t].subscribed = TRUE]
  /\ UNCHANGED <<row, news, bucket, wire, sock, tab>>

\* The channel is subscribed to, and forwarded from now on.
Subscribe(t) ==
  /\ conn[t].pc = "registered" /\ conn[t].greeted /\ ~conn[t].subscribed
  /\ conn' = [conn EXCEPT ![t].subscribed = TRUE]
  /\ UNCHANGED <<row, news, bucket, wire, sock, tab>>

(***************************************************************************)
(* The hook.                                                               *)
(***************************************************************************)

\* open(): the new socket is the one that the hook knows.
Opens(s, hook) ==
  /\ sock[s] = "none"
  /\ sock' = [sock EXCEPT ![s] = "live"]
  /\ conn' = [conn EXCEPT ![s] = [Released(s) EXCEPT !.pc = "accepted"]]
  /\ tab' = [tab EXCEPT ![s[1]] =
               [hook EXCEPT !.ref = {s},
                            !.beside = \E r \in Sockets : r[1] = s[1] /\ sock[r] = "live"]]
  /\ UNCHANGED <<row, news, bucket, wire>>

\* One timeout less; the hook keeps no handle.
LessOne(hook) == [hook EXCEPT !.timers = @ - 1, !.armed = FALSE]

\* The backoff is over.
Reconnect(s) ==
  /\ tab[s[1]].timers > 0
  /\ Opens(s, LessOne(tab[s[1]]))

\* The page is mounted, or handleVisibilityChange: the hook waits, or knows no socket but
\* one that is closing.
BecomeVisible(s) ==
  LET hook == tab[s[1]] IN
  /\ hook.armed \/ \A r \in hook.ref : sock[r] # "live"
  /\ Opens(s, IF hook.armed THEN LessOne(hook) ELSE hook)

\* onmessage: the frame is shown; a terminal one closes the socket, and what else comes
\* on a closing socket is dropped.
ReceiveFrame(s) ==
  /\ wire[s] # <<>>
  /\ Head(wire[s]) # Newer
  /\ LET f == Head(wire[s]) IN
       /\ tab' = [tab EXCEPT ![s[1]].last = {f}, ![s[1]].over = @ \/ Ended(f)]
       /\ wire' = [wire EXCEPT ![s] = IF Ended(f) THEN <<>> ELSE Tail(@)]
       /\ sock' = [sock EXCEPT ![s] = IF Ended(f) THEN "leaving" ELSE @]
       /\ IF Ended(f) THEN HangUp(s) ELSE UNCHANGED <<conn, bucket>>
  /\ UNCHANGED <<row, news>>

\* The socket is closing, and its handler ends.
BeginClose(s, how) ==
  /\ sock' = [sock EXCEPT ![s] = how]
  /\ wire' = [wire EXCEPT ![s] = <<>>]
  /\ HangUp(s)
  /\ UNCHANGED <<row, news, tab>>

\* The frame that closes the socket with 1001 has come.
ReceiveNewer(s) ==
  /\ wire[s] # <<>>
  /\ Head(wire[s]) = Newer
  /\ BeginClose(s, "leaving")

\* The handler fails and closes with 1011 ("failing"), or with a code after which the hook
\* does not reconnect, or the hook finds no token and closes.
EndHandler(s, how) ==
  /\ sock[s] = "live"
  /\ BeginClose(s, how)

\* onclose, of whichever socket: the hook knows none, and waits, or has waited too long;
\* once the end of the scan was seen, it does not reconnect by itself.
Closes(s, again) ==
  LET hook == [tab[s[1]] EXCEPT !.ref = {}] IN
  /\ sock' = [sock EXCEPT ![s] = "none"]
  /\ tab' = [tab EXCEPT ![s[1]] =
               IF again /\ ~hook.over THEN [hook EXCEPT !.timers = @ + 1, !.armed = TRUE]
               ELSE hook]

OnClose(s, again) ==
  /\ sock[s] \in {"leaving", "failing"}
  /\ again => sock[s] = "failing"
  /\ Closes(s, again)
  /\ UNCHANGED <<row, news, bucket, conn, wire>>

\* The network fails: the socket has closed before the hook learns of it.
Break(s, again) ==
  /\ sock[s] = "live"
  /\ Closes(s, again)
  /\ wire' = [wire EXCEPT ![s] = <<>>]
  /\ HangUp(s)
  /\ UNCHANGED <<row, news>>

ProgressNext ==
  \/ SetStage \/ Succeed \/ Fail \/ RunAgain
  \/ \E sent \in BOOLEAN : Publish(sent)
  \/ \E s \in Sockets :
       \/ ReadRow(s) \/ Register(s) \/ CloseEvicted(s) \/ Greet(s) \/ Subscribe(s)
       \/ Reconnect(s) \/ BecomeVisible(s) \/ ReceiveFrame(s) \/ ReceiveNewer(s)
       \/ \E how \in {"leaving", "failing"} : EndHandler(s, how)
       \/ \E again \in BOOLEAN : OnClose(s, again) \/ Break(s, again)

ProgressSpec == ProgressInit /\ [][ProgressNext]_progressVars

(***************************************************************************)
(* Properties.                                                             *)
(***************************************************************************)

Frames ==
  [run : 1..MaxRuns, at : 0..Stages, end : {"no", "succeeded", "failed"}]

\* The variables stay in their domains.
ProgressTypeOK ==
  /\ row \in [run : 1..MaxRuns, at : 0..Stages, status : {"running", "succeeded", "failed"}]
  /\ news \subseteq Frames
  /\ bucket \in Seq(Sockets)
  /\ conn \in [Sockets -> [pc         : {"none", "accepted", "read", "registered"},
                           frame      : SUBSET Frames,
                           victim     : SUBSET Sockets,
                           greeted    : BOOLEAN,
                           subscribed : BOOLEAN]]
  /\ wire \in [Sockets -> Seq(Frames \union {Newer})]
  /\ sock \in [Sockets -> {"none", "live", "leaving", "failing"}]
  /\ tab \in [Tabs -> [ref    : SUBSET Sockets,
                       timers : Nat,
                       armed  : BOOLEAN,
                       last   : SUBSET Frames,
                       over   : BOOLEAN,
                       beside : BOOLEAN]]

\* A socket of the user that is fed is counted, or somebody is about to close it;
\* and no more than the cap are counted.
StreamsAreCounted ==
  /\ Len(bucket) <= Cap
  /\ \A s \in Sockets : conn[s].greeted =>
       \/ \E i \in 1..Len(bucket) : bucket[i] = s
       \/ \E u \in Sockets : s \in conn[u].victim

\* The percentage that a tab shows never falls during one run of the pipeline, from one
\* socket to the next and beside one that is closing.  Excepted is a tab that is fed by
\* two: when it is shown before onclose of a socket that is closing, it opens another,
\* which onclose makes the hook forget (socketRef, useScanWebSocket.ts:295), so that its
\* timeout, or the next time it is shown, opens a third beside the second.  The newer
\* one's first frame, read earlier, may then come after a later frame of the other.
PercentNeverFalls ==
  [][\A t \in Tabs : \A f \in tab[t].last, g \in tab'[t].last :
       ~tab[t].beside /\ f.run = g.run => f.at <= g.at]_progressVars
===============================================================================
