------------------------------ MODULE DtBreaker ------------------------------
(***************************************************************************)
(* The Dependency-Track circuit breaker (integrations/dt/breaker.py): four *)
(* keys in Redis shared by every process that talks to DT, and no lock     *)
(* around the sequences of commands that change them.                      *)
(*                                                                         *)
(* Three kinds of client step through those sequences.  A caller goes      *)
(* through CircuitBreaker.call (a scan, the hourly resync); a monitor      *)
(* calls DT first and then record_success or record_failure directly       *)
(* (integrations/dt/health.py, every 60 seconds); an admin forces the      *)
(* breaker closed (services/admin_dt_service.py).                          *)
(*                                                                         *)
(* One action is one Redis command (the Lua script and the snapshot        *)
(* pipeline are one command each), one request to DT, or a tick of the     *)
(* clock.                                                                  *)
(***************************************************************************)
EXTENDS Naturals

CONSTANTS
  Callers,    \* clients of CircuitBreaker.call
  Monitors,   \* heartbeats
  Admins,
  Regular,    \* the callers that keep calling: the beat-scheduled resync
  Threshold,  \* dt_breaker_failure_threshold
  Cooldown,   \* dt_breaker_cooldown_seconds, in ticks
  MaxMishaps  \* how often DT changes, clients crash, DT answers 4xx, or an
              \* admin steps in, altogether

ASSUME BreakerAssumption ==
  /\ Callers \intersect Monitors = {}
  /\ (Callers \union Monitors) \intersect Admins = {}
  /\ Regular \subseteq Callers
  /\ Threshold \in Nat \ {0}
  /\ Cooldown \in Nat \ {0}
  /\ MaxMishaps \in Nat

Clients == Callers \union Monitors \union Admins

VARIABLES
  state,    \* dt:breaker:state; an absent key reads as closed
  fails,    \* dt:breaker:fail_count, counted up to Threshold
  stamped,  \* dt:breaker:opened_at exists
  age,      \* ticks since opened_at, up to Cooldown
  lock,     \* ticks dt:breaker:probe_lock has to live, 0 when absent
  dt,       \* Dependency-Track itself: up or down
  pc,       \* where each client stands
  probing,  \* clients whose request DT gets because they saw half_open
  mishaps

keys == <<state, fails, stamped, age, lock>>
vars == <<state, fails, stamped, age, lock, dt, pc, probing, mishaps>>

States == {"closed", "open", "half_open"}

Init ==
  /\ state = "closed"
  /\ fails = 0
  /\ stamped = FALSE
  /\ age = 0
  /\ lock = 0
  /\ dt = "up"
  /\ pc = [c \in Clients |-> "idle"]
  /\ probing = {}
  /\ mishaps = 0

Step(c, from, to) ==
  /\ pc[c] = from
  /\ pc' = [pc EXCEPT ![c] = to]

Mishap ==
  /\ mishaps < MaxMishaps
  /\ mishaps' = mishaps + 1

(***************************************************************************)
(* CircuitBreaker.call up to the request.                                  *)
(***************************************************************************)

\* The snapshot of _maybe_advance_to_half_open.  Whatever is not open goes
\* straight to DT.
Enter(c) ==
  /\ Step(c, "idle", IF state = "open" THEN "gate" ELSE "request")
  /\ probing' = IF state = "half_open" THEN probing \union {c} ELSE probing
  /\ UNCHANGED <<keys, dt, mishaps>>

\* An opened_at that is missing counts as long ago.
Cooled == stamped => age = Cooldown

\* Wrong on purpose: the time to live is doubled twice.
GatePassesLong(c) ==
  /\ state = "open" /\ Cooled /\ lock = 0
  /\ Step(c, "gate", "resnap")
  /\ state' = "half_open"
  /\ lock' = 4 * Cooldown
  /\ UNCHANGED <<fails, stamped, age, dt, probing, mishaps>>

\* _PROBE_GATE_LUA takes the probe slot.
GatePasses(c) ==
  /\ state = "open" /\ Cooled /\ lock = 0
  /\ Step(c, "gate", "resnap")
  /\ state' = "half_open"
  /\ lock' = 2 * Cooldown
  /\ UNCHANGED <<fails, stamped, age, dt, probing, mishaps>>

\* _PROBE_GATE_LUA returns 0: the snapshot said open, DTBreakerOpen is raised.
GateRefuses(c) ==
  /\ ~(state = "open" /\ Cooled /\ lock = 0)
  /\ Step(c, "gate", "idle")
  /\ UNCHANGED <<keys, dt, probing, mishaps>>

\* The winner reads the state again, and gives up if it is open by now.
Resnap(c) ==
  /\ Step(c, "resnap", IF state = "open" THEN "idle" ELSE "request")
  /\ probing' = IF state = "half_open" THEN probing \union {c} ELSE probing
  /\ UNCHANGED <<keys, dt, mishaps>>

(***************************************************************************)
(* The request to DT, and how its outcome is recorded.                     *)
(***************************************************************************)

\* A heartbeat asks DT whatever the breaker says.
Beat(m) ==
  /\ Step(m, "idle", "request")
  /\ UNCHANGED <<keys, dt, probing, mishaps>>

\* DT answers, or a timeout, a network error or a 5xx raises DTUnavailable.
Answer(c) ==
  /\ Step(c, "request", IF dt = "up" THEN "clear" ELSE "count")
  /\ UNCHANGED <<keys, dt, probing, mishaps>>

\* DT answers 4xx: the breaker is left alone.
AnswerClientError(c) ==
  /\ dt = "up"
  /\ Mishap
  /\ Step(c, "request", "idle")
  /\ probing' = probing \ {c}
  /\ UNCHANGED <<keys, dt>>

\* Wrong on purpose: one failure too few is remembered.
CountShort(c) ==
  /\ fails' = IF fails + 1 < Threshold THEN fails + 1 ELSE fails
  /\ Step(c, "count", IF fails' = Threshold THEN "stamp" ELSE "idle")
  /\ probing' = probing \ {c}
  /\ UNCHANGED <<state, stamped, age, lock, dt, mishaps>>

\* record_failure: INCR fail_count, and on to _open_if_not_open at the
\* threshold.
Count(c) ==
  /\ fails' = IF fails < Threshold THEN fails + 1 ELSE fails
  /\ Step(c, "count", IF fails' = Threshold THEN "stamp" ELSE "idle")
  /\ probing' = probing \ {c}
  /\ UNCHANGED <<state, stamped, age, lock, dt, mishaps>>

\* _open_if_not_open: SET opened_at NX.
Stamp(c) ==
  /\ Step(c, "stamp", "trip")
  /\ stamped' = TRUE
  /\ age' = IF stamped THEN age ELSE 0
  /\ UNCHANGED <<state, fails, lock, dt, probing, mishaps>>

\* _open_if_not_open: SET state open.
Trip(c) ==
  /\ Step(c, "trip", "idle")
  /\ state' = "open"
  /\ UNCHANGED <<fails, stamped, age, lock, dt, probing, mishaps>>

\* record_success: DEL fail_count.
Clear(c) ==
  /\ Step(c, "clear", "check")
  /\ fails' = 0
  /\ UNCHANGED <<state, stamped, age, lock, dt, probing, mishaps>>

\* Wrong on purpose: a success closes an open breaker, not a half-open one.
CheckOpen(c) ==
  /\ Step(c, "check", IF state = "open" THEN "close" ELSE "idle")
  /\ probing' = probing \ {c}
  /\ UNCHANGED <<keys, dt, mishaps>>

\* record_success: GET state.
Check(c) ==
  /\ Step(c, "check", IF state = "half_open" THEN "close" ELSE "idle")
  /\ probing' = probing \ {c}
  /\ UNCHANGED <<keys, dt, mishaps>>

\* record_success and force_close: SET state closed, whatever it is by now.
Close(c) ==
  /\ Step(c, "close", IF c \in Admins THEN "wipe" ELSE "unstamp")
  /\ state' = "closed"
  /\ UNCHANGED <<fails, stamped, age, lock, dt, probing, mishaps>>

\* force_close: DEL fail_count.
Wipe(c) ==
  /\ Step(c, "wipe", "unstamp")
  /\ fails' = 0
  /\ UNCHANGED <<state, stamped, age, lock, dt, probing, mishaps>>

\* DEL opened_at.
Unstamp(c) ==
  /\ Step(c, "unstamp", "unlock")
  /\ stamped' = FALSE
  /\ age' = 0
  /\ UNCHANGED <<state, fails, lock, dt, probing, mishaps>>

\* DEL probe_lock.
Unlock(c) ==
  /\ Step(c, "unlock", "idle")
  /\ lock' = 0
  /\ UNCHANGED <<state, fails, stamped, age, dt, probing, mishaps>>

\* force_reset_breaker: 409 when the snapshot says closed, else force_close.
ForceReset(a) ==
  /\ state # "closed"
  /\ Mishap
  /\ Step(a, "idle", "close")
  /\ UNCHANGED <<keys, dt, probing>>

(***************************************************************************)
(* The environment.                                                        *)
(***************************************************************************)

\* The process of a client dies between two commands.
Crash(c) ==
  /\ pc[c] # "idle"
  /\ Mishap
  /\ pc' = [pc EXCEPT ![c] = "idle"]
  /\ probing' = probing \ {c}
  /\ UNCHANGED <<keys, dt>>

\* DT goes down or comes up.
Flip ==
  /\ Mishap
  /\ dt' = IF dt = "up" THEN "down" ELSE "up"
  /\ UNCHANGED <<keys, pc, probing>>

\* Time passes: opened_at ages, the probe lock expires.
Tick ==
  /\ (stamped /\ age < Cooldown) \/ lock > 0
  /\ age' = IF stamped /\ age < Cooldown THEN age + 1 ELSE age
  /\ lock' = IF lock > 0 THEN lock - 1 ELSE 0
  /\ UNCHANGED <<state, fails, stamped, dt, pc, probing, mishaps>>

\* What a client does once it has started.
Continue(c) ==
  \/ GatePasses(c) \/ GateRefuses(c) \/ Resnap(c)
  \/ Answer(c) \/ Count(c) \/ Stamp(c) \/ Trip(c)
  \/ Clear(c) \/ Check(c) \/ Close(c) \/ Wipe(c) \/ Unstamp(c) \/ Unlock(c)

Next ==
  \/ \E c \in Callers : Enter(c)
  \/ \E m \in Monitors : Beat(m)
  \/ \E a \in Admins : ForceReset(a)
  \/ \E c \in Clients : Continue(c) \/ AnswerClientError(c) \/ Crash(c)
  \/ Flip
  \/ Tick

\* Every client that started goes on, the beat schedule keeps the resync and
\* the heartbeat coming, and time passes.
Fairness ==
  /\ \A c \in Clients : WF_vars(Continue(c))
  /\ \A c \in Regular : WF_vars(Enter(c))
  /\ \A m \in Monitors : WF_vars(Beat(m))
  /\ WF_vars(Tick)

Spec == Init /\ [][Next]_vars

FairSpec == Spec /\ Fairness

(***************************************************************************)
(* Properties.                                                             *)
(***************************************************************************)

Points == {"idle", "gate", "resnap", "request", "count", "stamp", "trip",
           "clear", "check", "close", "wipe", "unstamp", "unlock"}

\* Every variable stays in its domain.
TypeOK ==
  /\ state \in States
  /\ fails \in 0..Threshold
  /\ stamped \in BOOLEAN
  /\ age \in 0..Cooldown
  /\ lock \in 0..(2 * Cooldown)
  /\ dt \in {"up", "down"}
  /\ pc \in [Clients -> Points]
  /\ probing \subseteq Clients
  /\ mishaps \in Nat

\* Once DT stays up the breaker closes and stays closed, whatever a race or a
\* crash left in the four keys: a probe lock nobody will delete, an opened_at
\* that is missing, a failure counter at the threshold in HALF_OPEN.
RecoversWhenUp == <>[](dt = "up") => <>[](state = "closed")

\* Once DT stays down the breaker leaves CLOSED and does not come back, though
\* late successes wipe the counter and a closer may overwrite OPEN.
OpensWhenDown == <>[](dt = "down") => <>[](state # "closed")

\* dt-connector.md: in HALF_OPEN the breaker "lets one call through".  Two
\* requests are never out on the strength of HALF_OPEN.
OneProbe == \A c, d \in probing : c = d

=============================================================================
