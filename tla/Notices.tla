------------------------------- MODULE Notices -------------------------------
(***************************************************************************)
(* Notifications to one user: the task trustedoss.send_notification        *)
(* (tasks/notify.py), the dispatcher it runs over the outbound channels    *)
(* (notifications/dispatcher.py), and the user's inbox and preferences     *)
(* (services/notification_service.py).  One channel that fails for the     *)
(* moment sends the whole task round again, inbox row included.            *)
(***************************************************************************)
EXTENDS Portal, Naturals

CONSTANTS
  Letters,       \* notifications, each a task
  Channels,      \* outbound: email, slack, teams
  Usual,         \* the channels that are on by default
  MaxResends,    \* max_retries of the task
  MaxLostSends   \* workers lost: a bound

ASSUME NoticesAssumption ==
  Usual \subseteq Channels /\ MaxResends \in Nat /\ MaxLostSends \in Nat

VARIABLES
  prefs,     \* the user's row: a set with one record, or empty before the first use
  inbox,     \* in-app rows of each letter: how many, and how many of them unread
  letter,    \* each task
  lostSends  \* workers lost so far

noticeVars == <<prefs, inbox, letter, lostSends>>

Default == [on |-> Usual, app |-> TRUE]

\* get_or_create_prefs and get_prefs_sync: the row, or the defaults, inserted ON
\* CONFLICT DO NOTHING.
Prefs == IF prefs = {} THEN Default ELSE CHOOSE p \in prefs : TRUE

NoLetter == [pc |-> "none", todo |-> {}, wanted |-> {}, got |-> {}, again |-> FALSE, retries |-> 0]

NoticeInit ==
  /\ prefs = {}
  /\ inbox = [l \in Letters |-> [rows |-> 0, unread |-> 0]]
  /\ letter = [l \in Letters |-> NoLetter]
  /\ lostSends = 0

-------------------------------------------------------------------------------

\* delay(), which fails in silence when the broker is down.
PostLetter(l, taken) ==
  /\ letter[l] = NoLetter
  /\ letter' = [letter EXCEPT ![l] = [@ EXCEPT !.pc = IF taken THEN "queued" ELSE "lost"]]
  /\ UNCHANGED <<prefs, inbox, lostSends>>

\* update_prefs replaces the whole row.
UpdatePrefs(on, app) ==
  /\ prefs' = {[on |-> on, app |-> app]}
  /\ UNCHANGED <<inbox, letter, lostSends>>

\* mark_read, and mark_all_read.
MarkRead(l) ==
  /\ inbox[l].unread > 0
  /\ inbox' = [inbox EXCEPT ![l].unread = @ - 1]
  /\ UNCHANGED <<prefs, letter, lostSends>>

MarkAllRead ==
  /\ \E l \in Letters : inbox[l].unread > 0
  /\ inbox' = [l \in Letters |-> [inbox[l] EXCEPT !.unread = 0]]
  /\ UNCHANGED <<prefs, letter, lostSends>>

\* _apply_prefs_filter: the preferences are read once, the in-app row is committed
\* when it is wanted, and the channels that are off are dropped.
ApplyPrefs(l) ==
  /\ letter[l].pc = "queued"
  /\ prefs' = {Prefs}
  /\ inbox' = IF Prefs.app
                THEN [inbox EXCEPT ![l] = [rows |-> @.rows + 1, unread |-> @.unread + 1]]
                ELSE inbox
  /\ letter' = [letter EXCEPT ![l] =
       [@ EXCEPT !.pc = "sending", !.todo = Prefs.on, !.wanted = Prefs.on, !.again = FALSE]]
  /\ UNCHANGED lostSends

\* Wrong on purpose: the last channel decides about the retry.
SendAndForget(l, c, outcome) ==
  /\ letter[l].pc = "sending"
  /\ c \in letter[l].todo
  /\ letter' = [letter EXCEPT ![l] =
       [@ EXCEPT !.todo = @ \ {c}, !.again = (outcome = "transient"),
                 !.got = IF outcome = "transient" THEN @ ELSE @ \union {c}]]
  /\ UNCHANGED <<prefs, inbox, lostSends>>

\* One round of dispatch's loop: the channel delivers, or says no for good (it is
\* not configured, or the failure is permanent), or fails for the moment.
Send(l, c, outcome) ==
  LET k == letter[l] IN
  /\ k.pc = "sending"
  /\ c \in k.todo
  /\ letter' = [letter EXCEPT ![l] =
       [k EXCEPT !.todo = @ \ {c}, !.again = @ \/ outcome = "transient",
                 !.got = IF outcome = "transient" THEN @ ELSE @ \union {c}]]
  /\ UNCHANGED <<prefs, inbox, lostSends>>

\* Wrong on purpose: the last failure is neither retried nor acknowledged.
EndUnlessSpent(l) ==
  /\ letter[l].pc = "sending"
  /\ letter[l].todo = {}
  /\ letter[l].again => letter[l].retries < MaxResends
  /\ letter' = [letter EXCEPT ![l] =
       IF @.again THEN [@ EXCEPT !.pc = "queued", !.retries = @ + 1, !.wanted = {}]
       ELSE [@ EXCEPT !.pc = "done"]]
  /\ UNCHANGED <<prefs, inbox, lostSends>>

\* The end of an attempt: autoretry_for raises the task again, all channels of it,
\* until its retries are spent.
EndAttempt(l) ==
  LET k == letter[l] IN
  /\ k.pc = "sending"
  /\ k.todo = {}
  /\ letter' = [letter EXCEPT ![l] =
       IF ~k.again THEN [k EXCEPT !.pc = "done"]
       ELSE IF k.retries < MaxResends
              THEN [k EXCEPT !.pc = "queued", !.retries = @ + 1, !.wanted = {}]
              ELSE [k EXCEPT !.pc = "failed"]]
  /\ UNCHANGED <<prefs, inbox, lostSends>>

\* The worker is lost; the message comes back.
LoseSender(l) ==
  /\ letter[l].pc = "sending"
  /\ lostSends < MaxLostSends
  /\ lostSends' = lostSends + 1
  /\ letter' = [letter EXCEPT ![l] = [@ EXCEPT !.pc = "queued", !.todo = {}, !.wanted = {}]]
  /\ UNCHANGED <<prefs, inbox>>

Outcomes == {"delivered", "refused", "transient"}

\* The steps of the worker that executes l.
Work(l) ==
  \/ ApplyPrefs(l)
  \/ \E c \in Channels, outcome \in Outcomes : Send(l, c, outcome)
  \/ EndAttempt(l)

\* The requests of the bell of the page.
Reading == MarkAllRead \/ \E l \in Letters : MarkRead(l)

NoticeNext ==
  \/ \E on \in SUBSET Channels, app \in BOOLEAN : UpdatePrefs(on, app)
  \/ Reading
  \/ \E l \in Letters :
       \/ \E taken \in BOOLEAN : PostLetter(l, taken)
       \/ Work(l) \/ LoseSender(l)

\* A worker takes every message and every call of a channel has a timeout.
NoticeFairness == \A l \in Letters : WF_noticeVars(Work(l))

NoticeSpec == NoticeInit /\ [][NoticeNext]_noticeVars /\ NoticeFairness

(***************************************************************************)
(* Properties.                                                             *)
(***************************************************************************)

\* The variables stay in their domains.
NoticeTypeOK ==
  /\ prefs \subseteq [on : SUBSET Channels, app : BOOLEAN]
  /\ inbox \in [Letters -> [rows : Nat, unread : Nat]]
  /\ letter \in [Letters -> [pc      : {"none", "lost", "queued", "sending", "done", "failed"},
                             todo    : SUBSET Channels,
                             wanted  : SUBSET Channels,
                             got     : SUBSET Channels,
                             again   : BOOLEAN,
                             retries : 0..MaxResends]]
  /\ lostSends \in 0..MaxLostSends

\* A notification that counts as sent has got through, or been refused for good, on
\* every channel that was on when its last attempt began.
DoneMeansDelivered ==
  \A l \in Letters : letter[l].pc = "done" => letter[l].wanted \subseteq letter[l].got

\* A notification is in the inbox once at most, and once more for each retry of its
\* task and each worker lost; the badge never counts one that is not there.
CopiesHaveCause ==
  \A l \in Letters :
    /\ inbox[l].rows <= 1 + letter[l].retries + lostSends
    /\ inbox[l].unread <= inbox[l].rows

\* Every notification that is published comes to an end.
LettersEnd ==
  \A l \in Letters : letter[l].pc = "queued" ~> letter[l].pc \in {"done", "failed"}
===============================================================================
