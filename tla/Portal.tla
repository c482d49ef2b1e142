------------------------------- MODULE Portal -------------------------------
(***************************************************************************)
(* The everyday part of the platform, composed: calls are metered, handlers *)
(* leave notifications, users write messages, tasks and notes, deliveries  *)
(* come in, and the scheduler's jobs run in between.  Every handler runs   *)
(* to its end, so an action is a handler or a job.                         *)
(***************************************************************************)
EXTENDS Desk, WebhookInbox, Capabilities

desks == <<candidate_messages, hunter_tasks, pm_notes>>

inbox == <<webhook_inbox, answers>>

vars == <<users, notifications, minted, desks, inbox>>

Nothing == [x \in {} |-> NULL]

Init ==
  /\ QuotaInit
  /\ notifications = Nothing
  /\ minted = {}
  /\ candidate_messages = Nothing /\ hunter_tasks = Nothing /\ pm_notes = Nothing
  /\ webhook_inbox = Nothing
  /\ answers = [b \in Bodies |-> {}]

\* The endpoints that have a cost; what else they do is in other modules.
MeteredCall(u) ==
  /\ u \in Metered
  /\ ChargedCall(u)
  /\ UNCHANGED <<notifications, minted, desks, inbox>>

NotificationCall(u) ==
  /\ \/ markAllRead(u)
     \/ \E n \in Ids : markNotificationRead(u, n) \/ deleteNotification(u, n)
  /\ UNCHANGED <<users, desks, inbox>>

MessageCall(u) ==
  /\ \E m \in Ids : markRead(u, m) \/ \E to \in Users : send(m, u, to)
  /\ UNCHANGED <<users, notifications, hunter_tasks, pm_notes, inbox>>

TaskCall(u) ==
  /\ \E t \in Ids :
       \/ complete(u, t) \/ reopen(u, t) \/ deleteTask(u, t)
       \/ \E due \in DueDates : createTask(t, u, due) \/ updateTask(u, t, due)
  /\ UNCHANGED <<users, notifications, candidate_messages, pm_notes, inbox>>

NoteCall(u) ==
  /\ \E c \in Subjects, patch \in NotePatches : upsertNote(u, c, patch)
  /\ UNCHANGED <<users, notifications, minted, candidate_messages, hunter_tasks, inbox>>

\* authMiddleware lets nobody in whose account is not active.
Calls(u) ==
  /\ active(u)
  /\ \/ MeteredCall(u)
     \/ NotificationCall(u)
     \/ MessageCall(u)
     \/ TaskCall(u)
     \/ NoteCall(u)

\* A handler leaves a notification (see Commission and Pipeline for when).
Notify ==
  /\ \E n \in Ids, u \in Notified, key \in DedupKeys \union {NULL} : notify(n, u, key)
  /\ UNCHANGED <<users, desks, inbox>>

Deliver ==
  /\ \E d \in Ids, body \in Bodies : deliver(d, body)
  /\ UNCHANGED <<users, notifications, desks>>

Administer ==
  /\ \/ \E u \in Suspendable : suspend(u) \/ unsuspend(u)
     \/ \E u \in Metered, new_quota \in QuotaInputs : adjustQuota(u, new_quota)
  /\ UNCHANGED <<notifications, minted, desks, inbox>>

NewDay == DayBreaks /\ UNCHANGED <<notifications, minted, desks, inbox>>

HourOfRegistration ==
  /\ \E u \in Newcomers : FirstDayEnds(u)
  /\ UNCHANGED <<notifications, minted, desks, inbox>>

Expiry == (\E n \in Ids : Expire(n)) /\ UNCHANGED <<users, desks, inbox>>

QuotaReset == resetDailyQuota /\ UNCHANGED <<notifications, minted, desks, inbox>>

Cleanup == cleanupNotifications /\ UNCHANGED <<users, desks, inbox>>

Next ==
  \/ \E u \in Users : Calls(u)
  \/ Notify
  \/ Deliver
  \/ Administer
  \/ NewDay
  \/ HourOfRegistration
  \/ Expiry
  \/ QuotaReset
  \/ Cleanup

\* Days go by, and a server that is up on some of their midnights runs the job.
Fairness == WF_vars(NewDay) /\ WF_vars(QuotaReset)

Spec == Init /\ [][Next]_vars /\ Fairness

-----------------------------------------------------------------------------
(***************************************************************************)
(* Properties                                                              *)
(***************************************************************************)
\* What is sent twice counts once: a user has at most one unread notification
\* of a key, shown or not, whatever was read, deleted, expired and sent again
\* in between; and a delivery that comes again is answered with the id it was
\* given the first time, under which it can be found.
SentTwiceCountsOnce ==
  /\ \A u \in Users, key \in DedupKeys : \A m, n \in unreadWith(u, key) : m = n
  /\ \A body \in Bodies : answers[body] = rowsOf(body) /\ Cardinality(rowsOf(body)) <= 1

\* What v reads on its own pages, but for what is in its inbox: quota (which the
\* menu follows), notifications, messages it sent, tasks and notes.
Pages(v) ==
  <<users[v],
    listNotifications(v, FALSE), countUnread(v),
    {<<m, candidate_messages[m].to_user_id>> : m \in messages(v, "sent", FALSE).items},
    Restrict(hunter_tasks, listTasks(v, "all")),
    listMyNotes(v)>>

\* v finds its inbox as it was, but for the messages that came in, unread.
InboxOnlyGrows(v) ==
  candidate_messages' # candidate_messages =>
    \A before \in {messages(v, "inbox", FALSE)}, unread \in {messages(v, "inbox", TRUE)} :
      LET came == messages(v, "inbox", FALSE)'.items \ before.items
      IN  /\ messages(v, "inbox", FALSE)'.items = before.items \union came
          /\ messages(v, "inbox", TRUE)'.items = unread.items \union came
          /\ unreadCount(v)' = before.unread_count + Cardinality(came)

\* No call of one user changes another's pages, but for a message that arrives
\* there.
DesksAreApart ==
  [][\A v \in Users :
       Pages(v)' # Pages(v) \/ ~InboxOnlyGrows(v) => \A u \in Users \ {v} : ~Calls(u)]_vars

\* The menu of an account, whichever of the roles it has, holds endpoints that
\* the role's router lets it through to, and tells it what a call would find:
\* what is offered is not refused for quota but for the three endpoints declared
\* to be free that are not; and what is withheld is refused, but for the free
\* ones, withheld while a lowered quota is exceeded.
MenuIsHonest ==
  \A u \in Metered, role \in {"hr", "pm", "candidate"} : active(u) =>
    LET price == charges(role)
        offers == menu(role, u)
        refused(name) == price[name] > 0 /\ ~hasQuota(u, price[name])
    IN  /\ DOMAIN offers \subseteq DOMAIN price
        /\ \A name \in DOMAIN offers :
             /\ offers[name] = "ok" /\ refused(name)
                  => name \in {"list_recommendations", "list_candidates", "delete_my_data"}
             /\ offers[name] # "ok" /\ ~refused(name)
                  => price[name] = 0 /\ ~hasQuota(u, 0)

\* An account that stays active has its quota back again and again: what it
\* used does not follow it into the next days, also when it was suspended on
\* the midnight before, when the server was down, or when it was passed over on
\* its first midnight, 24 hours not being over since its registration.
QuotaComesBack ==
  \A u \in Users : []<>(active(u) => users[u].quota_used = 0)
=============================================================================
