-------------------------------- MODULE Desk --------------------------------
(***************************************************************************)
(* What users keep on the platform for themselves: messages between        *)
(* accounts, a headhunter's tasks, and a project manager's notes about     *)
(* candidates.  Left out: texts, priorities and the recommendation or      *)
(* application a row may refer to, which nothing checks.                   *)
(***************************************************************************)
EXTENDS Notifications

CONSTANTS Subjects, Notes  \* the ids notes are about; their texts

ASSUME DeskAssumption == NULL \notin Notes

VARIABLES
  candidate_messages,  \* id -> [from_user_id, to_user_id, read]
  hunter_tasks,        \* id -> [hunter_user_id, completed, due_at]
  pm_notes             \* <<manager, subject>> -> [starred, note_text]

(***************************************************************************)
(* Messages                                                                *)
(***************************************************************************)
\* The recipient must be active, the application a message names need not exist.
send(id, u, to) ==
  /\ u # to
  /\ active(to)
  /\ draws(id)
  /\ candidate_messages' = Put(candidate_messages, id,
       [from_user_id |-> u, to_user_id |-> to, read |-> FALSE])

\* Mutant: the sender of a message can mark it too.
markRead_eitherSide(u, m) ==
  /\ m \in DOMAIN candidate_messages
  /\ u \in {candidate_messages[m].to_user_id, candidate_messages[m].from_user_id}
  /\ candidate_messages' = [candidate_messages EXCEPT ![m].read = TRUE]
  /\ UNCHANGED minted

markRead(u, m) ==
  /\ m \in DOMAIN candidate_messages
  /\ candidate_messages[m].to_user_id = u
  /\ candidate_messages' = [candidate_messages EXCEPT ![m].read = TRUE]
  /\ UNCHANGED minted

received(u) == {m \in DOMAIN candidate_messages : candidate_messages[m].to_user_id = u}

sent(u) == {m \in DOMAIN candidate_messages : candidate_messages[m].from_user_id = u}

unreadCount(u) == Cardinality({m \in received(u) : ~candidate_messages[m].read})

\* unread_only narrows the inbox; the box of what was sent ignores it.
messages(u, box, unread_only) ==
  [items |-> IF box = "sent" THEN sent(u)
             ELSE {m \in received(u) : unread_only => ~candidate_messages[m].read},
   unread_count |-> unreadCount(u)]

(***************************************************************************)
(* A headhunter's tasks.  WHERE id = ? AND hunter_user_id = ? throughout.  *)
(***************************************************************************)
DueDates == {NULL, "friday"}

ownsTask(u, t) == t \in DOMAIN hunter_tasks /\ hunter_tasks[t].hunter_user_id = u

listTasks(u, status) ==
  {t \in DOMAIN hunter_tasks :
     /\ ownsTask(u, t)
     /\ status = "pending" => ~hunter_tasks[t].completed
     /\ status = "completed" => hunter_tasks[t].completed}

createTask(id, u, due) ==
  /\ u \in Hunters
  /\ draws(id)
  /\ hunter_tasks' = Put(hunter_tasks, id,
       [hunter_user_id |-> u, completed |-> FALSE, due_at |-> due])

\* COALESCE(?, due_at): a date, once given, can be changed but not taken away.
updateTask(u, t, due) ==
  /\ u \in Hunters /\ ownsTask(u, t)
  /\ hunter_tasks' = [hunter_tasks EXCEPT ![t].due_at = IF due = NULL THEN @ ELSE due]
  /\ UNCHANGED minted

setCompleted(u, t, completed) ==
  /\ u \in Hunters /\ ownsTask(u, t)
  /\ hunter_tasks' = [hunter_tasks EXCEPT ![t].completed = completed]
  /\ UNCHANGED minted

complete(u, t) == setCompleted(u, t, TRUE)

reopen(u, t) == setCompleted(u, t, FALSE)

deleteTask(u, t) ==
  /\ u \in Hunters /\ ownsTask(u, t)
  /\ hunter_tasks' = Drop(hunter_tasks, {t})
  /\ UNCHANGED minted

(***************************************************************************)
(* A manager's notes.  A patch names the star, the text, or both.          *)
(***************************************************************************)
NotePatches ==
  [{"starred"} -> BOOLEAN] \union [{"note_text"} -> Notes \union {NULL}]
  \union [starred : BOOLEAN, note_text : Notes \union {NULL}]

noteBefore(u, c) ==
  IF <<u, c>> \in DOMAIN pm_notes THEN pm_notes[<<u, c>>]
  ELSE [starred |-> FALSE, note_text |-> NULL]

listMyNotes(u) == Restrict(pm_notes, {x \in DOMAIN pm_notes : x[1] = u})

upsertNote(u, c, patch) ==
  /\ u \in PMs
  /\ pm_notes' = Put(pm_notes, <<u, c>>,
       [f \in {"starred", "note_text"} |->
          IF f \in DOMAIN patch THEN patch[f] ELSE noteBefore(u, c)[f]])
=============================================================================
