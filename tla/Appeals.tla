------------------------------ MODULE Appeals ------------------------------
(***************************************************************************)
(* Appeals (routes/appeals.ts) and their reminders                         *)
(* (scheduledJobsService.ts).                                              *)
(*                                                                         *)
(* Every handler first reads the appeal and judges rights and changes by   *)
(* what it read; only then it writes, by id.  ReadAppeal is that read and  *)
(* the action of a handler is the rest: its transaction with the system    *)
(* messages it adds.  What a handler starts with void async (cancel and    *)
(* schedule jobs in Redis) goes on after the answer, in the same slot.     *)
(* A job has the number of messages at its scheduling: when it is due,     *)
(* those messages are old enough to remind of.  Any statement may throw,   *)
(* Redis may be closed for one call or for many, and the process may die.  *)
(* A request that is refused changes nothing and is left out.              *)
(***************************************************************************)
EXTENDS Naturals, Sequences, FiniteSets, SequencesExt

CONSTANTS
  Members, Departments,
  Admins,          \* isAdminRole
  ManagerOf,       \* the departments a user manages
  EmployeeOf,      \* the department of a user's profile, or NoValue
  Deadlines,
  Slots,           \* requests served at the same time
  NoValue,
  MaxAppeals, MaxServed, MaxFailures   \* bounds

ASSUME AppealsAssumption == MaxAppeals \in Nat /\ NoValue \notin Nat

Statuses == {"OPEN", "IN_PROGRESS", "RESOLVED", "COMPLETED", "DECLINED"}
Active == {"OPEN", "IN_PROGRESS"}
JobTypes == {"UNREAD_REMINDER", "CLOSURE_REMINDER"}

VARIABLES
  appeal,     \* the rows, with their assignees, history and messages
  job,        \* the sorted set of scheduled jobs
  popped,     \* jobs taken from it and not yet processed
  slot,       \* the handlers and their background work
  served, failures,
  owed        \* history: nothing but a reminder may end the wait for one: no
              \* closing, no deletion, no failure in the work on it came since
              \* the last user message or the last reminder scheduled

appeals == <<appeal, job, popped, slot, served, failures, owed>>

Idle == [pc |-> "idle", by |-> NoValue, a |-> 0, seen |-> NoValue, n |-> 0]
Message(u, kind) == [by |-> u, kind |-> kind, deleted |-> FALSE, reads |-> {}]
NewAppeal(n, u, d) ==
  [number |-> n, by |-> u, status |-> "OPEN", dept |-> d, assignees |-> {}, deadline |-> NoValue,
   history |-> <<>>, messages |-> <<Message(u, "USER")>>]

\* isAdminRole or isDepartmentManager of the department.
CanManage(u, d) == u \in Admins \/ d \in ManagerOf[u]
CanView(u, row) == u = row.by \/ u \in row.assignees \/ EmployeeOf[u] = row.dept \/ u \in Admins

\* The last message of a user that is not deleted, 0 for none.
LatestUserMessage(a) ==
  LET S == {i \in 1..Len(appeal[a].messages) :
              appeal[a].messages[i].kind = "USER" /\ ~appeal[a].messages[i].deleted}
  IN  IF S = {} THEN 0 ELSE Max(S)

IsUnread(a) ==
  LatestUserMessage(a) # 0 /\ appeal[a].messages[LatestUserMessage(a)].reads = {}

AppealsInit ==
  /\ appeal = <<>>
  /\ job = [a \in 1..MaxAppeals |-> [t \in JobTypes |-> NoValue]]
  /\ popped = {}
  /\ slot = [s \in Slots |-> Idle]
  /\ served = 0 /\ failures = 0
  /\ owed = [a \in 1..MaxAppeals |-> FALSE]

To(s, pc) == slot' = [slot EXCEPT ![s].pc = pc]
Done(s) == slot' = [slot EXCEPT ![s] = Idle]
\* Handlers judge by what they read.
Handling(s) == slot[s].pc = "read"
Seen(s) == slot[s].seen
SystemMessages(u, n) == [i \in 1..n |-> Message(u, "SYSTEM")]
Changed(old, new) == IF old # new THEN <<[from |-> old, to |-> new]>> ELSE <<>>

\* What a handler keeps of the row it read.
Judged(row) ==
  [by |-> row.by, status |-> row.status, dept |-> row.dept, assignees |-> row.assignees,
   deadline |-> row.deadline]

\* The read at the start of a handler: findUnique with the relations.
ReadAppeal(s, u, a) ==
  /\ slot[s] = Idle /\ served < MaxServed /\ a <= Len(appeal)
  /\ served' = served + 1
  /\ slot' = [slot EXCEPT ![s] = [pc |-> "read", by |-> u, a |-> a, seen |-> Judged(appeal[a]), n |-> 0]]
  /\ UNCHANGED <<appeal, job, popped, failures, owed>>

Keep == UNCHANGED <<popped, served, failures>>

\* POST /: the next number is the largest one plus one, read outside the
\* transaction ...
ReadNumber(s, u) ==
  /\ slot[s] = Idle /\ served < MaxServed /\ Len(appeal) < MaxAppeals
  /\ served' = served + 1
  /\ slot' = [slot EXCEPT ![s] =
       [Idle EXCEPT !.pc = "create", !.by = u,
                    !.n = Max({appeal[a].number : a \in 1..Len(appeal)} \cup {0}) + 1]]
  /\ UNCHANGED <<appeal, job, popped, failures, owed>>

NumberTaken(n) == \E a \in 1..Len(appeal) : appeal[a].number = n

\* ... and the unique index fails the transaction when it was taken since.
CreateAppeal(s, d) ==
  /\ slot[s].pc = "create" /\ Len(appeal) < MaxAppeals
  /\ IF NumberTaken(slot[s].n)
     THEN Done(s) /\ UNCHANGED <<appeal, owed>>
     ELSE /\ appeal' = Append(appeal, NewAppeal(slot[s].n, slot[s].by, d))
          /\ owed' = [owed EXCEPT ![Len(appeal')] = TRUE]
          /\ slot' = [slot EXCEPT ![s].pc = "unread", ![s].a = Len(appeal')]
  /\ UNCHANGED job /\ Keep

Update(s, row) == appeal' = [appeal EXCEPT ![slot[s].a] = row]
\* A status that is not active is the end of the wait for a reminder.
Closes(s, status) ==
  owed' = [owed EXCEPT ![slot[s].a] = @ /\ status \in Active]

AssignedStatus(S, status) ==
  CASE S # {} -> "IN_PROGRESS"
    [] S = {} /\ status = "IN_PROGRESS" -> "OPEN"
    [] OTHER -> status

\* PUT /:id/assign replaces the assignees; the status is written only when
\* it differs from the one read.
Assign(s, S) ==
  LET row == appeal[slot[s].a]
      next == AssignedStatus(S, Seen(s).status)
      change == Changed(Seen(s).status, next)
      notes == (IF S # Seen(s).assignees THEN 1 ELSE 0) + Len(change)
  IN  /\ Handling(s) /\ CanManage(slot[s].by, Seen(s).dept)
      /\ Update(s, [row EXCEPT !.assignees = S,
                               !.status = IF change = <<>> THEN @ ELSE next,
                               !.history = @ \o change,
                               !.messages = @ \o SystemMessages(slot[s].by, notes)])
      /\ Done(s)
      /\ UNCHANGED <<job, owed>> /\ Keep

\* POST /:id/claim: an employee of the department joins the assignees; the
\* unique index fails the transaction when somebody assigned them meanwhile.
Claim(s) ==
  LET row == appeal[slot[s].a]
      u == slot[s].by
      joins == u \notin Seen(s).assignees
      change == Changed(Seen(s).status, "IN_PROGRESS")
      notes == (IF joins THEN 1 ELSE 0) + Len(change)
  IN  /\ Handling(s) /\ EmployeeOf[u] = Seen(s).dept
      /\ IF joins /\ u \in row.assignees
         THEN UNCHANGED appeal
         ELSE Update(s, [row EXCEPT !.assignees = IF joins THEN @ \cup {u} ELSE @,
                                    !.status = IF change = <<>> THEN @ ELSE "IN_PROGRESS",
                                    !.history = @ \o change,
                                    !.messages = @ \o SystemMessages(u, notes)])
      /\ Done(s)
      /\ UNCHANGED <<job, owed>> /\ Keep

\* PUT /:id/department: another department starts over, without assignees.
Transfer(s, d) ==
  LET row == appeal[slot[s].a]
      change == Changed(Seen(s).status, "OPEN")
  IN  /\ Handling(s) /\ CanManage(slot[s].by, Seen(s).dept) /\ d # Seen(s).dept
      /\ Update(s, [row EXCEPT !.dept = d, !.assignees = {}, !.status = "OPEN",
                               !.history = @ \o change,
                               !.messages = @ \o SystemMessages(slot[s].by, 1 + Len(change))])
      /\ Done(s)
      /\ UNCHANGED <<job, owed>> /\ Keep

\* Managers set any status; the creator completes or reopens; an assignee resolves.
MaySetStatus(u, row, status) ==
  \/ CanManage(u, row.dept)
  \/ u = row.by /\ (status = "COMPLETED" \/ (row.status = "RESOLVED" /\ status = "IN_PROGRESS"))
  \/ u \in row.assignees /\ status = "RESOLVED"

\* PUT /:id/status: the status first ...
SetStatus(s, status) ==
  /\ Handling(s) /\ MaySetStatus(slot[s].by, Seen(s), status) /\ status # Seen(s).status
  /\ Update(s, [appeal[slot[s].a] EXCEPT !.status = status])
  /\ Closes(s, status)
  /\ slot' = [slot EXCEPT ![s].pc = status]
  /\ UNCHANGED job /\ Keep

\* ... then, in a statement of its own, the history, the system message and
\* the jobs: a closed appeal waits for the author, an open one for a reader.
RecordStatus(s) ==
  LET row == appeal[slot[s].a] IN
  /\ slot[s].pc \in Statuses
  /\ Update(s, [row EXCEPT
       !.history = Append(@, [from |-> Seen(s).status, to |-> slot[s].pc]),
       !.messages = @ \o SystemMessages(slot[s].by, 1)])
  /\ To(s, CASE slot[s].pc \in {"RESOLVED", "COMPLETED"} -> "cancelClosure"
             [] slot[s].pc = "DECLINED" -> "cancel"
             [] OTHER -> "cancelUnread")
  /\ UNCHANGED <<job, owed>> /\ Keep

\* PUT /:id/deadline, by the creator or an admin.
SetDeadline(s, d) ==
  /\ Handling(s) /\ (slot[s].by = Seen(s).by \/ slot[s].by \in Admins) /\ d # Seen(s).deadline
  /\ Update(s, [appeal[slot[s].a] EXCEPT !.deadline = d,
                                         !.messages = @ \o SystemMessages(slot[s].by, 1)])
  /\ Done(s)
  /\ UNCHANGED <<job, owed>> /\ Keep

\* POST /:id/messages asks for no right on the appeal but to see appeals at all.
PostMessage(s) ==
  /\ Handling(s)
  /\ Update(s, [appeal[slot[s].a] EXCEPT !.messages = Append(@, Message(slot[s].by, "USER"))])
  /\ owed' = [owed EXCEPT ![slot[s].a] = appeal[slot[s].a].status \in Active]
  /\ To(s, "cancelUnread")
  /\ UNCHANGED job /\ Keep

\* The messages of others a reader has not read, up to the boundary.
UpTo(msgs, u, i) ==
  {j \in 1..i : ~msgs[j].deleted /\ msgs[j].by # u /\ u \notin msgs[j].reads}

\* POST /:id/messages/read-bulk and .../:messageId/read mark everything up to
\* the newest message named, not only the messages named.
ReadMessages(s, i) ==
  LET u == slot[s].by
      msgs == appeal[slot[s].a].messages
      ids == UpTo(msgs, u, i)
  IN  /\ Handling(s) /\ CanView(u, Seen(s))
      /\ ~msgs[i].deleted /\ msgs[i].by # u
      /\ Update(s, [appeal[slot[s].a] EXCEPT !.messages =
           [j \in 1..Len(msgs) |->
              IF j \in ids THEN [msgs[j] EXCEPT !.reads = @ \cup {u}] ELSE msgs[j]]])
      /\ IF ids # {} THEN To(s, "reschedule") ELSE Done(s)
      /\ UNCHANGED <<job, owed>> /\ Keep

\* DELETE /messages/:messageId by its sender; the jobs stay.
DeleteMessage(s, i) ==
  /\ Handling(s)
  /\ appeal[slot[s].a].messages[i].by = slot[s].by
  /\ Update(s, [appeal[slot[s].a] EXCEPT !.messages[i].deleted = TRUE])
  /\ owed' = [owed EXCEPT ![slot[s].a] = FALSE]
  /\ Done(s)
  /\ UNCHANGED job /\ Keep

-----------------------------------------------------------------------------
(* Jobs                                                                      *)

NoJobs == [t \in JobTypes |-> NoValue]
Schedule(a, t) == job' = [job EXCEPT ![a][t] = Len(appeal[a].messages)]

Failure == failures < MaxFailures /\ failures' = failures + 1
\* Redis is open for this call, or tryGetRedis returns null and the call
\* returns without a word.
Redis(open) == IF open THEN UNCHANGED failures ELSE Failure

\* cancelAppealJobs, before a reminder is scheduled or judged.
CancelAppealJobs(s, open) ==
  /\ slot[s].pc \in {"cancel", "cancelUnread", "cancelClosure", "reschedule"}
  /\ Redis(open)
  /\ job' = IF open THEN [job EXCEPT ![slot[s].a] = NoJobs] ELSE job
  /\ owed' = [owed EXCEPT ![slot[s].a] = @ /\ slot[s].pc \in {"cancelUnread", "reschedule"}]
  /\ CASE slot[s].pc = "cancel" -> Done(s)
       [] slot[s].pc = "cancelUnread" -> To(s, "unread")
       [] slot[s].pc = "cancelClosure" -> To(s, "closure")
       [] slot[s].pc = "reschedule" -> To(s, "judgeStatus")
  /\ UNCHANGED <<appeal, popped, served>>

ScheduleReminder(s, open) ==
  LET a == slot[s].a IN
  /\ slot[s].pc \in {"unread", "closure"}
  /\ Redis(open)
  /\ IF open
     THEN Schedule(a, IF slot[s].pc = "unread" THEN "UNREAD_REMINDER" ELSE "CLOSURE_REMINDER")
     ELSE UNCHANGED job
  /\ owed' = IF slot[s].pc = "unread"
             THEN [owed EXCEPT ![a] = open /\ appeal[a].status \in Active] ELSE owed
  /\ Done(s)
  /\ UNCHANGED <<appeal, popped, served>>

\* rescheduleUnreadReminderIfNeeded reads the status and then the latest
\* message again, after the cancellation.
JudgeStatus(s) ==
  /\ slot[s].pc = "judgeStatus"
  /\ IF appeal[slot[s].a].status \in Active
     THEN To(s, "judgeMessage") /\ UNCHANGED owed
     ELSE Done(s) /\ owed' = [owed EXCEPT ![slot[s].a] = FALSE]
  /\ UNCHANGED <<appeal, job>> /\ Keep

\* Mutant of JudgeMessage: only the first message is judged.
MutFirstMessage(s) ==
  /\ slot[s].pc = "judgeMessage"
  /\ IF appeal[slot[s].a].messages[1].reads = {} THEN To(s, "unread") ELSE Done(s)
  /\ UNCHANGED <<appeal, job, owed>> /\ Keep

JudgeMessage(s) ==
  /\ slot[s].pc = "judgeMessage"
  /\ IF IsUnread(slot[s].a) THEN To(s, "unread") ELSE Done(s)
  /\ UNCHANGED <<appeal, job, owed>> /\ Keep

\* processDueJobs takes the jobs that are due out of the set ...
PopJobs(S) ==
  /\ popped = {} /\ S # {}
  /\ \A x \in S : job[x[1]][x[2]] # NoValue
  /\ popped' = {<<x[1], x[2], job[x[1]][x[2]]>> : x \in S}
  /\ job' = [a \in DOMAIN job |-> [t \in JobTypes |-> IF <<a, t>> \in S THEN NoValue ELSE job[a][t]]]
  /\ UNCHANGED <<appeal, slot, served, failures, owed>>

\* Mutant of ProcessUnread: a job comes a moment before its message is old enough.
MutTooYoung(x, ripe) ==
  /\ x \in popped /\ x[2] = "UNREAD_REMINDER"
  /\ popped' = popped \ {x}
  /\ owed' = IF appeal[x[1]].status \in Active /\ IsUnread(x[1]) /\ ripe
             THEN [owed EXCEPT ![x[1]] = FALSE] ELSE owed
  /\ UNCHANGED <<appeal, job, slot, served, failures>>

\* ... and processes them one by one: a reminder of an unread message goes
\* out when the appeal is active, nobody read its last message and that
\* message is old enough.
ProcessUnread(x, ripe) ==
  /\ x \in popped /\ x[2] = "UNREAD_REMINDER"
  /\ LatestUserMessage(x[1]) <= x[3] => ripe
  /\ popped' = popped \ {x}
  /\ owed' = IF appeal[x[1]].status \in Active /\ IsUnread(x[1]) /\ ripe
             THEN [owed EXCEPT ![x[1]] = FALSE] ELSE owed
  /\ UNCHANGED <<appeal, job, slot, served, failures>>

ProcessClosure(x) ==
  /\ x \in popped /\ x[2] = "CLOSURE_REMINDER"
  /\ popped' = popped \ {x}
  /\ UNCHANGED <<appeal, job, slot, served, failures, owed>>

\* A job that throws is gone: it was taken out of the set before, and the loop
\* goes on with the next one.
JobFails(x) ==
  /\ x \in popped /\ Failure
  /\ popped' = popped \ {x}
  /\ owed' = IF x[2] = "UNREAD_REMINDER" THEN [owed EXCEPT ![x[1]] = FALSE] ELSE owed
  /\ UNCHANGED <<appeal, job, slot, served>>

\* Work in progress on an appeal that will schedule the reminder or look
\* whether it is due.
RemindPcs ==
  {"OPEN", "IN_PROGRESS", "cancelUnread", "unread", "reschedule", "judgeStatus", "judgeMessage"}
Reminding(s, a) == slot[s].a = a /\ slot[s].pc \in RemindPcs
WillRemind(a) == \E s \in Slots : Reminding(s, a)

\* A statement of a handler or of its background work throws: the handler
\* answers 500, the background work logs the error; the rest is not done.
StepFails(s) ==
  /\ slot[s] # Idle /\ Failure
  /\ owed' = [a \in DOMAIN owed |-> owed[a] /\ ~Reminding(s, a)]
  /\ Done(s)
  /\ UNCHANGED <<appeal, job, popped, served>>

\* A restart forgets the requests, their background work and the popped jobs.
Interrupted(a) ==
  WillRemind(a) \/ \E x \in popped : x[1] = a /\ x[2] = "UNREAD_REMINDER"
ServerCrash ==
  /\ Failure
  /\ slot' = [s \in Slots |-> Idle] /\ popped' = {}
  /\ owed' = [a \in DOMAIN owed |-> owed[a] /\ ~Interrupted(a)]
  /\ UNCHANGED <<appeal, job, served>>

Handler(s) == Handling(s) /\
 (\/ \E S \in SUBSET {u \in Members : EmployeeOf[u] # NoValue} : Assign(s, S)
  \/ Claim(s)
  \/ \E d \in Departments : Transfer(s, d)
  \/ \E status \in Statuses : SetStatus(s, status)
  \/ \E d \in Deadlines \cup {NoValue} : SetDeadline(s, d)
  \/ PostMessage(s)
  \/ \E i \in 1..Len(appeal[slot[s].a].messages) : ReadMessages(s, i) \/ DeleteMessage(s, i))

Background(s) ==
  \/ RecordStatus(s) \/ JudgeStatus(s) \/ JudgeMessage(s)
  \/ CancelAppealJobs(s, TRUE) \/ ScheduleReminder(s, TRUE)

Jobs ==
  \/ \E S \in SUBSET ((1..MaxAppeals) \X JobTypes) : PopJobs(S)
  \/ \E x \in popped : ProcessClosure(x) \/ \E ripe \in BOOLEAN : ProcessUnread(x, ripe)

AppealsNext ==
  \/ \E s \in Slots :
       \/ \E u \in Members : ReadNumber(s, u) \/ \E a \in 1..MaxAppeals : ReadAppeal(s, u, a)
       \/ \E d \in Departments : CreateAppeal(s, d)
       \/ Handler(s)
       \/ Background(s)
       \/ CancelAppealJobs(s, FALSE) \/ ScheduleReminder(s, FALSE) \/ StepFails(s)
  \/ Jobs
  \/ \E x \in popped : JobFails(x)
  \/ ServerCrash

\* The event loop runs what was started and setInterval polls for ever.
AppealsFairness == WF_appeals(Jobs) /\ \A s \in Slots : WF_appeals(Handler(s)) /\ WF_appeals(Background(s))

AppealsSpec == AppealsInit /\ [][AppealsNext]_appeals /\ AppealsFairness

-----------------------------------------------------------------------------
(* Properties                                                                *)

(* An unread message of an active appeal has its reminder: scheduled, taken  *)
(* by the poll, or about to be scheduled.  Messages, reads and status        *)
(* changes cancel each other's jobs without a lock, and the poll removes a   *)
(* job before it has processed it.  Only a closing, a deletion, or a failure *)
(* that hits the very work on this reminder (Redis closed when it is         *)
(* scheduled, a handler, a job or the process that dies with it) loses it;   *)
(* a failure anywhere else does not.                                         *)
UnreadMessageHasReminder ==
  \A a \in 1..Len(appeal) :
    owed[a] /\ appeal[a].status \in Active /\ IsUnread(a) =>
      \/ job[a]["UNREAD_REMINDER"] # NoValue
      \/ \E x \in popped : x[1] = a /\ x[2] = "UNREAD_REMINDER"
      \/ WillRemind(a)

(* An unread message of an active appeal is read or somebody is reminded,    *)
(* unless the appeal is closed, the message deleted, or the work on the      *)
(* reminder itself failed: the code does not try that again.                 *)
ReminderComes ==
  \A a \in 1..MaxAppeals :
    (a <= Len(appeal) /\ owed[a] /\ appeal[a].status \in Active /\ IsUnread(a))
      ~> ~(owed[a] /\ appeal[a].status \in Active /\ IsUnread(a))
=============================================================================
