------------------------------ MODULE JobStatus ------------------------------
(***************************************************************************)
(* What a client that polls GET /jobs/{id} is told while workers end the   *)
(* tasks of the job (get_job, get_by_job_id_paginated,                     *)
(* get_summary_by_job_id).  The three statements of a request run in one   *)
(* session under READ COMMITTED: each sees the rows of its own moment.     *)
(* The rows change as JobCompletion says.                                  *)
(***************************************************************************)
EXTENDS JobCompletion, Naturals, SequencesExt

CONSTANTS
    CreatedAt,   \* Task.created_at; create_job gives all tasks of a job one time
    PageSize     \* page_limit

\* The id of a task is a number, by which tasks of one time are ordered.
ASSUME TasksAreOrdered == Tasks \subseteq Nat /\ CreatedAt \in [Tasks -> Nat]
ASSUME TasksAreFinite == IsFiniteSet(Tasks)
ASSUME PageSizeIsPositive == PageSize \in Nat \ {0}

VARIABLES
    reader,    \* the request the client is in, and what it has been told
    reopened   \* history: a terminal task was set back to PENDING

readerVars == <<reader, reopened>>
statusVars == <<vars, readerVars>>

-----------------------------------------------------------------------------
\* pc names the next statement, or "reply". job is the status the reply gives,
\* open whether its page or its summary shows an open task, more whether it has a
\* cursor; after is the cursor of the request, told the tasks of all its pages.
NoCursor == <<>>
FirstRequest == [pc |-> "job", job |-> "PENDING", open |-> FALSE,
                 after |-> NoCursor, more |-> FALSE,
                 told |-> <<>>]

StatusInit == Init /\ reader = FirstRequest /\ reopened = FALSE

\* Mistake: ORDER BY and cursor without the id.
BeforeByTime(a, b) == CreatedAt[a] < CreatedAt[b]

\* (created_at, id) > cursor.
Before(a, b) == \/ CreatedAt[a] < CreatedAt[b]
                \/ CreatedAt[a] = CreatedAt[b] /\ a < b

Behind(cursor) == {t \in Tasks : cursor = NoCursor \/ Before(Last(cursor), t)}

\* ORDER BY: every row once, none after a row that it is before.
InOrder(S) == {rows \in [1 .. Cardinality(S) -> S] :
                 /\ IsInjective(rows)
                 /\ \A i, j \in DOMAIN rows : i < j => ~Before(rows[j], rows[i])}

\* What LIMIT n returns of the ordered rows.
FirstRows(S, n) == LET rows == CHOOSE rows \in InOrder(S) : TRUE
                   IN  SubSeq(rows, 1, IF Len(rows) < n THEN Len(rows) ELSE n)

\* SELECT the job.
ReadJob ==
    /\ reader.pc = "job"
    /\ reader' = [reader EXCEPT !.pc = "page", !.job = job]

\* SELECT the page. The route asks for one row more than the page, and so does
\* the repository; the rows that are too many are cut off again.
ReadPage ==
    LET rows == FirstRows(Behind(reader.after), PageSize + 1 + 1)
        page == IF Len(rows) > PageSize THEN SubSeq(rows, 1, PageSize) ELSE rows
    IN
    /\ reader.pc = "page"
    /\ reader' = [reader EXCEPT !.pc = "summary",
                    !.open = \E t \in Range(page) : status[t] = Open,
                    !.more = Len(rows) > PageSize,
                    !.after = IF page = <<>> THEN NoCursor ELSE <<Last(page)>>,
                    !.told = @ \o page]

\* Mistake: the job's status taken from a last SELECT.
ReadSummaryThenJob ==
    /\ reader.pc = "summary"
    /\ reader' = [reader EXCEPT !.pc = "reply", !.job = job,
                    !.open = @ \/ \E t \in Tasks : status[t] = Open]

\* SELECT the numbers of tasks by status.
ReadSummary ==
    /\ reader.pc = "summary"
    /\ reader' = [reader EXCEPT !.pc = "reply",
                    !.open = @ \/ \E t \in Tasks : status[t] = Open]

\* The client takes the reply and asks for the next page, or polls again.
NextRequest ==
    /\ reader.pc = "reply"
    /\ reader' = IF reader.more
                   THEN [FirstRequest EXCEPT !.after = reader.after, !.told = reader.told]
                   ELSE FirstRequest

Reading == (ReadJob \/ ReadPage \/ ReadSummary \/ NextRequest)
           /\ UNCHANGED <<vars, reopened>>

Working == /\ Next
           /\ reopened' = (reopened \/ \E t \in Tasks : status[t] # Open /\ status'[t] = Open)
           /\ UNCHANGED reader

StatusNext == Reading \/ Working

StatusSpec == StatusInit /\ [][StatusNext]_statusVars

-----------------------------------------------------------------------------
\* Every variable keeps to its type.
StatusTypeOK ==
    /\ TypeOK
    /\ reader \in [pc : {"job", "page", "summary", "reply"}, job : JobStatus,
                   open : BOOLEAN, more : BOOLEAN,
                   after : {NoCursor} \cup {<<t>> : t \in Tasks}, told : Seq(Tasks)]
    /\ reopened \in BOOLEAN

\* A reply that calls the job COMPLETED shows no open task, on its page or in its
\* summary, although the three were read at different moments: the status is
\* read first. (A stale worker can open a task again; then nothing is sure.)
ReportedCompletion ==
    reader.pc = "reply" /\ reader.job = "COMPLETED" /\ ~reopened =>
      ~reader.open

\* A client that follows the cursor to the end is told every task exactly once,
\* in one order, whatever happens to the tasks meanwhile.
EveryTaskOnOnePage ==
    reader.pc = "reply" /\ ~reader.more => reader.told \in InOrder(Tasks)

\* The evaluation of a job is as good as one step with the write of the task, which
\* is how TaskPipeline takes it: after a commit the job has the status that the
\* tasks, as they are then, call for. The lock of the job's row excludes the
\* other evaluations; a recovery or a reschedule, which do not take it, may still
\* make a count out of date.
Evaluated(tasks, found) ==
    IF \A t \in Tasks : tasks[t] # Open THEN "COMPLETED"
    ELSE IF found = "PENDING" THEN "PROCESSING" ELSE found

EvaluatedAtOnce ==
    [][(status' # status \/ job' # job) /\ exhausted' = {} /\ ~reopened'
         => job' = Evaluated(status', job)]_statusVars
=============================================================================
