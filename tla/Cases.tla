-------------------------------- MODULE Cases --------------------------------
(***************************************************************************)
(* backend/internal/moderation: reports of users about one listing or      *)
(* public profile, and the cases staff open on them.  A case is written    *)
(* only if its status, priority and assignee are still those that were     *)
(* read, together with a history entry that names the old and new value.   *)
(* Reports are all of one user with one reason: of those, two must not be  *)
(* recent at once.                                                         *)
(***************************************************************************)
EXTENDS Requests, FiniteSets

CONSTANTS
  ReportIds, CaseIds,    \* numbered in the order they are minted
  Priorities,            \* CasePriority, "normal" among them
  Staff, Nobody,
  MaxEvidence            \* bound: pieces of evidence of a case

VARIABLES
  report,      \* moderation.reports: the status of each
  recent,      \* reports within the duplicate window
  case,        \* moderation.cases
  attached,    \* moderation.case_reports
  evidence,    \* moderation.case_evidence: how many pieces
  told         \* moderation.case_history: what its entries add up to

caseVars == <<report, recent, case, attached, evidence, told>>

\* Case
Opened(p, s) == [status |-> "open", priority |-> p, staff |-> s]
NoCase == [Opened("normal", Nobody) EXCEPT !.status = "none"]

\* CaseHistory: the row, the reports and the evidence its entries name
NoHistory == [row |-> NoCase, reports |-> {}, evidence |-> 0]

CasesInit ==
  /\ report = [r \in ReportIds |-> "none"]
  /\ recent = {}
  /\ case = [k \in CaseIds |-> NoCase]
  /\ attached = {}
  /\ evidence = [k \in CaseIds |-> 0]
  /\ told = [k \in CaseIds |-> NoHistory]

\* CanTransition, CanTransitionCase, IsActive
ReportMoves == {<<"submitted", "triaged">>, <<"triaged", "closed">>}
CaseMoves == {<<"open", "investigating">>, <<"investigating", "resolved">>, <<"resolved", "closed">>}
Active(k) == case[k].status \in {"open", "investigating"}

-----------------------------------------------------------------------------
(* Reports *)

\* FindRecentIdentical finds none.
NoRecentIdentical == recent = {}

\* Service.Create: the target can be seen (assertReportableTarget), and ...
CreateReport(c) ==
  /\ call[c] = Idle
  /\ NoRecentIdentical
  /\ Proceed(c, [op |-> "report"])
  /\ UNCHANGED <<published, caseVars>>

\* ... then Insert.
InsertReport(c, r) ==
  /\ call[c].op = "report"
  /\ report[r] = "none" /\ \A q \in ReportIds : q < r => report[q] # "none"
  /\ report' = [report EXCEPT ![r] = "submitted"]
  /\ recent' = recent \cup {r}
  /\ Return(c)
  /\ UNCHANGED <<published, case, attached, evidence, told>>

\* The duplicate window passes.
WindowPasses(r) ==
  /\ r \in recent
  /\ recent' = recent \ {r}
  /\ UNCHANGED <<call, published, report, case, attached, evidence, told>>

\* Service.Transition ...
TransitionReport(c, r, to) ==
  /\ call[c] = Idle
  /\ <<report[r], to>> \in ReportMoves
  /\ Proceed(c, [op |-> "triage", id |-> r, was |-> report[r], next |-> to])
  /\ UNCHANGED <<published, caseVars>>

\* ... and UpdateStatus, WHERE status is the one that was read.
UpdateStatus(c) ==
  /\ call[c].op = "triage"
  /\ report' = IF report[call[c].id] = call[c].was THEN [report EXCEPT ![call[c].id] = call[c].next] ELSE report
  /\ Return(c)
  /\ UNCHANGED <<published, recent, case, attached, evidence, told>>

-----------------------------------------------------------------------------
(* Cases *)

\* assertReportsAttachable: they exist, and are in no case.
ReportsAttachable(R) == \A r \in R : report[r] # "none" /\ \A k \in CaseIds : <<k, r>> \notin attached

\* CreateCase: the transaction looks at the reports ...
CreateCase(c, R, p, s) ==
  /\ call[c] = Idle
  /\ \E k \in CaseIds : case[k] = NoCase
  /\ ReportsAttachable(R)
  /\ Proceed(c, [op |-> "open", reports |-> R, row |-> Opened(p, s)])
  /\ UNCHANGED <<published, caseVars>>

\* AttachReports: so does this one, and at the case.
AttachReports(c, k, R) ==
  /\ call[c] = Idle
  /\ R # {} /\ Active(k) /\ ReportsAttachable(R)
  /\ Proceed(c, [op |-> "attach", id |-> k, reports |-> R])
  /\ UNCHANGED <<published, caseVars>>

\* insertCaseReports: one that is in a case by now aborts the transaction.
InsertCaseReports(k, R) ==
  /\ \A r \in R, j \in CaseIds : <<j, r>> \notin attached
  /\ attached' = attached \cup {<<k, r>> : r \in R}

\* InsertCase, with an entry for the case and one for each report
InsertCase(c, k) ==
  /\ call[c].op = "open"
  /\ case[k] = NoCase /\ \A j \in CaseIds : j < k => case[j] # NoCase
  /\ InsertCaseReports(k, call[c].reports)
  /\ case' = [case EXCEPT ![k] = call[c].row]
  /\ told' = [told EXCEPT ![k].row = call[c].row, ![k].reports = call[c].reports]
  /\ Return(c)
  /\ UNCHANGED <<published, report, recent, evidence>>

\* AttachCaseReports, which does not look at the case again
AttachCaseReports(c) ==
  /\ call[c].op = "attach"
  /\ InsertCaseReports(call[c].id, call[c].reports)
  /\ told' = [told EXCEPT ![call[c].id].reports = @ \cup call[c].reports]
  /\ Return(c)
  /\ UNCHANGED <<published, report, recent, case, evidence>>

\* The transaction that would attach a report twice is rolled back.
AttachFails(c) ==
  /\ call[c].op \in {"open", "attach"}
  /\ ~ReportsAttachable(call[c].reports)
  /\ Return(c)
  /\ UNCHANGED <<published, caseVars>>

\* TransitionCase
CaseTransitions(row) == {[row EXCEPT !.status = m[2]] : m \in {n \in CaseMoves : n[1] = row.status}}

\* SetCasePriority
CasePriorities(row) == IF row.status = "closed" THEN {} ELSE {[row EXCEPT !.priority = p] : p \in Priorities \ {row.priority}}

\* AssignCase
CaseAssignments(row) ==
  IF row.status = "closed" THEN {} ELSE {[row EXCEPT !.staff = s] : s \in (Staff \cup {Nobody}) \ {row.staff}}

\* AddCaseNote, on a closed case too: the row as it was
CaseNotes(row) == {row}

\* The rows that a request of staff may write, from the row it has read
CaseEdits(row) == CaseTransitions(row) \cup CasePriorities(row) \cup CaseAssignments(row) \cup CaseNotes(row)

\* staff_cases.go: a request of staff reads the case ...
EditCase(c, k, next) ==
  /\ call[c] = Idle
  /\ case[k] # NoCase
  /\ next \in CaseEdits(case[k])
  /\ Proceed(c, [op |-> "edit", id |-> k, from |-> case[k], to |-> next])
  /\ UNCHANGED <<published, caseVars>>

\* Mutant: UPDATE ... WHERE id alone.
CaseUnchangedAlways(k, row) == TRUE

\* UpdateCase: WHERE status, priority and assigned_staff_id are those read.
CaseUnchanged(k, row) == case[k] = row

\* newHistory, insertHistory: the entry gives the new value of what was changed.
Entered(entry, from, to) ==
  [f \in DOMAIN entry |-> IF from[f] # to[f] THEN to[f] ELSE entry[f]]

\* ... and writes it with its entry, or fails with a conflict.
UpdateCase(c) ==
  /\ call[c].op = "edit"
  /\ LET k == call[c].id IN
       IF CaseUnchanged(k, call[c].from)
         THEN /\ case' = [case EXCEPT ![k] = call[c].to]
              /\ told' = [told EXCEPT ![k].row = Entered(@, call[c].from, call[c].to)]
         ELSE UNCHANGED <<case, told>>
  /\ Return(c)
  /\ UNCHANGED <<published, report, recent, attached, evidence>>

\* AddEvidence, InsertEvidence: on a closed case too, with its entry.
AddEvidence(c, k) ==
  /\ call[c] = Idle
  /\ case[k] # NoCase /\ evidence[k] < MaxEvidence
  /\ evidence' = [evidence EXCEPT ![k] = @ + 1]
  /\ told' = [told EXCEPT ![k].evidence = @ + 1]
  /\ UNCHANGED <<call, published, report, recent, case, attached>>

CasesNext ==
  \/ \E r \in ReportIds : WindowPasses(r)
  \/ \E c \in Clients :
       \/ CreateReport(c) \/ UpdateStatus(c) \/ AttachCaseReports(c) \/ AttachFails(c) \/ UpdateCase(c)
       \/ \E r \in ReportIds :
            InsertReport(c, r) \/ \E m \in ReportMoves : TransitionReport(c, r, m[2])
       \/ \E R \in SUBSET ReportIds :
            \/ \E p \in Priorities, s \in Staff \cup {Nobody} : CreateCase(c, R, p, s)
            \/ \E k \in CaseIds : AttachReports(c, k, R)
       \/ \E k \in CaseIds :
            InsertCase(c, k) \/ AddEvidence(c, k) \/ \E next \in CaseEdits(case[k]) : EditCase(c, k, next)

-----------------------------------------------------------------------------
\* A report is in one case at most, and the history of a case adds up to the
\* case, its reports and its evidence, although several members of staff work
\* on it at once.
CaseStory ==
  /\ \A k \in CaseIds :
       told[k] = [row |-> case[k], reports |-> {r \in ReportIds : <<k, r>> \in attached}, evidence |-> evidence[k]]
  /\ \A r \in ReportIds : Cardinality({k \in CaseIds : <<k, r>> \in attached}) <= 1

\* Cases and reports take one step at a time and never go back, and a closed
\* case is not edited any more, although every request decides on an earlier read.
CaseSteps ==
  /\ \A r \in ReportIds : report'[r] = report[r] \/ report[r] = "none" \/ <<report[r], report'[r]>> \in ReportMoves
  /\ \A k \in CaseIds :
       /\ case[k].status = "closed" => case'[k] = case[k]
       /\ case'[k].status = case[k].status \/ case[k] = NoCase \/ <<case[k].status, case'[k].status>> \in CaseMoves
=============================================================================
