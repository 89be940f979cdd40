-------------------------- MODULE InteractiveRunner --------------------------
(***************************************************************************)
(* The interactive runner (support/interactive/interactive.cc): it starts  *)
(* validator and submission with a pipe in each direction, reaps them, and *)
(* reports how both ended and whether the validator ended first.  At the   *)
(* wall-time limit a signal handler interrupts it anywhere, kills whoever  *)
(* is left, and reports in its place.                                      *)
(*                                                                         *)
(* The reading end of the pipe to the submission is never closed by the    *)
(* runner and does not appear.  The runner's own failures (no pipe, no     *)
(* process, bad arguments) end it with an error status and are left out.   *)
(***************************************************************************)
EXTENDS Integers, Sequences, FiniteSets

CONSTANT WallTimeLimit   \* is there a wall-time limit (0 disables it)

ASSUME WallTimeLimitAssumption == WallTimeLimit \in BOOLEAN

VARIABLES
  val, user,     \* the processes: how each ended, why, and whether it was reaped
  open,          \* the pipe ends the runner holds open
  pc,            \* where the runner is
  known,         \* val_status, user_status and user_ru; "none" before they are set
  pids,          \* the children whose pid variable is not -1 yet
  validator_first,
  alarm,         \* the alarm: "off", "armed", "rung"
  hit,           \* where main was and who had ended when the alarm rang (history)
  report         \* what was reported so far

vars == <<val, user, open, pc, known, pids, validator_first, alarm, hit, report>>

Running == [end |-> "none", why |-> "none", reaped |-> FALSE]
Ended(how, why) == [end |-> how, why |-> why, reaped |-> FALSE]
IsZombie(p) == p.end # "none" /\ ~ p.reaped

-----------------------------------------------------------------------------
(* The children.  Each may end of its own accord at any time, whether it   *)
(* was waiting for the other or not; what matters besides is whether it    *)
(* ends because the other side of a pipe is gone.                          *)
ValidatorExits ==
  /\ val.end = "none"
  /\ \E how \in {"accept", "reject", "fail"} : val' = Ended(how, "itself")
  /\ UNCHANGED <<user, open, pc, known, pids, validator_first, alarm, hit, report>>

SubmissionExits ==
  /\ user.end = "none"
  /\ \E how \in {"ok", "error"} : user' = Ended(how, "itself")
  /\ UNCHANGED <<val, open, pc, known, pids, validator_first, alarm, hit, report>>

(* The writing end of the pipe a child reads from is held by the other     *)
(* child and by the runner.                                                *)
ValidatorReadsEOF ==
  /\ val.end = "none"
  /\ user.end # "none"
  /\ "fromuser_write" \notin open
  /\ \E how \in {"reject", "fail"} : val' = Ended(how, "eof")
  /\ UNCHANGED <<user, open, pc, known, pids, validator_first, alarm, hit, report>>

SubmissionReadsEOF ==
  /\ user.end = "none"
  /\ val.end # "none"
  /\ "fromval_write" \notin open
  /\ \E how \in {"ok", "error"} : user' = Ended(how, "eof")
  /\ UNCHANGED <<val, open, pc, known, pids, validator_first, alarm, hit, report>>

SubmissionGetsSIGPIPE ==
  /\ user.end = "none"
  /\ val.end # "none"
  /\ "fromuser_read" \notin open
  /\ user' = Ended("error", "sigpipe")
  /\ UNCHANGED <<val, open, pc, known, pids, validator_first, alarm, hit, report>>

-----------------------------------------------------------------------------
(* Mutants of Start: the runner does not keep the pipe the submission      *)
(* writes to open, or sets no alarm.                                       *)
StartAndClose ==
  /\ pc = "start"
  /\ pc' = "wait"
  /\ pids' = {"val", "user"}
  /\ alarm' = IF WallTimeLimit THEN "armed" ELSE "off"
  /\ open' = open \ {"fromuser_write"}
  /\ UNCHANGED <<val, user, known, validator_first, hit, report>>

StartWithoutAlarm ==
  /\ pc = "start"
  /\ pc' = "wait"
  /\ pids' = {"val", "user"}
  /\ UNCHANGED <<val, user, open, known, validator_first, alarm, hit, report>>

(* main: start both children and arm the alarm.                            *)
Start ==
  /\ pc = "start"
  /\ pc' = "wait"
  /\ pids' = {"val", "user"}
  /\ alarm' = IF WallTimeLimit THEN "armed" ELSE "off"
  /\ UNCHANGED <<val, user, open, known, validator_first, hit, report>>

(* wait3 returns with a child that has ended; of two, with either.         *)
Reap ==
  /\ pc = "wait"
  /\ pids # {}
  /\ \/ IsZombie(val) /\ val' = [val EXCEPT !.reaped = TRUE] /\ pc' = "val" /\ UNCHANGED user
     \/ IsZombie(user) /\ user' = [user EXCEPT !.reaped = TRUE] /\ pc' = "user" /\ UNCHANGED val
  /\ UNCHANGED <<open, known, pids, validator_first, alarm, hit, report>>

(* The validator ended first: remember it, and let the submission get      *)
(* SIGPIPE only if the validator did not accept.                           *)
NoteValidator ==
  /\ pc = "val"
  /\ pc' = "val_noted"
  /\ validator_first' = (validator_first \/ Cardinality(pids) = 2)
  /\ open' = IF Cardinality(pids) = 2 /\ val.end # "accept"
             THEN open \ {"fromuser_read"} ELSE open
  /\ UNCHANGED <<val, user, known, pids, alarm, hit, report>>

StoreValStatus ==
  /\ pc = "val_noted"
  /\ pc' = "val_stored"
  /\ known' = [known EXCEPT !.val = val.end]
  /\ UNCHANGED <<val, user, open, pids, validator_first, alarm, hit, report>>

ForgetVal ==
  /\ pc = "val_stored"
  /\ pc' = "wait"
  /\ pids' = pids \ {"val"}
  /\ open' = open \ {"fromval_write"}
  /\ UNCHANGED <<val, user, known, validator_first, alarm, hit, report>>

StoreUserStatus ==
  /\ pc = "user"
  /\ pc' = "user_stored"
  /\ known' = [known EXCEPT !.user = user.end]
  /\ UNCHANGED <<val, user, open, pids, validator_first, alarm, hit, report>>

CopyUserUsage ==
  /\ pc = "user_stored"
  /\ pc' = "user_timed"
  /\ known' = [known EXCEPT !.time = "used"]
  /\ UNCHANGED <<val, user, open, pids, validator_first, alarm, hit, report>>

ForgetUser ==
  /\ pc = "user_timed"
  /\ pc' = "wait"
  /\ pids' = pids \ {"user"}
  /\ open' = open \ {"fromuser_write"}
  /\ UNCHANGED <<val, user, known, validator_first, alarm, hit, report>>

Line(v, u, t) == [val |-> v, user |-> u, time |-> t, first |-> validator_first]

(* report, once both are reaped: the line is written, then report_fd is    *)
(* closed.  An alarm in between makes the handler write a second line.     *)
Report ==
  /\ pc = "wait"
  /\ pids = {}
  /\ pc' = "written"
  /\ report' = Append(report, Line(known.val, known.user, known.time))
  /\ UNCHANGED <<val, user, open, known, pids, validator_first, alarm, hit>>

CloseReport ==
  /\ pc = "written"
  /\ pc' = "reported"
  /\ UNCHANGED <<val, user, open, known, pids, validator_first, alarm, hit, report>>

Exit ==
  /\ pc = "reported"
  /\ pc' = "done"
  /\ open' = {}
  /\ UNCHANGED <<val, user, known, pids, validator_first, alarm, hit, report>>

-----------------------------------------------------------------------------
Over == pc \in {"done", "crashed"}

(* walltime_handler.  A child that has ended but is not reaped gives its   *)
(* status; one that main has reaped without storing its status looks as if *)
(* it had none, like one that is still running.  A validator that is still *)
(* running gets SIGTERM, which it may survive.                             *)
RingAlarm ==
  /\ alarm = "armed"
  /\ pc # "start" /\ ~ Over
  /\ alarm' = "rung"
  /\ pc' = "handler_val"
  /\ hit' = [at |-> pc, ended |-> {c \in {"val", "user"} :
                                    (IF c = "val" THEN val.end ELSE user.end) # "none"}]
  /\ UNCHANGED <<val, user, open, known, pids, validator_first, report>>

(* Mutant of HandleValidator: it does not ask for a status.                *)
HandleValidatorBlindly ==
  /\ pc = "handler_val"
  /\ pc' = "handler_user"
  /\ UNCHANGED <<val, user, open, known, pids, validator_first, alarm, hit, report>>

HandleValidator ==
  /\ pc = "handler_val"
  /\ pc' = "handler_user"
  /\ IF "val" \in pids /\ IsZombie(val)
     THEN known' = [known EXCEPT !.val = val.end] /\ val' = [val EXCEPT !.reaped = TRUE]
     ELSE /\ UNCHANGED known
          /\ \/ val' = val
             \/ val.end = "none" /\ val' = Ended("killed", "alarm")
  /\ UNCHANGED <<user, open, pids, validator_first, alarm, hit, report>>

(* When main has closed report_fd, fdopen gives NULL and the runner        *)
(* crashes instead of reporting.                                           *)
HandleSubmission ==
  /\ pc = "handler_user"
  /\ pc' = IF hit.at = "reported" THEN "crashed" ELSE "done"
  /\ LET found == "user" \in pids /\ IsZombie(user)
         status == IF found THEN user.end ELSE known.user
         time == IF found THEN "used" ELSE known.time
         line == Line(IF known.val = "none" THEN "reject" ELSE known.val,
                      IF status = "none" THEN "usr1" ELSE status,
                      IF status = "none" THEN "wall" ELSE time)
     IN  report' = IF hit.at = "reported" THEN report ELSE Append(report, line)
  /\ user' = IF "user" \notin pids THEN user
             ELSE IF user.end = "none" THEN Ended("killed", "alarm")
             ELSE [user EXCEPT !.reaped = TRUE]
  /\ open' = {}
  /\ UNCHANGED <<val, known, pids, validator_first, alarm, hit>>

-----------------------------------------------------------------------------
Init ==
  /\ val = Running
  /\ user = Running
  /\ open = {"fromuser_read", "fromuser_write", "fromval_write"}
  /\ pc = "start"
  /\ known = [val |-> "none", user |-> "none", time |-> "zero"]
  /\ pids = {}
  /\ validator_first = FALSE
  /\ alarm = "off"
  /\ hit = [at |-> "none", ended |-> {}]
  /\ report = <<>>

Children ==
  /\ pc # "start" /\ ~ Over
  /\ \/ ValidatorExits \/ SubmissionExits
     \/ ValidatorReadsEOF \/ SubmissionReadsEOF \/ SubmissionGetsSIGPIPE

Main ==
  \/ Start \/ Reap \/ NoteValidator \/ StoreValStatus \/ ForgetVal
  \/ StoreUserStatus \/ CopyUserUsage \/ ForgetUser \/ Report
  \/ CloseReport \/ Exit

Handler == HandleValidator \/ HandleSubmission

Next == Children \/ Main \/ RingAlarm \/ Handler

(* The runner is scheduled, and an armed alarm goes off if it lives long.  *)
Fairness == WF_vars(Main) /\ WF_vars(Handler) /\ WF_vars(RingAlarm)

Spec == Init /\ [][Next]_vars /\ Fairness

-----------------------------------------------------------------------------
(* Cause comes before effect: the runner keeps the writing ends open until *)
(* it has reaped their owner, so a validator that ends because the         *)
(* submission is gone is never taken for the first to end, and a           *)
(* submission that ends because the validator is gone always finds the     *)
(* validator noted as first.                                               *)
CauseComesFirst ==
  /\ validator_first => val.why = "itself"
  /\ user.why \in {"eof", "sigpipe"} => validator_first

(* Without an alarm there is exactly one line, and it is true.             *)
QuietReportIsTrue ==
  alarm # "rung" /\ report # <<>> =>
    report = <<Line(val.end, user.end, "used")>>

(* The handler's line is true too: a status is assumed only for a child    *)
(* that was still running when the alarm rang, unless the alarm hits main  *)
(* between wait3 and the two assignments that follow from it.              *)
RaceWindow == {"val", "val_noted", "user", "user_stored"}

AlarmTellsTheTruth ==
  alarm = "rung" /\ report # <<>> /\ hit.at \notin RaceWindow =>
    LET line == report[Len(report)]
    IN  /\ line.val = IF "val" \in hit.ended \/ val.reaped THEN val.end ELSE "reject"
        /\ "user" \in hit.ended => line.user = user.end
        /\ IF user.end = "killed"
           THEN line.user = "usr1" /\ line.time = "wall"
           ELSE line.user = user.end /\ line.time = "used"

(* Whichever of main and handler reports, its line is true.                *)
ReportIsTrue == QuietReportIsTrue /\ AlarmTellsTheTruth

(* Validator and submission that wait for each other for ever, or never    *)
(* end, are reported on all the same: the runner comes to an end by itself *)
(* with exactly one line written, unless the alarm rings inside report()   *)
(* (a second line) or between it and the exit (a crash after the line).    *)
RunnerReports ==
  <>(\/ pc = "done" /\ Len(report) = 1
     \/ Over /\ report # <<>> /\ hit.at \in {"written", "reported"})
==============================================================================
