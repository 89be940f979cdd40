----------------------- MODULE InteractiveRunner_proofs -----------------------
(***************************************************************************)
(* Theorems about the interactive runner, with or without a wall-time      *)
(* limit.  The invariant IInv speaks of the place main is at, which is     *)
(* where the alarm caught it once the handler runs.  It ties that place to *)
(* the children not yet forgotten, these to the pipe ends that are still   *)
(* open and to what is known of the children, and both to the order in     *)
(* which the children can have ended.                                      *)
(***************************************************************************)
EXTENDS InteractiveRunner, FiniteSetTheorems, TLAPS

MainPlaces == {"start", "wait", "val", "val_noted", "val_stored",
               "user", "user_stored", "user_timed", "written", "reported", "done"}

ValEnds  == {"none", "accept", "reject", "fail", "killed"}
UserEnds == {"none", "ok", "error", "killed"}

ValStates  == [end : ValEnds, why : {"none", "itself", "eof", "alarm"}, reaped : BOOLEAN]
UserStates == [end : UserEnds, why : {"none", "itself", "eof", "sigpipe", "alarm"},
               reaped : BOOLEAN]

(* The places at which main has reported.                                  *)
Reported == {"written", "reported", "done"}

(* The place main is at, or was at when the alarm rang.                    *)
Place == IF alarm = "rung" THEN hit.at ELSE pc

TypeOK ==
  /\ val \in ValStates
  /\ user \in UserStates
  /\ open \subseteq {"fromuser_read", "fromuser_write", "fromval_write"}
  /\ pids \subseteq {"val", "user"}
  /\ known \in [val : ValEnds, user : UserEnds, time : {"zero", "used"}]
  /\ validator_first \in BOOLEAN
  /\ alarm \in {"off", "armed", "rung"}
  /\ hit \in [at : MainPlaces \union {"none"}, ended : SUBSET {"val", "user"}]
  /\ pc \in (IF alarm = "rung" THEN {"handler_val", "handler_user", "done", "crashed"} ELSE MainPlaces)
  /\ alarm = "rung" => hit.at \in MainPlaces \ {"start", "done"}

(* What has ended, and what is left to reap, at each place.                *)
ChildrenInv ==
  /\ (val.end = "none" <=> val.why = "none") /\ (val.reaped => val.end # "none")
  /\ (user.end = "none" <=> user.why = "none") /\ (user.reaped => user.end # "none")
  /\ val.why = "alarm" => alarm = "rung"
  /\ user.end = "killed" => pc = "done"
  /\ pc = "start" => val.end = "none" /\ user.end = "none" /\ pids = {}
  /\ pc = "start" => known = [val |-> "none", user |-> "none", time |-> "zero"]
  /\ Place \in {"val", "val_noted", "val_stored"} => "val" \in pids
  /\ Place \in {"user", "user_stored", "user_timed"} => "user" \in pids
  /\ Place \in Reported => pids = {}

(* The runner holds a pipe open until it has forgotten its writer.         *)
PipesInv ==
  ~ Over =>
    /\ "val" \in pids \/ pc = "start" => "fromval_write" \in open
    /\ "user" \in pids \/ pc = "start" => "fromuser_write" \in open
    /\ "fromuser_read" \notin open => validator_first

(* A submission that outlives the validator finds it noted as first.       *)
OrderInv ==
  /\ val.why = "eof" => "user" \notin pids /\ pc # "start"
  /\ pc # "start" /\ "user" \in pids
       /\ ("val" \notin pids \/ Place \in {"val_noted", "val_stored"}) => validator_first

(* What is known of the validator until the handler has looked at it.      *)
ValidatorKnown ==
  pc # "start" =>
    /\ "val" \notin pids \/ Place = "val_stored" => val.reaped /\ known.val = val.end
    /\ "val" \in pids /\ Place # "val_stored" /\ (alarm # "rung" \/ pc = "handler_val") =>
         known.val = "none" /\ (val.reaped <=> Place \in {"val", "val_noted"})
    /\ pc = "handler_user" /\ hit.at \notin RaceWindow =>
         IF val.reaped THEN known.val = val.end
         ELSE known.val = "none" /\ "val" \notin hit.ended

SubmissionKnown ==
  pc # "start" /\ (alarm # "rung" \/ ~ Over) =>
    /\ "user" \notin pids \/ Place \in {"user", "user_stored", "user_timed"} => user.reaped
    /\ "user" \notin pids \/ Place \in {"user_stored", "user_timed"} => known.user = user.end
    /\ "user" \notin pids \/ Place = "user_timed" => known.time = "used"
    /\ "user" \in pids /\ Place \notin {"user", "user_stored", "user_timed"} =>
         known.user = "none" /\ known.time = "zero" /\ ~ user.reaped

(* What the handler's predecessor has reported; who had ended stays ended. *)
ReportInv ==
  /\ alarm # "rung" \/ ~ Over =>
       report = IF Place \in Reported
                THEN <<Line(val.end, user.end, "used")>> ELSE <<>>
  /\ alarm = "rung" => /\ "val" \in hit.ended => val.end # "none"
                       /\ "user" \in hit.ended => user.end # "none"
  /\ AlarmTellsTheTruth

IInv ==
  /\ TypeOK
  /\ ChildrenInv
  /\ PipesInv
  /\ OrderInv
  /\ CauseComesFirst
  /\ ValidatorKnown
  /\ SubmissionKnown
  /\ ReportInv

-----------------------------------------------------------------------------
(* The count of the children that are left tells which they are.           *)
LEMMA BothAreLeft ==
  ASSUME pids \subseteq {"val", "user"}
  PROVE  Cardinality(pids) = 2 <=> "val" \in pids /\ "user" \in pids
<1>1. Cardinality({}) = 0 /\ IsFiniteSet({})
  BY FS_EmptySet
<1>2. Cardinality({"val"}) = 1 /\ Cardinality({"user"}) = 1 /\ IsFiniteSet({"val"})
  BY FS_Singleton
<1>3. Cardinality({"val"} \union {"user"}) = 2
  BY <1>2, FS_AddElement
<1>4. CASE "val" \in pids /\ "user" \in pids
  <2>1. pids = {"val"} \union {"user"}
    BY <1>4
  <2>. QED  BY <1>3, <1>4, <2>1
<1>5. CASE ~ ("val" \in pids /\ "user" \in pids)
  <2>1. pids = {} \/ pids = {"val"} \/ pids = {"user"}
    BY <1>5
  <2>2. Cardinality(pids) = 0 \/ Cardinality(pids) = 1
    BY <1>1, <1>2, <2>1, Zenon
  <2>. QED  BY <1>5, <2>2
<1>. QED  BY <1>4, <1>5

(* Reaping a child does not change how it ended.                           *)
LEMMA ReapedIsState ==
  /\ \A p \in ValStates : [p EXCEPT !.reaped = TRUE] \in ValStates
  /\ \A p \in UserStates : [p EXCEPT !.reaped = TRUE] \in UserStates
BY DEF ValStates, UserStates

-----------------------------------------------------------------------------
(* Each action keeps the invariant.  First the children, which may end at  *)
(* any time.                                                               *)
LEMMA ValidatorExitsKeeps ==
  ASSUME IInv, pc # "start", ~ Over, ValidatorExits
  PROVE  IInv'
<1>. USE DEF IInv, Over, Reported
<1>1. TypeOK'
  BY DEF ValidatorExits, TypeOK, ValEnds, Ended, ValStates, UserStates
<1>2. ChildrenInv'
  BY DEF ValidatorExits, ChildrenInv, Place, Ended
<1>3. PipesInv'
  BY DEF ValidatorExits, PipesInv
<1>4. OrderInv'
  BY DEF ValidatorExits, OrderInv, Place, Ended
<1>5. CauseComesFirst'
  BY DEF ValidatorExits, ChildrenInv, CauseComesFirst
<1>6. ValidatorKnown'
  BY DEF ValidatorExits, ChildrenInv, ValidatorKnown, Place, Ended
<1>7. SubmissionKnown'
  BY DEF ValidatorExits, SubmissionKnown, Place
<1>8. ReportInv'
  BY DEF ValidatorExits, ChildrenInv, ValidatorKnown, ReportInv, AlarmTellsTheTruth, Place
<1>. QED  BY <1>1, <1>2, <1>3, <1>4, <1>5, <1>6, <1>7, <1>8

(* A submission that ends by itself was not the effect of anything.        *)
LEMMA SubmissionExitsKeeps ==
  ASSUME IInv, pc # "start", ~ Over, SubmissionExits
  PROVE  IInv'
<1>. USE DEF IInv, Over, Reported
<1>1. TypeOK'
  BY DEF SubmissionExits, TypeOK, UserEnds, Ended, ValStates, UserStates
<1>2. ChildrenInv'
  BY DEF SubmissionExits, ChildrenInv, Place, Ended
<1>3. PipesInv'
  BY DEF SubmissionExits, PipesInv
<1>4. OrderInv'
  BY DEF SubmissionExits, OrderInv, Place
<1>5. CauseComesFirst'
  BY DEF SubmissionExits, CauseComesFirst, Ended
<1>6. ValidatorKnown'
  BY DEF SubmissionExits, ValidatorKnown, Place
<1>7. SubmissionKnown'
  BY DEF SubmissionExits, ChildrenInv, SubmissionKnown, Place, Ended
<1>8. ReportInv'
  BY DEF SubmissionExits, ChildrenInv, SubmissionKnown, ReportInv, AlarmTellsTheTruth, Place
<1>. QED  BY <1>1, <1>2, <1>3, <1>4, <1>5, <1>6, <1>7, <1>8

(* An end of file reaches the validator only once the submission is        *)
(* forgotten, so that the validator is not the first of two.               *)
LEMMA ValidatorReadsEOFKeeps ==
  ASSUME IInv, pc # "start", ~ Over, ValidatorReadsEOF
  PROVE  IInv'
<1>. USE DEF IInv, Over, Reported
<1>1. TypeOK'
  BY DEF ValidatorReadsEOF, TypeOK, ValEnds, Ended, ValStates, UserStates
<1>2. ChildrenInv'
  BY DEF ValidatorReadsEOF, ChildrenInv, Place, Ended
<1>3. PipesInv'
  BY DEF ValidatorReadsEOF, PipesInv
<1>4. OrderInv'
  BY DEF ValidatorReadsEOF, PipesInv, OrderInv
<1>5. CauseComesFirst'
  BY DEF ValidatorReadsEOF, ChildrenInv, CauseComesFirst
<1>6. ValidatorKnown'
  BY DEF ValidatorReadsEOF, ChildrenInv, ValidatorKnown, Place, Ended
<1>7. SubmissionKnown'
  BY DEF ValidatorReadsEOF, PipesInv, SubmissionKnown
<1>8. ReportInv'
  BY DEF ValidatorReadsEOF, ChildrenInv, ValidatorKnown, ReportInv, AlarmTellsTheTruth, Place
<1>. QED  BY <1>1, <1>2, <1>3, <1>4, <1>5, <1>6, <1>7, <1>8

(* An end of file reaches the submission only once the validator is        *)
(* forgotten, which was noted as first if the submission is still left.    *)
LEMMA SubmissionReadsEOFKeeps ==
  ASSUME IInv, pc # "start", ~ Over, SubmissionReadsEOF
  PROVE  IInv'
<1>. USE DEF IInv, Over, Reported
<1>1. TypeOK'
  BY DEF SubmissionReadsEOF, TypeOK, UserEnds, Ended, ValStates, UserStates
<1>2. ChildrenInv'
  BY DEF SubmissionReadsEOF, ChildrenInv, Place, Ended
<1>3. PipesInv'
  BY DEF SubmissionReadsEOF, PipesInv
<1>4. OrderInv'
  BY DEF SubmissionReadsEOF, PipesInv, OrderInv
<1>5. CauseComesFirst'
  BY DEF SubmissionReadsEOF, ChildrenInv, PipesInv, OrderInv, CauseComesFirst, SubmissionKnown
<1>6. ValidatorKnown'
  BY DEF SubmissionReadsEOF, PipesInv, ValidatorKnown
<1>7. SubmissionKnown'
  BY DEF SubmissionReadsEOF, ChildrenInv, SubmissionKnown, Place, Ended
<1>8. ReportInv'
  BY DEF SubmissionReadsEOF, ChildrenInv, SubmissionKnown, ReportInv, AlarmTellsTheTruth, Place
<1>. QED  BY <1>1, <1>2, <1>3, <1>4, <1>5, <1>6, <1>7, <1>8

(* The pipe end whose closing sends SIGPIPE is closed only when the        *)
(* validator is noted as first.                                            *)
LEMMA SubmissionGetsSIGPIPEKeeps ==
  ASSUME IInv, pc # "start", ~ Over, SubmissionGetsSIGPIPE
  PROVE  IInv'
<1>. USE DEF IInv, Over, Reported
<1>1. TypeOK'
  BY DEF SubmissionGetsSIGPIPE, TypeOK, UserEnds, Ended, ValStates, UserStates
<1>2. ChildrenInv'
  BY DEF SubmissionGetsSIGPIPE, ChildrenInv, Place, Ended
<1>3. PipesInv'
  BY DEF SubmissionGetsSIGPIPE, PipesInv
<1>4. OrderInv'
  BY DEF SubmissionGetsSIGPIPE, PipesInv, OrderInv
<1>5. CauseComesFirst'
  BY DEF SubmissionGetsSIGPIPE, PipesInv, CauseComesFirst
<1>6. ValidatorKnown'
  BY DEF SubmissionGetsSIGPIPE, ValidatorKnown, Place
<1>7. SubmissionKnown'
  BY DEF SubmissionGetsSIGPIPE, ChildrenInv, SubmissionKnown, Place, Ended
<1>8. ReportInv'
  BY DEF SubmissionGetsSIGPIPE, ChildrenInv, SubmissionKnown, ReportInv, AlarmTellsTheTruth,
       Place
<1>. QED  BY <1>1, <1>2, <1>3, <1>4, <1>5, <1>6, <1>7, <1>8

(* The start makes both children known to main, with nothing known of      *)
(* them.                                                                   *)
LEMMA StartKeeps ==
  ASSUME IInv, Start
  PROVE  IInv'
<1>. USE DEF IInv, Over, Reported
<1>1. TypeOK'
  BY DEF Start, TypeOK, MainPlaces, ValStates, UserStates
<1>2. ChildrenInv'
  BY DEF Start, ChildrenInv, Place
<1>3. PipesInv'
  BY DEF Start, PipesInv
<1>4. OrderInv'
  BY DEF Start, OrderInv, Place
<1>5. CauseComesFirst'
  BY DEF Start, CauseComesFirst
<1>6. ValidatorKnown'
  BY DEF Start, ChildrenInv, ValidatorKnown, Place
<1>7. SubmissionKnown'
  BY DEF Start, ChildrenInv, SubmissionKnown, Place
<1>8. ReportInv'
  BY DEF Start, TypeOK, ReportInv, AlarmTellsTheTruth, Place, ValStates, UserStates
<1>. QED  BY <1>1, <1>2, <1>3, <1>4, <1>5, <1>6, <1>7, <1>8

(* wait3 marks the child it returns as reaped, and main turns to it.       *)
LEMMA ReapKeeps ==
  ASSUME IInv, Reap
  PROVE  IInv'
<1>. USE DEF IInv, Over, Reported
<1>1. TypeOK'
  <2>1. val' \in ValStates /\ user' \in UserStates
    BY ReapedIsState DEF Reap, TypeOK
  <2>. QED  BY <2>1 DEF Reap, TypeOK, MainPlaces
<1>2. ChildrenInv'
  BY DEF Reap, TypeOK, ChildrenInv, ValidatorKnown, SubmissionKnown, Place, IsZombie,
       ValStates, UserStates
<1>3. PipesInv'
  BY DEF Reap, PipesInv
<1>4. OrderInv'
  BY DEF Reap, TypeOK, OrderInv, Place, ValStates, UserStates
<1>5. CauseComesFirst'
  BY DEF Reap, TypeOK, CauseComesFirst, ValStates, UserStates
<1>6. ValidatorKnown'
  BY DEF Reap, TypeOK, ValidatorKnown, Place, ValStates, UserStates
<1>7. SubmissionKnown'
  BY DEF Reap, TypeOK, SubmissionKnown, Place, ValStates, UserStates
<1>8. ReportInv'
  BY DEF Reap, TypeOK, ReportInv, AlarmTellsTheTruth, Place, ValStates, UserStates
<1>. QED  BY <1>1, <1>2, <1>3, <1>4, <1>5, <1>6, <1>7, <1>8

(* The validator is noted as first when both children are left: then it    *)
(* did not end because the submission was gone.                            *)
LEMMA NoteValidatorKeeps ==
  ASSUME IInv, NoteValidator
  PROVE  IInv'
<1>. USE DEF IInv, Over, Reported
<1>1. TypeOK'
  BY BothAreLeft DEF NoteValidator, TypeOK, MainPlaces, ValStates, UserStates
<1>2. ChildrenInv'
  BY BothAreLeft DEF NoteValidator, ChildrenInv, Place
<1>3. PipesInv'
  BY BothAreLeft DEF NoteValidator, PipesInv
<1>4. OrderInv'
  <2>1. Cardinality(pids) = 2 <=> "val" \in pids /\ "user" \in pids
    BY BothAreLeft DEF TypeOK
  <2>2. "val" \in pids /\ pc # "start" /\ Place = "val"
    BY DEF ChildrenInv, Place, NoteValidator, TypeOK
  <2>. QED  BY <2>1, <2>2 DEF NoteValidator, OrderInv
<1>5. CauseComesFirst'
  BY BothAreLeft DEF NoteValidator, TypeOK, ChildrenInv, OrderInv, CauseComesFirst,
       ValidatorKnown, Place, ValStates, UserStates
<1>6. ValidatorKnown'
  BY BothAreLeft DEF NoteValidator, ValidatorKnown, Place
<1>7. SubmissionKnown'
  BY BothAreLeft DEF NoteValidator, SubmissionKnown, Place
<1>8. ReportInv'
  BY BothAreLeft DEF NoteValidator, TypeOK, ReportInv, AlarmTellsTheTruth, Place, ValStates,
       UserStates
<1>. QED  BY <1>1, <1>2, <1>3, <1>4, <1>5, <1>6, <1>7, <1>8

(* The validator's status is the one it ended with.                        *)
LEMMA StoreValStatusKeeps ==
  ASSUME IInv, StoreValStatus
  PROVE  IInv'
<1>. USE DEF IInv, Over, Reported
<1>1. TypeOK'
  BY DEF StoreValStatus, TypeOK, MainPlaces, ValStates, UserStates
<1>2. ChildrenInv'
  BY DEF StoreValStatus, ChildrenInv, Place
<1>3. PipesInv'
  BY DEF StoreValStatus, PipesInv
<1>4. OrderInv'
  BY DEF StoreValStatus, OrderInv, Place
<1>5. CauseComesFirst'
  BY DEF StoreValStatus, CauseComesFirst
<1>6. ValidatorKnown'
  BY DEF StoreValStatus, ValidatorKnown, Place
<1>7. SubmissionKnown'
  BY DEF StoreValStatus, SubmissionKnown, Place
<1>8. ReportInv'
  BY DEF StoreValStatus, ReportInv, AlarmTellsTheTruth, Line, Place
<1>. QED  BY <1>1, <1>2, <1>3, <1>4, <1>5, <1>6, <1>7, <1>8

(* The validator is forgotten after its status was stored and its order    *)
(* was noted.                                                              *)
LEMMA ForgetValKeeps ==
  ASSUME IInv, ForgetVal
  PROVE  IInv'
<1>. USE DEF IInv, Over, Reported
<1>1. TypeOK'
  BY DEF ForgetVal, TypeOK, MainPlaces, ValStates, UserStates
<1>2. ChildrenInv'
  BY DEF ForgetVal, TypeOK, ChildrenInv, Place, ValStates, UserStates
<1>3. PipesInv'
  BY DEF ForgetVal, PipesInv
<1>4. OrderInv'
  BY DEF ForgetVal, TypeOK, OrderInv, Place, ValStates, UserStates
<1>5. CauseComesFirst'
  BY DEF ForgetVal, CauseComesFirst
<1>6. ValidatorKnown'
  BY DEF ForgetVal, TypeOK, ValidatorKnown, Place, ValStates, UserStates
<1>7. SubmissionKnown'
  BY DEF ForgetVal, SubmissionKnown, Place
<1>8. ReportInv'
  BY DEF ForgetVal, ReportInv, AlarmTellsTheTruth, Line, Place
<1>. QED  BY <1>1, <1>2, <1>3, <1>4, <1>5, <1>6, <1>7, <1>8

(* The submission's status is the one it ended with.                       *)
LEMMA StoreUserStatusKeeps ==
  ASSUME IInv, StoreUserStatus
  PROVE  IInv'
<1>. USE DEF IInv, Over, Reported
<1>1. TypeOK'
  BY DEF StoreUserStatus, TypeOK, MainPlaces, ValStates, UserStates
<1>2. ChildrenInv'
  BY DEF StoreUserStatus, ChildrenInv, Place
<1>3. PipesInv'
  BY DEF StoreUserStatus, PipesInv
<1>4. OrderInv'
  BY DEF StoreUserStatus, OrderInv, Place
<1>5. CauseComesFirst'
  BY DEF StoreUserStatus, CauseComesFirst
<1>6. ValidatorKnown'
  BY DEF StoreUserStatus, ValidatorKnown, Place
<1>7. SubmissionKnown'
  BY DEF StoreUserStatus, TypeOK, SubmissionKnown, Place, ValStates, UserStates
<1>8. ReportInv'
  BY DEF StoreUserStatus, ReportInv, AlarmTellsTheTruth, Line, Place
<1>. QED  BY <1>1, <1>2, <1>3, <1>4, <1>5, <1>6, <1>7, <1>8

(* The submission's usage is taken after its status.                       *)
LEMMA CopyUserUsageKeeps ==
  ASSUME IInv, CopyUserUsage
  PROVE  IInv'
<1>. USE DEF IInv, Over, Reported
<1>1. TypeOK'
  BY DEF CopyUserUsage, TypeOK, MainPlaces, ValStates, UserStates
<1>2. ChildrenInv'
  BY DEF CopyUserUsage, ChildrenInv, Place
<1>3. PipesInv'
  BY DEF CopyUserUsage, PipesInv
<1>4. OrderInv'
  BY DEF CopyUserUsage, OrderInv, Place
<1>5. CauseComesFirst'
  BY DEF CopyUserUsage, CauseComesFirst
<1>6. ValidatorKnown'
  BY DEF CopyUserUsage, ValidatorKnown, Place
<1>7. SubmissionKnown'
  BY DEF CopyUserUsage, TypeOK, SubmissionKnown, Place, ValStates, UserStates
<1>8. ReportInv'
  BY DEF CopyUserUsage, ReportInv, AlarmTellsTheTruth, Line, Place
<1>. QED  BY <1>1, <1>2, <1>3, <1>4, <1>5, <1>6, <1>7, <1>8

(* The submission is forgotten after status and usage were stored.         *)
LEMMA ForgetUserKeeps ==
  ASSUME IInv, ForgetUser
  PROVE  IInv'
<1>. USE DEF IInv, Over, Reported
<1>1. TypeOK'
  BY DEF ForgetUser, TypeOK, MainPlaces, ValStates, UserStates
<1>2. ChildrenInv'
  BY DEF ForgetUser, TypeOK, ChildrenInv, Place, ValStates, UserStates
<1>3. PipesInv'
  BY DEF ForgetUser, PipesInv
<1>4. OrderInv'
  BY DEF ForgetUser, OrderInv
<1>5. CauseComesFirst'
  BY DEF ForgetUser, CauseComesFirst
<1>6. ValidatorKnown'
  BY DEF ForgetUser, ValidatorKnown, Place
<1>7. SubmissionKnown'
  BY DEF ForgetUser, TypeOK, SubmissionKnown, Place, ValStates, UserStates
<1>8. ReportInv'
  BY DEF ForgetUser, ReportInv, AlarmTellsTheTruth, Line, Place
<1>. QED  BY <1>1, <1>2, <1>3, <1>4, <1>5, <1>6, <1>7, <1>8

(* With both children forgotten, everything the line says is known.        *)
LEMMA ReportKeeps ==
  ASSUME IInv, Report
  PROVE  IInv'
<1>. USE DEF IInv, Over, Reported
<1>1. TypeOK'
  BY DEF Report, TypeOK, MainPlaces, ValStates, UserStates
<1>2. ChildrenInv'
  BY DEF Report, ChildrenInv, Place
<1>3. PipesInv'
  BY DEF Report, PipesInv
<1>4. OrderInv'
  BY DEF Report, OrderInv
<1>5. CauseComesFirst'
  BY DEF Report, CauseComesFirst
<1>6. ValidatorKnown'
  BY DEF Report, ValidatorKnown
<1>7. SubmissionKnown'
  BY DEF Report, SubmissionKnown
<1>8. ReportInv'
  BY DEF Report, TypeOK, ValidatorKnown, SubmissionKnown, ReportInv, AlarmTellsTheTruth,
       Line, Place, ValStates, UserStates
<1>. QED  BY <1>1, <1>2, <1>3, <1>4, <1>5, <1>6, <1>7, <1>8

(* Closing the file of the report changes neither children nor report.     *)
LEMMA CloseReportKeeps ==
  ASSUME IInv, CloseReport
  PROVE  IInv'
<1>. USE DEF IInv, Over, Reported
<1>1. TypeOK'
  BY DEF CloseReport, TypeOK, MainPlaces, ValStates, UserStates
<1>2. ChildrenInv'
  BY DEF CloseReport, ChildrenInv, Place
<1>3. PipesInv'
  BY DEF CloseReport, PipesInv
<1>4. OrderInv'
  BY DEF CloseReport, OrderInv, Place
<1>5. CauseComesFirst'
  BY DEF CloseReport, CauseComesFirst
<1>6. ValidatorKnown'
  BY DEF CloseReport, ValidatorKnown, Place
<1>7. SubmissionKnown'
  BY DEF CloseReport, SubmissionKnown, Place
<1>8. ReportInv'
  BY DEF CloseReport, ReportInv, AlarmTellsTheTruth, Line, Place
<1>. QED  BY <1>1, <1>2, <1>3, <1>4, <1>5, <1>6, <1>7, <1>8

(* The exit changes neither the children nor the report.                   *)
LEMMA ExitKeeps ==
  ASSUME IInv, Exit
  PROVE  IInv'
<1>. USE DEF IInv, Over, Reported
<1>1. TypeOK'
  BY DEF Exit, TypeOK, MainPlaces, ValStates, UserStates
<1>2. ChildrenInv'
  BY DEF Exit, ChildrenInv, Place
<1>3. PipesInv'
  BY DEF Exit, PipesInv
<1>4. OrderInv'
  BY DEF Exit, OrderInv, Place
<1>5. CauseComesFirst'
  BY DEF Exit, CauseComesFirst
<1>6. ValidatorKnown'
  BY DEF Exit, ValidatorKnown, Place
<1>7. SubmissionKnown'
  BY DEF Exit, SubmissionKnown, Place
<1>8. ReportInv'
  BY DEF Exit, ReportInv, AlarmTellsTheTruth, Line, Place
<1>. QED  BY <1>1, <1>2, <1>3, <1>4, <1>5, <1>6, <1>7, <1>8

(* The alarm remembers the place main is at and who has ended.             *)
LEMMA RingAlarmKeeps ==
  ASSUME IInv, RingAlarm
  PROVE  IInv'
<1>. USE DEF IInv, Over, Reported
<1>1. TypeOK'
  BY DEF RingAlarm, TypeOK, ValStates, UserStates
<1>2. ChildrenInv'
  BY DEF RingAlarm, ChildrenInv, Place
<1>3. PipesInv'
  BY DEF RingAlarm, PipesInv
<1>4. OrderInv'
  BY DEF RingAlarm, OrderInv, Place
<1>5. CauseComesFirst'
  BY DEF RingAlarm, CauseComesFirst
<1>6. ValidatorKnown'
  BY DEF RingAlarm, ValidatorKnown, Place
<1>7. SubmissionKnown'
  BY DEF RingAlarm, SubmissionKnown, Place
<1>8. ReportInv'
  BY DEF RingAlarm, ChildrenInv, ValidatorKnown, ReportInv, AlarmTellsTheTruth, Line, Place
<1>. QED  BY <1>1, <1>2, <1>3, <1>4, <1>5, <1>6, <1>7, <1>8

(* The handler learns the status of a validator that has ended, unless     *)
(* main had reaped it without storing the status.                          *)
LEMMA HandleValidatorKeeps ==
  ASSUME IInv, HandleValidator
  PROVE  IInv'
<1>. USE DEF IInv, Over, Reported
<1>1. TypeOK'
  <2>1. val' \in ValStates
    <3>1. CASE "val" \in pids /\ IsZombie(val)
      BY <3>1, ReapedIsState DEF HandleValidator, TypeOK
    <3>2. CASE ~ ("val" \in pids /\ IsZombie(val))
      <4>1. Ended("killed", "alarm") \in ValStates
        BY DEF Ended, ValStates, ValEnds
      <4>. QED  BY <3>2, <4>1 DEF HandleValidator, TypeOK
    <3>. QED  BY <3>1, <3>2
  <2>2. known' \in [val : ValEnds, user : UserEnds, time : {"zero", "used"}]
    <3>1. val.end \in ValEnds
      BY DEF TypeOK, ValStates
    <3>. QED  BY <3>1 DEF HandleValidator, TypeOK
  <2>. QED  BY <2>1, <2>2 DEF HandleValidator, TypeOK, MainPlaces
<1>2. ChildrenInv'
  BY DEF HandleValidator, TypeOK, ChildrenInv, Place, MainPlaces, Ended, IsZombie,
       ValStates, UserStates
<1>3. PipesInv'
  BY DEF HandleValidator, PipesInv
<1>4. OrderInv'
  BY DEF HandleValidator, TypeOK, OrderInv, Place, Ended, ValStates, UserStates
<1>5. CauseComesFirst'
  BY DEF HandleValidator, TypeOK, ChildrenInv, CauseComesFirst, ValStates, UserStates
<1>6. ValidatorKnown'
  BY DEF HandleValidator, TypeOK, ChildrenInv, ValidatorKnown, ReportInv, Place, MainPlaces,
       RaceWindow, Ended, IsZombie, ValStates, UserStates
<1>7. SubmissionKnown'
  BY DEF HandleValidator, TypeOK, SubmissionKnown, Place, ValStates, UserStates
<1>8. ReportInv'
  <2>1. hit.at \in Reported => val' = val
    BY DEF HandleValidator, TypeOK, ChildrenInv, ReportInv, AlarmTellsTheTruth, Line, Place,
         MainPlaces, RaceWindow
  <2>2. ~ Over /\ ~ Over'
    BY DEF HandleValidator
  <2>3. alarm = "rung" /\ UNCHANGED <<user, validator_first, alarm, hit, report>>
    BY DEF HandleValidator, TypeOK, MainPlaces
  <2>4. val.end # "none" => val'.end # "none"
    BY DEF HandleValidator, TypeOK, ValStates
  <2>5. report = <<>> \/ hit.at \in Reported
    BY <2>2, <2>3 DEF ReportInv, Place, TypeOK, MainPlaces
  <2>6. AlarmTellsTheTruth'
    BY <2>1, <2>3, <2>5 DEF ReportInv, AlarmTellsTheTruth
  <2>7. Place' = Place /\ (alarm # "rung" \/ ~ Over)
    BY <2>2, <2>3 DEF Place
  <2>8. report' = IF Place' \in Reported
                  THEN <<Line(val.end, user.end, "used")>>' ELSE <<>>
    <3>1. CASE hit.at \in Reported
      BY <2>1, <2>3, <2>7, <3>1 DEF ReportInv, Line, Place
    <3>2. CASE hit.at \notin Reported
      <4>1. Place' \notin Reported
        BY <2>3, <3>2 DEF TypeOK, Place
      <4>. QED  BY <2>3, <2>5, <3>2, <4>1
    <3>. QED  BY <3>1, <3>2
  <2>9. alarm' = "rung" => /\ "val" \in hit'.ended => val'.end # "none"
                           /\ "user" \in hit'.ended => user'.end # "none"
    BY <2>3, <2>4 DEF ReportInv
  <2>. QED  BY <2>6, <2>8, <2>9 DEF ReportInv
<1>. QED  BY <1>1, <1>2, <1>3, <1>4, <1>5, <1>6, <1>7, <1>8

(* The handler's line is true outside the race window: a status is made up *)
(* only for a child that was running when the alarm rang.                  *)
LEMMA HandleSubmissionKeeps ==
  ASSUME IInv, HandleSubmission
  PROVE  IInv'
<1>. USE DEF IInv, Over, Reported
<1>1. TypeOK'
  <2>1. user' \in UserStates
    <3>1. Ended("killed", "alarm") \in UserStates
      BY DEF Ended, UserStates, UserEnds
    <3>. QED  BY <3>1, ReapedIsState DEF HandleSubmission, TypeOK
  <2>2. known' \in [val : ValEnds, user : UserEnds, time : {"zero", "used"}]
    BY DEF HandleSubmission, TypeOK
  <2>. QED  BY <2>1, <2>2 DEF HandleSubmission, TypeOK, MainPlaces
<1>2. ChildrenInv'
  BY DEF HandleSubmission, TypeOK, ChildrenInv, Place, MainPlaces, Ended, ValStates, UserStates
<1>3. PipesInv'
  BY DEF HandleSubmission, PipesInv
<1>4. OrderInv'
  BY DEF HandleSubmission, OrderInv, Place
<1>5. CauseComesFirst'
  BY DEF HandleSubmission, CauseComesFirst, Ended
<1>6. ValidatorKnown'
  BY DEF HandleSubmission, ValidatorKnown, Place
<1>7. SubmissionKnown'
  BY DEF HandleSubmission, TypeOK, SubmissionKnown, MainPlaces, ValStates, UserStates
<1>8. ReportInv'
  <2>. DEFINE found == "user" \in pids /\ IsZombie(user)
              status == IF found THEN user.end ELSE known.user
              time == IF found THEN "used" ELSE known.time
              line == Line(IF known.val = "none" THEN "reject" ELSE known.val,
                           IF status = "none" THEN "usr1" ELSE status,
                           IF status = "none" THEN "wall" ELSE time)
  <2>1. report = <<>> \/ \E x : report = <<x>>
    BY DEF HandleSubmission, ReportInv
  <2>2. hit.at # "reported" => Len(report') \in Nat /\ report'[Len(report')] = line
    BY <2>1 DEF HandleSubmission
  <2>3. alarm' = "rung" /\ hit' = hit /\ alarm = "rung" /\ Over' /\ val' = val
    BY DEF HandleSubmission, TypeOK, MainPlaces
  <2>4. hit.at \notin RaceWindow =>
          line.val = IF "val" \in hit.ended \/ val.reaped THEN val.end ELSE "reject"
    BY <2>3 DEF HandleSubmission, ChildrenInv, ValidatorKnown, Line
  <2>5. hit.at \notin RaceWindow /\ "user" \in hit.ended => line.user = user'.end
    BY <2>3 DEF HandleSubmission, SubmissionKnown, ReportInv, Line, Place, RaceWindow, IsZombie
  <2>6. hit.at \notin RaceWindow => IF user'.end = "killed"
           THEN line.user = "usr1" /\ line.time = "wall"
           ELSE line.user = user'.end /\ line.time = "used"
    BY <2>3 DEF HandleSubmission, ChildrenInv, SubmissionKnown, Line, Place, RaceWindow,
         Ended, IsZombie
  <2>7. "user" \in hit.ended => user'.end # "none"
    BY <2>3 DEF HandleSubmission, ReportInv
  <2>8. AlarmTellsTheTruth'
    <3>1. CASE hit.at # "reported"
      BY <2>2, <2>3, <2>4, <2>5, <2>6, <3>1 DEF AlarmTellsTheTruth
    <3>2. CASE hit.at = "reported"
      <4>1. report' = report /\ validator_first' = validator_first
        BY <3>2 DEF HandleSubmission
      <4>2. user' = user
        BY <2>3, <3>2 DEF HandleSubmission, ChildrenInv, Place
      <4>. QED  BY <2>3, <3>2, <4>1, <4>2 DEF ReportInv, AlarmTellsTheTruth
    <3>. QED  BY <3>1, <3>2
  <2>. QED  BY <2>3, <2>7, <2>8 DEF ReportInv
<1>. QED  BY <1>1, <1>2, <1>3, <1>4, <1>5, <1>6, <1>7, <1>8
-----------------------------------------------------------------------------
(* The invariant holds, whatever the children do and whenever the alarm    *)
(* rings.                                                                  *)
LEMMA Inductive == Spec => []IInv
<1>1. Init => IInv
  <2> SUFFICES ASSUME Init PROVE IInv
    OBVIOUS
  <2>1. TypeOK
    BY DEF Init, Running, TypeOK, ValStates, UserStates, ValEnds, UserEnds, MainPlaces
  <2>2. ChildrenInv /\ PipesInv /\ OrderInv /\ CauseComesFirst
    BY DEF Init, Running, ChildrenInv, PipesInv, OrderInv, CauseComesFirst, Place, Reported
  <2>3. ValidatorKnown /\ SubmissionKnown /\ ReportInv
    BY DEF Init, ValidatorKnown, SubmissionKnown, ReportInv, AlarmTellsTheTruth, Place, Over, Reported
  <2>. QED  BY <2>1, <2>2, <2>3 DEF IInv
<1>2. IInv /\ [Next]_vars => IInv'
  <2>1. ASSUME IInv, Children
        PROVE  IInv'
    BY <2>1, ValidatorExitsKeeps, SubmissionExitsKeeps, ValidatorReadsEOFKeeps,
       SubmissionReadsEOFKeeps, SubmissionGetsSIGPIPEKeeps DEF Children
  <2>2. ASSUME IInv, Main
        PROVE  IInv'
    BY <2>2, StartKeeps, ReapKeeps, NoteValidatorKeeps, StoreValStatusKeeps,
       ForgetValKeeps, StoreUserStatusKeeps, CopyUserUsageKeeps, ForgetUserKeeps,
       ReportKeeps, CloseReportKeeps, ExitKeeps DEF Main
  <2>3. ASSUME IInv, RingAlarm \/ Handler
        PROVE  IInv'
    BY <2>3, RingAlarmKeeps, HandleValidatorKeeps, HandleSubmissionKeeps DEF Handler
  <2>4. ASSUME IInv, UNCHANGED vars
        PROVE  IInv'
    BY <2>4 DEF vars, IInv, TypeOK, ChildrenInv, PipesInv, OrderInv, CauseComesFirst,
                ValidatorKnown, SubmissionKnown, ReportInv, AlarmTellsTheTruth, Place,
                Line, Over, Reported
  <2>. QED  BY <2>1, <2>2, <2>3, <2>4 DEF Next
<1>. QED  BY <1>1, <1>2, PTL DEF Spec

(* The runner takes the validator for the first to end only if it ended of *)
(* itself, and a submission brought down by the end of the validator never *)
(* passes for the first.                                                   *)
THEOREM CauseBeforeEffect == Spec => []CauseComesFirst
<1>1. IInv => CauseComesFirst
  BY DEF IInv
<1>. QED  BY <1>1, Inductive, PTL

(* The line that is read in the end is true, whether main writes it or the *)
(* handler, and wherever the alarm hits main outside the race window.      *)
THEOREM ReportsAreTrue == Spec => []ReportIsTrue
<1>1. IInv => QuietReportIsTrue
  BY DEF IInv, ReportInv, QuietReportIsTrue
<1>2. IInv => AlarmTellsTheTruth
  BY DEF IInv, ReportInv
<1>. QED  BY <1>1, <1>2, Inductive, PTL DEF ReportIsTrue
=============================================================================
