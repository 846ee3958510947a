---------------------------- MODULE Conditions ----------------------------
(***************************************************************************)
(* The status conditions of the custom resource and how the outcome of an  *)
(* operation of the resource manager sets them.  A condition is absent, or *)
(* it has the status "True", "False" or "Unknown".                         *)
(***************************************************************************)
Status == {"absent", "True", "False", "Unknown"}

ConditionSet == [terminal : Status, recoverable : Status, synced : Status]

NoConditions == [terminal |-> "absent", recoverable |-> "absent", synced |-> "absent"]

\* The classes of error the manager tells apart: none, one of the terminal AWS
\* codes (terminalAWSError: ValidationError, AlreadyExists, LimitExceeded), or
\* any other error.
ErrorClass == {"none", "terminal", "other"}

\* Mutant: a status of the wrong case.
MutCleared(status) == IF status = "absent" THEN "absent" ELSE "false"

Cleared(status) == IF status = "absent" THEN "absent" ELSE "False"

\* Mutant: every error is shown as recoverable.
MutUpdateConditions(c, err) ==
  [c EXCEPT !.terminal = Cleared(@),
            !.recoverable = IF err # "none" THEN "True" ELSE Cleared(@)]

\* updateConditions
UpdateConditions(c, err) ==
  IF err = "terminal"
  THEN [c EXCEPT !.terminal = "True"]
  ELSE [c EXCEPT !.terminal = Cleared(@),
                 !.recoverable = IF err # "none" THEN "True" ELSE Cleared(@)]

\* onError: the error handed back to the caller is Terminal exactly when the
\* conditions show it.
ReportedError(c, err) ==
  IF UpdateConditions(c, err).terminal = "True" THEN "terminal" ELSE err

\* sdkCreate: the group's tags make the new resource not yet synced.
AfterCreate(c) == [UpdateConditions(c, "none") EXCEPT !.synced = "False"]

\* The reconciler's own verdict when the manager left Synced unset; IsSynced
\* always answers true.
EnsureSynced(c, err) ==
  IF c.synced # "absent" THEN c
  ELSE [c EXCEPT !.synced = CASE err = "none"     -> "True"
                              [] err = "terminal" -> "False"
                              [] err = "other"    -> "Unknown"]

\* A group that exists but was not created for this resource.
NotManaged == [terminal |-> "True", recoverable |-> "absent", synced |-> "False"]
=============================================================================
