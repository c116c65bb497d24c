---------------------------- MODULE IsolateCommands ----------------------------
(***************************************************************************)
(* What the methods of IsolateInstance (domain/services/isolate.go) make   *)
(* of the way an isolate process ends.  Each method judges exit codes in   *)
(* its own way; the handlers in ScriptTests and CaseVerdict build on that. *)
(***************************************************************************)
EXTENDS Integers

\* How isolate may end: the program did well; it failed or was stopped by a limit;
\* isolate itself failed; the command does not exist; isolate was killed because
\* its context was cancelled, or was not started at all.
Endings == {"ok", "failed", "internal", "notFound", "killed", "unstarted"}

ExitCode(ending) ==
    CASE ending = "ok" -> 0
      [] ending = "failed" -> 1
      [] ending = "internal" -> 2
      [] ending = "notFound" -> 127
      [] OTHER -> -1

\* exec.ExitError is the error of a process that ran and did not end well.
IsExitError(ending) == ending \notin {"ok", "unstarted"}

\* What an error is for the callers: none, an ExitError, or another one.
Errors == {"none", "exit", "other"}

CompileErr(ending) ==
    IF ending = "ok" THEN "none" ELSE IF IsExitError(ending) THEN "exit" ELSE "other"

\* Run: a command that does not exist is no ExitError any more.
RunErr(ending) ==
    CASE ending = "ok" -> "none"
      [] IsExitError(ending) /\ ExitCode(ending) # 127 -> "exit"
      [] OTHER -> "other"

\* RunFromDir judges in the same way.
RunFromDirErr(ending) == RunErr(ending)

\* RunWithDir: exit code 1 is how compare scripts say that outputs differ.
RunWithDirErr(ending) ==
    CASE ending = "ok" \/ ExitCode(ending) = 1 -> "none"
      [] IsExitError(ending) /\ ExitCode(ending) \notin {1, 127} -> "exit"
      [] OTHER -> "other"

\* RunCompare: any exit code but 127 is an answer.
RunCompareErr(ending) ==
    IF ending = "ok" \/ (IsExitError(ending) /\ ExitCode(ending) # 127) THEN "none" ELSE "other"
================================================================================
