------------------------------ MODULE CaseVerdict ------------------------------
(***************************************************************************)
(* From the outcome of each step of a test case to its status: RunTestCase,*)
(* CompareOutput and GetTestCaseResult of the grade executor, and Run of   *)
(* the run executor, which runs the programs that make expected outputs    *)
(* (domain/services/executor.go).                                          *)
(***************************************************************************)
EXTENDS IsolateCommands

\* What the steps of a test case come to, the later ones if they are reached.
Outcomes == [
    files : BOOLEAN,                               \* its files are written
    build : Endings \cup {"none"},                 \* the build script, if NeedCompile
    run : Endings,                                 \* the program
    metadata : {"", "TO", "RE", "SG", "XX", "lost"}, \* its status code, or cannot be read
    overMemory : BOOLEAN,                          \* it used more than limits.Memory
    outputs : BOOLEAN,                             \* the files of the comparison are written
    script : {"present", "missing", "unreadable"}, \* run_script.sh of the compare
    compare : Endings,
    result : {"", "message", "lost"}]              \* compare_result.txt

\* isolate sets no status code when it exits with 0.
Possible(c) == c.run = "ok" => c.metadata \in {"", "lost"}

Compiled(c) == c.files /\ (c.build = "none" \/ CompileErr(c.build) = "none")
Ran(c) == Compiled(c) /\ RunFromDirErr(c.run) = "none"

\* ParseMetadata and the switch on FailedStatus.
MetadataStatus(c) ==
    CASE c.metadata = "lost" -> "error"
      [] c.metadata = "" -> "RUN_PASSED"
      [] c.metadata \notin {"", "lost"} /\ c.overMemory -> "MEMORY_LIMIT_EXCEEDED"
      [] c.metadata = "TO" /\ ~ c.overMemory -> "TIME_LIMIT_EXCEEDED"
      [] c.metadata = "RE" /\ ~ c.overMemory -> "RUNTIME_ERROR"
      [] c.metadata = "SG" /\ ~ c.overMemory -> "SIGNAL_ERROR"
      [] c.metadata = "XX" /\ ~ c.overMemory -> "GRADER_ERROR"

\* Mutant: an error of RunFromDir is returned as RunTestCase's error.
RunTestCaseError(c) ==
    CASE ~ c.files -> "GRADER_ERROR"
      [] c.files /\ ~ Compiled(c) -> "COMPILE_FAILED"
      [] Compiled(c) /\ ~ Ran(c) -> "error"
      [] Ran(c) -> MetadataStatus(c)

\* The status of the program, or "error".
RunTestCase(c) ==
    CASE ~ c.files -> "GRADER_ERROR"
      [] c.files /\ ~ Compiled(c) -> "COMPILE_FAILED"
      [] Compiled(c) /\ ~ Ran(c) -> "GRADER_ERROR"
      [] Ran(c) -> MetadataStatus(c)

\* Mutant: an error of RunWithDir is ignored, and there is no compare_result.txt.
CompareOutputUnchecked(c) ==
    CASE ~ c.outputs \/ c.script = "unreadable" -> "error"
      [] c.outputs /\ c.script = "missing" -> "message"
      [] OTHER -> IF RunWithDirErr(c.compare) # "none" THEN "" ELSE c.result

\* What the compare script says of the output, or "error".
CompareOutput(c) ==
    CASE ~ c.outputs \/ c.script = "unreadable" -> "error"
      [] c.outputs /\ c.script = "missing" -> "message"
      [] OTHER -> IF RunWithDirErr(c.compare) # "none" \/ c.result = "lost" THEN "error" ELSE c.result

\* The status of the test case, or "error".
GetTestCaseResult(c) ==
    CASE RunTestCase(c) # "RUN_PASSED" -> RunTestCase(c)
      [] OTHER -> CASE CompareOutput(c) = "error" -> "error"
                    [] CompareOutput(c) = "" -> "RUN_PASSED"
                    [] OTHER -> "RUN_FAILED"

\* Mutant: exit errors of the program are not told from success.
RunExitIgnored(c) ==
    CASE ~ c.files \/ (Compiled(c) /\ RunFromDirErr(c.run) = "other") -> "error"
      [] c.files /\ ~ Compiled(c) -> "COMPILE_FAILED"
      [] Compiled(c) /\ RunFromDirErr(c.run) # "other" -> IF c.metadata = "lost" THEN "error" ELSE "RUN_PASSED"

\* Run: the status of a run, or "error".
ExecutorRun(c) ==
    CASE ~ c.files \/ (Compiled(c) /\ RunFromDirErr(c.run) = "other") -> "error"
      [] c.files /\ ~ Compiled(c) -> "COMPILE_FAILED"
      [] Compiled(c) /\ RunFromDirErr(c.run) = "exit" -> "RUN_FAILED"
      [] Ran(c) -> IF c.metadata = "lost" THEN "error" ELSE "RUN_PASSED"

--------------------------------------------------------------------------------

\* A test case passes only if its program was built, ended well, and was compared by a
\* script that isolate saw end and that left no message.  Exit code 1 of the script is no
\* objection (isolate.go:387-390): one that fails before it leaves a message is an empty
\* result, and passes the case.  That is the only exception: a failure of isolate itself,
\* an isolate that was killed or not started, a command that is not there, files that
\* cannot be written and a result that cannot be read never make an empty result.
PassedIsEarned(c) ==
    Possible(c) /\ GetTestCaseResult(c) = "RUN_PASSED" =>
        /\ c.files /\ c.build \in {"none", "ok"} /\ c.run = "ok"
        /\ c.outputs /\ c.script = "present"
        /\ c.compare \in {"ok", "failed"} /\ c.result = ""

\* An error of one test case makes GRADER_ERROR of the whole submission and cancels
\* its other cases.  No program brings that about by how it builds or ends: an error
\* is trouble of the grader with metadata, the comparison or its files.
ErrorIsTheGraders(c) ==
    GetTestCaseResult(c) = "error" =>
        \/ c.metadata = "lost" \/ c.result = "lost"
        \/ ~ c.outputs \/ c.script = "unreadable"
        \/ c.compare \notin {"ok", "failed"}

\* Both executors take the same programs for good, though each looks at a run in its
\* own way: expected outputs come from programs whose test cases would be compared.
RunAndGradeAgree(c) ==
    Possible(c) => (ExecutorRun(c) = "RUN_PASSED" <=> RunTestCase(c) = "RUN_PASSED")
================================================================================
