-------------------------- MODULE ResearchExecution --------------------------
(***************************************************************************)
(* One execution of a research role's command line client                  *)
(* (execute_research_execution and BoundedSubprocessRunner.run): the       *)
(* thread that runs it, a thread that writes the prompt, one that reads    *)
(* each output stream, and the process with its bounded pipes, which may   *)
(* answer, fail, fall silent, or leave a descendant that keeps the streams *)
(* open.                                                                   *)
(*                                                                         *)
(* A stream is counted in blocks.  A reader takes from its pipe what there *)
(* is, but hands it over a chunk at a time (read(65536)), or what is left  *)
(* at the end of the stream; of that the first Limit blocks are kept.      *)
(* What is kept of stdout parses as an answer when it ends with a block in *)
(* Answers: a client may print a draft before its answer.                  *)
(***************************************************************************)
EXTENDS Integers

CONSTANTS Prompt,      \* blocks of the prompt
          PipeSize,    \* blocks that a pipe holds
          Chunk,       \* blocks that a reader waits for
          Limit,       \* max_stdout_bytes, max_stderr_bytes
          MaxOutput,   \* bound: blocks that a process writes to each stream
          Answers,     \* the blocks of stdout that end an answer
          Timeout      \* timeout_seconds

VARIABLES at,          \* the running thread
          host,        \* the client's executable, the provider's authorization
          process,     \* the process and what it has written and read
          stream,      \* stdout and stderr, from the pipe to what is kept
          left,        \* time before the deadline
          cancelEvent, \* the cancellation event is set
          reason,      \* why the process was stopped
          status       \* of the result

executionVars == <<at, host, process, stream, left, cancelEvent, reason, status>>

ASSUME LimitAssumption == Limit \in Nat

Streams == {"stdout", "stderr"}

Native == {"installed", "missing", "not-allowed"}

(* The executable that a request names, and what stands there when it is   *)
(* run: a client without one is operator mediated.                         *)
Executables == Native \cup {"operator-mediated"}

(* leaves: it ended and left a descendant behind; lingers: that is there.  *)
NotStarted == [at |-> "none", code |-> 0, read |-> 0, prompt |-> 0,
               leaves |-> FALSE, lingers |-> FALSE, wrote |-> [s \in Streams |-> 0]]

Empty == [pipe |-> 0, pending |-> 0, kept |-> 0, truncated |-> FALSE]

Alive == process.at = "running"

(* The streams end when nobody has them open for writing.                  *)
Open == Alive \/ process.lingers

Becomes(s, state) == stream' = [stream EXCEPT ![s] = state]

Drained(s) == ~Open /\ stream[s].pipe = 0 /\ stream[s].pending = 0

-----------------------------------------------------------------------------
(* The environment of the execution.                                       *)

(* The client is installed, removed or replaced between two looks.         *)
Reinstall ==
    /\ at = "planned"
    /\ host.executable \in Native
    /\ \E e \in Native \ {host.executable} : host' = [host EXCEPT !.executable = e]
    /\ UNCHANGED <<at, process, stream, left, cancelEvent, reason, status>>

CancelExecution ==
    /\ at # "over"
    /\ ~cancelEvent
    /\ cancelEvent' = TRUE
    /\ UNCHANGED <<at, host, process, stream, left, reason, status>>

DeadlineNears ==
    /\ at = "poll"
    /\ left > 0
    /\ left' = left - 1
    /\ UNCHANGED <<at, host, process, stream, cancelEvent, reason, status>>

(* The process, or a descendant that it left behind, writes; a full pipe   *)
(* blocks it.                                                              *)
WriteOutput(s) ==
    /\ Open
    /\ stream[s].pipe < PipeSize
    /\ process.wrote[s] < MaxOutput[s]
    /\ Becomes(s, [stream[s] EXCEPT !.pipe = @ + 1])
    /\ process' = [process EXCEPT !.wrote[s] = @ + 1]
    /\ UNCHANGED <<at, host, left, cancelEvent, reason, status>>

ReadPrompt ==
    /\ Alive
    /\ process.prompt > 0
    /\ process' = [process EXCEPT !.prompt = @ - 1, !.read = @ + 1]
    /\ UNCHANGED <<at, host, stream, left, cancelEvent, reason, status>>

Exit ==
    /\ Alive
    /\ \E code \in {0, 1}, leaves \in BOOLEAN :
         process' = [process EXCEPT !.at = "exited", !.code = code,
                                    !.leaves = leaves, !.lingers = leaves]
    /\ UNCHANGED <<at, host, stream, left, cancelEvent, reason, status>>

DescendantEnds ==
    /\ process.lingers
    /\ process' = [process EXCEPT !.lingers = FALSE]
    /\ UNCHANGED <<at, host, stream, left, cancelEvent, reason, status>>

-----------------------------------------------------------------------------
(* The threads beside: write_prompt and _BoundedStreamReader.              *)

(* The prompt goes through the pipe of stdin; a process that has gone ends *)
(* the thread silently.                                                    *)
WritePrompt ==
    /\ Alive
    /\ process.prompt < PipeSize
    /\ process.read + process.prompt < Prompt
    /\ process' = [process EXCEPT !.prompt = @ + 1]
    /\ UNCHANGED <<at, host, stream, left, cancelEvent, reason, status>>

Take(s) ==
    /\ stream[s].pipe > 0
    /\ stream[s].pending < Chunk
    /\ Becomes(s, [stream[s] EXCEPT !.pipe = @ - 1, !.pending = @ + 1])
    /\ UNCHANGED <<at, host, process, left, cancelEvent, reason, status>>

Least(m, n) == IF m < n THEN m ELSE n

Keep(s) ==
    LET chunk == stream[s].pending
        remaining == Limit - stream[s].kept
    IN /\ chunk > 0
       /\ chunk = Chunk \/ (~Open /\ stream[s].pipe = 0)
       /\ Becomes(s, [stream[s] EXCEPT !.pending = 0,
                                       !.kept = @ + Least(chunk, remaining),
                                       !.truncated = @ \/ chunk > remaining])
       /\ UNCHANGED <<at, host, process, left, cancelEvent, reason, status>>

-----------------------------------------------------------------------------
(* The running thread.                                                     *)

End(s) ==
    /\ at' = "over"
    /\ status' = s
    /\ UNCHANGED <<host, process, stream, left, cancelEvent, reason>>

(* execute_research_execution, up to the start of the process: what the    *)
(* plan found is looked up again.                                          *)
NotRun ==
    /\ at = "planned"
    /\ IF host.executable = "operator-mediated" THEN End("optional-provider-unavailable")
       ELSE IF ~host.authorized \/ host.executable = "not-allowed" THEN End("refused")
       ELSE /\ cancelEvent \/ host.executable = "missing"
            /\ End(IF host.executable = "missing" THEN "unavailable" ELSE "cancelled")

Start ==
    /\ at = "planned"
    /\ host.executable = "installed" /\ host.authorized /\ ~cancelEvent
    /\ at' = "poll"
    /\ process' = [process EXCEPT !.at = "running"]
    /\ UNCHANGED <<host, stream, left, cancelEvent, reason, status>>

(* Popen fails, however the file was found a moment ago.                   *)
CannotStart ==
    /\ at = "planned"
    /\ host.executable = "installed" /\ host.authorized /\ ~cancelEvent
    /\ End("unavailable")

\* mutant: a silent process is waited for
PollForExit ==
    /\ at = "poll"
    /\ \/ ~Alive /\ reason' = reason /\ at' = "wait"
       \/ Alive /\ cancelEvent /\ reason' = "cancelled" /\ at' = "terminate"
    /\ UNCHANGED <<host, process, stream, left, cancelEvent, status>>

(* The loop of run: the process has ended, or it is stopped.               *)
Poll ==
    /\ at = "poll"
    /\ \/ ~Alive /\ reason' = reason /\ at' = "wait"
       \/ Alive /\ cancelEvent /\ reason' = "cancelled" /\ at' = "terminate"
       \/ Alive /\ ~cancelEvent /\ left = 0 /\ reason' = "timeout" /\ at' = "terminate"
    /\ UNCHANGED <<host, process, stream, left, cancelEvent, status>>

(* _terminate_tree: the process group is asked to end, and killed when the *)
(* process has not ended after a while.  A descendant that ignores the     *)
(* question stays when the process obeys it; a process that has ended is   *)
(* left alone, with its descendants.                                       *)
Terminate ==
    /\ at = "terminate"
    /\ at' = "wait"
    /\ IF Alive
       THEN \E code \in {0, 1}, leaves \in BOOLEAN :
              process' = [process EXCEPT !.at = "exited", !.code = code,
                                         !.leaves = leaves, !.lingers = leaves]
       ELSE process' = process
    /\ UNCHANGED <<host, stream, left, cancelEvent, reason, status>>

\* mutant: what has been read is taken at once
JoinNobody ==
    /\ at = "wait" /\ ~Alive /\ at' = "joined"
    /\ UNCHANGED <<host, process, stream, left, cancelEvent, reason, status>>

(* process.wait, and the readers are joined; five seconds are enough for   *)
(* what is in the pipes, unless somebody keeps them open.                  *)
Join ==
    /\ at = "wait"
    /\ ~Alive
    /\ (\A s \in Streams : Drained(s)) \/ process.lingers
    /\ at' = "joined"
    /\ UNCHANGED <<host, process, stream, left, cancelEvent, reason, status>>

(* _parse_json_or_jsonl, _extract_assistant_text and                       *)
(* parse_research_agent_output: is the last thing said a valid answer?     *)
Parses == stream["stdout"].kept \in Answers

Conclude ==
    /\ at = "joined"
    /\ End(IF reason # "none" THEN reason
           ELSE IF process.code # 0 \/ stream["stdout"].truncated \/ ~Parses THEN "failed"
           ELSE "completed")

-----------------------------------------------------------------------------
ExecutionInit ==
    /\ at = "planned"
    /\ host \in [executable: Executables, authorized: BOOLEAN]
    /\ process = NotStarted
    /\ stream = [s \in Streams |-> Empty]
    /\ left = Timeout
    /\ cancelEvent = FALSE
    /\ reason = "none"
    /\ status = "none"

RunsOn == NotRun \/ Start \/ CannotStart \/ Poll \/ Terminate \/ Join \/ Conclude

Reads(s) == Take(s) \/ Keep(s)

(* What readers and descendants do later is nobody's any more.             *)
ExecutionNext ==
    /\ at # "over"
    /\ \/ RunsOn
       \/ WritePrompt \/ ReadPrompt \/ Exit \/ DescendantEnds
       \/ \E s \in Streams : WriteOutput(s) \/ Reads(s)
       \/ Reinstall \/ CancelExecution \/ DeadlineNears

ExecutionSpec == ExecutionInit /\ [][ExecutionNext]_executionVars

-----------------------------------------------------------------------------
(* Properties.                                                             *)

(* An answer is taken only from a process that was authorized, ran to its  *)
(* end and succeeded, and it is all that the process printed, whatever the *)
(* readers, the deadline and a cancellation were doing then ("Free text,   *)
(* ... and tampered execution evidence fail closed").  A descendant that   *)
(* keeps stdout open can make the readers miss the last chunk.             *)
AnswersAreWhole ==
    status = "completed" =>
        /\ host.authorized
        /\ process.at = "exited" /\ process.code = 0
        /\ stream["stdout"].kept = process.wrote["stdout"] \/ process.leaves
        /\ stream["stdout"].kept <= Limit

(* An execution ends, whatever the process does: it may hang, fill its     *)
(* pipes without reading its prompt, or leave its streams open.            *)
ExecutionEnds == (at # "over") ~> (at = "over")
=============================================================================
