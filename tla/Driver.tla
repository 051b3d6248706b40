------------------------------- MODULE Driver -------------------------------
(***************************************************************************)
(* The compiler driver, xcc (src/xcc/main.c): it starts one assembler and, *)
(* for each C file, a preprocessor piped into a compiler that is piped     *)
(* into the assembler; it waits for children as they end, kills those that *)
(* must not go on, and reports.  The children, their pipes and file        *)
(* descriptors are part of the model, since who holds which end of a pipe  *)
(* decides who waits for whom.                                             *)
(*                                                                         *)
(* Pipe 0 leads to the assembler, pipe i to the compiler of file i.        *)
(***************************************************************************)
EXTENDS Integers, Sequences, FiniteSets, SequencesExt

CONSTANTS
    Jobs,      \* [mode, files, failures]: the command lines, and what may
               \* fail besides cpp, cc1, cat and the output of as: "fork",
               \* "open" of the output of -S, and "as" before it has read
               \* its input
    Chunks,    \* what cpp and cc1 write for a file, and a .s file holds
    PipeSize   \* chunks that fit in a pipe

ASSUME DriverAssumption ==
    /\ \A j \in Jobs :
          /\ j.mode \in {"exe", "asm", "pp"}
          /\ j.files \in Seq({"c", "s", "unsupported"})
          /\ j.failures \subseteq {"as", "fork", "open"}
    /\ Chunks \in Nat \ {0} /\ PipeSize \in Nat \ {0}

MaxFiles == Max({Len(j.files) : j \in Jobs})
ASSUME MaxFilesAssumption ==
    MaxFiles \in Nat /\ \A j \in Jobs : Len(j.files) <= MaxFiles

Files == 1..MaxFiles
Pipes == 0..MaxFiles
Xcc == <<"xcc", 0>>
As == <<"as", 0>>
Cpp(i) == <<"cpp", i>>
Cc1(i) == <<"cc1", i>>
Children == {As} \cup {Cpp(i) : i \in Files} \cup {Cc1(i) : i \in Files}
NoOne == <<"none", 0>>
File == -1        \* an output file, or the terminal

VARIABLES
    job,
    pc, file,               \* main: where it is, the file it is at
    running, cpp_pid, cc_pid, as_pid,
    res,                    \* whether res is not 0
    exit,                   \* the exit status of xcc, -1 while it runs
    state, failed,          \* of each child: its state, and whether its
                            \* exit status is not 0
    doomed,                 \* children that were sent SIGKILL
    wrote,                  \* chunks each has written for its file
    took,                   \* chunks each has read, in order
    buf, readers, writers,  \* of each pipe
    out,                    \* what the output file got (-S, -E)
    made                    \* whether the assembler has left its output

xccVars == <<job, pc, file, running, cpp_pid, cc_pid, as_pid, res, exit>>
vars == <<xccVars, state, failed, doomed, wrote, took, buf, readers, writers, out, made>>

Init ==
    /\ job \in Jobs
    /\ pc = "start" /\ file = 1
    /\ running = 0 /\ cpp_pid = NoOne /\ cc_pid = NoOne /\ as_pid = NoOne
    /\ res = FALSE /\ exit = -1
    /\ state = [q \in Children |-> "none"]
    /\ failed = [q \in Children |-> FALSE]
    /\ doomed = {}
    /\ wrote = [q \in Children \cup {Xcc} |-> 0]
    /\ took = [q \in Children |-> << >>]
    /\ buf = [p \in Pipes |-> << >>]
    /\ readers = [p \in Pipes |-> {}]
    /\ writers = [p \in Pipes |-> {}]
    /\ out = << >>
    /\ made = FALSE

-----------------------------------------------------------------------------
(* Processes and pipes, as the operating system has them.                  *)

\* Where a process writes: cpp to the compiler's pipe, the others to ofd.
Ofd == IF job.mode = "exe" THEN 0 ELSE File
Sink(q) == IF q[1] = "cpp" /\ job.mode # "pp" THEN q[2] ELSE Ofd
Source(q) == IF q = As THEN 0 ELSE q[2]

\* A child starts with every descriptor its parent has open and the ends of
\* pipes that become its standard input and output.  (pipe_exec makes pipe
\* p and lets the child close the two descriptors it came with.)
Forked(ends, q) == [p \in Pipes |-> IF Xcc \in ends[p] THEN ends[p] \cup {q} ELSE ends[p]]

PipeExec(q, p) ==
    /\ state' = [state EXCEPT ![q] = "run"]
    /\ readers' = [Forked(readers, q) EXCEPT ![p] = {Xcc, q}]
    /\ writers' = [Forked(writers, q) EXCEPT ![p] = {Xcc}]

ExecWithOfd(q) ==
    /\ state' = [state EXCEPT ![q] = "run"]
    /\ readers' = Forked(readers, q)
    /\ writers' = Forked(writers, q)

Without(ends, ps, q) == [p \in Pipes |-> IF p \in ps THEN ends[p] \ {q} ELSE ends[p]]

Close(ps) ==
    /\ readers' = Without(readers, ps, Xcc)
    /\ writers' = Without(writers, ps, Xcc)

\* A write, which waits while the pipe is full.  (It never breaks the pipe:
\* whoever inherited the write end holds the read end, too, and so waits
\* for ever if the proper reader is gone.)
Write(q, i) ==
    LET p == Sink(q)
        chunk == <<i, wrote[q] + 1>>
    IN  /\ wrote' = [wrote EXCEPT ![q] = @ + 1]
        /\ IF p = File
           THEN out' = Append(out, chunk) /\ UNCHANGED buf
           ELSE /\ Len(buf[p]) < PipeSize
                /\ buf' = [buf EXCEPT ![p] = Append(@, chunk)]
                /\ UNCHANGED out

\* A child ends: its descriptors are closed and its parent may wait for it.
Ends(q, failure) ==
    /\ state' = [state EXCEPT ![q] = "zombie"]
    /\ failed' = [failed EXCEPT ![q] = failure]
    /\ doomed' = doomed \ {q}
    /\ readers' = Without(readers, Pipes, q)
    /\ writers' = Without(writers, Pipes, q)

Runs(q) == state[q] = "run" /\ q \notin doomed
EndOfFile(q) == buf[Source(q)] = << >> /\ writers[Source(q)] = {}

Reads(q) ==
    /\ Runs(q) /\ buf[Source(q)] # << >>
    /\ took' = [took EXCEPT ![q] = Append(@, Head(buf[Source(q)]))]
    /\ buf' = [buf EXCEPT ![Source(q)] = Tail(@)]
    /\ UNCHANGED <<xccVars, state, failed, doomed, wrote, readers, writers, out, made>>

Writes(q) ==
    /\ Runs(q) /\ wrote[q] < Chunks
    /\ Write(q, q[2])
    /\ UNCHANGED <<xccVars, state, failed, doomed, took, readers, writers, made>>

Quits(q, failure) ==
    /\ Runs(q)
    /\ Ends(q, failure)
    /\ UNCHANGED <<xccVars, wrote, took, buf, out>>

\* A child that was sent SIGKILL does nothing more.
Killed(q) ==
    /\ q \in doomed
    /\ Ends(q, TRUE)
    /\ UNCHANGED <<xccVars, wrote, took, buf, out, made>>

\* cpp reads its file and writes as it goes; it may meet an error.
CppStep(i) ==
    \/ Writes(Cpp(i))
    \/ wrote[Cpp(i)] = Chunks /\ Quits(Cpp(i), FALSE) /\ UNCHANGED made
CppError(i) == Quits(Cpp(i), TRUE) /\ UNCHANGED made

\* cc1 writes when it has read and compiled everything; it may meet an
\* error before that, or stop at an assertion when it has written a part.
Cc1Step(i) ==
    \/ Reads(Cc1(i))
    \/ EndOfFile(Cc1(i)) /\ Writes(Cc1(i))
    \/ /\ EndOfFile(Cc1(i)) /\ wrote[Cc1(i)] = Chunks
       /\ Quits(Cc1(i), FALSE) /\ UNCHANGED made
Cc1Error(i) == Quits(Cc1(i), TRUE) /\ UNCHANGED made

\* as reads everything, then fails or leaves its output.
AsStep ==
    \/ Reads(As)
    \/ EndOfFile(As) /\ Quits(As, FALSE) /\ made' = TRUE
    \/ EndOfFile(As) /\ Quits(As, TRUE) /\ UNCHANGED made

\* as ends before it has read everything: it could not be started, or died.
AsError ==
    /\ "as" \in job.failures
    /\ Quits(As, TRUE) /\ UNCHANGED made

-----------------------------------------------------------------------------
(* xcc                                                                     *)

childVars == <<state, failed, doomed, wrote, took, buf, readers, writers, out, made>>

Start ==
    /\ pc = "start"
    /\ pc' = "files"
    /\ IF job.mode = "exe"
       THEN PipeExec(As, 0) /\ as_pid' = As
       ELSE UNCHANGED <<state, readers, writers, as_pid>>
    /\ UNCHANGED <<job, file, running, cpp_pid, cc_pid, res, exit,
                   failed, doomed, wrote, took, buf, out, made>>

\* The loop over the files: it goes on while res is 0.
FileDue(kind) ==
    pc = "files" /\ ~res /\ file <= Len(job.files) /\ job.files[file] = kind

Unsupported ==
    /\ FileDue("unsupported")
    /\ res' = TRUE
    /\ UNCHANGED <<job, pc, file, running, cpp_pid, cc_pid, as_pid, exit, childVars>>

\* cat writes a .s file to ofd.
CatStart ==
    /\ FileDue("s")
    /\ \/ pc' = "cat" /\ wrote' = [wrote EXCEPT ![Xcc] = 0] /\ UNCHANGED res
       \/ res' = TRUE /\ UNCHANGED <<pc, wrote>>     \* it cannot be opened
    /\ UNCHANGED <<job, file, running, cpp_pid, cc_pid, as_pid, exit,
                   state, failed, doomed, took, buf, readers, writers, out, made>>

CatWrite ==
    /\ pc = "cat" /\ wrote[Xcc] < Chunks
    /\ Write(Xcc, file)
    /\ UNCHANGED <<xccVars, state, failed, doomed, took, readers, writers, made>>

\* A read may fail wherever cat is in the file.
CatReadFails ==
    /\ pc = "cat"
    /\ pc' = "files" /\ res' = TRUE
    /\ UNCHANGED <<job, file, running, cpp_pid, cc_pid, as_pid, exit, childVars>>

CatEnd ==
    /\ pc = "cat" /\ wrote[Xcc] = Chunks
    /\ pc' = "files" /\ file' = file + 1
    /\ UNCHANGED <<job, running, cpp_pid, cc_pid, as_pid, res, exit, childVars>>

\* compile: the compiler first, with a pipe, then the preprocessor.
SpawnCc1 ==
    /\ FileDue("c") /\ job.mode # "pp"
    /\ PipeExec(Cc1(file), file)
    /\ cc_pid' = Cc1(file)
    /\ running' = 1
    /\ pc' = "spawn"
    /\ UNCHANGED <<job, file, cpp_pid, as_pid, res, exit,
                   failed, doomed, wrote, took, buf, out, made>>

SpawnCpp ==
    /\ IF job.mode = "pp" THEN FileDue("c") ELSE pc = "spawn"
    /\ ExecWithOfd(Cpp(file))
    /\ cpp_pid' = Cpp(file)
    /\ IF job.mode = "pp" THEN cc_pid' = NoOne /\ running' = 1
                          ELSE running' = running + 1 /\ UNCHANGED cc_pid
    /\ pc' = "wait"
    /\ UNCHANGED <<job, file, as_pid, res, exit,
                   failed, doomed, wrote, took, buf, out, made>>

\* error() ends xcc at once, and with it its ends of the pipes: when a pipe
\* or a process cannot be made, the assembler's among them; when the output
\* of -S cannot be opened; and when it takes less than cat writes.
ExitAtOnce ==
    /\ pc' = "exit" /\ exit' = 1
    /\ Close(Pipes)
    /\ UNCHANGED <<job, file, running, cpp_pid, cc_pid, as_pid, res,
                   state, failed, doomed, wrote, took, buf, out, made>>

ForkFails ==
    /\ "fork" \in job.failures
    /\ (pc = "start" /\ job.mode = "exe") \/ pc = "spawn" \/ FileDue("c")
    /\ ExitAtOnce

OpenFails == "open" \in job.failures /\ pc = "start" /\ job.mode = "asm" /\ ExitAtOnce

CatWriteFails == pc = "cat" /\ wrote[Xcc] < Chunks /\ Sink(Xcc) = File /\ ExitAtOnce

\* The loop that waits: any child that has ended, in any order.  (waitpid
\* cannot fail, see WaitsForSomeone.)  Definitions that stand before one
\* they resemble are mistaken versions of it and not used.
StatusLost(q) == FALSE
Status(q) == failed[q]

Reap(q) ==
    /\ state[q] = "zombie"
    /\ state' = [state EXCEPT ![q] = "reaped"]
    /\ res' = (res \/ Status(q))

ForgottenNot(pid) == pid
Forgotten(pid) == NoOne

OneLess == running - 1

Waiting == pc = "wait" /\ running > 0

\* cpp has ended: on failure the compiler must not take what it has got for
\* a whole file, otherwise it is shown the end of it.
StopsNever == FALSE
Stops == failed[cpp_pid]

ClosedAfterNone == {}
ClosedAfterCpp == {file}

Kill(q) == doomed' = doomed \cup (IF Runs(q) THEN {q} ELSE {})

WaitedForCpp ==
    /\ Waiting /\ cpp_pid # NoOne /\ Reap(cpp_pid)
    /\ cpp_pid' = Forgotten(cpp_pid)
    /\ \/ /\ cc_pid # NoOne /\ Stops
          /\ Kill(cc_pid) /\ running' = 0
          /\ UNCHANGED <<readers, writers>>
       \/ /\ cc_pid # NoOne /\ ~Stops
          /\ Close(ClosedAfterCpp) /\ running' = OneLess
          /\ UNCHANGED doomed
       \/ /\ cc_pid = NoOne
          /\ running' = OneLess
          /\ UNCHANGED <<doomed, readers, writers>>
    /\ UNCHANGED <<job, pc, file, cc_pid, as_pid, exit,
                   failed, wrote, took, buf, out, made>>

\* cc1 has ended; before cpp it should not, and cpp is killed.
WaitedForCc1 ==
    /\ Waiting /\ cc_pid # NoOne /\ Reap(cc_pid)
    /\ cc_pid' = Forgotten(cc_pid)
    /\ IF cpp_pid # NoOne
       THEN Kill(cpp_pid) /\ running' = 0
       ELSE running' = OneLess /\ UNCHANGED doomed
    /\ UNCHANGED <<job, pc, file, cpp_pid, as_pid, exit,
                   failed, wrote, took, buf, readers, writers, out, made>>

WaitedForOther ==
    /\ Waiting
    /\ \E q \in Children \ {cpp_pid, cc_pid} : Reap(q)
    /\ running' = OneLess
    /\ UNCHANGED <<job, pc, file, cpp_pid, cc_pid, as_pid, exit,
                   failed, doomed, wrote, took, buf, readers, writers, out, made>>

WaitEnds ==
    /\ pc = "wait" /\ running = 0
    /\ pc' = "files" /\ file' = file + 1
    /\ UNCHANGED <<job, running, cpp_pid, cc_pid, as_pid, res, exit, childVars>>

Over == pc = "files" /\ (res \/ file > Len(job.files))

\* On failure the assembler must not take what it has got for the program.
AbandonKindly ==
    /\ Over /\ res
    /\ as_pid' = NoOne
    /\ Close(Pipes)
    /\ pc' = "exit" /\ exit' = 1
    /\ UNCHANGED <<job, file, running, cpp_pid, cc_pid, res,
                   state, failed, doomed, wrote, took, buf, out, made>>

Abandon ==
    /\ Over /\ res
    /\ IF as_pid # NoOne THEN Kill(as_pid) /\ made' = FALSE ELSE UNCHANGED <<doomed, made>>
    /\ as_pid' = NoOne
    /\ Close(Pipes)
    /\ pc' = "exit" /\ exit' = 1
    /\ UNCHANGED <<job, file, running, cpp_pid, cc_pid, res,
                   state, failed, wrote, took, buf, out>>

\* Otherwise it is shown the end of its input and waited for.
Conclude ==
    /\ Over /\ ~res
    /\ IF as_pid # NoOne
       THEN Close({0}) /\ pc' = "wait as" /\ UNCHANGED exit
       ELSE Close(Pipes) /\ pc' = "exit" /\ exit' = 0
    /\ UNCHANGED <<job, file, running, cpp_pid, cc_pid, as_pid, res,
                   state, failed, doomed, wrote, took, buf, out, made>>

WaitedForAs ==
    /\ pc = "wait as" /\ Reap(as_pid)
    /\ pc' = "exit"
    /\ exit' = IF Status(as_pid) THEN 1 ELSE 0
    /\ Close(Pipes)
    /\ UNCHANGED <<job, file, running, cpp_pid, cc_pid, as_pid,
                   failed, doomed, wrote, took, buf, out, made>>

XccStep ==
    \/ Start
    \/ Unsupported \/ CatStart \/ CatWrite \/ CatEnd
    \/ SpawnCc1 \/ SpawnCpp
    \/ WaitedForCpp \/ WaitedForCc1 \/ WaitedForOther \/ WaitEnds
    \/ Abandon \/ Conclude \/ WaitedForAs

AllOver == exit # -1 /\ \A q \in Children : state[q] # "run"

Next ==
    \/ XccStep \/ CatReadFails \/ CatWriteFails \/ ForkFails \/ OpenFails
    \/ \E i \in Files : CppStep(i) \/ CppError(i) \/ Cc1Step(i) \/ Cc1Error(i)
    \/ AsStep \/ AsError
    \/ \E q \in Children : Killed(q)
    \/ AllOver /\ UNCHANGED vars

\* Every process that can go on does, in the end; errors need not happen.
Fairness ==
    /\ WF_vars(XccStep)
    /\ \A i \in Files : WF_vars(CppStep(i)) /\ WF_vars(Cc1Step(i))
    /\ WF_vars(AsStep)
    /\ \A q \in Children : WF_vars(Killed(q))

Spec == Init /\ [][Next]_vars
FairSpec == Spec /\ Fairness

-----------------------------------------------------------------------------
ChunksOf(i) == [j \in 1..Chunks |-> <<i, j>>]
Whole == FlattenSeq([i \in 1..Len(job.files) |-> ChunksOf(i)])

\* Exit status 0 says that every child succeeded and that what came out at
\* the end of the pipes is what went in, complete and in order.
ZeroMeansComplete ==
    exit = 0 =>
        /\ \A q \in Children : state[q] \in {"none", "reaped"} /\ ~failed[q]
        /\ IF job.mode = "exe" THEN made /\ took[As] = Whole ELSE out = Whole

\* A compiler that succeeds has compiled a whole file: the end of its input
\* is shown to it only if the preprocessor has succeeded.
Cc1SeesWhole ==
    \A i \in Files :
        (/\ state[Cc1(i)] \in {"zombie", "reaped"} /\ ~failed[Cc1(i)]
         /\ state[Cpp(i)] # "none")
            => took[Cc1(i)] = ChunksOf(i) /\ ~failed[Cpp(i)]

\* When xcc has given up, no output of the assembler stays or appears later.
\* (When xcc dies in error() the assembler does complete one.)
FailureLeavesNoOutput == (exit = 1 /\ res) => ~made

AsDiesLate == "as" \notin job.failures

\* xcc kills and waits for its own children only: each process id it still
\* has in a variable is one of a child that has not been waited for, and
\* could not have been given to another process.
PidsAreChildren == AsDiesLate =>
    /\ pc = "wait" => \A q \in {cpp_pid, cc_pid} \ {NoOne} : state[q] \in {"run", "zombie"}
    /\ exit = -1 /\ as_pid # NoOne => state[as_pid] \in {"run", "zombie"}

\* xcc and all that it starts come to an end, whoever fails when.  (The
\* exception is an assembler that dies early: no one sees that it is gone,
\* since all who write to its pipe hold the read end, too.)
EveryoneEnds == AsDiesLate => <>[]AllOver
=============================================================================
